--------------------------- MODULE VolumeService ----------------------------
(***************************************************************************)
(* What the node controller promises to the callers of CreateVolume and    *)
(* DeleteVolume, without devices, state files and steps: a set of volumes, *)
(* and calls that take effect atomically.  A call that succeeds has its    *)
(* effect, a call that fails has none.  A crash ends all calls, and each   *)
(* of them takes effect completely or not at all; nothing else changes.    *)
(***************************************************************************)
EXTENDS VolumeIds

CONSTANT Workers

Calls == [op : {"create", "delete"}, id : Ids]

VARIABLES
    volumes,    \* IDs of the existing volumes
    call,       \* call[w]: the call that w handles, or None
    reply       \* reply[w]: None, or "OK" or "error" for the last call

serviceVars == <<volumes, call, reply>>

ServiceInit ==
    /\ volumes = {}
    /\ call = [w \in Workers |-> None]
    /\ reply = [w \in Workers |-> None]

Begin(w) ==
    /\ call[w] = None
    /\ \E c \in Calls : call' = [call EXCEPT ![w] = c]
    /\ reply' = [reply EXCEPT ![w] = None]
    /\ UNCHANGED volumes

End(w, r) ==
    /\ call[w] # None
    /\ call' = [call EXCEPT ![w] = None]
    /\ reply' = [reply EXCEPT ![w] = r]

Succeed(w) ==
    /\ End(w, "OK")
    /\ volumes' = IF call[w].op = "create" THEN volumes \cup {call[w].id}
                                           ELSE volumes \ {call[w].id}

Fail(w) ==
    /\ End(w, "error")
    /\ UNCHANGED volumes

Called(op) == {call[w].id : w \in {v \in Workers : call[v] # None /\ call[v].op = op}}

ServiceCrash ==
    /\ \E created \in SUBSET Called("create"), deleted \in SUBSET Called("delete") :
          volumes' = (volumes \cup created) \ deleted
    /\ call' = [w \in Workers |-> None]
    /\ reply' = [w \in Workers |-> IF call[w] = None THEN reply[w] ELSE None]

ServiceNext == (\E w \in Workers : Begin(w) \/ Succeed(w) \/ Fail(w)) \/ ServiceCrash

ServiceSpec == ServiceInit /\ [][ServiceNext]_serviceVars

=============================================================================
