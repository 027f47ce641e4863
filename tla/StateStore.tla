----------------------------- MODULE StateStore -----------------------------
(***************************************************************************)
(* What the node driver may expect of its persistent volume state          *)
(* (pkg/pmem-state, interface StateManager): one entry per volume ID.      *)
(*                                                                         *)
(* The store is used through Create, Delete, Get and GetAll.  An operation *)
(* can fail half-way, because a system call fails or because the process   *)
(* is killed.  This module says what may then be left behind, and hides    *)
(* the temporary files, the rename and the directory sync that             *)
(* FileState.tla models.  NodeController is built from these operations;   *)
(* StateStoreSpec is the specification they make up, which FileState       *)
(* implements.                                                             *)
(***************************************************************************)
EXTENDS VolumeIds

VARIABLES
    entry,      \* entry[id]: the visible content of <id>.json, or None
    blocked,    \* IDs for which a left-over temporary file refuses Create
    unsynced    \* unsynced[id]: the contents before each change to the files of
                \* id since the last sync; a power loss can restore any of them

storeVars == <<entry, blocked, unsynced>>

\* The entry is replaced; the old content may come back until the next sync.
Replace(id, d) ==
    /\ entry' = [entry EXCEPT ![id] = d]
    /\ unsynced' = [unsynced EXCEPT ![id] = @ \cup {entry[id]}]

\* The entry is replaced and the whole directory is synced.
ReplaceAndSync(id, d) ==
    /\ entry' = [entry EXCEPT ![id] = d]
    /\ unsynced' = [i \in Ids |-> {}]

-----------------------------------------------------------------------------
\* Create(id, d) returns nil.
SMCreate(id, d) ==
    /\ id \notin blocked
    /\ ReplaceAndSync(id, d)
    /\ UNCHANGED blocked

\* Create(id, d) returns an error or is killed before it returns: nothing
\* happened (the only outcome for a blocked ID), or the temporary file was
\* removed again, or it stays, or the new content is visible but not synced.
SMCreateFails(id, d) ==
    \/ UNCHANGED storeVars
    \/ /\ id \notin blocked
       /\ \/ Replace(id, entry[id]) /\ UNCHANGED blocked
          \/ Replace(id, entry[id]) /\ blocked' = blocked \cup {id}
          \/ Replace(id, d) /\ UNCHANGED blocked

\* Delete(id) returns nil.  A missing file is an error, not a success.
SMDelete(id) ==
    /\ entry[id] # None
    /\ ReplaceAndSync(id, None)
    /\ UNCHANGED blocked

\* Delete(id) returns an error or is killed before it returns.
SMDeleteFails(id) ==
    /\ \/ UNCHANGED <<entry, unsynced>>
       \/ entry[id] # None /\ Replace(id, None)
    /\ UNCHANGED blocked

\* The node loses power: an ID is in some state that its files were in since
\* the last sync of the directory.
SMPowerLoss ==
    /\ entry' \in [Ids -> UNION {{entry[id]} \cup unsynced[id] : id \in Ids}]
    /\ \A id \in Ids : entry'[id] \in {entry[id]} \cup unsynced[id]
    /\ blocked' \in SUBSET Ids
    /\ \A id \in Ids : unsynced[id] = {} => (id \in blocked' <=> id \in blocked)
    /\ unsynced' = [id \in Ids |-> {}]

=============================================================================
