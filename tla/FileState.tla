----------------------------- MODULE FileState ------------------------------
(***************************************************************************)
(* The volume state kept as files, pkg/pmem-state/pmem-state.go: a volume  *)
(* is stored in <id>.json, which is written as <id>.json.tmp, renamed and  *)
(* made durable by syncing the directory.  Callers run concurrently; the   *)
(* process can be killed and the node can lose power at every step.        *)
(*                                                                         *)
(* The content of a JSON file is abstracted to the value that was encoded, *)
(* or Partial.  Nothing reads a temporary file, so only its existence and  *)
(* whether it is complete are kept.                                        *)
(***************************************************************************)
CONSTANTS Ids, Data, None,
          Partial,      \* the content of a file that is not completely written
          Writes,       \* the pairs <<id, data>> that Create is called with
          Callers,      \* goroutines that use the store
          Faults        \* system calls that can fail: subset of FaultKinds

FaultKinds == {"open", "encode", "close", "rename", "remove", "sync"}

Calls == {[op |-> "Create", id |-> w[1], data |-> w[2]] : w \in Writes}
         \cup [op : {"Delete", "Get"}, id : Ids, data : {None}]

ASSUME FileStateAssumption ==
    /\ None \notin Data \cup Calls \cup {"complete"}
    /\ Partial \notin Data \cup {None}
    /\ Writes \subseteq Ids \X Data
    /\ Faults \subseteq FaultKinds

VARIABLES
    json,       \* json[id]: content of <id>.json, None if there is no such file
    tmp,        \* tmp[id]: <id>.json.tmp is None, Partial or "complete"
    older,      \* older[id]: <<json[id], does tmp[id] exist>> before each
                \* directory change since the last sync
    pc, call,   \* per caller: where it is, and its operation and arguments
    acked       \* callers whose last operation was a Create or Delete that
                \* returned nil

fileVars == <<json, tmp, older>>
vars == <<json, tmp, older, pc, call, acked>>

Contents == Data \cup {None, Partial}

TypeOK ==
    /\ json \in [Ids -> Contents]
    /\ tmp \in [Ids -> {None, Partial, "complete"}]
    /\ older \in [Ids -> SUBSET (Contents \X BOOLEAN)]
    /\ pc \in [Callers -> {"idle", "start", "encode", "rename", "sync"}]
    /\ call \in [Callers -> Calls \cup {None}]
    /\ \A c \in Callers : call[c] = None <=> pc[c] = "idle"
    /\ acked \subseteq Callers

\* The driver starts with the entries of an earlier run.
Init ==
    /\ json \in [Ids -> Data \cup {None}]
    /\ tmp = [i \in Ids |-> None]
    /\ older = [i \in Ids |-> {}]
    /\ pc = [c \in Callers |-> "idle"]
    /\ call = [c \in Callers |-> None]
    /\ acked = {}

\* The directory entries of i change; the change is not yet synced.
Directory(i, j, t) ==
    /\ json' = [json EXCEPT ![i] = j]
    /\ tmp' = [tmp EXCEPT ![i] = t]
    /\ older' = [older EXCEPT ![i] = @ \cup {<<json[i], tmp[i] # None>>}]

Goto(c, l) == pc' = [pc EXCEPT ![c] = l] /\ UNCHANGED <<call, acked>>

Return(c, r) ==
    /\ pc' = [pc EXCEPT ![c] = "idle"]
    /\ call' = [call EXCEPT ![c] = None]
    /\ acked' = IF r = "nil" /\ call[c].op # "Get" THEN acked \cup {c} ELSE acked

-----------------------------------------------------------------------------
Call(c) ==
    /\ pc[c] = "idle"
    /\ pc' = [pc EXCEPT ![c] = "start"]
    /\ \E r \in Calls : call' = [call EXCEPT ![c] = r]
    /\ acked' = acked \ {c}
    /\ UNCHANGED fileVars

\* fs.lock is an RWMutex: Create and Delete hold it exclusively until they
\* return, Get holds it shared while it reads the file (one step here).
Writers == {c \in Callers : pc[c] \in {"encode", "rename", "sync"}}

\* Mutant: Create and Delete do not take the lock.
LockMissing(c) == pc[c] = "start"

Lock(c) == pc[c] = "start" /\ Writers = {}

\* os.OpenFile(<id>.json.tmp, O_WRONLY|O_SYNC|O_CREATE|O_EXCL)
Open(c) ==
    LET i == call[c].id IN
    /\ Lock(c)
    /\ call[c].op = "Create"
    /\ \/ tmp[i] = None /\ Directory(i, json[i], Partial) /\ Goto(c, "encode")
       \/ /\ tmp[i] # None \/ "open" \in Faults
          /\ Return(c, "error")
          /\ UNCHANGED fileVars

\* Mutant: the file is renamed before its content has been written.
EncodeAfterRename(c) ==
    /\ pc[c] = "encode"
    /\ Directory(call[c].id, Partial, None)
    /\ Goto(c, "sync")

\* json.NewEncoder(fp).Encode(data); on failure close and remove the file.
Encode(c) ==
    LET i == call[c].id IN
    /\ pc[c] = "encode"
    /\ \/ /\ tmp' = [tmp EXCEPT ![i] = "complete"]
          /\ Goto(c, "rename")
          /\ UNCHANGED <<json, older>>
       \/ /\ "encode" \in Faults
          /\ Directory(i, json[i], None) \/ ("remove" \in Faults /\ UNCHANGED fileVars)
          /\ Return(c, "error")

\* Mutant: the content is taken from the wrong place.
RenameWrongSource(c) ==
    /\ pc[c] = "rename"
    /\ Directory(call[c].id, tmp[call[c].id], None)
    /\ Goto(c, "sync")

\* fp.Close(), os.Rename(<id>.json.tmp, <id>.json); either can fail, and
\* then the temporary file stays.
Rename(c) ==
    /\ pc[c] = "rename"
    /\ \/ Directory(call[c].id, call[c].data, None) /\ Goto(c, "sync")
       \/ /\ {"close", "rename"} \cap Faults # {}
          /\ Return(c, "error")
          /\ UNCHANGED fileVars

\* os.Remove(<id>.json).  The PathError for a missing file never equals
\* os.ErrNotExist, so it is returned as an error.
Remove(c) ==
    LET i == call[c].id IN
    /\ Lock(c)
    /\ call[c].op = "Delete"
    /\ \/ json[i] # None /\ Directory(i, None, tmp[i]) /\ Goto(c, "sync")
       \/ /\ json[i] = None \/ "remove" \in Faults
          /\ Return(c, "error")
          /\ UNCHANGED fileVars

\* Mutant: the directory is not synced.
SyncMissing(c) ==
    /\ pc[c] = "sync"
    /\ Return(c, "nil")
    /\ UNCHANGED fileVars

\* syncStateDir: fsync of the directory; all earlier changes become durable.
\* It can also fail after the fsync, when the directory is closed.
Sync(c) ==
    /\ pc[c] = "sync"
    /\ \/ older' = [i \in Ids |-> {}] /\ Return(c, "nil")
       \/ /\ "sync" \in Faults
          /\ older' = [i \in Ids |-> {}] \/ UNCHANGED older
          /\ Return(c, "error")
    /\ UNCHANGED <<json, tmp>>

\* readFileData: open and decode <id>.json.
Read(c) ==
    /\ Lock(c)
    /\ call[c].op = "Get"
    /\ Return(c, IF json[call[c].id] \in Data THEN "nil" ELSE "error")
    /\ UNCHANGED fileVars

-----------------------------------------------------------------------------
Killed ==
    /\ pc' = [c \in Callers |-> "idle"]
    /\ call' = [c \in Callers |-> None]
    /\ acked' = {}

\* The driver process is killed; the files stay as they are.  Only a kill in
\* the middle of Create or Delete makes a difference to the store.
Kill ==
    /\ Writers # {}
    /\ Killed
    /\ UNCHANGED fileVars

\* The node loses power: each volume's files are as in some directory state
\* since the last sync (no loss if nothing changed since).  File content itself
\* is written with O_SYNC.
PowerLoss ==
    /\ older # [i \in Ids |-> {}]
    /\ \E f \in [Ids -> Contents \X BOOLEAN] :
          /\ \A i \in Ids : f[i] \in {<<json[i], tmp[i] # None>>} \cup older[i]
          /\ json' = [i \in Ids |-> f[i][1]]
          /\ tmp' = [i \in Ids |-> IF f[i][2] THEN Partial ELSE None]
    /\ older' = [i \in Ids |-> {}]
    /\ Killed

Step(c) == Open(c) \/ Encode(c) \/ Rename(c) \/ Remove(c) \/ Sync(c) \/ Read(c)

Next == (\E c \in Callers : Call(c) \/ Step(c)) \/ Kill \/ PowerLoss

Spec == Init /\ [][Next]_vars

-----------------------------------------------------------------------------
\* An ID is blocked when its temporary file has lost its writer.
Store == INSTANCE StateStoreSpec WITH
            entry <- json,
            blocked <- {i \in Ids :
                          /\ tmp[i] # None
                          /\ \A c \in Callers : pc[c] \in {"encode", "rename"} => call[c].id # i},
            unsynced <- [i \in Ids |-> {s[1] : s \in older[i]}]

\* The files implement the store that the node controller relies on: whatever
\* fails, is killed or loses power, each ID has its old or its new content,
\* and only an interrupted or failed Create blocks an ID.
ImplementsStore == Store!StoreSpec

\* Get never finds a half-written entry, although the writer may have died in
\* the middle of the file, before or after the last sync.
ReaderSeesWholeEntry == \A i \in Ids : json[i] # Partial

\* When Create or Delete returns nil, the change is in place and no power loss
\* can undo it (or any earlier one): the purpose of O_SYNC, the rename and
\* syncStateDir.
NilMeansDurable ==
    [][\A c \in acked' \ acked :
         /\ json'[call[c].id] = call[c].data
         /\ \A i \in Ids : older'[i] = {}]_vars

-----------------------------------------------------------------------------
\* No content that a reader can find, now or after a power loss, is partial.
WholeInv ==
    \A i \in Ids : json[i] # Partial /\ \A s \in older[i] : s[1] # Partial

\* What the one writer has done so far: its temporary file exists, and a
\* directory without it can come back; or the new content is in place.
WriterInv ==
    /\ \A c, d \in Writers : c = d
    /\ \A c \in Callers : pc[c] \in {"encode", "rename"} =>
          LET i == call[c].id
          IN  call[c].op = "Create" /\ tmp[i] # None /\ <<json[i], FALSE>> \in older[i]
    /\ \A c \in Callers : pc[c] = "sync" => json[call[c].id] = call[c].data

=============================================================================
