-------------------------- MODULE FileStateProofs ---------------------------
(***************************************************************************)
(* The files of pkg/pmem-state implement the store, for every number of    *)
(* volumes, contents and callers, and for all failures, kills and power    *)
(* losses that FileState models.                                           *)
(***************************************************************************)
EXTENDS FileState, TLAPS

Inv == TypeOK /\ WholeInv /\ WriterInv

\* The arguments of a call: what Create stores is data, Delete leaves nothing.
LEMMA CallFact ==
    ASSUME NEW r \in Calls
    PROVE  /\ r.op \in {"Create", "Delete", "Get"} /\ r.id \in Ids
           /\ r.op = "Create" => r.data \in Data
           /\ r.op # "Create" => r.data = None
           /\ r # None
BY FileStateAssumption DEF Calls

\* A busy caller has a call.
LEMMA BusyFact ==
    ASSUME TypeOK, NEW c \in Callers, pc[c] # "idle"
    PROVE  /\ call[c].id \in Ids
           /\ call[c].op = "Create" => call[c].data \in Data
           /\ call[c].op # "Create" => call[c].data = None
BY CallFact DEF TypeOK

-----------------------------------------------------------------------------
(* The invariant.                                                          *)

\* The entries of an earlier run are complete, and nothing runs.
LEMMA InitInv == Init => Inv
<1> SUFFICES ASSUME Init PROVE Inv
  OBVIOUS
<1>1. TypeOK
  BY DEF Init, TypeOK, Contents
<1>2. WholeInv
  BY FileStateAssumption, Zenon DEF Init, WholeInv
<1>3. WriterInv
  BY DEF Init, WriterInv, Writers
<1> QED BY <1>1, <1>2, <1>3 DEF Inv

\* A change of the directory keeps the types, and the contents whole.
LEMMA DirectoryInv ==
    ASSUME TypeOK, WholeInv, NEW i \in Ids, NEW j \in Data \cup {None},
           NEW t \in {None, Partial, "complete"}, Directory(i, j, t)
    PROVE  /\ json' \in [Ids -> Contents]
           /\ tmp' \in [Ids -> {None, Partial, "complete"}]
           /\ older' \in [Ids -> SUBSET (Contents \X BOOLEAN)]
           /\ WholeInv'
<1>1. json' \in [Ids -> Contents] /\ tmp' \in [Ids -> {None, Partial, "complete"}]
  BY DEF Directory, TypeOK, Contents
<1>2. <<json[i], tmp[i] # None>> \in Contents \X BOOLEAN
  BY Zenon DEF TypeOK
<1>3. older' \in [Ids -> SUBSET (Contents \X BOOLEAN)]
  BY <1>2 DEF Directory, TypeOK
<1>4. ASSUME NEW k \in Ids PROVE json'[k] # Partial /\ \A s \in older'[k] : s[1] # Partial
  BY FileStateAssumption DEF Directory, TypeOK, WholeInv
<1> QED BY <1>1, <1>3, <1>4 DEF WholeInv

\* The types of what a caller has, after it goes on or returns.
LEMMA CallerType ==
    ASSUME TypeOK, NEW c \in Callers, pc[c] # "idle",
           \/ \E l \in {"encode", "rename", "sync"} : Goto(c, l)
           \/ \E r \in {"nil", "error"} : Return(c, r)
    PROVE  /\ pc' \in [Callers -> {"idle", "start", "encode", "rename", "sync"}]
           /\ call' \in [Callers -> Calls \cup {None}]
           /\ \A d \in Callers : call'[d] = None <=> pc'[d] = "idle"
           /\ acked' \subseteq Callers
<1>1. ASSUME NEW l \in {"encode", "rename", "sync"}, Goto(c, l)
      PROVE  /\ pc' \in [Callers -> {"idle", "start", "encode", "rename", "sync"}]
             /\ call' \in [Callers -> Calls \cup {None}]
             /\ \A d \in Callers : call'[d] = None <=> pc'[d] = "idle"
             /\ acked' \subseteq Callers
  BY <1>1 DEF Goto, TypeOK
<1>2. ASSUME NEW r \in {"nil", "error"}, Return(c, r)
      PROVE  /\ pc' \in [Callers -> {"idle", "start", "encode", "rename", "sync"}]
             /\ call' \in [Callers -> Calls \cup {None}]
             /\ \A d \in Callers : call'[d] = None <=> pc'[d] = "idle"
             /\ acked' \subseteq Callers
  BY <1>2 DEF Return, TypeOK
<1> QED BY <1>1, <1>2

\* While a caller holds the lock no other caller writes.
LEMMA OnlyWriter ==
    ASSUME WriterInv, NEW c \in Callers,
           pc[c] \in {"encode", "rename", "sync"} \/ Lock(c)
    PROVE  \A d \in Callers \ {c} : pc[d] \notin {"encode", "rename", "sync"}
BY DEF WriterInv, Writers, Lock

\* What remains to be shown of WriterInv after a step of the caller that holds
\* the lock is what it says of that caller.
LEMMA WriterStep ==
    ASSUME WriterInv, NEW c \in Callers,
           pc[c] \in {"encode", "rename", "sync"} \/ Lock(c),
           \A d \in Callers \ {c} : pc'[d] = pc[d],
           pc'[c] \in {"encode", "rename"} =>
              /\ call'[c].op = "Create" /\ tmp'[call'[c].id] # None
              /\ <<json'[call'[c].id], FALSE>> \in older'[call'[c].id],
           pc'[c] = "sync" => json'[call'[c].id] = call'[c].data
    PROVE  WriterInv'
<1>1. \A d \in Callers \ {c} : pc'[d] \notin {"encode", "rename", "sync"}
  BY OnlyWriter
<1> QED BY <1>1, Zenon DEF WriterInv, Writers

-----------------------------------------------------------------------------
(* Every step keeps the invariant.                                         *)

\* Open creates the temporary file, or leaves everything as it is.
LEMMA OpenInv ==
    ASSUME Inv, NEW c \in Callers, Open(c)
    PROVE  Inv'
<1> DEFINE i == call[c].id
<1>1. pc[c] # "idle" /\ Lock(c) /\ i \in Ids /\ call[c].op = "Create" /\ json[i] \in Data \cup {None}
  BY BusyFact DEF Inv, Open, Lock, TypeOK, WholeInv, Contents
<1>2. CASE tmp[i] = None /\ Directory(i, json[i], Partial) /\ Goto(c, "encode")
  <2>1. TypeOK' /\ WholeInv'
    BY <1>1, <1>2, DirectoryInv, CallerType DEF Inv, TypeOK
  <2>2. /\ \A d \in Callers \ {c} : pc'[d] = pc[d]
        /\ pc'[c] = "encode" /\ call'[c] = call[c]
    BY <1>2 DEF Goto, Inv, TypeOK
  <2>3. tmp'[i] # None
    BY <1>1, <1>2, FileStateAssumption DEF Directory, Inv, TypeOK
  <2>4. <<json'[i], FALSE>> \in older'[i]
    BY <1>1, <1>2, Zenon DEF Directory, Inv, TypeOK
  <2>5. WriterInv'
    BY <1>1, <2>2, <2>3, <2>4, WriterStep, Zenon DEF Inv
  <2> QED BY <2>1, <2>5 DEF Inv
<1>3. CASE Return(c, "error") /\ UNCHANGED fileVars
  <2>1. TypeOK' /\ WholeInv'
    BY <1>1, <1>3, CallerType DEF Inv, TypeOK, WholeInv, fileVars
  <2>2. pc'[c] = "idle" /\ \A d \in Callers \ {c} : pc'[d] = pc[d]
    BY <1>3 DEF Return, Inv, TypeOK
  <2>3. WriterInv'
    BY <1>1, <2>2, WriterStep, Zenon DEF Inv
  <2> QED BY <2>1, <2>3 DEF Inv
<1> QED BY <1>2, <1>3 DEF Open

\* Encode completes the temporary file, or fails and tries to remove it.
LEMMA EncodeInv ==
    ASSUME Inv, NEW c \in Callers, Encode(c)
    PROVE  Inv'
<1> DEFINE i == call[c].id
<1>1. pc[c] = "encode" /\ i \in Ids /\ call[c].op = "Create" /\ json[i] \in Data \cup {None}
      /\ <<json[i], FALSE>> \in older[i]
  BY BusyFact, Zenon DEF Inv, Encode, TypeOK, WholeInv, WriterInv, Contents
<1>2. CASE tmp' = [tmp EXCEPT ![i] = "complete"] /\ Goto(c, "rename") /\ UNCHANGED <<json, older>>
  <2>1. TypeOK' /\ WholeInv'
    BY <1>1, <1>2, CallerType DEF Inv, TypeOK, WholeInv
  <2>2. /\ \A d \in Callers \ {c} : pc'[d] = pc[d]
        /\ pc'[c] = "rename" /\ call'[c] = call[c]
    BY <1>2 DEF Goto, Inv, TypeOK
  <2>3. tmp'[i] # None
    BY <1>1, <1>2, FileStateAssumption DEF Inv, TypeOK
  <2>4. WriterInv'
    BY <1>1, <1>2, <2>2, <2>3, WriterStep, Zenon DEF Inv
  <2> QED BY <2>1, <2>4 DEF Inv
<1>3. CASE (Directory(i, json[i], None) \/ UNCHANGED fileVars) /\ Return(c, "error")
  <2>1. TypeOK' /\ WholeInv'
    BY <1>1, <1>3, DirectoryInv, CallerType DEF Inv, TypeOK, WholeInv, fileVars
  <2>2. pc'[c] = "idle" /\ \A d \in Callers \ {c} : pc'[d] = pc[d]
    BY <1>3 DEF Return, Inv, TypeOK
  <2>3. WriterInv'
    BY <1>1, <2>2, WriterStep, Zenon DEF Inv
  <2> QED BY <2>1, <2>3 DEF Inv
<1> QED BY <1>2, <1>3 DEF Encode

\* Rename puts the complete content in place, or leaves the temporary file.
LEMMA RenameInv ==
    ASSUME Inv, NEW c \in Callers, Rename(c)
    PROVE  Inv'
<1> DEFINE i == call[c].id
<1>1. pc[c] = "rename" /\ i \in Ids /\ call[c].data \in Data
  BY BusyFact, Zenon DEF Inv, Rename, WriterInv
<1>2. CASE Directory(i, call[c].data, None) /\ Goto(c, "sync")
  <2>1. TypeOK' /\ WholeInv'
    BY <1>1, <1>2, DirectoryInv, CallerType DEF Inv, TypeOK
  <2>2. /\ \A d \in Callers \ {c} : pc'[d] = pc[d]
        /\ pc'[c] = "sync" /\ call'[c] = call[c] /\ json'[i] = call[c].data
    BY <1>1, <1>2 DEF Goto, Directory, Inv, TypeOK
  <2>3. WriterInv'
    BY <1>1, <2>2, WriterStep, Zenon DEF Inv
  <2> QED BY <2>1, <2>3 DEF Inv
<1>3. CASE Return(c, "error") /\ UNCHANGED fileVars
  <2>1. TypeOK' /\ WholeInv'
    BY <1>1, <1>3, CallerType DEF Inv, TypeOK, WholeInv, fileVars
  <2>2. pc'[c] = "idle" /\ \A d \in Callers \ {c} : pc'[d] = pc[d]
    BY <1>3 DEF Return, Inv, TypeOK
  <2>3. WriterInv'
    BY <1>1, <2>2, WriterStep, Zenon DEF Inv
  <2> QED BY <2>1, <2>3 DEF Inv
<1> QED BY <1>2, <1>3 DEF Rename

\* Remove takes the entry away, or leaves everything as it is.
LEMMA RemoveInv ==
    ASSUME Inv, NEW c \in Callers, Remove(c)
    PROVE  Inv'
<1> DEFINE i == call[c].id
<1>1. pc[c] # "idle" /\ Lock(c) /\ i \in Ids /\ call[c].data = None
      /\ tmp[i] \in {None, Partial, "complete"}
  BY BusyFact DEF Inv, Remove, Lock, TypeOK
<1>2. CASE Directory(i, None, tmp[i]) /\ Goto(c, "sync")
  <2>1. TypeOK' /\ WholeInv'
    BY <1>1, <1>2, DirectoryInv, CallerType DEF Inv, TypeOK
  <2>2. /\ \A d \in Callers \ {c} : pc'[d] = pc[d]
        /\ pc'[c] = "sync" /\ call'[c] = call[c] /\ json'[i] = call[c].data
    BY <1>1, <1>2 DEF Goto, Directory, Inv, TypeOK
  <2>3. WriterInv'
    BY <1>1, <2>2, WriterStep, Zenon DEF Inv
  <2> QED BY <2>1, <2>3 DEF Inv
<1>3. CASE Return(c, "error") /\ UNCHANGED fileVars
  <2>1. TypeOK' /\ WholeInv'
    BY <1>1, <1>3, CallerType DEF Inv, TypeOK, WholeInv, fileVars
  <2>2. pc'[c] = "idle" /\ \A d \in Callers \ {c} : pc'[d] = pc[d]
    BY <1>3 DEF Return, Inv, TypeOK
  <2>3. WriterInv'
    BY <1>1, <2>2, WriterStep, Zenon DEF Inv
  <2> QED BY <2>1, <2>3 DEF Inv
<1> QED BY <1>2, <1>3 DEF Remove

\* Sync and Read change no file, and the caller returns.
LEMMA SyncReadInv ==
    ASSUME Inv, NEW c \in Callers, Sync(c) \/ Read(c)
    PROVE  Inv'
<1>1. /\ pc[c] = "sync" \/ Lock(c)
      /\ UNCHANGED <<json, tmp>>
      /\ older' = [i \in Ids |-> {}] \/ UNCHANGED older
      /\ \E r \in {"nil", "error"} : Return(c, r)
  BY DEF Sync, Read, fileVars
<1>2. TypeOK' /\ WholeInv'
  BY <1>1, CallerType DEF Inv, TypeOK, WholeInv, Lock
<1>3. pc'[c] = "idle" /\ \A d \in Callers \ {c} : pc'[d] = pc[d]
  BY <1>1 DEF Return, Inv, TypeOK
<1>4. WriterInv'
  BY <1>1, <1>3, WriterStep, Zenon DEF Inv
<1> QED BY <1>2, <1>4 DEF Inv

\* A new call waits for the lock.
LEMMA CallInv ==
    ASSUME Inv, NEW c \in Callers, Call(c)
    PROVE  Inv'
<1>1. PICK r \in Calls : call' = [call EXCEPT ![c] = r]
  BY Zenon DEF Call
<1>2. TypeOK' /\ WholeInv'
  BY <1>1, CallFact DEF Inv, Call, TypeOK, WholeInv, fileVars
<1>3. /\ pc'[c] = "start" /\ UNCHANGED <<json, tmp, older>>
      /\ \A d \in Callers \ {c} : pc'[d] = pc[d] /\ call'[d] = call[d]
  BY <1>1 DEF Inv, Call, TypeOK, fileVars
<1>4. WriterInv'
  BY <1>3, Zenon DEF Inv, WriterInv, Writers
<1> QED BY <1>2, <1>4 DEF Inv

\* After a kill or a power loss nothing runs, and what can come back is whole.
LEMMA KilledInv ==
    ASSUME Inv, Kill \/ PowerLoss
    PROVE  Inv'
<1>1. Killed
  BY DEF Kill, PowerLoss
<1>2. WriterInv'
  BY <1>1 DEF Killed, WriterInv, Writers
<1>3. CASE Kill
  BY <1>2, <1>3 DEF Inv, Kill, Killed, TypeOK, WholeInv, fileVars
<1>4. CASE PowerLoss
  <2>1. PICK f \in [Ids -> Contents \X BOOLEAN] :
          /\ \A i \in Ids : f[i] \in {<<json[i], tmp[i] # None>>} \cup older[i]
          /\ json' = [i \in Ids |-> f[i][1]]
          /\ tmp' = [i \in Ids |-> IF f[i][2] THEN Partial ELSE None]
    BY <1>4 DEF PowerLoss
  <2>2. older' = [i \in Ids |-> {}]
    BY <1>4 DEF PowerLoss
  <2>3. \A i \in Ids : json'[i] # Partial
    BY <2>1 DEF Inv, WholeInv
  <2>4. json' \in [Ids -> Contents] /\ tmp' \in [Ids -> {None, Partial, "complete"}]
    BY <2>1
  <2>5. TypeOK'
    BY <1>1, <2>2, <2>4 DEF Killed, TypeOK
  <2> QED BY <1>2, <2>2, <2>3, <2>5 DEF Inv, WholeInv
<1> QED BY <1>3, <1>4

\* The invariant is inductive.
LEMMA StepInv ==
    ASSUME Inv, [Next]_vars
    PROVE  Inv'
<1>1. CASE UNCHANGED vars
  BY <1>1, Zenon DEF Inv, TypeOK, WholeInv, WriterInv, Writers, vars
<1>2. ASSUME NEW c \in Callers, Call(c) \/ Step(c)
      PROVE  Inv'
  BY <1>2, CallInv, OpenInv, EncodeInv, RenameInv, RemoveInv, SyncReadInv DEF Step
<1> QED BY <1>1, <1>2, KilledInv DEF Next

\* Inv holds in every state of the files and their users.
LEMMA InvHolds == Spec => []Inv
BY InitInv, StepInv, PTL DEF Spec

\* Types, for every number of volumes, contents and callers.
THEOREM TypeCorrect == Spec => []TypeOK
<1>1. Inv => TypeOK
  BY DEF Inv
<1> QED BY <1>1, InvHolds, PTL

\* Whatever fails or is interrupted: a reader of <id>.json never finds a
\* half-written entry, because only complete files are renamed.
THEOREM ReaderSeesWholeEntryHolds == Spec => []ReaderSeesWholeEntry
<1>1. Inv => ReaderSeesWholeEntry
  BY Zenon DEF Inv, WholeInv, ReaderSeesWholeEntry
<1> QED BY <1>1, InvHolds, PTL

\* Create and Delete return nil only after the fsync of the directory, with
\* their change in place: the write lock kept other writers out since then.
THEOREM NilMeansDurableHolds == Spec => NilMeansDurable
<1> DEFINE Durable == \A c \in acked' \ acked :
                         /\ json'[call[c].id] = call[c].data
                         /\ \A i \in Ids : older'[i] = {}
<1>1. ASSUME Inv, [Next]_vars PROVE [Durable]_vars
  <2>1. CASE UNCHANGED vars
    BY <2>1
  <2>2. ASSUME NEW c \in Callers, Sync(c) PROVE Durable
    <3>1. acked' \ acked \subseteq {c}
      BY <2>2 DEF Sync, Return
    <3>2. json'[call[c].id] = call[c].data
      BY <1>1, <2>2 DEF Sync, Inv, WriterInv
    <3>3. CASE Return(c, "error")
      BY <3>3 DEF Return
    <3> QED BY <2>2, <3>1, <3>2, <3>3 DEF Sync
  <2>3. ASSUME NEW c \in Callers, Call(c) \/ (Step(c) /\ ~Sync(c))
        PROVE  acked' \subseteq acked
    BY <2>3 DEF Call, Step, Open, Encode, Rename, Remove, Read, Goto, Return
  <2>4. CASE Kill \/ PowerLoss
    BY <2>4 DEF Kill, PowerLoss, Killed
  <2> QED BY <1>1, <2>1, <2>2, <2>3, <2>4 DEF Next
<1>2. NilMeansDurable <=> [][Durable]_vars
  BY SMTT(20) DEF NilMeansDurable
<1> QED BY <1>1, <1>2, InvHolds, PTL DEF Spec

-----------------------------------------------------------------------------
(* The files implement the store.                                          *)

\* The IDs with a temporary file that has lost its writer, and the contents
\* that a power loss can bring back.
Blocked == {i \in Ids : /\ tmp[i] # None
                        /\ \A c \in Callers : pc[c] \in {"encode", "rename"} => call[c].id # i}

Unsynced == [i \in Ids |-> {s[1] : s \in older[i]}]

\* What each operation of the abstract store comes to in terms of the files.
LEMMA StoreOps ==
    ASSUME NEW i \in Ids
    PROVE  /\ /\ i \notin Blocked
              /\ json' = [json EXCEPT ![i] = json[i]]
              /\ Unsynced' = [Unsynced EXCEPT ![i] = @ \cup {json[i]}]
              /\ Blocked' = Blocked \/ Blocked' = Blocked \cup {i}
              /\ Data # {}
              => Store!StoreNext
           /\ \A d \in Data :
              /\ i \notin Blocked
              /\ json' = [json EXCEPT ![i] = d]
              /\ Unsynced' = [Unsynced EXCEPT ![i] = @ \cup {json[i]}]
              /\ Blocked' = Blocked
              => Store!StoreNext
           /\ /\ json[i] # None
              /\ json' = [json EXCEPT ![i] = None]
              /\ Unsynced' = [Unsynced EXCEPT ![i] = @ \cup {json[i]}]
              /\ Blocked' = Blocked
              => Store!StoreNext
BY Zenon DEF Blocked, Unsynced, Store!StoreNext, Store!SMCreateFails, Store!SMDeleteFails, Store!Replace

\* A sync of the directory and a power loss leave one of the contents that the
\* files had since the last sync.
LEMMA StoreSyncs ==
    ASSUME \A i \in Ids : json'[i] \in {json[i]} \cup Unsynced[i],
           json' = [i \in Ids |-> json'[i]],
           \A i \in Ids : Unsynced[i] = {} => (i \in Blocked' <=> i \in Blocked),
           Unsynced' = [i \in Ids |-> {}]
    PROVE  Store!StoreNext
<1>1. json' \in [Ids -> UNION {{json[i]} \cup Unsynced[i] : i \in Ids}]
  <2>1. \A i \in Ids : json'[i] \in UNION {{json[k]} \cup Unsynced[k] : k \in Ids}
    OBVIOUS
  <2> QED BY <2>1
<1>2. Blocked' \in SUBSET Ids
  BY DEF Blocked
<1>3. Store!SMPowerLoss
  BY <1>1, <1>2, Zenon DEF Store!SMPowerLoss, Blocked, Unsynced
<1> QED BY <1>3 DEF Store!StoreNext

\* A change of the directory puts the old content among the unsynced ones.
LEMMA DirectoryUnsynced ==
    ASSUME TypeOK, NEW i \in Ids, NEW j, NEW t, Directory(i, j, t)
    PROVE  Unsynced' = [Unsynced EXCEPT ![i] = @ \cup {json[i]}]
<1>1. \A k \in Ids : older'[k] = IF k = i THEN older[i] \cup {<<json[i], tmp[i] # None>>} ELSE older[k]
  BY DEF TypeOK, Directory
<1>2. \A k \in Ids \ {i} : Unsynced'[k] = Unsynced[k]
  BY <1>1 DEF Unsynced
<1>3. Unsynced'[i] = Unsynced[i] \cup {json[i]}
  <2>1. Unsynced'[i] = {s[1] : s \in older[i] \cup {<<json[i], tmp[i] # None>>}}
    BY <1>1 DEF Unsynced
  <2>2. Unsynced[i] = {s[1] : s \in older[i]}
    BY DEF Unsynced
  <2>3. <<json[i], tmp[i] # None>>[1] = json[i]
    OBVIOUS
  <2> QED BY <2>1, <2>2, <2>3, Zenon
<1>4. Unsynced = [k \in Ids |-> Unsynced[k]] /\ Unsynced' = [k \in Ids |-> Unsynced'[k]]
  BY DEF Unsynced
<1> HIDE DEF Unsynced
<1> QED BY <1>2, <1>3, <1>4

\* A step of the caller that holds the lock blocks no ID other than its own,
\* and its own when it leaves the temporary file behind.
LEMMA BlockedStep ==
    ASSUME Inv, NEW c \in Callers,
           pc[c] \in {"encode", "rename", "sync"} \/ Lock(c),
           NEW i \in Ids, i = call[c].id,
           \A d \in Callers \ {c} : pc'[d] = pc[d],
           \A k \in Ids \ {i} : tmp'[k] = tmp[k],
           pc'[c] = "idle" \/ call'[c] = call[c]
    PROVE  /\ i \in Blocked <=> tmp[i] # None /\ pc[c] \notin {"encode", "rename"}
           /\ i \in Blocked' <=> tmp'[i] # None /\ pc'[c] \notin {"encode", "rename"}
           /\ (i \in Blocked' <=> i \in Blocked) => Blocked' = Blocked
           /\ i \in Blocked' => Blocked' = Blocked \cup {i}
<1>1. \A d \in Callers \ {c} : pc[d] \notin {"encode", "rename"} /\ pc'[d] \notin {"encode", "rename"}
  BY OnlyWriter DEF Inv
<1>2. \A k \in Ids : k \in Blocked <=> tmp[k] # None /\ (pc[c] \in {"encode", "rename"} => i # k)
  BY <1>1 DEF Blocked
<1>3. \A k \in Ids : k \in Blocked' <=> tmp'[k] # None /\ (pc'[c] \in {"encode", "rename"} => i # k)
  BY <1>1 DEF Blocked
<1>4. Blocked \subseteq Ids /\ Blocked' \subseteq Ids
  BY DEF Blocked
<1>5. \A k \in Ids \ {i} : k \in Blocked' <=> k \in Blocked
  BY <1>2, <1>3
<1>6. (i \in Blocked' <=> i \in Blocked) => Blocked' = Blocked
  BY <1>4, <1>5
<1>7. i \in Blocked' => Blocked' = Blocked \cup {i}
  BY <1>4, <1>5
<1> QED BY <1>2, <1>3, <1>6, <1>7

\* Looking at the content of an ID once more makes no difference.
LEMMA UnsyncedAgain ==
    ASSUME NEW i \in Ids, NEW b, <<json[i], b>> \in older[i], UNCHANGED older
    PROVE  Unsynced' = [Unsynced EXCEPT ![i] = @ \cup {json[i]}]
<1>1. json[i] \in Unsynced[i]
  BY DEF Unsynced
<1>2. Unsynced[i] \cup {json[i]} = Unsynced[i]
  BY <1>1
<1>3. Unsynced = [k \in Ids |-> Unsynced[k]] /\ Unsynced' = Unsynced
  BY DEF Unsynced
<1> QED BY <1>2, <1>3

\* A step that changes no file and no writer is not visible in the store.
LEMMA Unseen ==
    ASSUME UNCHANGED <<json, older>>, Blocked' = Blocked
    PROVE  UNCHANGED <<json, Blocked, Unsynced>>
BY DEF Unsynced

\* Open: the directory changed, but the content did not.
LEMMA OpenStore ==
    ASSUME Inv, NEW c \in Callers, Open(c)
    PROVE  Store!StoreNext \/ UNCHANGED <<json, Blocked, Unsynced>>
<1>1. PICK i \in Ids : i = call[c].id
  BY BusyFact DEF Inv, Open, Lock
<1>2. Lock(c) /\ pc[c] = "start" /\ Data # {}
  BY BusyFact DEF Inv, Open, Lock
<1>3. CASE tmp[i] = None /\ Directory(i, json[i], Partial) /\ Goto(c, "encode")
  <2>1. /\ \A d \in Callers \ {c} : pc'[d] = pc[d]
        /\ pc'[c] = "encode" /\ call'[c] = call[c]
        /\ \A k \in Ids \ {i} : tmp'[k] = tmp[k]
        /\ json' = [json EXCEPT ![i] = json[i]]
    BY <1>3 DEF Goto, Directory, Inv, TypeOK
  <2>2. i \notin Blocked /\ Blocked' = Blocked
    BY <1>1, <1>2, <1>3, <2>1, BlockedStep
  <2>3. Unsynced' = [Unsynced EXCEPT ![i] = @ \cup {json[i]}]
    BY <1>3, DirectoryUnsynced DEF Inv
  <2> QED BY <1>2, <2>1, <2>2, <2>3, StoreOps, Zenon
<1>4. CASE Return(c, "error") /\ UNCHANGED fileVars
  <2>1. pc'[c] = "idle" /\ \A d \in Callers \ {c} : pc'[d] = pc[d]
    BY <1>4 DEF Return, Inv, TypeOK
  <2>2. Blocked' = Blocked
    BY <1>1, <1>2, <1>4, <2>1, BlockedStep DEF fileVars
  <2> QED BY <1>4, <2>2, Unseen DEF fileVars
<1> QED BY <1>1, <1>3, <1>4 DEF Open

\* Encode: visible only when it fails, as an ID that is blocked or as another
\* change of the directory.
LEMMA EncodeStore ==
    ASSUME Inv, NEW c \in Callers, Encode(c)
    PROVE  Store!StoreNext \/ UNCHANGED <<json, Blocked, Unsynced>>
<1>1. PICK i \in Ids : i = call[c].id
  BY BusyFact DEF Inv, Encode
<1>2. /\ pc[c] = "encode" /\ Data # {} /\ tmp[i] # None /\ <<json[i], FALSE>> \in older[i]
  BY <1>1, BusyFact, Zenon DEF Inv, Encode, WriterInv
<1>3. CASE tmp' = [tmp EXCEPT ![i] = "complete"] /\ Goto(c, "rename") /\ UNCHANGED <<json, older>>
  <2>1. /\ \A d \in Callers \ {c} : pc'[d] = pc[d]
        /\ pc'[c] = "rename" /\ call'[c] = call[c]
        /\ \A k \in Ids \ {i} : tmp'[k] = tmp[k]
    BY <1>3 DEF Goto, Inv, TypeOK
  <2>2. Blocked' = Blocked
    BY <1>1, <1>2, <2>1, BlockedStep
  <2> QED BY <1>3, <2>2, Unseen
<1>4. ASSUME Directory(i, json[i], None) \/ UNCHANGED fileVars, Return(c, "error")
      PROVE  Store!StoreNext
  <2>1. /\ \A d \in Callers \ {c} : pc'[d] = pc[d]
        /\ pc'[c] = "idle"
        /\ \A k \in Ids \ {i} : tmp'[k] = tmp[k]
        /\ json' = [json EXCEPT ![i] = json[i]]
    BY <1>4 DEF Return, Directory, Inv, TypeOK, fileVars
  <2>2. i \notin Blocked /\ (Blocked' = Blocked \/ Blocked' = Blocked \cup {i})
    BY <1>1, <1>2, <2>1, BlockedStep
  <2>3. Unsynced' = [Unsynced EXCEPT ![i] = @ \cup {json[i]}]
    BY <1>2, <1>4, UnsyncedAgain, DirectoryUnsynced DEF Inv, fileVars
  <2> QED BY <1>2, <2>1, <2>2, <2>3, StoreOps, Zenon
<1> QED BY <1>1, <1>3, <1>4 DEF Encode

\* Rename: the new content is visible, or the temporary file blocks the ID.
LEMMA RenameStore ==
    ASSUME Inv, NEW c \in Callers, Rename(c)
    PROVE  Store!StoreNext
<1>1. PICK i \in Ids : i = call[c].id
  BY BusyFact DEF Inv, Rename
<1>2. /\ pc[c] = "rename" /\ call[c].data \in Data
      /\ tmp[i] # None /\ <<json[i], FALSE>> \in older[i]
  BY <1>1, BusyFact, Zenon DEF Inv, Rename, WriterInv
<1>3. CASE Directory(i, call[c].data, None) /\ Goto(c, "sync")
  <2>1. /\ \A d \in Callers \ {c} : pc'[d] = pc[d]
        /\ call'[c] = call[c]
        /\ \A k \in Ids \ {i} : tmp'[k] = tmp[k]
        /\ tmp'[i] = None
        /\ json' = [json EXCEPT ![i] = call[c].data]
    BY <1>3 DEF Goto, Directory, Inv, TypeOK
  <2>2. i \notin Blocked /\ Blocked' = Blocked
    BY <1>1, <1>2, <2>1, BlockedStep
  <2>3. Unsynced' = [Unsynced EXCEPT ![i] = @ \cup {json[i]}]
    BY <1>3, DirectoryUnsynced DEF Inv
  <2> QED BY <1>2, <2>1, <2>2, <2>3, StoreOps, Zenon
<1>4. CASE Return(c, "error") /\ UNCHANGED fileVars
  <2>1. /\ \A d \in Callers \ {c} : pc'[d] = pc[d]
        /\ pc'[c] = "idle" /\ UNCHANGED <<json, tmp, older>>
        /\ json' = [json EXCEPT ![i] = json[i]]
    BY <1>4 DEF Return, Inv, TypeOK, fileVars
  <2>2. i \notin Blocked /\ Blocked' = Blocked \cup {i}
    BY <1>1, <1>2, <2>1, BlockedStep
  <2>3. Unsynced' = [Unsynced EXCEPT ![i] = @ \cup {json[i]}]
    BY <1>2, <2>1, UnsyncedAgain
  <2> QED BY <1>2, <2>1, <2>2, <2>3, StoreOps, Zenon
<1> QED BY <1>1, <1>3, <1>4 DEF Rename

\* Remove: the entry is gone, but not synced.
LEMMA RemoveStore ==
    ASSUME Inv, NEW c \in Callers, Remove(c)
    PROVE  Store!StoreNext \/ UNCHANGED <<json, Blocked, Unsynced>>
<1>1. PICK i \in Ids : i = call[c].id
  BY BusyFact DEF Inv, Remove, Lock
<1>2. Lock(c) /\ pc[c] = "start"
  BY DEF Remove, Lock
<1>3. CASE json[i] # None /\ Directory(i, None, tmp[i]) /\ Goto(c, "sync")
  <2>1. /\ \A d \in Callers \ {c} : pc'[d] = pc[d]
        /\ call'[c] = call[c] /\ pc'[c] = "sync"
        /\ \A k \in Ids : tmp'[k] = tmp[k]
        /\ json' = [json EXCEPT ![i] = None]
    BY <1>3 DEF Goto, Directory, Inv, TypeOK
  <2>2. Blocked' = Blocked
    BY <1>1, <1>2, <2>1, BlockedStep
  <2>3. Unsynced' = [Unsynced EXCEPT ![i] = @ \cup {json[i]}]
    BY <1>3, DirectoryUnsynced DEF Inv
  <2> QED BY <1>3, <2>1, <2>2, <2>3, StoreOps, Zenon
<1>4. CASE Return(c, "error") /\ UNCHANGED fileVars
  <2>1. pc'[c] = "idle" /\ \A d \in Callers \ {c} : pc'[d] = pc[d]
    BY <1>4 DEF Return, Inv, TypeOK
  <2>2. Blocked' = Blocked
    BY <1>1, <1>2, <1>4, <2>1, BlockedStep DEF fileVars
  <2> QED BY <1>4, <2>2, Unseen DEF fileVars
<1> QED BY <1>1, <1>3, <1>4 DEF Remove

\* Sync makes all contents durable; Read changes nothing.
LEMMA SyncReadStore ==
    ASSUME Inv, NEW c \in Callers, Sync(c) \/ Read(c)
    PROVE  Store!StoreNext \/ UNCHANGED <<json, Blocked, Unsynced>>
<1>1. PICK i \in Ids : i = call[c].id
  BY BusyFact DEF Inv, Sync, Read, Lock
<1>2. /\ pc[c] = "sync" \/ (Lock(c) /\ pc[c] = "start")
      /\ UNCHANGED <<json, tmp>>
      /\ older' = [k \in Ids |-> {}] \/ UNCHANGED older
      /\ \E r \in {"nil", "error"} : Return(c, r)
  BY DEF Sync, Read, Lock, fileVars
<1>3. pc'[c] = "idle" /\ \A d \in Callers \ {c} : pc'[d] = pc[d]
  BY <1>2 DEF Return, Inv, TypeOK
<1>4. Blocked' = Blocked
  BY <1>1, <1>2, <1>3, BlockedStep
<1>5. CASE older' = [k \in Ids |-> {}]
  <2>1. Unsynced' = [k \in Ids |-> {}]
    BY <1>5 DEF Unsynced
  <2>2. json' = [k \in Ids |-> json'[k]] /\ \A k \in Ids : json'[k] = json[k]
    BY <1>2 DEF Inv, TypeOK
  <2> QED BY <1>4, <2>1, <2>2, StoreSyncs
<1> QED BY <1>2, <1>4, <1>5, Unseen

\* A new call changes nothing.
LEMMA CallStore ==
    ASSUME Inv, NEW c \in Callers, Call(c)
    PROVE  UNCHANGED <<json, Blocked, Unsynced>>
<1>1. /\ pc[c] = "idle" /\ pc'[c] = "start" /\ UNCHANGED <<json, tmp, older>>
      /\ \A d \in Callers \ {c} : pc'[d] = pc[d] /\ call'[d] = call[d]
  BY DEF Inv, Call, TypeOK, fileVars
<1>2. \A d \in Callers : /\ pc'[d] \in {"encode", "rename"} <=> pc[d] \in {"encode", "rename"}
                         /\ pc[d] \in {"encode", "rename"} => call'[d] = call[d]
  BY <1>1
<1>3. \A k \in Ids : k \in Blocked' <=> k \in Blocked
  BY <1>1, <1>2 DEF Blocked
<1>4. Blocked \subseteq Ids /\ Blocked' \subseteq Ids
  BY DEF Blocked
<1>5. Blocked' = Blocked
  BY <1>3, <1>4
<1> QED BY <1>1, <1>5, Unseen

\* A kill in the middle of Create blocks the ID.
LEMMA KillStore ==
    ASSUME Inv, Kill
    PROVE  Store!StoreNext \/ UNCHANGED <<json, Blocked, Unsynced>>
<1>1. UNCHANGED <<json, tmp, older>> /\ \A c \in Callers : pc'[c] = "idle"
  BY DEF Kill, Killed, fileVars
<1>2. PICK c \in Callers : pc[c] \in {"encode", "rename", "sync"}
  BY DEF Kill, Writers
<1>3. \A d \in Callers \ {c} : pc[d] \notin {"encode", "rename"}
  BY <1>2, OnlyWriter DEF Inv
<1>4. PICK i \in Ids : i = call[c].id
  BY <1>2, BusyFact DEF Inv
<1>5. \A k \in Ids : k \in Blocked' <=> tmp[k] # None
  BY <1>1 DEF Blocked
<1>6. \A k \in Ids : k \in Blocked <=> tmp[k] # None /\ (pc[c] \in {"encode", "rename"} => i # k)
  BY <1>3, <1>4 DEF Blocked
<1>7. Blocked \subseteq Ids /\ Blocked' \subseteq Ids
  BY DEF Blocked
<1>8. CASE pc[c] = "sync"
  <2>1. Blocked' = Blocked
    BY <1>5, <1>6, <1>7, <1>8
  <2> QED BY <1>1, <2>1, Unseen
<1>9. CASE pc[c] \in {"encode", "rename"}
  <2>1. tmp[i] # None /\ <<json[i], FALSE>> \in older[i] /\ Data # {}
    BY <1>4, <1>9, BusyFact, Zenon DEF Inv, WriterInv
  <2>2. i \notin Blocked /\ Blocked' = Blocked \cup {i}
    BY <1>5, <1>6, <1>7, <1>9, <2>1
  <2>3. json' = [json EXCEPT ![i] = json[i]]
    BY <1>1 DEF Inv, TypeOK
  <2> QED BY <1>1, <2>1, <2>2, <2>3, UnsyncedAgain, StoreOps, Zenon
<1> QED BY <1>2, <1>8, <1>9

\* A power loss is the power loss of the store: without a directory change
\* since the last sync nobody was in the middle of Create.
LEMMA PowerLossStore ==
    ASSUME Inv, PowerLoss
    PROVE  Store!StoreNext
<1>1. older' = [i \in Ids |-> {}] /\ \A c \in Callers : pc'[c] = "idle"
  BY DEF PowerLoss, Killed
<1>2. PICK f \in [Ids -> Contents \X BOOLEAN] :
        /\ \A i \in Ids : f[i] \in {<<json[i], tmp[i] # None>>} \cup older[i]
        /\ json' = [i \in Ids |-> f[i][1]]
        /\ tmp' = [i \in Ids |-> IF f[i][2] THEN Partial ELSE None]
  BY DEF PowerLoss
<1>3. ASSUME NEW i \in Ids PROVE json'[i] \in {json[i]} \cup Unsynced[i]
  BY <1>2 DEF Unsynced
<1>4. ASSUME NEW i \in Ids, Unsynced[i] = {} PROVE i \in Blocked' <=> i \in Blocked
  <2>1. older[i] = {}
    BY <1>4 DEF Unsynced
  <2>2. f[i] = <<json[i], tmp[i] # None>>
    BY <1>2, <2>1
  <2>3. tmp'[i] # None <=> tmp[i] # None
    BY <1>2, <2>2, FileStateAssumption
  <2>4. \A c \in Callers : pc[c] \in {"encode", "rename"} => call[c].id # i
    BY <2>1, Zenon DEF Inv, WriterInv
  <2> QED BY <1>1, <2>3, <2>4 DEF Blocked
<1>5. Unsynced' = [i \in Ids |-> {}]
  BY <1>1 DEF Unsynced
<1>6. json' = [i \in Ids |-> json'[i]]
  BY <1>2
<1> QED BY <1>3, <1>4, <1>5, <1>6, StoreSyncs

\* The files implement the store that the node controller relies on: every
\* step of a caller, every kill and every power loss is a step of the abstract
\* store, or is not visible in it.
THEOREM ImplementsStoreHolds == Spec => ImplementsStore
<1>1. Init => Store!StoreInit
  BY DEF Init, Store!StoreInit
<1>2. ASSUME Inv, [Next]_vars PROVE [Store!StoreNext]_(Store!storeVars)
  <2>1. Store!StoreNext \/ UNCHANGED <<json, Blocked, Unsynced>>
    <3>1. CASE UNCHANGED vars
      BY <3>1 DEF vars, Blocked, Unsynced
    <3>2. ASSUME NEW c \in Callers, Call(c) \/ Step(c)
          PROVE  Store!StoreNext \/ UNCHANGED <<json, Blocked, Unsynced>>
      BY <1>2, <3>2, CallStore, OpenStore, EncodeStore, RenameStore, RemoveStore, SyncReadStore DEF Step
    <3> QED BY <1>2, <3>1, <3>2, KillStore, PowerLossStore DEF Next
  <2> QED BY <2>1, Zenon DEF Store!storeVars, Blocked, Unsynced
<1>3. ImplementsStore <=> Store!StoreInit /\ [][Store!StoreNext]_(Store!storeVars)
  BY DEF ImplementsStore, Store!StoreSpec
<1> QED BY <1>1, <1>2, <1>3, InvHolds, PTL DEF Spec

=============================================================================
