------------------------ MODULE NodeControllerPromise ------------------------
(***************************************************************************)
(* NodeController keeps its promises, and its handlers are atomic for the  *)
(* callers, provided that CreateDevice does not fail after lvcreate and    *)
(* that state files can be read.  Without these conditions: the capacity   *)
(* that the node reports is honest.                                        *)
(***************************************************************************)
EXTENDS NodeControllerSafety, FiniteSetTheorems

Safe == TypeOK /\ StoppedInv /\ LockInv /\ BackedInv /\ LeakInv

\* Safe is inductive; the theorems before this module proved it piece by piece.
LEMMA SafeStep ==
    ASSUME DistinctIDs, NoLeakFaults, Safe, [Next]_vars
    PROVE  StoppedInv' /\ LockInv' /\ BackedInv' /\ LeakInv'
BY StoppedStep, LockStep, BackedStep, LeakStep DEF Safe

\* Sizes that are asked for are natural numbers.
LEMMA AskedNat ==
    ASSUME NEW r \in Requests
    PROVE  r.asked \in Nat
<1>1. r.asked \in Sizes \cup {0}
  BY DEF Requests
<1>2. Sizes \cup {0} \subseteq Nat
  BY NodeControllerAssumption
<1> QED BY <1>1, <1>2

\* All that the store can ever give back for an ID.
Contents(id) == {entry[id]} \cup unsynced[id]

\* Writing an entry adds the new content for that ID; nothing else is new.
LEMMA StoreCreateContents ==
    ASSUME StoreTypeOK, NEW id \in Ids, NEW d, SMCreate(id, d) \/ SMCreateFails(id, d),
           NEW i \in Ids
    PROVE  Contents(i)' \subseteq Contents(i) \cup (IF i = id THEN {d} ELSE {})
BY DEF Contents, StoreTypeOK, SMCreate, SMCreateFails, Replace, ReplaceAndSync, storeVars

\* Removing an entry adds no content.
LEMMA StoreDeleteContents ==
    ASSUME StoreTypeOK, NEW id \in Ids, SMDelete(id) \/ SMDeleteFails(id),
           NEW i \in Ids
    PROVE  Contents(i)' \subseteq Contents(i) \cup {None}
BY DEF Contents, StoreTypeOK, SMDelete, SMDeleteFails, Replace, ReplaceAndSync

\* The records that handlers write to the state and to the map fit.
LEMMA VolFits ==
    ASSUME DistinctIDs, Safe, SizeInv, up, NEW w \in Workers,
           pc[w] \in {"smCreate", "lvcreate", "clear", "smUpdate", "register"}
    PROVE  /\ Id(w) \in Ids /\ Vol(w) \in Volumes
           /\ Fits(Id(w), Vol(w), lvs[Id(w)])
           /\ Fits(Id(w), None, lvs[Id(w)])
<1>1. Id(w) \in Ids /\ Vol(w) \in Volumes
  BY RequestFact DEF Safe
<1>2. volumeID[Vol(w).name] = Id(w)
  BY DEF Vol, Id
<1>3. CASE pc[w] \in {"smCreate", "lvcreate"}
  <2>1. ~HasLV(Id(w))
    BY <1>3, NoLVYet DEF Safe
  <2> QED BY <1>1, <1>2, <2>1 DEF Fits, HasLV
<1> QED BY <1>1, <1>3 DEF SizeInv, Fits

\* A handler that takes a step has a request.
LEMMA StepBusy ==
    ASSUME TypeOK, NEW w \in Workers, LockKey(w) \/ Step(w)
    PROVE  pc[w] # "idle" /\ Id(w) \in Ids /\ Vol(w) \in Volumes
<1>1. pc[w] # "idle"
  BY StepFrame
<1> QED BY <1>1, RequestFact

\* What a step of a handler can add to the state and the map.
LEMMA StepContents ==
    ASSUME TypeOK, NEW w \in Workers, Step(w), NEW id \in Ids
    PROVE  Contents(id)' \cup {pmemVolumes'[id]}
              \subseteq Contents(id) \cup {pmemVolumes[id], None}
                        \cup (IF id = Id(w) /\ pc[w] \in {"smCreate", "smUpdate", "register"}
                                THEN {Vol(w)} ELSE {})
<1>1. Id(w) \in Ids /\ pc[w] # "idle"
  BY StepBusy
<1>2. StoreTypeOK /\ pmemVolumes \in [Ids -> Volumes \cup {None}]
  BY DEF TypeOK, ProcTypeOK
<1> USE <1>1, <1>2
<1>3. CASE UNCHANGED <<storeVars, procVars>>
  BY <1>3 DEF Contents, storeVars, procVars
<1>4. CASE SmCreate(w) \/ SmUpdate(w)
  <2>1. /\ SMCreate(Id(w), Vol(w)) \/ SMCreateFails(Id(w), Vol(w))
        /\ UNCHANGED pmemVolumes /\ pc[w] \in {"smCreate", "smUpdate"}
    BY <1>4 DEF SmCreate, SmUpdate, StoreCreateFails, procVars
  <2>2. Contents(id)' \subseteq Contents(id) \cup (IF id = Id(w) THEN {Vol(w)} ELSE {})
    BY <2>1, StoreCreateContents
  <2> QED BY <2>1, <2>2
<1>5. CASE UndoCreate(w) \/ SmDelete(w)
  <2>1. /\ SMDelete(Id(w)) \/ SMDeleteFails(Id(w))
        /\ UNCHANGED pmemVolumes
    BY <1>5 DEF UndoCreate, SmDelete, StoreDelete, procVars
  <2>2. Contents(id)' \subseteq Contents(id) \cup {None}
    BY <2>1, StoreDeleteContents
  <2> QED BY <2>1, <2>2, Zenon
<1>6. CASE Register(w) \/ Unregister(w)
  <2>1. Contents(id)' = Contents(id)
    BY <1>6 DEF Register, Unregister, Contents, storeVars
  <2>2. pmemVolumes'[id] \in {pmemVolumes[id], None}
                             \cup (IF id = Id(w) /\ pc[w] = "register" THEN {Vol(w)} ELSE {})
    BY <1>6, Zenon DEF Register, Unregister
  <2> QED BY <2>1, <2>2
<1>7. CASE CreateLookup(w) \/ CreateLV(w) \/ ClearLV(w) \/ DeleteLookup(w) \/ Wipe(w) \/ RemoveLV(w)
  BY <1>3, <1>7, Zenon DEF CreateLookup, CreateLV, ClearLV, DeleteLookup, Wipe, RemoveLV
<1> QED BY <1>4, <1>5, <1>6, <1>7 DEF Step

\* LVs do not change in size; a handler creates one only while it has none.
LEMMA StepSizes ==
    ASSUME DistinctIDs, Safe, SizeInv, up, NEW w \in Workers, Step(w), NEW id \in Ids, NEW vg \in VGs,
           lvs'[id][vg] > 0
    PROVE  \/ lvs'[id][vg] = lvs[id][vg]
           \/ /\ pc[w] = "lvcreate" /\ id = Id(w) /\ size[w] \in Nat
              /\ lvs'[id][vg] = Align(size[w]) /\ lvs'[id][vg] >= size[w]
<1>1. Id(w) \in Ids
  BY StepBusy DEF Safe
<1>2. CASE UNCHANGED lvs
  BY <1>2, Zenon
<1>3. CASE CreateLV(w)
  <2>1. pc[w] = "lvcreate" /\ size[w] \in Nat
    BY <1>3, Zenon DEF CreateLV, Safe, TypeOK, WorkTypeOK
  <2>2. PICK u \in VGs : LvCreate(Id(w), u, size[w]) \/ UNCHANGED lvs
    BY <1>3, Zenon DEF CreateLV, Eligible, Undo, lvmVars
  <2> QED BY <1>1, <2>1, <2>2, AlignFact DEF LvCreate, Safe, TypeOK, LvmTypeOK
<1>4. CASE RemoveLV(w)
  <2>1. LvRemove(Id(w)) \/ UNCHANGED lvs
    BY <1>4 DEF RemoveLV, lvmVars
  <2> QED BY <1>1, <2>1 DEF LvRemove, Safe, TypeOK, LvmTypeOK
<1>5. CASE ClearLV(w) \/ Wipe(w)
  BY <1>2, <1>5, Zenon DEF ClearLV, Undo, LvReady, Wipe, LvClear, lvmVars
<1> QED BY <1>2, <1>3, <1>4, <1>5, Zenon
        DEF Step, CreateLookup, SmCreate, SmUpdate, Register, UndoCreate, DeleteLookup,
            SmDelete, Unregister, lvmVars

\* A step of a handler leaves the size and the status of other handlers alone,
\* and changes its own size only when the LV is ready.
LEMMA StepSize ==
    ASSUME TypeOK, NEW w \in Workers, LockKey(w) \/ Step(w)
    PROVE  /\ \A v \in Workers \ {w} : size'[v] = size[v] /\ status'[v] = status[v]
           /\ pc'[w] = "idle" \/ size'[w] = size[w] \/ (pc[w] = "clear" /\ ClearLV(w))
<1> USE DEF TypeOK, WorkTypeOK, Goto, Return, ReturnVolume, Undo
<1>1. CASE LockKey(w) BY <1>1, Zenon DEF LockKey
<1>2. CASE CreateLookup(w) BY <1>2, Zenon DEF CreateLookup
<1>3. CASE SmCreate(w) BY <1>3 DEF SmCreate
<1>4. CASE CreateLV(w) BY <1>4, Zenon DEF CreateLV
<1>5. CASE ClearLV(w) BY <1>5 DEF ClearLV
<1>6. CASE SmUpdate(w) BY <1>6, Zenon DEF SmUpdate
<1>7. CASE Register(w) BY <1>7 DEF Register
<1>8. CASE UndoCreate(w) BY <1>8, Zenon DEF UndoCreate
<1>9. CASE DeleteLookup(w) BY <1>9, Zenon DEF DeleteLookup
<1>10. CASE Wipe(w) BY <1>10, Zenon DEF Wipe
<1>11. CASE RemoveLV(w) BY <1>11 DEF RemoveLV
<1>12. CASE SmDelete(w) BY <1>12, Zenon DEF SmDelete
<1>13. CASE Unregister(w) BY <1>13 DEF Unregister
<1> QED BY <1>1, <1>2, <1>3, <1>4, <1>5, <1>6, <1>7, <1>8, <1>9, <1>10, <1>11, <1>12, <1>13, Zenon
        DEF Step

\* When the LV is ready, the handler takes over its size.
LEMMA ReadySize ==
    ASSUME Safe, SizeInv, NEW w \in Workers, ClearLV(w), pc'[w] # "undo"
    PROVE  /\ Id(w) \in Ids /\ lv[w] \in VGs
           /\ lvs[Id(w)][lv[w]] > 0 /\ size[w] <= lvs[Id(w)][lv[w]]
           /\ size'[w] = lvs[Id(w)][lv[w]]
           /\ req'[w] = req[w] /\ UNCHANGED lvs
<1>1. pc[w] = "clear" /\ Id(w) \in Ids
  BY RequestFact, Zenon DEF ClearLV, Safe
<1>2. lvs[Id(w)][lv[w]] > 0
  BY <1>1, Zenon DEF Safe, BackedInv
<1>3. lv[w] \in VGs
  BY <1>1, LvmAssumption DEF Safe, TypeOK, WorkTypeOK, VGs
<1>4. Vol(w).size = size[w] /\ Vol(w) # None
  BY <1>1, RequestFact, NodeControllerAssumption, Zenon DEF Vol, Safe
<1>5. size[w] <= lvs[Id(w)][lv[w]]
  BY <1>1, <1>2, <1>3, <1>4, Zenon DEF SizeInv, Fits
<1>6. LvReady(Id(w), lv[w]) /\ size' = [size EXCEPT ![w] = lvs[Id(w)][lv[w]]] /\ UNCHANGED req
  BY DEF ClearLV, Undo, Goto, Safe, TypeOK, WorkTypeOK
<1> QED BY <1>1, <1>2, <1>3, <1>5, <1>6, Zenon DEF LvReady, Safe, TypeOK, WorkTypeOK

\* After a step of a handler everything in the state and the map still fits.
LEMMA ContentsFit ==
    ASSUME DistinctIDs, Safe, SizeInv, up, NEW w \in Workers, Step(w), NEW id \in Ids,
           NEW v \in Contents(id)' \cup {pmemVolumes'[id]}
    PROVE  Fits(id, v, lvs'[id])
<1>1. CASE v = None
  BY <1>1, Zenon DEF Fits
<1>2. CASE v \in Contents(id) \cup {pmemVolumes[id]} /\ v # None
  <2>1. Fits(id, v, lvs[id])
    BY <1>2 DEF SizeInv, Contents
  <2>2. ASSUME NEW vg \in VGs, lvs'[id][vg] > 0 PROVE v.size <= lvs'[id][vg]
    <3>1. CASE lvs'[id][vg] = lvs[id][vg]
      BY <1>2, <2>1, <2>2, <3>1 DEF Fits
    <3>2. CASE pc[w] = "lvcreate" /\ id = Id(w) /\ lvs'[id][vg] >= size[w]
      <4>1. pmemVolumes[id] = None /\ Contents(id) = {Vol(w)}
        BY <3>2, Zenon DEF Safe, LockInv, CreateSteps, SizeInv, Contents
      <4>2. v = Vol(w)
        BY <1>2, <4>1, Zenon
      <4> QED BY <3>2, <4>2, Zenon DEF Vol
    <3> QED BY <2>2, <3>1, <3>2, StepSizes, Zenon
  <2> QED BY <1>2, <2>1, <2>2, Zenon DEF Fits
<1>3. CASE v = Vol(w) /\ id = Id(w) /\ pc[w] \in {"smCreate", "smUpdate", "register"}
  <2>1. Fits(id, v, lvs[id])
    BY <1>3, VolFits, Zenon
  <2>2. \A vg \in VGs : lvs'[id][vg] > 0 => lvs'[id][vg] = lvs[id][vg]
    BY <1>3, StepSizes
  <2> QED BY <2>1, <2>2, Zenon DEF Fits
<1>4. TypeOK
  BY Zenon DEF Safe
<1> QED BY <1>1, <1>2, <1>3, <1>4, StepContents, Zenon

\* A handler past its lookup, other than the one that makes a step, works on a
\* volume that the step does not touch.
LEMMA OtherHandler ==
    ASSUME DistinctIDs, Safe, NEW w \in Workers, Step(w), NEW v \in Workers, v # w,
           pc[v] \in CreateSteps \cup DeleteSteps
    PROVE  /\ pc'[v] = pc[v] /\ Id(v)' = Id(v) /\ Vol(v)' = Vol(v) /\ Id(v) \in Ids
           /\ \/ pc[w] = "lookup" /\ UNCHANGED <<storeVars, lvmVars, procVars>>
              \/ /\ entry'[Id(v)] = entry[Id(v)] /\ unsynced'[Id(v)] \subseteq unsynced[Id(v)]
                 /\ lvs'[Id(v)] = lvs[Id(v)]
<1>1. pc'[v] = pc[v] /\ req'[v] = req[v] /\ size'[v] = size[v]
  BY StepFrame, StepSize DEF Safe
<1>2. Id(v)' = Id(v) /\ Vol(v)' = Vol(v)
  BY <1>1 DEF Id, Vol
<1>3. Id(v) \in Ids
  BY RequestFact DEF Safe, CreateSteps, DeleteSteps
<1>4. CASE pc[w] = "lookup"
  BY <1>1, <1>2, <1>3, <1>4, Waiting, Zenon DEF Safe
<1>5. CASE pc[w] # "lookup"
  <2>1. pc[w] \in CreateSteps \cup DeleteSteps
    BY <1>5, StepOrder, Zenon DEF Safe, Active, TypeOK, WorkTypeOK
  <2>2. PICK id \in Ids : id = Id(v) /\ id # Id(w)
    BY <1>3, <2>1, LockExclusive, Zenon DEF Safe, Exclusive
  <2>3. entry'[id] = entry[id] /\ unsynced'[id] \subseteq unsynced[id] /\ lvs'[id] = lvs[id]
    BY <2>2, StepLocal, Zenon DEF Safe
  <2> QED BY <1>1, <1>2, <1>3, <2>2, <2>3, Zenon
<1> QED BY <1>4, <1>5, Zenon

\* The record that a handler is about to write fits after each of its steps.
LEMMA OwnFits ==
    ASSUME DistinctIDs, NoLeakFaults, Safe, SizeInv, up, NEW w \in Workers, Step(w)
    PROVE  /\ pc'[w] # "idle" => req'[w].asked <= size'[w]
           /\ pc'[w] = "lvcreate" => entry'[Id(w)'] = Vol(w)' /\ unsynced'[Id(w)'] = {}
           /\ pc'[w] \in {"clear", "smUpdate", "register"} => Fits(Id(w)', Vol(w)', lvs'[Id(w)'])
<1>0. TypeOK
  BY Zenon DEF Safe
<1>1. pc[w] # "idle" /\ req[w].asked <= size[w] /\ Id(w) \in Ids /\ Vol(w) # None /\ size[w] \in Nat
      /\ req[w].asked \in Nat
  <2>1. pc[w] # "idle" /\ Id(w) \in Ids /\ Vol(w) \in Volumes /\ req[w].asked \in Sizes \cup {0}
    BY <1>0, StepBusy, RequestFact, Zenon
  <2>2. Vol(w) # None
    BY <2>1, NodeControllerAssumption, Zenon
  <2>3. req[w].asked \in Nat
    BY <1>0, <2>1, RequestFact, AskedNat
  <2> QED BY <1>0, <2>1, <2>2, <2>3, Zenon DEF SizeInv, TypeOK, WorkTypeOK
<1>2. pc'[w] # "idle" => req'[w] = req[w] /\ Id(w)' = Id(w)
  BY <1>0, StepFrame, Zenon DEF Id
<1>3. CASE ClearLV(w)
  <2>1. pc'[w] # "undo" /\ pc'[w] # "lvcreate"
    BY <1>0, <1>3, Zenon DEF ClearLV, NoLeakFaults, Goto, TypeOK, WorkTypeOK
  <2>2. /\ lv[w] \in VGs /\ lvs[Id(w)][lv[w]] > 0 /\ size[w] <= lvs[Id(w)][lv[w]]
        /\ size'[w] = lvs[Id(w)][lv[w]] /\ req'[w] = req[w] /\ UNCHANGED lvs
    BY <1>3, <2>1, ReadySize, Zenon
  <2>3. Id(w)' = Id(w) /\ Vol(w)'.size = lvs[Id(w)][lv[w]] /\ volumeID[Vol(w)'.name] = Id(w)
    BY <2>2, Zenon DEF Id, Vol
  <2>4. \A vg \in VGs : lvs[Id(w)][vg] > 0 => vg = lv[w]
    BY <1>1, <2>2, Zenon DEF Safe, LeakInv
  <2>5. lvs[Id(w)][lv[w]] \in Nat
    BY <1>0, <1>1, <2>2 DEF TypeOK, LvmTypeOK
  <2>6. Fits(Id(w), Vol(w)', lvs[Id(w)])
    BY <2>3, <2>4, <2>5 DEF Fits
  <2> QED BY <1>1, <2>1, <2>2, <2>3, <2>5, <2>6
<1>4. ASSUME ~ClearLV(w), pc'[w] # "idle"
      PROVE  /\ req'[w] = req[w] /\ size'[w] = size[w] /\ req'[w].asked <= size'[w]
             /\ Id(w)' = Id(w) /\ Vol(w)' = Vol(w)
  <2>1. size'[w] = size[w] /\ req'[w] = req[w]
    BY <1>0, <1>2, <1>4, StepSize, Zenon
  <2> QED BY <1>1, <2>1, Zenon DEF Id, Vol
<1>5. ASSUME ~ClearLV(w), pc'[w] = "lvcreate"
      PROVE  entry'[Id(w)'] = Vol(w)' /\ unsynced'[Id(w)'] = {}
  <2>1. SMCreate(Id(w), Vol(w))
    BY <1>0, <1>1, <1>5, Zenon DEF Step, CreateLookup, SmCreate, CreateLV, SmUpdate, Register,
                                   UndoCreate, DeleteLookup,
          Wipe, RemoveLV, SmDelete, Unregister, Undo, Goto, Return, ReturnVolume, TypeOK, WorkTypeOK
  <2>2. entry'[Id(w)] = Vol(w) /\ unsynced'[Id(w)] = {}
    BY <1>0, <1>1, <2>1 DEF SMCreate, ReplaceAndSync, TypeOK, StoreTypeOK
  <2> QED BY <1>4, <1>5, <2>2, Zenon
<1>6. ASSUME ~ClearLV(w), pc'[w] \in {"clear", "smUpdate", "register"}
      PROVE  Fits(Id(w)', Vol(w)', lvs'[Id(w)'])
  <2>1. pc[w] \in {"lvcreate", "smUpdate"}
    BY <1>0, <1>1, <1>6, Zenon DEF Step, CreateLookup, SmCreate, CreateLV, SmUpdate, Register,
                                   UndoCreate, DeleteLookup,
          Wipe, RemoveLV, SmDelete, Unregister, Undo, Goto, Return, ReturnVolume, TypeOK, WorkTypeOK
  <2>2. Fits(Id(w), Vol(w), lvs[Id(w)])
    BY <2>1, VolFits
  <2>3. PICK id \in Ids : id = Id(w)
    BY <1>1, Zenon
  <2>4. ASSUME NEW vg \in VGs, lvs'[id][vg] > 0 PROVE Vol(w).size <= lvs'[id][vg]
    <3>1. CASE lvs'[id][vg] = lvs[id][vg]
      BY <1>1, <2>2, <2>3, <2>4, <3>1, Zenon DEF Fits
    <3>2. CASE lvs'[id][vg] >= size[w]
      BY <3>2, <1>1, Zenon DEF Vol
    <3> QED BY <2>4, <3>1, <3>2, StepSizes, Zenon
  <2>5. Fits(id, Vol(w), lvs'[id])
    BY <1>1, <2>2, <2>3, <2>4, Zenon DEF Fits
  <2> QED BY <1>4, <1>6, <2>3, <2>5, Zenon
<1> QED BY <1>3, <1>4, <1>5, <1>6

\* Handlers preserve SizeInv.
LEMMA SizeHandlerStep ==
    ASSUME DistinctIDs, NoLeakFaults, Safe, SizeInv, up, NEW w \in Workers, Step(w)
    PROVE  SizeInv'
<1>1. \A id \in Ids : \A v \in {entry'[id], pmemVolumes'[id]} \cup unsynced'[id] : Fits(id, v, lvs'[id])
  BY ContentsFit, Zenon DEF Contents
<1>2. ASSUME NEW v \in Workers
      PROVE  /\ pc'[v] # "idle" => req'[v].asked <= size'[v]
             /\ pc'[v] = "lvcreate" => entry'[Id(v)'] = Vol(v)' /\ unsynced'[Id(v)'] = {}
             /\ pc'[v] \in {"clear", "smUpdate", "register"} => Fits(Id(v)', Vol(v)', lvs'[Id(v)'])
  <2>1. CASE v = w
    BY <2>1, OwnFits, Zenon
  <2>2. CASE v # w
    <3>1. pc'[v] = pc[v] /\ req'[v] = req[v] /\ size'[v] = size[v]
      <4>1. TypeOK
        BY DEF Safe
      <4>2. pc'[v] = pc[v] /\ req'[v] = req[v]
        BY <2>2, <4>1, StepFrame, Zenon
      <4> QED BY <2>2, <4>1, <4>2, StepSize, Zenon
    <3>2. pc'[v] # "idle" => req'[v].asked <= size'[v]
      BY <3>1, Zenon DEF SizeInv
    <3>3. CASE pc[v] \in {"lvcreate", "clear", "smUpdate", "register"}
      <4>1. /\ pc'[v] = pc[v] /\ Id(v)' = Id(v) /\ Vol(v)' = Vol(v)
            /\ \/ UNCHANGED <<storeVars, lvmVars, procVars>>
               \/ /\ entry'[Id(v)] = entry[Id(v)] /\ unsynced'[Id(v)] \subseteq unsynced[Id(v)]
                  /\ lvs'[Id(v)] = lvs[Id(v)]
        BY <2>2, <3>3, OtherHandler, Zenon DEF CreateSteps
      <4>2. /\ entry'[Id(v)] = entry[Id(v)] /\ unsynced'[Id(v)] \subseteq unsynced[Id(v)]
            /\ lvs'[Id(v)] = lvs[Id(v)]
        BY <4>1 DEF storeVars, lvmVars
      <4> QED BY <3>2, <4>1, <4>2, Zenon DEF SizeInv
    <3> QED BY <3>1, <3>2, <3>3, Zenon
  <2> QED BY <2>1, <2>2, Zenon
<1> QED BY <1>1, <1>2, Zenon DEF SizeInv

\* What is on disk fits after a crash, whatever the interrupted handlers had
\* written of it, and after a power loss.
LEMMA DownFits ==
    ASSUME DistinctIDs, Safe, SizeInv, Crash \/ PowerLoss, NEW id \in Ids, NEW v \in Contents(id)'
    PROVE  Fits(id, v, lvs[id])
<1>0. StoreTypeOK
  BY Zenon DEF Safe, TypeOK
<1>1. ASSUME v \in Contents(id) \cup {None} PROVE Fits(id, v, lvs[id])
  BY <1>1, Zenon DEF SizeInv, Contents, Fits
<1>2. CASE PowerLoss
  BY <1>1, <1>2, Zenon DEF PowerLoss, SMPowerLoss, Contents
<1>3. CASE Crash
  <2>1. CASE UNCHANGED storeVars
    BY <1>1, <2>1, Zenon DEF storeVars, Contents
  <2>2. ASSUME NEW w \in Workers, pc[w] \in {"smCreate", "smUpdate"},
               SMCreate(Id(w), Vol(w)) \/ SMCreateFails(Id(w), Vol(w))
        PROVE  Fits(id, v, lvs[id])
    <3>1. Id(w) \in Ids /\ Fits(Id(w), Vol(w), lvs[Id(w)])
      BY <1>3, <2>2, VolFits, Zenon DEF Crash
    <3>2. Contents(id)' \subseteq Contents(id) \cup (IF id = Id(w) THEN {Vol(w)} ELSE {})
      BY <1>0, <2>2, <3>1, StoreCreateContents, Zenon
    <3> QED BY <1>1, <3>1, <3>2, Zenon
  <2>3. ASSUME NEW i \in Ids, SMDelete(i) \/ SMDeleteFails(i)
        PROVE  Fits(id, v, lvs[id])
    BY <1>0, <1>1, <2>3, StoreDeleteContents, Zenon
  <2> QED BY <1>3, <2>1, <2>2, <2>3, CrashStore, Zenon DEF Safe
<1> QED BY <1>2, <1>3

\* Every step preserves SizeInv.
LEMMA SizeStep ==
    ASSUME DistinctIDs, NoLeakFaults, Safe, SizeInv, [Next]_vars
    PROVE  SizeInv'
<1>1. CASE UNCHANGED vars
  BY <1>1, Zenon DEF SizeInv, Id, Vol, vars, storeVars, lvmVars, procVars, workVars
<1>2. ASSUME NEW w \in Workers, NEW r \in Requests, Call(w, r)
      PROVE  SizeInv'
  <2>1. /\ UNCHANGED <<entry, unsynced, lvs, pmemVolumes>>
        /\ pc'[w] = "lock" /\ req'[w].asked = size'[w] /\ size'[w] \in Nat
    <3>1. r.asked \in Nat
      BY AskedNat
    <3> QED BY <1>2, <3>1, Zenon DEF Call, Goto, storeVars, lvmVars, procVars, Safe, TypeOK, WorkTypeOK
  <2>2. ASSUME NEW v \in Workers, v # w
        PROVE  pc'[v] = pc[v] /\ req'[v] = req[v] /\ size'[v] = size[v] /\ Id(v)' = Id(v) /\ Vol(v)' = Vol(v)
    <3>1. pc'[v] = pc[v] /\ req'[v] = req[v] /\ size'[v] = size[v]
      BY <1>2, <2>2, Zenon DEF Call, Goto, Safe, TypeOK, WorkTypeOK
    <3> QED BY <3>1, Zenon DEF Id, Vol
  <2> QED BY <2>1, <2>2 DEF SizeInv
<1>3. ASSUME NEW w \in Workers, LockKey(w)
      PROVE  SizeInv'
  <2>1. /\ UNCHANGED <<entry, unsynced, lvs, pmemVolumes, req, size>> /\ pc[w] = "lock"
        /\ pc'[w] = "lookup" /\ \A v \in Workers \ {w} : pc'[v] = pc[v]
    BY <1>3, Zenon DEF LockKey, Goto, storeVars, lvmVars, procVars, Safe, TypeOK, WorkTypeOK
  <2>2. \A v \in Workers : Id(v)' = Id(v) /\ Vol(v)' = Vol(v)
    BY <2>1 DEF Id, Vol
  <2> QED BY <2>1, <2>2, Zenon DEF SizeInv
<1>4. ASSUME NEW w \in Workers, Step(w)
      PROVE  SizeInv'
  <2>1. up
    BY <1>4, StepFrame, Zenon DEF Safe, StoppedInv, Serving
  <2> QED BY <1>4, <2>1, SizeHandlerStep, Zenon
<1>5. CASE Crash \/ PowerLoss
  <2>1. /\ UNCHANGED lvs /\ \A id \in Ids : pmemVolumes'[id] = None
        /\ \A w \in Workers : pc'[w] = "idle"
    BY <1>5 DEF Crash, PowerLoss, Safe, StoppedInv, Serving, lvmVars, procVars, workVars
  <2>2. \A id \in Ids : \A v \in {entry'[id], pmemVolumes'[id]} \cup unsynced'[id] : Fits(id, v, lvs'[id])
    <3> SUFFICES ASSUME NEW id \in Ids, NEW v \in Contents(id)' \cup {None}
                 PROVE  Fits(id, v, lvs[id])
      BY <2>1 DEF Contents
    <3>1. CASE v = None
      BY <3>1, Zenon DEF Fits
    <3> QED BY <1>5, <3>1, DownFits, Zenon
  <2> QED BY <2>1, <2>2, Zenon DEF SizeInv
<1>6. CASE Restart
  <2>1. /\ UNCHANGED <<entry, unsynced, lvs>>
        /\ \A id \in Ids : pmemVolumes'[id] \in {entry[id], None}
        /\ \A w \in Workers : pc'[w] = "idle"
    BY <1>6 DEF Restart, LvLoad, Safe, StoppedInv, Serving, storeVars, workVars
  <2>2. \A id \in Ids : Fits(id, None, lvs[id])
    BY Zenon DEF Fits
  <2> QED BY <2>1, <2>2, Zenon DEF SizeInv
<1>7. ASSUME NEW i \in Ids, Cleanup(i)
      PROVE  SizeInv'
  <2>1. /\ SMDelete(i) \/ SMDeleteFails(i)
        /\ UNCHANGED <<lvs, pmemVolumes, pc>>
        /\ \A w \in Workers : pc[w] = "idle"
    BY <1>7, Zenon DEF Cleanup, StoreDelete, lvmVars, workVars, Safe, StoppedInv, Serving
  <2>2. \A id \in Ids : Contents(id)' \subseteq Contents(id) \cup {None}
    BY <2>1, StoreDeleteContents, Zenon DEF Safe, TypeOK
  <2>3. \A id \in Ids : Fits(id, None, lvs[id])
    BY DEF Fits
  <2> QED BY <2>1, <2>2, <2>3 DEF SizeInv, Contents
<1> QED BY <1>1, <1>2, <1>3, <1>4, <1>5, <1>6, <1>7, Zenon DEF Next

-----------------------------------------------------------------------------
(* Confirmed volumes stay.                                                 *)

\* A delete of a volume starts with a call; no step of a handler adds one.
LEMMA DeletingStep ==
    ASSUME TypeOK, NEW w \in Workers, LockKey(w) \/ Step(w), NEW id \in Ids, Deleting(id)'
    PROVE  Deleting(id)
<1>1. PICK v \in Workers : pc'[v] # "idle" /\ req'[v].op = "delete" /\ Id(v)' = id
  BY DEF Deleting
<1>2. pc[v] # "idle" /\ req'[v] = req[v]
  BY <1>1, StepFrame, Zenon
<1> QED BY <1>1, <1>2, Zenon DEF Deleting, Id

\* A volume that the driver knows and that nobody deletes has its LV, and the
\* cache points to it.
LEMMA KnownHasLV ==
    ASSUME Safe, NEW id \in Ids, pmemVolumes[id] # None, ~Deleting(id)
    PROVE  HasLV(id) /\ devices[id] = ListedDevice(id) /\ devices[id] \in VGs
<1>1. ASSUME NEW v \in Workers, pc[v] \in {"smDelete", "unregister"}, Id(v) = id
      PROVE  FALSE
  BY <1>1, Zenon DEF Safe, LockInv, DeleteSteps, Deleting
<1>2. Backed(id)
  BY <1>1, Zenon DEF Safe, BackedInv
<1>3. devices[id] \in VGs /\ lvs[id][devices[id]] > 0
  BY <1>2, LvmAssumption DEF Backed, Safe, TypeOK, LvmTypeOK, VGs
<1>4. HasLV(id)
  BY <1>3, Zenon DEF HasLV
<1>5. ListedDevice(id) \in VGs /\ lvs[id][ListedDevice(id)] > 0
  <2>1. LvmTypeOK
    BY Zenon DEF Safe, TypeOK
  <2>2. ListedDevice(id) # 0
    BY <1>3, <2>1, ListedDeviceFact
  <2> QED BY <2>1, <2>2, ListedDeviceFact, Zenon
<1>6. devices[id] = ListedDevice(id)
  BY <1>3, <1>5, Zenon DEF Safe, LeakInv
<1> QED BY <1>3, <1>4, <1>6, Zenon

\* CreateVolume confirms a volume that has an LV of at least the asked size.
LEMMA ConfirmedFact ==
    ASSUME DistinctIDs, Safe, SizeInv, up, NEW w \in Workers, Step(w), promised' # promised
    PROVE  /\ Id(w) \in Ids /\ ~Deleting(Id(w))
           /\ promised' = [promised EXCEPT ![Id(w)] = req[w].asked]
           /\ HasLV(Id(w)) /\ UNCHANGED lvs
           /\ \A vg \in VGs : lvs[Id(w)][vg] > 0 => req[w].asked <= lvs[Id(w)][vg]
           /\ pmemVolumes'[Id(w)] # None
<1>0. TypeOK
  BY DEF Safe
<1>1. Id(w) \in Ids /\ pc[w] # "idle" /\ Vol(w) \in Volumes
  BY <1>0, StepBusy, Zenon
<1>2. Register(w) \/ CreateLookup(w)
  BY ZenonT(30) DEF Step, SmCreate, CreateLV, ClearLV, SmUpdate, UndoCreate, DeleteLookup, Wipe,
                    RemoveLV,
         SmDelete, Unregister
<1>3. UNCHANGED lvs
  <2>1. Register(w) => UNCHANGED lvs
    BY Zenon DEF Register, lvmVars
  <2>2. CreateLookup(w) => UNCHANGED lvs
    BY DEF CreateLookup, lvmVars
  <2> QED BY <1>2, <2>1, <2>2
<1>4. ReturnVolume(w)
  <2>1. Register(w) => ReturnVolume(w)
    BY DEF Register
  <2>2. CreateLookup(w) => ReturnVolume(w)
    BY Zenon DEF CreateLookup
  <2> QED BY <1>2, <2>1, <2>2, Zenon
<1>5. ~Deleting(Id(w)) /\ promised' = [promised EXCEPT ![Id(w)] = req[w].asked]
  BY <1>4 DEF ReturnVolume
<1>6. req[w].asked \in Nat /\ size[w] \in Nat /\ lvs[Id(w)] \in [VGs -> Nat] /\ req[w].asked <= size[w]
  BY <1>0, <1>1, RequestFact, AskedNat, Zenon DEF TypeOK, LvmTypeOK, WorkTypeOK, SizeInv
<1>7. CASE Register(w)
  <2>1. pc[w] = "register" /\ pmemVolumes' = [pmemVolumes EXCEPT ![Id(w)] = Vol(w)]
    BY <1>7 DEF Register
  <2>2. Vol(w) # None /\ Vol(w).size = size[w]
    BY <1>1, NodeControllerAssumption, Zenon DEF Vol
  <2>3. pmemVolumes'[Id(w)] # None
    BY <1>0, <1>1, <2>1, <2>2, Zenon DEF TypeOK, ProcTypeOK
  <2>4. HasLV(Id(w))
    <3>1. Backed(Id(w))
      BY <2>1, Zenon DEF Safe, BackedInv
    <3> QED BY <1>0, <1>1, <3>1, LvmAssumption DEF Backed, HasLV, TypeOK, LvmTypeOK, VGs
  <2>5. \A vg \in VGs : lvs[Id(w)][vg] > 0 => size[w] <= lvs[Id(w)][vg]
    BY <2>1, <2>2, Zenon DEF SizeInv, Fits
  <2>6. \A vg \in VGs : lvs[Id(w)][vg] > 0 => req[w].asked <= lvs[Id(w)][vg]
    BY <1>6, <2>5
  <2> QED BY <1>1, <1>3, <1>5, <2>3, <2>4, <2>6, Zenon
<1>8. CASE CreateLookup(w)
  <2>1. PICK k \in getVolumeByName(req[w].name) : pmemVolumes[k].size >= req[w].asked
    BY <1>5, <1>8, Zenon DEF CreateLookup
  <2>2. k \in Ids /\ pmemVolumes[k] # None /\ pmemVolumes[k].name = req[w].name
    BY <2>1, Zenon DEF getVolumeByName
  <2>3. Fits(k, pmemVolumes[k], lvs[k]) /\ pmemVolumes[k].size \in Nat
    BY <1>0, <2>2, Zenon DEF SizeInv, TypeOK, ProcTypeOK, Volumes
  <2>4. k = Id(w)
    BY <2>2, <2>3, Zenon DEF Fits, Id
  <2>5. HasLV(k)
    BY <1>5, <2>2, <2>4, KnownHasLV, Zenon
  <2>6. \A vg \in VGs : lvs[k][vg] > 0 => req[w].asked <= lvs[k][vg]
    BY <1>6, <2>1, <2>2, <2>3, <2>4 DEF Fits
  <2>7. UNCHANGED pmemVolumes
    BY <1>8, Zenon DEF CreateLookup, procVars
  <2> QED BY <1>1, <1>3, <1>5, <2>2, <2>4, <2>5, <2>6, <2>7, Zenon
<1> QED BY <1>2, <1>7, <1>8, Zenon

\* Handlers preserve PromiseInv: a create never has an ID that is in the map,
\* and a confirmed volume has no delete.
LEMMA PromiseHandlerStep ==
    ASSUME DistinctIDs, NoLeakFaults, Safe, SizeInv, PromiseInv, up, NEW w \in Workers, Step(w)
    PROVE  PromiseInv'
<1>0. TypeOK
  BY DEF Safe
<1> SUFFICES ASSUME NEW id \in Ids, promised'[id] > 0
             PROVE  /\ ~Deleting(id)'
                    /\ HasLV(id)' /\ \A vg \in VGs : lvs'[id][vg] > 0 => promised'[id] <= lvs'[id][vg]
                    /\ pmemVolumes'[id] # None
  BY Zenon DEF PromiseInv
<1>1. CASE promised'[id] = promised[id]
  <2>1. /\ ~Deleting(id) /\ HasLV(id) /\ pmemVolumes[id] # None
        /\ \A vg \in VGs : lvs[id][vg] > 0 => promised[id] <= lvs[id][vg]
    BY <1>1, Zenon DEF PromiseInv
  <2>2. lvs'[id] = lvs[id] /\ pmemVolumes'[id] = pmemVolumes[id]
    <3>1. CASE pc[w] = "lookup"
      BY <1>0, <3>1, Waiting, Zenon DEF lvmVars, procVars
    <3>2. CASE id # Id(w)
      BY <1>0, <3>2, StepLocal, Zenon
    <3>3. CASE pc[w] # "lookup" /\ id = Id(w)
      <4>1. pc[w] \in CreateSteps \cup DeleteSteps
        BY <1>0, <3>3, StepOrder, Zenon DEF Active, TypeOK, WorkTypeOK
      <4>2. pc[w] \notin DeleteSteps
        BY <1>0, <2>1, <3>3, StepFrame, Zenon DEF Safe, LockInv, Deleting
      <4> QED BY <2>1, <3>3, <4>1, <4>2, Zenon DEF Safe, LockInv
    <3> QED BY <3>1, <3>2, <3>3, Zenon
  <2> QED BY <1>0, <1>1, <2>1, <2>2, DeletingStep, Zenon DEF HasLV
<1>2. CASE promised'[id] # promised[id]
  <2>1. /\ Id(w) \in Ids /\ ~Deleting(Id(w))
        /\ promised' = [promised EXCEPT ![Id(w)] = req[w].asked]
        /\ HasLV(Id(w)) /\ UNCHANGED lvs
        /\ \A vg \in VGs : lvs[Id(w)][vg] > 0 => req[w].asked <= lvs[Id(w)][vg]
        /\ pmemVolumes'[Id(w)] # None
    BY <1>2, ConfirmedFact, Zenon
  <2>2. id = Id(w) /\ promised'[id] = req[w].asked
    BY <1>0, <1>2, <2>1, Zenon DEF TypeOK, ProcTypeOK
  <2>3. ~Deleting(id)'
    BY <1>0, <2>1, <2>2, DeletingStep, Zenon
  <2> QED BY <2>1, <2>2, <2>3, ZenonT(40) DEF HasLV
<1> QED BY <1>1, <1>2

\* Every step preserves PromiseInv.
LEMMA PromiseStep ==
    ASSUME DistinctIDs, NoLeakFaults, Safe, SizeInv, PromiseInv, [Next]_vars
    PROVE  PromiseInv'
<1>0. TypeOK
  BY Zenon DEF Safe
<1>1. CASE UNCHANGED vars
  BY <1>1, Zenon DEF PromiseInv, Deleting, HasLV, Id, vars, storeVars, lvmVars, procVars, workVars
<1>2. ASSUME NEW w \in Workers, NEW r \in Requests, Call(w, r)
      PROVE  PromiseInv'
  <2> SUFFICES ASSUME NEW id \in Ids, promised'[id] > 0
               PROVE  ~Deleting(id)' /\ promised'[id] = promised[id] /\ UNCHANGED <<lvs, up, pmemVolumes>>
    BY Zenon DEF PromiseInv, HasLV
  <2>1. UNCHANGED <<lvs, up, pmemVolumes>>
    BY <1>2, Zenon DEF Call, lvmVars, procVars
  <2>2. r.op \in {"create", "delete"} /\ volumeID[r.name] \in Ids
    BY NodeControllerAssumption, Zenon DEF Requests
  <2>3. promised'[id] = promised[id] /\ (r.op = "delete" => volumeID[r.name] # id)
    BY <1>0, <1>2, <2>2 DEF Call, TypeOK, ProcTypeOK
  <2>4. ~Deleting(id)
    BY <2>3, Zenon DEF PromiseInv
  <2>5. /\ req'[w] = r
        /\ \A v \in Workers \ {w} : pc'[v] = pc[v] /\ req'[v] = req[v]
    BY <1>0, <1>2, Zenon DEF Call, Goto, TypeOK, WorkTypeOK
  <2>6. ~Deleting(id)'
    BY <2>3, <2>4, <2>5, Zenon DEF Deleting, Id
  <2> QED BY <2>1, <2>3, <2>6, Zenon
<1>3. ASSUME NEW w \in Workers, LockKey(w)
      PROVE  PromiseInv'
  <2>1. UNCHANGED <<lvs, up, pmemVolumes, promised>>
    BY <1>3, Zenon DEF LockKey, lvmVars, procVars
  <2> QED BY <1>0, <1>3, <2>1, DeletingStep, Zenon DEF PromiseInv, HasLV
<1>4. ASSUME NEW w \in Workers, Step(w)
      PROVE  PromiseInv'
  <2>1. up
    BY <1>0, <1>4, StepFrame, Zenon DEF Safe, StoppedInv, Serving
  <2> QED BY <1>4, <2>1, PromiseHandlerStep, Zenon
<1>5. CASE Crash \/ PowerLoss
  <2>1. /\ UNCHANGED <<lvs, promised>> /\ ~up'
        /\ \A w \in Workers : pc'[w] = "idle"
    BY <1>5 DEF Crash, PowerLoss, Safe, StoppedInv, Serving, lvmVars, procVars, workVars
  <2> QED BY <2>1, Zenon DEF PromiseInv, HasLV, Deleting
<1>6. CASE Restart
  <2>1. /\ UNCHANGED <<lvs, promised>>
        /\ \A w \in Workers : pc'[w] = "idle"
    <3>1. ~up /\ UNCHANGED <<lvs, promised, pc>>
      BY <1>6, Zenon DEF Restart, LvLoad, workVars
    <3>2. \A w \in Workers : pc[w] = "idle"
      BY <3>1, Zenon DEF Safe, StoppedInv, Serving
    <3> QED BY <3>1, <3>2, Zenon
  <2>2. ASSUME NEW id \in Ids, HasLV(id) PROVE pmemVolumes'[id] # None
    <3>1. entry[id] # None
      BY <2>2, Zenon DEF Safe, LeakInv, NoLeak, HasLV
    <3>2. ListedDevice(id) # 0
      BY <1>0, <2>2, ListedDeviceFact DEF TypeOK, HasLV
    <3> QED BY <1>6, <3>1, <3>2, Zenon DEF Restart, NoLeakFaults
  <2> QED BY <2>1, <2>2, Zenon DEF PromiseInv, HasLV, Deleting
<1>7. ASSUME NEW i \in Ids, Cleanup(i)
      PROVE  PromiseInv'
  BY <1>7, Zenon DEF Cleanup, PromiseInv, HasLV, Deleting, Id, lvmVars, workVars
<1> QED BY <1>1, <1>2, <1>3, <1>4, <1>5, <1>6, <1>7, Zenon DEF Next

\* Only the failures of CreateDevice lead to an undo.
LEMMA UndoStep ==
    ASSUME Safe, UndoInv, [Next]_vars
    PROVE  UndoInv'
<1>0. TypeOK
  BY DEF Safe
<1>1. CASE UNCHANGED vars
  BY <1>1, Zenon DEF UndoInv, vars, workVars
<1>2. ASSUME NEW w \in Workers, NEW r \in Requests, Call(w, r)
      PROVE  UndoInv'
  BY <1>0, <1>2, Zenon DEF UndoInv, Call, Goto, TypeOK, WorkTypeOK
<1>3. ASSUME NEW w \in Workers, LockKey(w) \/ Step(w)
      PROVE  UndoInv'
  <2>1. \A v \in Workers \ {w} : pc'[v] = pc[v] /\ status'[v] = status[v]
    <3>1. \A v \in Workers \ {w} : pc'[v] = pc[v]
      BY <1>0, <1>3, StepFrame, Zenon
    <3>2. \A v \in Workers \ {w} : status'[v] = status[v]
      BY <1>0, <1>3, StepSize, ZenonT(30)
    <3> QED BY <3>1, <3>2, Zenon
  <2>2. pc'[w] = "undo" => status'[w] \in {"Internal", "ResourceExhausted"}
    BY <1>0, <1>3, Zenon DEF LockKey, Step, CreateLookup, SmCreate, CreateLV, ClearLV, SmUpdate,
                             Register, UndoCreate,
          DeleteLookup, Wipe, RemoveLV, SmDelete, Unregister, Undo, Goto, Return, ReturnVolume, TypeOK, WorkTypeOK
  <2> QED BY <2>1, <2>2, Zenon DEF UndoInv
<1>4. CASE Crash \/ PowerLoss \/ Restart
  BY <1>4, Zenon DEF Crash, PowerLoss, Restart, Safe, StoppedInv, Serving, UndoInv, workVars
<1>5. ASSUME NEW i \in Ids, Cleanup(i)
      PROVE  UndoInv'
  BY <1>5 DEF Cleanup, UndoInv, workVars
<1> QED BY <1>1, <1>2, <1>3, <1>4, <1>5, Zenon DEF Next

\* The inductive invariant of the node controller, for every number of volumes,
\* workers, volume groups and sizes.
THEOREM IndInvHolds ==
    ASSUME DistinctIDs, NoLeakFaults
    PROVE  Spec => []IndInv
<1>1. Init => IndInv
  <2>1. Init => BackedInv /\ LeakInv
    BY DEF Init, LvmInit, BackedInv, LeakInv, NoLeak, HasLV
  <2>2. Init => SizeInv
    BY DEF Init, SizeInv, Fits
  <2>3. Init => PromiseInv /\ UndoInv
    BY DEF Init, PromiseInv, UndoInv
  <2> QED BY <2>1, <2>2, <2>3, InitLock, Zenon DEF IndInv
<1>2. TypeOK /\ IndInv /\ [Next]_vars => IndInv'
  BY SafeStep, SizeStep, PromiseStep, UndoStep, Zenon DEF IndInv, Safe
<1> QED BY <1>1, <1>2, TypeCorrect, PTL DEF Spec

\* A volume that CreateVolume confirmed survives all failures of other calls,
\* crashes, power losses and restarts until somebody asks for its deletion.
THEOREM PromiseKeptHolds ==
    ASSUME DistinctIDs, NoLeakFaults
    PROVE  Spec => []PromiseKept
<1>1. ASSUME TypeOK, IndInv PROVE PromiseKept
  <2>0. Safe /\ LvmTypeOK
    BY <1>1 DEF Safe, IndInv, TypeOK
  <2> SUFFICES ASSUME NEW id \in Ids, promised[id] > 0
               PROVE  LET actual == lvs[id][ListedDevice(id)] IN
                      /\ ListedDevice(id) # 0 /\ actual >= promised[id]
                      /\ entry[id] # None /\ actual >= entry[id].size
                      /\ up => /\ pmemVolumes[id] # None /\ actual >= pmemVolumes[id].size
                               /\ devices[id] = ListedDevice(id)
    BY Zenon DEF PromiseKept
  <2>1. /\ ~Deleting(id) /\ HasLV(id)
        /\ \A vg \in VGs : lvs[id][vg] > 0 => promised[id] <= lvs[id][vg]
        /\ up => pmemVolumes[id] # None
    BY <1>1 DEF IndInv, PromiseInv
  <2>2. ListedDevice(id) \in VGs /\ lvs[id][ListedDevice(id)] > 0 /\ ListedDevice(id) # 0
    <3>1. ListedDevice(id) # 0
      BY <2>0, <2>1, ListedDeviceFact DEF HasLV
    <3> QED BY <2>0, <3>1, ListedDeviceFact, Zenon
  <2>3. lvs[id][ListedDevice(id)] \in Nat /\ promised[id] \in Nat
    <3>1. Sizes \cup {0} \subseteq Nat
      BY NodeControllerAssumption
    <3> QED BY <1>1, <2>2, <3>1, Zenon DEF TypeOK, LvmTypeOK, ProcTypeOK
  <2>4. entry[id] # None
    BY <1>1, <2>2, Zenon DEF IndInv, LeakInv, NoLeak
  <2>5. ASSUME NEW v \in Volumes, Fits(id, v, lvs[id])
        PROVE  lvs[id][ListedDevice(id)] >= v.size
    <3>1. v # None /\ v.size \in Nat
      BY NodeControllerAssumption, Zenon DEF Volumes
    <3> QED BY <2>2, <2>3, <2>5, <3>1, Zenon DEF Fits
  <2>6. /\ entry[id] \in Volumes /\ Fits(id, entry[id], lvs[id])
        /\ up => pmemVolumes[id] \in Volumes /\ Fits(id, pmemVolumes[id], lvs[id])
    <3>1. entry[id] \in Volumes /\ (up => pmemVolumes[id] \in Volumes)
      BY <1>1, <2>1, <2>4, Zenon DEF TypeOK, StoreTypeOK, ProcTypeOK
    <3>2. Fits(id, entry[id], lvs[id]) /\ Fits(id, pmemVolumes[id], lvs[id])
      BY <1>1, Zenon DEF IndInv, SizeInv
    <3> QED BY <3>1, <3>2, Zenon
  <2>7. up => devices[id] = ListedDevice(id)
    BY <2>0, <2>1, KnownHasLV, Zenon
  <2>8. lvs[id][ListedDevice(id)] >= promised[id]
    BY <2>1, <2>2, <2>3, ZenonT(40)
  <2> QED BY <2>1, <2>2, <2>4, <2>5, <2>6, <2>7, <2>8, Zenon
<1> QED BY <1>1, IndInvHolds, TypeCorrect, PTL

-----------------------------------------------------------------------------
\* What a handler's callers see does not change before it returns.
LEMMA SameCalls ==
    ASSUME NEW w \in Workers, pc[w] # "idle", pc'[w] # "idle", req'[w] = req[w],
           \A v \in Workers \ {w} : pc'[v] = pc[v] /\ req'[v] = req[v] /\ status'[v] = status[v]
    PROVE  UNCHANGED <<Handled, Replied>>
<1>1. \A v \in Workers : Handled'[v] = Handled[v]
  BY Zenon DEF Handled, Id
<1>2. \A v \in Workers : Replied'[v] = Replied[v]
  BY DEF Replied
<1> QED BY <1>1, <1>2, ZenonT(40) DEF Handled, Replied

\* A handler that returns ends its call.
LEMMA CallEnds ==
    ASSUME TypeOK, NEW w \in Workers, pc[w] # "idle", pc'[w] = "idle", status'[w] # None,
           \A v \in Workers \ {w} : pc'[v] = pc[v] /\ req'[v] = req[v] /\ status'[v] = status[v]
    PROVE  Service!End(w, IF status'[w] = "OK" THEN "OK" ELSE "error")
<1>1. Handled[w] # None
  <2>1. Id(w) \in Ids /\ req[w].op \in {"create", "delete"}
    BY RequestFact, Zenon DEF Requests
  <2> QED BY <2>1, NodeControllerAssumption DEF Handled
<1>2. Handled' = [Handled EXCEPT ![w] = None]
  <2>1. \A v \in Workers : Handled'[v] = IF v = w THEN None ELSE Handled[v]
    BY DEF Handled, Id
  <2> QED BY <2>1, Zenon DEF Handled
<1>3. Replied' = [Replied EXCEPT ![w] = IF status'[w] = "OK" THEN "OK" ELSE "error"]
  <2>1. \A v \in Workers : Replied'[v] = IF v = w THEN IF status'[w] = "OK" THEN "OK" ELSE "error"
                                                  ELSE Replied[v]
    BY DEF Replied
  <2> QED BY <2>1, Zenon DEF Replied
<1> QED BY <1>1, <1>2, <1>3, Zenon DEF Service!End

\* What a returning handler leaves behind: a success has had its effect, a
\* failure has had none.
LEMMA Returned ==
    ASSUME DistinctIDs, Safe, SizeInv, UndoInv, up, NEW w \in Workers, Step(w), pc'[w] = "idle"
    PROVE  /\ status'[w] # None
           /\ status'[w] # "OK" => UNCHANGED pmemVolumes
           /\ status'[w] = "OK" /\ req[w].op = "create" =>
                 \A id \in Ids : pmemVolumes'[id] # None <=> pmemVolumes[id] # None \/ id = Id(w)
           /\ status'[w] = "OK" /\ req[w].op # "create" =>
                 \A id \in Ids : pmemVolumes'[id] # None <=> pmemVolumes[id] # None /\ id # Id(w)
<1>0. TypeOK
  BY Zenon DEF Safe
<1>1. /\ pc[w] # "idle" /\ Id(w) \in Ids /\ Vol(w) \in Volumes /\ Vol(w) # None
      /\ pmemVolumes \in [Ids -> Volumes \cup {None}]
      /\ pc \in [Workers -> {"idle", "lock", "lookup"} \cup CreateSteps \cup DeleteSteps]
      /\ status \in [Workers -> Statuses \cup {None}]
  BY <1>0, StepBusy, NodeControllerAssumption, ZenonT(40) DEF TypeOK, ProcTypeOK, WorkTypeOK
<1>2. /\ None \notin Statuses /\ "OK" # None
      /\ \A s \in Statuses : s # None
  BY NodeControllerAssumption, Zenon DEF Statuses
<1>3. CASE CreateLookup(w)
  <2>1. req[w].op = "create" /\ UNCHANGED pmemVolumes
    BY <1>3, Zenon DEF CreateLookup, procVars
  <2>2. CASE \E id \in getVolumeByName(req[w].name) : ReturnVolume(w)
    <3>1. PICK k \in getVolumeByName(req[w].name) : ReturnVolume(w)
      BY <2>2
    <3>2. k \in Ids /\ pmemVolumes[k] # None /\ pmemVolumes[k].name = req[w].name
      BY <3>1, Zenon DEF getVolumeByName
    <3>3. Fits(k, pmemVolumes[k], lvs[k])
      BY <3>2 DEF SizeInv
    <3>4. k = Id(w)
      BY <3>2, <3>3, Zenon DEF Fits, Id
    <3>5. status'[w] = "OK"
      BY <1>1, <3>1, Zenon DEF ReturnVolume, Return
    <3> QED BY <1>2, <2>1, <3>2, <3>4, <3>5, Zenon
  <2>3. CASE \E s \in {"AlreadyExists", "Internal"} : Return(w, s)
    <3>1. status'[w] \in {"AlreadyExists", "Internal"}
      BY <1>1, <2>3, Zenon DEF Return
    <3> QED BY <1>2, <2>1, <3>1, Zenon DEF Statuses
  <2>4. CASE Goto(w, "smCreate")
    BY <1>1, <2>4, Zenon DEF Goto
  <2> QED BY <1>3, <2>2, <2>3, <2>4, Zenon DEF CreateLookup
<1>4. CASE Register(w)
  <2>1. /\ pc[w] = "register" /\ pmemVolumes' = [pmemVolumes EXCEPT ![Id(w)] = Vol(w)]
        /\ status'[w] = "OK"
    BY <1>1, <1>4, Zenon DEF Register, ReturnVolume, Return
  <2>2. req[w].op = "create"
    BY <2>1, Zenon DEF Safe, LockInv, CreateSteps
  <2> QED BY <1>1, <1>2, <2>1, <2>2, Zenon
<1>5. CASE DeleteLookup(w)
  <2>1. req[w].op = "delete" /\ UNCHANGED pmemVolumes
    BY <1>5, Zenon DEF DeleteLookup, procVars
  <2>2. pmemVolumes[Id(w)] = None /\ status'[w] = "OK"
    BY <1>1, <1>5, Zenon DEF DeleteLookup, Return, Goto
  <2> QED BY <1>2, <2>1, <2>2, Zenon
<1>6. CASE Unregister(w)
  <2>1. /\ pc[w] = "unregister" /\ pmemVolumes' = [pmemVolumes EXCEPT ![Id(w)] = None]
        /\ status'[w] = "OK"
    BY <1>1, <1>6, Zenon DEF Unregister, Return
  <2>2. req[w].op = "delete"
    BY <2>1, Zenon DEF Safe, LockInv, DeleteSteps
  <2> QED BY <1>1, <1>2, <2>1, <2>2, Zenon
<1>7. CASE SmCreate(w) \/ CreateLV(w) \/ ClearLV(w) \/ SmUpdate(w)
  <2>1. UNCHANGED pmemVolumes
    BY <1>7, ZenonT(40) DEF SmCreate, CreateLV, ClearLV, SmUpdate, procVars
  <2>2. status'[w] = "Internal"
    BY <1>1, <1>7, Zenon DEF SmCreate, CreateLV, ClearLV, SmUpdate, Return, Goto, Undo
  <2> QED BY <1>2, <2>1, <2>2, Zenon DEF Statuses
<1>8. CASE UndoCreate(w)
  <2>1. UNCHANGED pmemVolumes /\ pc[w] = "undo" /\ status'[w] = status[w]
    BY <1>1, <1>8 DEF UndoCreate, Return, procVars
  <2>2. status'[w] \in {"Internal", "ResourceExhausted"}
    BY <2>1, Zenon DEF UndoInv
  <2> QED BY <1>2, <2>1, <2>2, Zenon DEF Statuses
<1>9. CASE Wipe(w) \/ RemoveLV(w) \/ SmDelete(w)
  <2>1. UNCHANGED pmemVolumes
    BY <1>9, Zenon DEF Wipe, RemoveLV, SmDelete, procVars
  <2>2. status'[w] \in {"Internal", "FailedPrecondition"}
    BY <1>1, <1>9, Zenon DEF Wipe, RemoveLV, SmDelete, Return, Goto
  <2> QED BY <1>2, <2>1, <2>2, Zenon DEF Statuses
<1> QED BY <1>3, <1>4, <1>5, <1>6, <1>7, <1>8, <1>9, Zenon DEF Step

\* A step of a handler is one of the service: it ends the call, or changes
\* nothing that callers see.
LEMMA ServiceHandlerStep ==
    ASSUME DistinctIDs, Safe, SizeInv, UndoInv, NEW w \in Workers, LockKey(w) \/ Step(w)
    PROVE  Service!Succeed(w) \/ Service!Fail(w) \/ UNCHANGED Service!serviceVars
<1>0. TypeOK
  BY DEF Safe
<1>1. pc[w] # "idle" /\ Id(w) \in Ids
  BY <1>0, StepBusy, Zenon
<1>2. up /\ up'
  <2>1. up
    BY <1>1, Zenon DEF Safe, StoppedInv, Serving
  <2> QED BY <1>0, <2>1, StepFrame, Zenon
<1>3. \A v \in Workers \ {w} : pc'[v] = pc[v] /\ req'[v] = req[v] /\ status'[v] = status[v]
  <2>1. \A v \in Workers \ {w} : pc'[v] = pc[v] /\ req'[v] = req[v]
    BY <1>0, StepFrame, Zenon
  <2>2. \A v \in Workers \ {w} : status'[v] = status[v]
    BY <1>0, StepSize, Zenon
  <2> QED BY <2>1, <2>2, Zenon
<1>4. /\ Existing = {id \in Ids : pmemVolumes[id] # None}
      /\ Existing' = {id \in Ids : pmemVolumes'[id] # None}
  BY <1>2, Zenon DEF Existing
<1>5. CASE pc'[w] # "idle"
  <2>1. req'[w] = req[w]
    BY <1>0, <1>5, StepFrame, Zenon
  <2>2. UNCHANGED <<Handled, Replied>>
    BY <1>1, <1>3, <1>5, <2>1, SameCalls, Zenon
  <2>3. UNCHANGED pmemVolumes
    <3>1. CASE LockKey(w) BY <3>1 DEF LockKey, procVars
    <3>2. CASE Step(w) BY <1>0, <1>5, <3>2, StepOrder, Zenon
    <3> QED BY <3>1, <3>2, Zenon
  <2>4. UNCHANGED Existing
    BY <1>4, <2>3, Zenon
  <2> QED BY <2>2, <2>4, Zenon DEF Service!serviceVars
<1>6. CASE pc'[w] = "idle"
  <2>1. Step(w)
    BY <1>0, <1>6, Zenon DEF LockKey, Goto, TypeOK, WorkTypeOK
  <2>2. /\ status'[w] # None
        /\ status'[w] # "OK" => UNCHANGED pmemVolumes
        /\ status'[w] = "OK" /\ req[w].op = "create" =>
              \A id \in Ids : pmemVolumes'[id] # None <=> pmemVolumes[id] # None \/ id = Id(w)
        /\ status'[w] = "OK" /\ req[w].op # "create" =>
              \A id \in Ids : pmemVolumes'[id] # None <=> pmemVolumes[id] # None /\ id # Id(w)
    BY <1>2, <1>6, <2>1, Returned, Zenon
  <2>3. Service!End(w, IF status'[w] = "OK" THEN "OK" ELSE "error")
    BY <1>0, <1>1, <1>3, <1>6, <2>2, CallEnds, ZenonT(40)
  <2>4. Handled[w].op = req[w].op /\ Handled[w].id = Id(w)
    BY <1>1, ZenonT(40) DEF Handled
  <2>5. CASE status'[w] # "OK"
    BY <1>4, <2>2, <2>3, <2>5, ZenonT(40) DEF Service!Fail
  <2>6. CASE status'[w] = "OK" /\ req[w].op = "create"
    <3>1. Existing' = Existing \cup {Id(w)}
      BY <1>1, <1>4, <2>2, <2>6, Zenon
    <3> QED BY <2>3, <2>4, <2>6, <3>1, Zenon DEF Service!Succeed
  <2>7. CASE status'[w] = "OK" /\ req[w].op # "create"
    <3>1. Existing' = Existing \ {Id(w)}
      BY <1>1, <1>4, <2>2, <2>7, Zenon
    <3> QED BY <2>3, <2>4, <2>7, <3>1, Zenon DEF Service!Succeed
  <2> QED BY <2>5, <2>6, <2>7, Zenon
<1> QED BY <1>5, <1>6, Zenon

\* A request begins a call.
LEMMA ServiceCall ==
    ASSUME TypeOK, NEW w \in Workers, NEW r \in Requests, Call(w, r)
    PROVE  Service!Begin(w)
<1>1. /\ pc[w] = "idle" /\ pc'[w] = "lock" /\ req'[w] = r /\ status'[w] = None
      /\ \A v \in Workers \ {w} : pc'[v] = pc[v] /\ req'[v] = req[v] /\ status'[v] = status[v]
  BY DEF Call, Goto, TypeOK, WorkTypeOK
<1> DEFINE c == [op |-> r.op, id |-> volumeID[r.name]]
<1>2. c \in Service!Calls
  <2>1. r.op \in {"create", "delete"} /\ r.name \in Names
    BY Zenon DEF Requests
  <2> QED BY <2>1, NodeControllerAssumption, Zenon DEF Service!Calls
<1>3. Handled[w] = None
  BY <1>1, Zenon DEF Handled
<1>4. Handled' = [Handled EXCEPT ![w] = c]
  <2>1. \A v \in Workers : Handled'[v] = IF v = w THEN c ELSE Handled[v]
    BY <1>1, Zenon DEF Handled, Id
  <2> QED BY <2>1, Zenon DEF Handled
<1>5. Replied' = [Replied EXCEPT ![w] = None]
  <2>1. \A v \in Workers : Replied'[v] = IF v = w THEN None ELSE Replied[v]
    BY <1>1, Zenon DEF Replied
  <2> QED BY <2>1, Zenon DEF Replied
<1>6. UNCHANGED Existing
  <2>1. UNCHANGED <<up, pmemVolumes, entry, lvs>>
    BY Zenon DEF Call, procVars, storeVars, lvmVars
  <2> QED BY <2>1 DEF Existing, Recoverable, ListedDevice
<1> QED BY <1>2, <1>3, <1>4, <1>5, <1>6, Zenon DEF Service!Begin

\* The state entry of a known volume with an LV is removed only by its delete.
LEMMA CrashEntries ==
    ASSUME TypeOK, StoppedInv, LockInv, Crash, up,
           NEW id \in Ids, pmemVolumes[id] # None, entry[id] # None, entry'[id] = None
    PROVE  \E w \in Workers : pc[w] = "smDelete" /\ Id(w) = id
<1>1. CASE UNCHANGED storeVars
  BY <1>1, Zenon DEF storeVars
<1>2. ASSUME NEW w \in Workers, pc[w] \in {"smCreate", "smUpdate"},
             SMCreate(Id(w), Vol(w)) \/ SMCreateFails(Id(w), Vol(w))
      PROVE  FALSE
  <2>1. Id(w) \in Ids /\ Vol(w) \in Volumes /\ Vol(w) # None
    BY <1>2, RequestFact, NodeControllerAssumption, Zenon
  <2> QED BY <1>2, <2>1, Zenon DEF TypeOK, StoreTypeOK, SMCreate, SMCreateFails, Replace,
                                   ReplaceAndSync, storeVars
<1>3. ASSUME NEW w \in Workers, pc[w] \in {"undo", "smDelete"}, SMDelete(Id(w)) \/ SMDeleteFails(Id(w))
      PROVE  pc[w] = "smDelete" /\ Id(w) = id
  <2>1. Id(w) \in Ids
    BY <1>3, RequestFact, Zenon
  <2>2. Id(w) = id
    BY <1>3, <2>1, StoreDeleteLocal, Zenon DEF TypeOK
  <2> QED BY <1>3, <2>2, Zenon DEF LockInv, CreateSteps
<1>4. ASSUME NEW i \in cleanupList, SMDelete(i) \/ SMDeleteFails(i)
      PROVE  FALSE
  <2>1. i \in Ids /\ i # id
    BY DEF TypeOK, ProcTypeOK, StoppedInv
  <2> QED BY <1>4, <2>1, StoreDeleteLocal, Zenon DEF TypeOK
<1> QED BY <1>1, <1>2, <1>3, <1>4, ZenonT(40) DEF Crash

\* A crash ends all calls; what exists after it differs only by calls that were
\* in progress.
LEMMA CrashService ==
    ASSUME DistinctIDs, Safe, Crash
    PROVE  Service!ServiceCrash
<1>0. TypeOK /\ up /\ ~up' /\ UNCHANGED lvs
  BY Zenon DEF Safe, Crash
<1>1. \A w \in Workers : pc'[w] = "idle" /\ status'[w] = IF pc[w] = "idle" THEN status[w] ELSE None
  BY Zenon DEF Crash
<1>2. Handled' = [w \in Workers |-> None]
  BY <1>1, Zenon DEF Handled
<1>3. \A w \in Workers : Handled[w] = None <=> pc[w] = "idle"
  <2> SUFFICES ASSUME NEW w \in Workers, pc[w] # "idle" PROVE Handled[w] # None
    BY Zenon DEF Handled
  <2>1. Id(w) \in Ids /\ req[w].op \in {"create", "delete"}
    BY <1>0, RequestFact, Zenon DEF Requests
  <2> QED BY <2>1, NodeControllerAssumption DEF Handled
<1>4. Replied' = [w \in Workers |-> IF Handled[w] = None THEN Replied[w] ELSE None]
  <2>1. \A w \in Workers : Replied'[w] = IF Handled[w] = None THEN Replied[w] ELSE None
    BY <1>1, <1>3, Zenon DEF Replied
  <2> QED BY <2>1, Zenon DEF Replied
<1>5. /\ Existing = {id \in Ids : pmemVolumes[id] # None}
      /\ Existing' = {id \in Ids : entry'[id] # None /\ ListedDevice(id) # 0}
  BY <1>0 DEF Existing, Recoverable, ListedDevice
<1>6. ASSUME NEW w \in Workers, NEW op \in {"create", "delete"}, pc[w] # "idle", req[w].op = op
      PROVE  Id(w) \in Service!Called(op)
  <2>1. Handled[w] # None /\ Handled[w].op = op /\ Handled[w].id = Id(w)
    BY <1>3, <1>6, Zenon DEF Handled
  <2> QED BY <2>1, Zenon DEF Service!Called
<1>7. Existing' \ Existing \in SUBSET Service!Called("create")
  <2> SUFFICES ASSUME NEW id \in Ids, pmemVolumes[id] = None, ListedDevice(id) # 0
               PROVE  id \in Service!Called("create")
    BY <1>5
  <2>1. HasLV(id)
    BY <1>0, ListedDeviceFact, Zenon DEF TypeOK, HasLV
  <2>2. PICK w \in Workers : pc[w] \in {"clear", "smUpdate", "register"} /\ Id(w) = id
    BY <1>0, <2>1, Zenon DEF Safe, LeakInv
  <2>3. pc[w] # "idle" /\ req[w].op = "create"
    BY <2>2, Zenon DEF Safe, LockInv, CreateSteps
  <2> QED BY <1>6, <2>2, <2>3
<1>8. Existing \ Existing' \in SUBSET Service!Called("delete")
  <2> SUFFICES ASSUME NEW id \in Ids, pmemVolumes[id] # None, entry'[id] = None \/ ListedDevice(id) = 0
               PROVE  id \in Service!Called("delete")
    BY <1>5
  <2>1. ASSUME NEW w \in Workers, pc[w] \in {"smDelete", "unregister"}, Id(w) = id
        PROVE  id \in Service!Called("delete")
    <3>1. pc[w] # "idle" /\ req[w].op = "delete"
      BY <2>1, Zenon DEF Safe, LockInv, DeleteSteps
    <3> QED BY <1>6, <2>1, <3>1, Zenon
  <2>2. CASE Backed(id)
    <3>1. HasLV(id)
      BY <1>0, <2>2, LvmAssumption, SMTT(20) DEF Backed, HasLV, TypeOK, LvmTypeOK, VGs
    <3>2. ListedDevice(id) # 0
      BY <1>0, <3>1, ListedDeviceFact DEF TypeOK, HasLV
    <3>3. entry[id] # None /\ entry'[id] = None
      BY <2>2, <3>2, Zenon DEF Backed
    <3>4. \E w \in Workers : pc[w] = "smDelete" /\ Id(w) = id
      BY <1>0, <3>3, CrashEntries DEF Safe
    <3> QED BY <2>1, <3>4, Zenon
  <2> QED BY <2>1, <2>2, Zenon DEF Safe, BackedInv
<1>9. Existing' = (Existing \cup (Existing' \ Existing)) \ (Existing \ Existing')
  OBVIOUS
<1> QED BY <1>2, <1>4, <1>7, <1>8, <1>9, Zenon DEF Service!ServiceCrash

\* Power loss, restart and the removal of orphaned entries change nothing that
\* callers see.
LEMMA ServiceIdle ==
    ASSUME NoLeakFaults, Safe, PowerLoss \/ Restart \/ \E i \in Ids : Cleanup(i)
    PROVE  UNCHANGED Service!serviceVars
<1>0. TypeOK
  BY Zenon DEF Safe
<1>1. UNCHANGED <<Handled, Replied>>
  <2>1. UNCHANGED <<pc, req, status>>
    BY DEF PowerLoss, Restart, Cleanup, workVars
  <2> QED BY <2>1, Zenon DEF Handled, Replied, Id
<1>2. CASE PowerLoss
  <2>1. ~up /\ ~up' /\ UNCHANGED lvs /\ \A id \in Ids : entry'[id] \in {entry[id]} \cup unsynced[id]
    BY <1>2, Zenon DEF PowerLoss, SMPowerLoss, lvmVars, procVars
  <2>2. ASSUME NEW id \in Ids, ListedDevice(id) # 0
        PROVE  entry[id] # None /\ entry'[id] # None
    <3>1. ListedDevice(id) \in VGs /\ lvs[id][ListedDevice(id)] > 0
      BY <1>0, <2>2, ListedDeviceFact, Zenon DEF TypeOK
    <3>2. entry[id] # None /\ None \notin unsynced[id]
      BY <3>1, Zenon DEF Safe, LeakInv, NoLeak
    <3> QED BY <2>1, <3>2
  <2>3. UNCHANGED Existing
    <3>1. Existing = Recoverable /\ Existing' = Recoverable'
      BY <2>1 DEF Existing
    <3>2. Recoverable' = {id \in Ids : entry'[id] # None /\ ListedDevice(id) # 0}
      BY <2>1, Zenon DEF Recoverable, ListedDevice
    <3> QED BY <2>2, <3>1, <3>2, Zenon DEF Recoverable
  <2> QED BY <1>1, <2>3, Zenon DEF Service!serviceVars
<1>3. CASE Restart
  <2>1. ~up /\ up'
    BY <1>3 DEF Restart
  <2>2. pmemVolumes' = [id \in Ids |-> IF ListedDevice(id) # 0 THEN entry[id] ELSE None]
    BY <1>3 DEF Restart, NoLeakFaults
  <2>3. \A id \in Ids : pmemVolumes'[id] # None <=> entry[id] # None /\ ListedDevice(id) # 0
    BY <2>2, Zenon
  <2>4. UNCHANGED Existing
    BY <2>1, <2>3, Zenon DEF Existing, Recoverable
  <2> QED BY <1>1, <2>4 DEF Service!serviceVars
<1>4. CASE \E i \in Ids : Cleanup(i)
  <2>1. up /\ up' /\ UNCHANGED pmemVolumes
    BY <1>4 DEF Cleanup
  <2>2. UNCHANGED Existing
    BY <2>1 DEF Existing
  <2> QED BY <1>1, <2>2 DEF Service!serviceVars
<1> QED BY <1>2, <1>3, <1>4

\* For their callers CreateVolume and DeleteVolume are atomic: NodeController,
\* for every number of names, handlers, volume groups and sizes, implements
\* the volume service.
THEOREM ImplementsServiceHolds ==
    ASSUME DistinctIDs, NoLeakFaults
    PROVE  Spec => ImplementsService
<1>1. Init => Service!ServiceInit
  BY DEF Init, Service!ServiceInit, Existing, Handled, Replied
<1>2. TypeOK /\ IndInv /\ [Next]_vars => [Service!ServiceNext]_(Service!serviceVars)
  <2> SUFFICES ASSUME TypeOK, IndInv, [Next]_vars
               PROVE  Service!ServiceNext \/ UNCHANGED Service!serviceVars
    OBVIOUS
  <2>0. Safe /\ SizeInv /\ UndoInv
    BY DEF Safe, IndInv
  <2>1. CASE UNCHANGED vars
    <3>1. UNCHANGED <<up, pmemVolumes, entry, lvs, pc, req, status>>
      BY <2>1, Zenon DEF vars, storeVars, lvmVars, procVars, workVars
    <3>2. UNCHANGED <<Existing, Handled, Replied>>
      BY <3>1 DEF Existing, Recoverable, ListedDevice, Handled, Replied, Id
    <3> QED BY <3>2 DEF Service!serviceVars
  <2>2. ASSUME NEW w \in Workers, LockKey(w) \/ Step(w)
        PROVE  Service!ServiceNext \/ UNCHANGED Service!serviceVars
    BY <2>0, <2>2, ServiceHandlerStep DEF Service!ServiceNext
  <2>3. ASSUME NEW w \in Workers, NEW r \in Requests, Call(w, r)
        PROVE  Service!ServiceNext
    BY <2>3, ServiceCall DEF Service!ServiceNext
  <2>4. CASE Crash
    BY <2>0, <2>4, CrashService DEF Service!ServiceNext
  <2>5. CASE PowerLoss \/ Restart \/ \E i \in Ids : Cleanup(i)
    BY <2>0, <2>5, ServiceIdle
  <2> QED BY <2>1, <2>2, <2>3, <2>4, <2>5 DEF Next
<1> QED BY <1>1, <1>2, IndInvHolds, TypeCorrect, PTL
        DEF Spec, ImplementsService, Service!ServiceSpec

-----------------------------------------------------------------------------
(* GetCapacity.  What the loop over the volume groups computes is shown by *)
(* looking at the smallest number of groups for which it would be wrong.   *)

\* Every set of numbers has a smallest one.
LEMMA LeastNumber ==
    ASSUME NEW S, S \subseteq Nat, S # {}
    PROVE  \E x \in S : \A y \in S : x <= y
<1>1. PICK x \in S : \A y \in S : ~(<<y, x>> \in OpToRel(<, Nat))
  BY NatLessThanWellFounded, WFMin, Zenon
<1>2. ASSUME NEW y \in S PROVE x <= y
  <2>1. x \in Nat /\ y \in Nat
    OBVIOUS
  <2>2. y < x => <<y, x>> \in OpToRel(<, Nat)
    BY <2>1 DEF OpToRel
  <2>3. ~(y < x)
    BY <1>1, <2>2, Zenon
  <2> QED BY <2>1, <2>3
<1> QED BY <1>2

\* One turn of the loop over the VGs in GetCapacity.
Larger(vg, most) == IF VGFree(vg) > most THEN (VGFree(vg) \div lvmAlign) * lvmAlign ELSE most

\* What the loop has found after each of the first n VGs.
Found(f, n) == f = [vg \in 0 .. n |-> IF vg = 0 THEN 0 ELSE Larger(vg, f[vg - 1])]

\* The loop ends with a result.
LEMMA FoundExists == \A n \in Nat : \E f : Found(f, n)
<1> DEFINE D == {n \in Nat : ~ \E f : Found(f, n)}
<1>1. SUFFICES ASSUME D # {} PROVE FALSE
  OBVIOUS
<1>2. PICK n \in D : \A m \in D : n <= m
  <2>1. D \subseteq Nat
    OBVIOUS
  <2> HIDE DEF D
  <2> QED BY <1>1, <2>1, LeastNumber, Zenon
<1>3. CASE n = 0
  <2> DEFINE g == [vg \in 0 .. n |-> 0]
  <2>1. \A vg \in 0 .. n : vg = 0
    BY <1>3
  <2>2. Found(g, n)
    BY <2>1 DEF Found
  <2> QED BY <2>2
<1>4. CASE n # 0
  <2>1. n \in Nat /\ n - 1 \in Nat
    BY <1>4
  <2>2. n - 1 \notin D
    BY <1>2, <2>1
  <2>3. PICK f : Found(f, n - 1)
    BY <2>1, <2>2
  <2> DEFINE g == [vg \in 0 .. n |-> IF vg = n THEN Larger(n, f[n - 1]) ELSE f[vg]]
             h == [vg \in 0 .. n |-> IF vg = 0 THEN 0 ELSE Larger(vg, g[vg - 1])]
  <2>4. \A vg \in 0 .. n - 1 : f[vg] = IF vg = 0 THEN 0 ELSE Larger(vg, f[vg - 1])
    BY <2>3, Zenon DEF Found
  <2>5. ASSUME NEW vg \in 0 .. n PROVE g[vg] = h[vg]
    <3>1. vg # 0 => vg - 1 \in 0 .. n /\ vg - 1 # n
      BY <2>1
    <3>2. vg # 0 => g[vg - 1] = f[vg - 1]
      BY <3>1
    <3>3. vg # n => vg \in 0 .. n - 1
      BY <2>1
    <3> QED BY <1>4, <2>4, <3>2, <3>3
  <2>6. g = h
    BY <2>5, Zenon
  <2>7. Found(g, n)
    BY <2>6, Zenon DEF Found
  <2> QED BY <2>7
<1> QED BY <1>3, <1>4, Zenon

\* MaxVolumeSize is what the loop finds.
LEMMA MaxFound == \E f : Found(f, NumVGs) /\ MaxVolumeSize = f[NumVGs]
<1> DEFINE F(f) == f = [vg \in 0 .. NumVGs |->
                          IF vg = 0 THEN 0
                          ELSE IF VGFree(vg) > f[vg - 1]
                                 THEN (VGFree(vg) \div lvmAlign) * lvmAlign
                                 ELSE f[vg - 1]]
<1>1. \E f : F(f)
  <2>1. PICK f : Found(f, NumVGs)
    BY FoundExists, LvmAssumption
  <2>2. F(f)
    BY <2>1, Zenon DEF Found, Larger
  <2> QED BY <2>2, Zenon
<1>2. F(CHOOSE f : F(f))
  BY <1>1, Zenon
<1>3. MaxVolumeSize = (CHOOSE f : F(f))[NumVGs]
  BY DEF MaxVolumeSize
<1>4. Found(CHOOSE f : F(f), NumVGs)
  BY <1>2, Zenon DEF Found, Larger
<1> QED BY <1>3, <1>4, Zenon

\* The sum of the sizes of the LVs in a VG, for all sets of up to n LVs.
Pick(ids) == CHOOSE id \in ids : TRUE

UpTo(n) == {ids \in SUBSET Ids : Cardinality(ids) <= n}

Summed(f, vg, n) ==
    f = [ids \in UpTo(n) |-> IF ids = {} THEN 0 ELSE lvs[Pick(ids)][vg] + f[ids \ {Pick(ids)}]]

\* Taking one ID out of a set of IDs.
LEMMA OneLess ==
    ASSUME NEW n \in Nat, NEW ids \in UpTo(n), ids # {}
    PROVE  Pick(ids) \in Ids /\ n # 0 /\ ids \ {Pick(ids)} \in UpTo(n - 1)
<1>1. ids \in SUBSET Ids /\ Cardinality(ids) <= n
  BY DEF UpTo
<1>2. Pick(ids) \in ids
  BY DEF Pick
<1>3. IsFiniteSet(ids)
  BY <1>1, LvmAssumption, FS_Subset
<1>4. Cardinality(ids) \in Nat
  BY <1>3, FS_CardinalityType
<1>5. Cardinality(ids) # 0
  BY <1>3, FS_EmptySet, Zenon
<1>6. Cardinality(ids \ {Pick(ids)}) = Cardinality(ids) - 1
  BY <1>2, <1>3, FS_RemoveElement, Zenon
<1>7. n # 0 /\ Cardinality(ids \ {Pick(ids)}) <= n - 1
  BY <1>1, <1>4, <1>5, <1>6
<1>8. ids \ {Pick(ids)} \in SUBSET Ids
  BY <1>1, Zenon
<1> QED BY <1>1, <1>2, <1>7, <1>8 DEF UpTo

\* The sets of up to Cardinality(Ids) IDs are all of them.
LEMMA UpToAll ==
    /\ Cardinality(Ids) \in Nat /\ UpTo(Cardinality(Ids)) = SUBSET Ids
    /\ \A m, n \in Nat : m <= n => UpTo(m) \subseteq UpTo(n)
<1>1. Cardinality(Ids) \in Nat
  BY LvmAssumption, FS_CardinalityType, Zenon
<1>2. \A ids \in SUBSET Ids : Cardinality(ids) \in Nat /\ Cardinality(ids) <= Cardinality(Ids)
  BY LvmAssumption, FS_Subset, FS_CardinalityType, Zenon
<1> QED BY <1>1, <1>2 DEF UpTo

\* The sum exists.
LEMMA SumExists ==
    ASSUME NEW vg
    PROVE  \A n \in Nat : \E f : Summed(f, vg, n)
<1> DEFINE D == {n \in Nat : ~ \E f : Summed(f, vg, n)}
<1>1. SUFFICES ASSUME D # {} PROVE FALSE
  BY Zenon
<1>2. PICK n \in D : \A m \in D : n <= m
  <2>1. D \subseteq Nat
    OBVIOUS
  <2> HIDE DEF D
  <2> QED BY <1>1, <2>1, LeastNumber, Zenon
<1>3. CASE n = 0
  <2> DEFINE g == [ids \in UpTo(n) |-> 0]
             h == [ids \in UpTo(n) |-> IF ids = {} THEN 0 ELSE lvs[Pick(ids)][vg] + g[ids \ {Pick(ids)}]]
  <2>1. ASSUME NEW ids \in UpTo(n) PROVE ids = {}
    BY <1>3, OneLess, Zenon
  <2>2. g = h
    BY <2>1
  <2>3. Summed(g, vg, n)
    BY <2>2, Zenon DEF Summed
  <2> QED BY <2>3, Zenon
<1>4. CASE n # 0
  <2>1. n \in Nat /\ n - 1 \in Nat
    BY <1>4
  <2>2. n - 1 \notin D
    BY <1>2, <2>1
  <2>3. PICK f : Summed(f, vg, n - 1)
    BY <2>1, <2>2
  <2> DEFINE g == [ids \in UpTo(n) |-> IF ids = {} THEN 0 ELSE lvs[Pick(ids)][vg] + f[ids \ {Pick(ids)}]]
             h == [ids \in UpTo(n) |-> IF ids = {} THEN 0 ELSE lvs[Pick(ids)][vg] + g[ids \ {Pick(ids)}]]
  <2>4. \A ids \in UpTo(n - 1) :
            /\ ids \in UpTo(n)
            /\ f[ids] = IF ids = {} THEN 0 ELSE lvs[Pick(ids)][vg] + f[ids \ {Pick(ids)}]
    <3>1. n - 1 <= n
      BY <2>1
    <3> QED BY <2>1, <2>3, <3>1, UpToAll, Zenon DEF Summed
  <2>5. \A ids \in UpTo(n - 1) : g[ids] = f[ids]
    BY <2>4, Zenon
  <2>6. \A ids \in UpTo(n) : ids # {} => g[ids \ {Pick(ids)}] = f[ids \ {Pick(ids)}]
    <3> HIDE DEF g
    <3> QED BY <2>1, <2>5, OneLess
  <2>7. g = h
    BY <2>6, Zenon
  <2>8. Summed(g, vg, n)
    BY <2>7, Zenon DEF Summed
  <2> QED BY <2>8
<1> QED BY <1>3, <1>4, Zenon

\* The sum is a number.
LEMMA SumNumber ==
    ASSUME LvmTypeOK, NEW vg \in VGs, NEW N \in Nat, NEW f, Summed(f, vg, N)
    PROVE  \A n \in 0 .. N : \A ids \in UpTo(n) : f[ids] \in Nat
<1> DEFINE D == {n \in 0 .. N : ~ \A ids \in UpTo(n) : f[ids] \in Nat}
<1>0. \A id \in Ids : lvs[id][vg] \in Nat
  BY DEF LvmTypeOK
<1>1. SUFFICES ASSUME D # {} PROVE FALSE
  OBVIOUS
<1>2. PICK n \in D : \A m \in D : n <= m
  <2>1. D \subseteq Nat
    OBVIOUS
  <2> HIDE DEF D
  <2> QED BY <1>1, <2>1, LeastNumber, Zenon
<1>3. PICK ids \in UpTo(n) : f[ids] \notin Nat
  BY Zenon
<1>4. ids \in UpTo(N)
  <2>1. n \in Nat /\ n <= N
    OBVIOUS
  <2> QED BY <2>1, UpToAll, Zenon
<1>5. f[ids] = IF ids = {} THEN 0 ELSE lvs[Pick(ids)][vg] + f[ids \ {Pick(ids)}]
  BY <1>4, Zenon DEF Summed
<1>6. CASE ids = {}
  BY <1>3, <1>5, <1>6
<1>7. CASE ids # {}
  <2>1. Pick(ids) \in Ids /\ n # 0 /\ ids \ {Pick(ids)} \in UpTo(n - 1)
    BY <1>7, OneLess
  <2>2. n - 1 \notin D
    BY <1>2, <2>1
  <2>3. n - 1 \in 0 .. N
    BY <2>1
  <2>4. f[ids \ {Pick(ids)}] \in Nat
    BY <2>1, <2>2, <2>3, Zenon
  <2>5. lvs[Pick(ids)][vg] \in Nat
    BY <1>0, <2>1, Zenon
  <2> QED BY <1>3, <1>5, <1>7, <2>4, <2>5
<1> QED BY <1>6, <1>7

\* What vgs reports as free is a number.
LEMMA FreeNumber ==
    ASSUME LvmTypeOK, NEW vg \in VGs
    PROVE  VGFree(vg) \in Int
<1> DEFINE F(f) == f = [s \in SUBSET Ids |->
                          IF s = {} THEN 0
                          ELSE lvs[CHOOSE x \in s : TRUE][vg] + f[s \ {CHOOSE x \in s : TRUE}]]
           n == Cardinality(Ids)
<1>1. n \in Nat /\ UpTo(n) = SUBSET Ids
  BY UpToAll, Zenon
<1> HIDE DEF n
<1>2. \A f : Summed(f, vg, n) <=> F(f)
  BY <1>1, Zenon DEF Summed, Pick
<1>3. \E f : F(f)
  BY <1>1, <1>2, SumExists, Zenon
<1> DEFINE sum == CHOOSE f : F(f)
<1>4. F(sum)
  BY <1>3, Zenon
<1>5. sum[Ids] \in Nat
  <2> HIDE DEF F, sum
  <2> QED BY <1>1, <1>2, <1>4, SumNumber
<1>6. VGFree(vg) = VGSize[vg] - sum[Ids]
  BY Zenon DEF VGFree, MapThenSumSet, MapThenFoldSet
<1> QED BY <1>5, <1>6, LvmAssumption

\* Multiples of the alignment.
LEMMA Units ==
    ASSUME NEW a \in Nat \ {0}, NEW i \in Nat, NEW k \in Nat
    PROVE  /\ i * a \in Nat
           /\ i <= k => i * a <= k * a
           /\ i * a < k * a + a => i <= k
<1>1. i * a \in Nat /\ k * a \in Nat
  OBVIOUS
<1>2. i <= k => i * a <= k * a
  <2>1. SUFFICES ASSUME i <= k PROVE i * a <= k * a
    OBVIOUS
  <2>2. PICK d \in Nat : k = i + d
    <3>1. k - i \in Nat /\ k = i + (k - i)
      BY <2>1
    <3> QED BY <3>1, Zenon
  <2>3. k * a = i * a + d * a /\ d * a >= 0
    BY <2>2
  <2> QED BY <1>1, <2>3
<1>3. i > k => i * a >= k * a + a
  <2>1. SUFFICES ASSUME i > k PROVE i * a >= k * a + a
    OBVIOUS
  <2>2. PICK d \in Nat : i = k + 1 + d
    <3>1. i - k - 1 \in Nat /\ i = k + 1 + (i - k - 1)
      BY <2>1
    <3> QED BY <3>1, Zenon
  <2>3. i * a = k * a + a + d * a /\ d * a >= 0
    BY <2>2
  <2> QED BY <1>1, <2>3
<1> QED BY <1>1, <1>2, <1>3

\* GetCapacity returns a number of units that fits into some VG, and no VG has
\* a unit more.
LEMMA MaxSizeFact ==
    ASSUME LvmTypeOK
    PROVE  \E k \in Nat :
              /\ MaxVolumeSize = k * lvmAlign
              /\ k = 0 \/ \E vg \in VGs : VGFree(vg) >= k * lvmAlign
              /\ \A vg \in VGs : VGFree(vg) < k * lvmAlign + lvmAlign
<1> DEFINE a == lvmAlign
           Largest(most, n) == \E k \in Nat :
                                  /\ most = k * a
                                  /\ k = 0 \/ \E vg \in 1 .. n : VGFree(vg) >= k * a
                                  /\ \A vg \in 1 .. n : VGFree(vg) < k * a + a
<1>0. a \in Nat \ {0} /\ NumVGs \in Nat
  BY LvmAssumption
<1>1. PICK f : Found(f, NumVGs) /\ MaxVolumeSize = f[NumVGs]
  BY MaxFound, Zenon
<1>2. \A vg \in 0 .. NumVGs : f[vg] = IF vg = 0 THEN 0 ELSE Larger(vg, f[vg - 1])
  BY <1>1, Zenon DEF Found
<1>3. \A vg \in VGs : VGFree(vg) \in Int
  BY FreeNumber
<1> DEFINE D == {n \in 0 .. NumVGs : ~Largest(f[n], n)}
<1>4. ASSUME D # {} PROVE FALSE
  <2>1. PICK n \in D : \A m \in D : n <= m
    <3>1. D \subseteq Nat
      BY <1>0
    <3> HIDE DEF D
    <3> QED BY <1>4, <3>1, LeastNumber, Zenon
  <2>2. n \in 0 .. NumVGs /\ ~Largest(f[n], n)
    OBVIOUS
  <2>3. CASE n = 0
    <3>1. f[n] = 0 * a
      BY <1>0, <1>2, <2>2, <2>3, SMTT(20)
    <3>2. Largest(f[n], n)
      BY <1>0, <2>3, <3>1
    <3> QED BY <2>2, <3>2, Zenon
  <2>4. CASE n # 0
    <3>1. n - 1 \in 0 .. NumVGs /\ n - 1 \notin D /\ n \in VGs
      <4>1. n - 1 \in 0 .. NumVGs /\ n \in VGs /\ ~(n <= n - 1)
        BY <1>0, <2>2, <2>4 DEF VGs
      <4> HIDE DEF D
      <4> QED BY <2>1, <4>1, Zenon
    <3>2. Largest(f[n - 1], n - 1)
      BY <3>1, Zenon
    <3>3. PICK k \in Nat : /\ f[n - 1] = k * a
                           /\ k = 0 \/ \E vg \in 1 .. n - 1 : VGFree(vg) >= k * a
                           /\ \A vg \in 1 .. n - 1 : VGFree(vg) < k * a + a
      BY <3>2, Zenon
    <3>4. f[n] = IF VGFree(n) > k * a THEN (VGFree(n) \div a) * a ELSE k * a
      <4>1. f[n] = Larger(n, f[n - 1])
        BY <1>2, <2>2, <2>4, Zenon
      <4> QED BY <3>3, <4>1, Zenon DEF Larger
    <3>5. k * a \in Nat /\ VGFree(n) \in Int
      BY <1>0, <1>3, <3>1
    <3>6. \A vg \in 1 .. n : vg = n \/ vg \in 1 .. n - 1
      BY <2>2
    <3>7. \A vg \in 1 .. n - 1 : vg \in 1 .. n /\ VGFree(vg) \in Int
      BY <1>0, <1>3, <2>2 DEF VGs
    <3>8. n \in 1 .. n
      BY <2>2, <2>4
    <3>9. CASE VGFree(n) <= k * a
      <4>1. f[n] = k * a
        BY <3>4, <3>5, <3>9
      <4>2. \A vg \in 1 .. n : VGFree(vg) < k * a + a
        BY <1>0, <3>3, <3>5, <3>6, <3>9
      <4>3. Largest(f[n], n)
        BY <3>3, <3>7, <4>1, <4>2, Zenon
      <4> QED BY <2>2, <4>3, Zenon
    <3>10. CASE VGFree(n) > k * a
      <4> DEFINE j == VGFree(n) \div a
                 free == VGFree(n)
      <4>1. free \in Nat
        BY <3>5, <3>10
      <4> HIDE DEF free, a
      <4>2. free \div a \in Nat /\ (free \div a) * a <= free /\ free < (free \div a) * a + a
        BY <1>0, <4>1
      <4>3. j \in Nat /\ j * a <= VGFree(n) /\ VGFree(n) < j * a + a
        BY <4>2, Zenon DEF free
      <4> HIDE DEF j
      <4>4. f[n] = j * a
        BY <3>4, <3>10, Zenon DEF j
      <4>5. k <= j
        <5>1. k * a < j * a + a
          BY <1>0, <3>5, <3>10, <4>3
        <5> QED BY <1>0, <4>3, <5>1, Units, Zenon
      <4>6. k * a <= j * a /\ j * a \in Nat
        BY <1>0, <4>3, <4>5, Units, Zenon
      <4>7. \A vg \in 1 .. n : VGFree(vg) < j * a + a
        BY <1>0, <3>3, <3>5, <3>6, <3>7, <4>3, <4>6, SMTT(20)
      <4>8. Largest(f[n], n)
        BY <3>8, <4>3, <4>4, <4>7, Zenon
      <4> QED BY <2>2, <4>8, Zenon
    <3> QED BY <3>5, <3>9, <3>10
  <2> QED BY <2>3, <2>4
<1>5. Largest(f[NumVGs], NumVGs)
  <2>1. NumVGs \in 0 .. NumVGs
    BY <1>0
  <2> QED BY <1>4, <2>1, Zenon
<1> QED BY <1>1, <1>5 DEF VGs

\* CreateDevice rounds a size up to the next unit.
LEMMA AlignUnits ==
    ASSUME NEW s \in Nat \ {0}
    PROVE  \E k \in Nat : Align(s) = k * lvmAlign /\ s <= k * lvmAlign /\ k * lvmAlign < s + lvmAlign
<1> DEFINE a == lvmAlign
           q == (s + a - 1) \div a
<1>1. a \in Nat \ {0}
  BY LvmAssumption
<1>2. s + a - 1 \in Nat
  BY <1>1
<1> HIDE DEF a
<1>3. q \in Nat /\ q * a <= s + a - 1 /\ s + a - 1 < q * a + a
  <2>1. \A i \in Nat : i \div a \in Nat /\ (i \div a) * a <= i /\ i < (i \div a) * a + a
    BY <1>1
  <2> QED BY <1>2, <2>1, Zenon
<1>4. Align(s) = IF q * a = 0 THEN a ELSE q * a
  BY DEF Align, a
<1> HIDE DEF q
<1>5. q * a \in Nat /\ s <= q * a /\ q * a < s + a
  BY <1>1, <1>3
<1> QED BY <1>3, <1>4, <1>5 DEF a

\* Exactly the sizes up to what GetCapacity returns fit.
LEMMA LvmCapacity ==
    ASSUME LvmTypeOK
    PROVE  CapacityHonest
<1>1. PICK m \in Nat : /\ MaxVolumeSize = m * lvmAlign
                       /\ m = 0 \/ \E vg \in VGs : VGFree(vg) >= m * lvmAlign
                       /\ \A vg \in VGs : VGFree(vg) < m * lvmAlign + lvmAlign
  BY MaxSizeFact
<1>2. lvmAlign \in Nat \ {0}
  BY LvmAssumption
<1>3. m * lvmAlign \in Nat
  BY <1>2, Units, Zenon
<1> SUFFICES ASSUME NEW s \in 1 .. m * lvmAlign + lvmAlign
             PROVE  s <= m * lvmAlign <=> \E vg \in VGs : VGFree(vg) >= Align(s)
  BY <1>1 DEF CapacityHonest
<1>4. s \in Nat \ {0}
  BY <1>2, <1>3
<1>5. PICK k \in Nat : Align(s) = k * lvmAlign /\ s <= k * lvmAlign /\ k * lvmAlign < s + lvmAlign
  BY <1>4, AlignUnits
<1>6. k * lvmAlign \in Nat
  BY <1>2, Units
<1>7. \A vg \in VGs : VGFree(vg) \in Int
  BY FreeNumber, Zenon
<1>8. ASSUME s <= m * lvmAlign PROVE \E vg \in VGs : VGFree(vg) >= Align(s)
  <2>1. k * lvmAlign < m * lvmAlign + lvmAlign
    BY <1>2, <1>3, <1>4, <1>5, <1>6, <1>8
  <2>2. k <= m
    BY <1>2, <2>1, Units
  <2>3. k * lvmAlign <= m * lvmAlign
    BY <1>2, <2>2, Units, Zenon
  <2>4. m # 0
    <3>1. 0 * lvmAlign = 0
      BY <1>2
    <3> QED BY <1>4, <1>8, <3>1
  <2>5. PICK vg \in VGs : VGFree(vg) >= m * lvmAlign
    BY <1>1, <2>4
  <2>6. VGFree(vg) >= k * lvmAlign
    BY <1>3, <1>6, <1>7, <2>3, <2>5
  <2> QED BY <1>5, <2>6, Zenon
<1>9. ASSUME NEW vg \in VGs, VGFree(vg) >= Align(s) PROVE s <= m * lvmAlign
  <2>1. k * lvmAlign < m * lvmAlign + lvmAlign
    BY <1>1, <1>2, <1>3, <1>5, <1>6, <1>7, <1>9, SMTT(20)
  <2>2. k <= m
    BY <1>2, <2>1, Units
  <2>3. k * lvmAlign <= m * lvmAlign
    BY <1>2, <2>2, Units
  <2> QED BY <1>3, <1>4, <1>5, <1>6, <2>3
<1> QED BY <1>8, <1>9, Zenon

\* GetCapacity returns the size of the largest volume that can be created:
\* exactly the sizes up to it find a volume group with enough space
\* (pmd-lvm.go:110-136), for all numbers and sizes of volume groups.
THEOREM CapacityHonestHolds == Spec => []CapacityHonest
<1>1. TypeOK => CapacityHonest
  BY LvmCapacity DEF TypeOK
<1> QED
  BY <1>1, TypeCorrect, PTL

=============================================================================
