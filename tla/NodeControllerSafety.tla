------------------------ MODULE NodeControllerSafety ------------------------
(***************************************************************************)
(* Safety of NodeController for every number of volumes, workers, volume   *)
(* groups and sizes: the invariants of NodeControllerInv are inductive.    *)
(***************************************************************************)
EXTENDS NodeControllerInv, WellFoundedInduction, TLAPS

\* A non-empty set of volume groups has a last one.
LEMMA LastVG ==
    ASSUME NEW S, S \subseteq VGs, S # {}
    PROVE  \E vg \in S : \A v \in S : v <= vg
<1> DEFINE D == {NumVGs - vg : vg \in S}
<1>1. D \subseteq Nat /\ D # {}
  BY LvmAssumption DEF VGs
<1>2. PICK x \in D : \A y \in D : ~(<<y, x>> \in OpToRel(<, Nat))
  <2> HIDE DEF D
  <2> QED BY <1>1, NatLessThanWellFounded, WFMin, Zenon
<1>3. ASSUME NEW y \in D PROVE x <= y
  <2>1. x \in Nat /\ y \in Nat
    BY <1>1
  <2>2. y < x => <<y, x>> \in OpToRel(<, Nat)
    BY <2>1 DEF OpToRel
  <2>3. ~(y < x)
    BY <1>2, <2>2, Zenon
  <2> QED BY <2>1, <2>3
<1>4. PICK vg \in S : x = NumVGs - vg
  OBVIOUS
<1>5. ASSUME NEW v \in S PROVE v <= vg
  <2>1. x <= NumVGs - v
    BY <1>3
  <2> QED BY <1>4, <2>1, LvmAssumption DEF VGs
<1> QED BY <1>5

\* The device that start-up picks for an ID is an existing logical volume of
\* that name, unless there is none.
LEMMA ListedDeviceFact ==
    ASSUME LvmTypeOK, NEW id \in Ids
    PROVE  /\ ListedDevice(id) \in 0 .. NumVGs
           /\ ListedDevice(id) = 0 <=> \A vg \in VGs : lvs[id][vg] = 0
           /\ ListedDevice(id) # 0 => ListedDevice(id) \in VGs /\ lvs[id][ListedDevice(id)] > 0
<1> DEFINE S == {vg \in VGs : lvs[id][vg] > 0}
<1>1. CASE S = {}
  <2>1. \A vg \in VGs : lvs[id][vg] = 0
    BY <1>1 DEF LvmTypeOK
  <2> QED BY <2>1, LvmAssumption DEF ListedDevice, VGs
<1>2. CASE S # {}
  <2>1. \E vg \in S : \A v \in S : v <= vg
    BY <1>2, LastVG, Zenon
  <2>2. \E vg \in VGs : lvs[id][vg] > 0 /\ \A v \in VGs : lvs[id][v] > 0 => v <= vg
    BY <2>1
  <2>3. ~ \A vg \in VGs : lvs[id][vg] = 0
    BY <1>2 DEF LvmTypeOK
  <2>4. ListedDevice(id) \in VGs /\ lvs[id][ListedDevice(id)] > 0
    BY <2>2, <2>3 DEF ListedDevice
  <2> QED BY <2>3, <2>4, LvmAssumption DEF VGs
<1> QED BY <1>1, <1>2

\* CreateDevice never makes an empty logical volume, and never one that is
\* smaller than the request: "It returns the actual volume size which will
\* always be at least as large as requested" (pmd-manager.go:81-84).
LEMMA AlignFact ==
    ASSUME NEW s \in Nat
    PROVE  Align(s) \in Nat /\ Align(s) > 0 /\ Align(s) >= s
<1> DEFINE a == lvmAlign
           q == (s + a - 1) \div a
<1>1. a \in Nat /\ a > 0
  BY LvmAssumption
<1>2. s + a - 1 \in Nat
  BY <1>1
<1>3. q \in Int /\ a * q <= s + a - 1 /\ s + a - 1 < a * q + a
  BY <1>1, <1>2
<1>4. a * q \in Int /\ a * q >= s
  BY <1>1, <1>3
<1>5. q * a = a * q
  BY <1>1, <1>3
<1> QED BY <1>1, <1>4, <1>5 DEF Align

-----------------------------------------------------------------------------
(* The steps keep the types.                                               *)

\* Adding a device to the cache keeps the types.
LEMMA LvReadyType ==
    ASSUME LvmTypeOK, NEW id \in Ids, NEW vg \in VGs, LvReady(id, vg)
    PROVE  LvmTypeOK'
<1>1. vg \in 0 .. NumVGs
  BY LvmAssumption DEF VGs
<1> QED BY <1>1 DEF LvmTypeOK, LvReady

\* Removing an LV keeps the types.
LEMMA LvRemoveType ==
    ASSUME LvmTypeOK, NEW id \in Ids, LvRemove(id)
    PROVE  LvmTypeOK'
<1>1. 0 \in Nat /\ 0 \in 0 .. NumVGs
  BY LvmAssumption
<1>2. [lvs[id] EXCEPT ![devices[id]] = 0] \in [VGs -> Nat]
  BY <1>1, Zenon DEF LvmTypeOK
<1>3. lvs' \in [Ids -> [VGs -> Nat]]
  BY <1>2 DEF LvmTypeOK, LvRemove
<1>4. devices' \in [Ids -> 0 .. NumVGs]
  BY <1>1 DEF LvmTypeOK, LvRemove
<1> QED BY <1>3, <1>4 DEF LvmTypeOK, LvRemove

\* Filling the cache at start-up keeps the types.
LEMMA LvLoadType ==
    ASSUME LvmTypeOK, LvLoad
    PROVE  LvmTypeOK'
BY ListedDeviceFact DEF LvmTypeOK, LvLoad

-----------------------------------------------------------------------------
\* A busy handler has a request, and with it a volume ID.
LEMMA RequestFact ==
    ASSUME TypeOK, NEW w \in Workers, pc[w] # "idle"
    PROVE  /\ req[w] \in Requests
           /\ req[w].name \in Names
           /\ req[w].asked \in Sizes \cup {0}
           /\ Id(w) \in Ids
           /\ Vol(w) \in Volumes
<1>1. req[w] \in Requests
  BY DEF TypeOK, WorkTypeOK
<1>2. req[w].name \in Names /\ req[w].asked \in Sizes \cup {0}
  BY <1>1 DEF Requests
<1>3. Id(w) \in Ids
  BY <1>2, NodeControllerAssumption DEF Id
<1>4. Vol(w) \in Volumes
  BY <1>2 DEF Vol, Volumes, TypeOK, WorkTypeOK
<1> QED BY <1>1, <1>2, <1>3, <1>4

\* Writing an entry keeps the type of the store.
LEMMA StoreCreateType ==
    ASSUME StoreTypeOK, NEW id \in Ids, NEW v \in Volumes,
           SMCreate(id, v) \/ SMCreateFails(id, v)
    PROVE  StoreTypeOK'
<1>1. CASE SMCreate(id, v)
  BY <1>1 DEF StoreTypeOK, SMCreate, ReplaceAndSync
<1>2. CASE SMCreateFails(id, v)
  BY <1>2 DEF StoreTypeOK, SMCreateFails, Replace, storeVars
<1> QED BY <1>1, <1>2

\* So does the removal of an entry.
LEMMA StoreDeleteType ==
    ASSUME StoreTypeOK, NEW id \in Ids,
           SMDelete(id) \/ SMDeleteFails(id)
    PROVE  StoreTypeOK'
<1>1. CASE SMDelete(id)
  BY <1>1 DEF StoreTypeOK, SMDelete, ReplaceAndSync
<1>2. CASE SMDeleteFails(id)
  BY <1>2 DEF StoreTypeOK, SMDeleteFails, Replace
<1> QED BY <1>1, <1>2

\* A handler that returns keeps the types.
LEMMA ReturnType ==
    ASSUME WorkTypeOK, NEW w \in Workers, NEW s \in Statuses \cup {None}, Return(w, s)
    PROVE  WorkTypeOK'
<1>1. 0 \in Nat /\ 0 \in 0 .. NumVGs
  BY LvmAssumption
<1> QED BY <1>1 DEF WorkTypeOK, Return

\* So does CreateVolume when it succeeds.
LEMMA ReturnVolumeType ==
    ASSUME TypeOK, NEW w \in Workers, pc[w] # "idle", ReturnVolume(w)
    PROVE  WorkTypeOK' /\ promised' \in [Ids -> Sizes \cup {0}]
<1>1. WorkTypeOK'
  <2>1. Return(w, "OK")
    BY DEF ReturnVolume
  <2> QED BY <2>1, ReturnType DEF TypeOK, Statuses
<1>2. promised' \in [Ids -> Sizes \cup {0}]
  BY RequestFact DEF ReturnVolume, TypeOK, ProcTypeOK
<1> QED BY <1>1, <1>2

-----------------------------------------------------------------------------
(* Type correctness.                                                       *)

\* The initial state is well-typed.
LEMMA InitType == Init => TypeOK
<1>1. 0 \in Nat /\ 0 \in 0 .. NumVGs
  BY LvmAssumption
<1> QED BY <1>1 DEF Init, LvmInit, TypeOK, StoreTypeOK, LvmTypeOK, ProcTypeOK, WorkTypeOK

\* Type correctness is preserved by Call.
LEMMA CallType ==
    ASSUME TypeOK, NEW w \in Workers, NEW r \in Requests, Call(w, r)
    PROVE  TypeOK'
<1>1. StoreTypeOK' /\ LvmTypeOK'
  BY DEF Call, TypeOK, StoreTypeOK, LvmTypeOK, storeVars, lvmVars
<1>2. r.name \in Names /\ r.asked \in Nat
  <2>1. r.name \in Names /\ r.asked \in Sizes \cup {0}
    BY DEF Requests
  <2>2. Sizes \cup {0} \subseteq Nat
    BY NodeControllerAssumption
  <2> QED BY <2>1, <2>2
<1>3. ProcTypeOK'
  BY <1>2, NodeControllerAssumption DEF Call, TypeOK, ProcTypeOK, procVars
<1>4. WorkTypeOK'
  <2>1. None \notin Requests
    BY NodeControllerAssumption
  <2> QED BY <1>2, <2>1 DEF Call, Goto, TypeOK, WorkTypeOK
<1> QED BY <1>1, <1>3, <1>4 DEF TypeOK

\* Type correctness is preserved by LockKey.
LEMMA LockKeyType ==
    ASSUME TypeOK, NEW w \in Workers, LockKey(w)
    PROVE  TypeOK'
<1>1. StoreTypeOK' /\ LvmTypeOK' /\ ProcTypeOK'
  BY DEF LockKey, TypeOK, StoreTypeOK, LvmTypeOK, ProcTypeOK, storeVars, lvmVars, procVars
<1>2. WorkTypeOK'
  BY DEF LockKey, Goto, TypeOK, WorkTypeOK
<1> QED BY <1>1, <1>2 DEF TypeOK

\* Type correctness is preserved by CreateLookup.
LEMMA CreateLookupType ==
    ASSUME TypeOK, NEW w \in Workers, CreateLookup(w)
    PROVE  TypeOK'
<1>1. StoreTypeOK' /\ LvmTypeOK'
  BY DEF CreateLookup, TypeOK, StoreTypeOK, LvmTypeOK, storeVars, lvmVars
<1>2. UNCHANGED procVars /\ pc[w] # "idle"
  BY DEF CreateLookup
<1>3. \/ ReturnVolume(w)
      \/ UNCHANGED promised /\ \E s \in Statuses : Return(w, s)
      \/ Goto(w, "smCreate") /\ UNCHANGED <<req, size, lv, status, promised>>
  BY DEF CreateLookup, Statuses
<1>4. CASE ReturnVolume(w)
  BY <1>1, <1>2, <1>4, ReturnVolumeType DEF TypeOK, ProcTypeOK, procVars
<1>5. CASE UNCHANGED promised /\ \E s \in Statuses : Return(w, s)
  BY <1>1, <1>2, <1>5, ReturnType DEF TypeOK, ProcTypeOK, procVars
<1>6. CASE Goto(w, "smCreate") /\ UNCHANGED <<req, size, lv, status, promised>>
  <2>1. WorkTypeOK'
    BY <1>2, <1>6 DEF TypeOK, WorkTypeOK, Goto, CreateSteps
  <2> QED BY <1>1, <1>2, <1>6, <2>1 DEF TypeOK, ProcTypeOK, procVars
<1> QED BY <1>3, <1>4, <1>5, <1>6

\* Type correctness is preserved by SmCreate.
LEMMA SmCreateType ==
    ASSUME TypeOK, NEW w \in Workers, SmCreate(w)
    PROVE  TypeOK'
<1>1. pc[w] # "idle" /\ Id(w) \in Ids /\ Vol(w) \in Volumes
  BY RequestFact DEF SmCreate
<1>2. StoreTypeOK'
  BY <1>1, StoreCreateType DEF SmCreate, StoreCreateFails, TypeOK
<1>3. LvmTypeOK' /\ ProcTypeOK'
  BY DEF SmCreate, TypeOK, LvmTypeOK, ProcTypeOK, lvmVars, procVars
<1>4. WorkTypeOK'
  <2>1. CASE Goto(w, "lvcreate") /\ UNCHANGED <<req, size, lv, status>>
    BY <1>1, <2>1 DEF TypeOK, WorkTypeOK, Goto, CreateSteps
  <2>2. CASE Return(w, "Internal")
    BY <2>2, ReturnType DEF TypeOK, Statuses
  <2> QED BY <2>1, <2>2 DEF SmCreate
<1> QED BY <1>2, <1>3, <1>4 DEF TypeOK

\* Type correctness is preserved by Undo, the start of a roll-back.
LEMMA UndoType ==
    ASSUME WorkTypeOK, NEW w \in Workers, pc[w] # "idle", NEW s \in Statuses,
           Undo(w, s), UNCHANGED req
    PROVE  WorkTypeOK'
BY DEF WorkTypeOK, Undo, Goto, CreateSteps

\* Type correctness is preserved by CreateLV.
LEMMA CreateLVType ==
    ASSUME TypeOK, NEW w \in Workers, CreateLV(w)
    PROVE  TypeOK'
<1>1. pc[w] # "idle" /\ Id(w) \in Ids /\ Align(size[w]) \in Nat
  BY RequestFact, AlignFact DEF CreateLV, TypeOK, WorkTypeOK
<1>2. StoreTypeOK' /\ ProcTypeOK'
  BY DEF CreateLV, TypeOK, StoreTypeOK, ProcTypeOK, storeVars, procVars
<1>3. CASE \E s \in Statuses : Undo(w, s)
  <2>1. LvmTypeOK'
    BY <1>3 DEF Undo, TypeOK, LvmTypeOK, lvmVars
  <2>2. WorkTypeOK'
    BY <1>1, <1>3, UndoType DEF CreateLV, TypeOK
  <2> QED BY <1>2, <2>1, <2>2 DEF TypeOK
<1>4. ASSUME NEW vg \in VGs, LvCreate(Id(w), vg, size[w]), lv' = [lv EXCEPT ![w] = vg],
             Goto(w, "clear"), UNCHANGED <<size, status>>
      PROVE  TypeOK'
  <2>1. LvmTypeOK'
    BY <1>1, <1>4 DEF LvCreate, TypeOK, LvmTypeOK
  <2>2. vg \in 0 .. NumVGs /\ vg # 0
    BY LvmAssumption DEF VGs
  <2>3. UNCHANGED req
    BY DEF CreateLV
  <2>4. WorkTypeOK'
    BY <1>1, <1>4, <2>2, <2>3, Zenon DEF TypeOK, WorkTypeOK, Goto, CreateSteps
  <2> QED BY <1>2, <2>1, <2>4 DEF TypeOK
<1> QED BY <1>3, <1>4 DEF CreateLV, Eligible, Statuses

\* Type correctness is preserved by ClearLV.
LEMMA ClearLVType ==
    ASSUME TypeOK, NEW w \in Workers, ClearLV(w)
    PROVE  TypeOK'
<1>1. /\ pc[w] = "clear" /\ Id(w) \in Ids
      /\ lv[w] \in VGs /\ lvs[Id(w)][lv[w]] \in Nat
  <2>1. pc[w] = "clear" /\ Id(w) \in Ids
    BY RequestFact DEF ClearLV
  <2>2. lv[w] \in VGs
    BY <2>1, LvmAssumption DEF TypeOK, WorkTypeOK, VGs
  <2> QED BY <2>1, <2>2 DEF TypeOK, LvmTypeOK
<1>2. StoreTypeOK' /\ ProcTypeOK' /\ UNCHANGED req
  BY DEF ClearLV, TypeOK, StoreTypeOK, ProcTypeOK, storeVars, procVars
<1>3. CASE Undo(w, "Internal")
  <2>1. LvmTypeOK'
    BY <1>3 DEF Undo, TypeOK, LvmTypeOK, lvmVars
  <2>2. WorkTypeOK'
    BY <1>1, <1>2, <1>3, UndoType DEF TypeOK, Statuses
  <2> QED BY <1>2, <2>1, <2>2 DEF TypeOK
<1>4. CASE /\ LvReady(Id(w), lv[w])
           /\ size' = [size EXCEPT ![w] = lvs[Id(w)][lv[w]]]
           /\ Goto(w, "smUpdate") \/ Goto(w, "register")
           /\ UNCHANGED <<lv, status>>
  <2>1. LvmTypeOK'
    BY <1>1, <1>4, LvReadyType DEF TypeOK
  <2>2. WorkTypeOK'
    BY <1>1, <1>2, <1>4 DEF TypeOK, WorkTypeOK, Goto, CreateSteps
  <2> QED BY <1>2, <2>1, <2>2 DEF TypeOK
<1> QED BY <1>3, <1>4 DEF ClearLV

\* Type correctness is preserved by SmUpdate.
LEMMA SmUpdateType ==
    ASSUME TypeOK, NEW w \in Workers, SmUpdate(w)
    PROVE  TypeOK'
<1>1. pc[w] # "idle" /\ Id(w) \in Ids /\ Vol(w) \in Volumes
  BY RequestFact DEF SmUpdate
<1>2. StoreTypeOK'
  BY <1>1, StoreCreateType DEF SmUpdate, StoreCreateFails, TypeOK
<1>3. LvmTypeOK' /\ ProcTypeOK'
  BY DEF SmUpdate, TypeOK, LvmTypeOK, ProcTypeOK, lvmVars, procVars
<1>4. WorkTypeOK'
  BY <1>1 DEF SmUpdate, TypeOK, WorkTypeOK, Goto, CreateSteps
<1> QED BY <1>2, <1>3, <1>4 DEF TypeOK

\* Type correctness is preserved by Register.
LEMMA RegisterType ==
    ASSUME TypeOK, NEW w \in Workers, Register(w)
    PROVE  TypeOK'
<1>1. pc[w] # "idle" /\ Id(w) \in Ids /\ Vol(w) \in Volumes
  BY RequestFact DEF Register
<1>2. StoreTypeOK' /\ LvmTypeOK'
  BY DEF Register, TypeOK, StoreTypeOK, LvmTypeOK, storeVars, lvmVars
<1>3. WorkTypeOK' /\ promised' \in [Ids -> Sizes \cup {0}]
  BY <1>1, ReturnVolumeType DEF Register
<1>4. ProcTypeOK'
  BY <1>1, <1>3, Zenon DEF Register, TypeOK, ProcTypeOK
<1> QED BY <1>2, <1>3, <1>4 DEF TypeOK

\* Type correctness is preserved by UndoCreate.
LEMMA UndoCreateType ==
    ASSUME TypeOK, NEW w \in Workers, UndoCreate(w)
    PROVE  TypeOK'
<1>1. Id(w) \in Ids /\ status[w] \in Statuses \cup {None}
  BY RequestFact DEF UndoCreate, TypeOK, WorkTypeOK
<1>2. StoreTypeOK'
  BY <1>1, StoreDeleteType DEF UndoCreate, StoreDelete, TypeOK
<1>3. LvmTypeOK' /\ ProcTypeOK'
  BY DEF UndoCreate, TypeOK, LvmTypeOK, ProcTypeOK, lvmVars, procVars
<1>4. WorkTypeOK'
  BY <1>1, ReturnType DEF UndoCreate, TypeOK
<1> QED BY <1>2, <1>3, <1>4 DEF TypeOK

\* Type correctness is preserved by DeleteLookup.
LEMMA DeleteLookupType ==
    ASSUME TypeOK, NEW w \in Workers, DeleteLookup(w)
    PROVE  TypeOK'
<1>1. StoreTypeOK' /\ LvmTypeOK' /\ ProcTypeOK'
  BY DEF DeleteLookup, TypeOK, StoreTypeOK, LvmTypeOK, ProcTypeOK, storeVars, lvmVars, procVars
<1>2. CASE Return(w, "OK")
  BY <1>1, <1>2, ReturnType DEF TypeOK, Statuses
<1>3. CASE Goto(w, "wipe") /\ UNCHANGED <<req, size, lv, status>>
  <2>1. WorkTypeOK'
    BY <1>3 DEF DeleteLookup, TypeOK, WorkTypeOK, Goto, DeleteSteps
  <2> QED BY <1>1, <2>1 DEF TypeOK
<1> QED BY <1>2, <1>3 DEF DeleteLookup

\* Type correctness is preserved by Wipe.
LEMMA WipeType ==
    ASSUME TypeOK, NEW w \in Workers, Wipe(w)
    PROVE  TypeOK'
<1>1. StoreTypeOK' /\ ProcTypeOK'
  BY DEF Wipe, TypeOK, StoreTypeOK, ProcTypeOK, storeVars, procVars
<1>2. LvmTypeOK'
  BY DEF Wipe, TypeOK, LvmTypeOK, LvClear, lvmVars
<1>3. CASE Return(w, "FailedPrecondition") \/ Return(w, "Internal")
  BY <1>1, <1>2, <1>3, ReturnType DEF TypeOK, Statuses
<1>4. CASE (Goto(w, "smDelete") \/ Goto(w, "lvremove")) /\ UNCHANGED <<req, size, lv, status>>
  <2>1. WorkTypeOK'
    BY <1>4 DEF Wipe, TypeOK, WorkTypeOK, Goto, DeleteSteps
  <2> QED BY <1>1, <1>2, <2>1 DEF TypeOK
<1> QED BY <1>3, <1>4 DEF Wipe

\* Type correctness is preserved by RemoveLV.
LEMMA RemoveLVType ==
    ASSUME TypeOK, NEW w \in Workers, RemoveLV(w)
    PROVE  TypeOK'
<1>1. StoreTypeOK' /\ ProcTypeOK' /\ Id(w) \in Ids
  BY RequestFact DEF RemoveLV, TypeOK, StoreTypeOK, ProcTypeOK, storeVars, procVars
<1>2. LvmTypeOK'
  <2>1. CASE LvRemove(Id(w))
    BY <1>1, <2>1, LvRemoveType DEF TypeOK
  <2>2. CASE UNCHANGED lvmVars
    BY <2>2 DEF TypeOK, LvmTypeOK, lvmVars
  <2> QED BY <2>1, <2>2 DEF RemoveLV
<1>3. CASE Return(w, "Internal")
  BY <1>1, <1>2, <1>3, ReturnType DEF TypeOK, Statuses
<1>4. CASE Goto(w, "smDelete") /\ UNCHANGED <<req, size, lv, status>>
  <2>1. WorkTypeOK'
    BY <1>4 DEF RemoveLV, TypeOK, WorkTypeOK, Goto, DeleteSteps
  <2> QED BY <1>1, <1>2, <2>1 DEF TypeOK
<1> QED BY <1>3, <1>4 DEF RemoveLV

\* Type correctness is preserved by SmDelete.
LEMMA SmDeleteType ==
    ASSUME TypeOK, NEW w \in Workers, SmDelete(w)
    PROVE  TypeOK'
<1>1. Id(w) \in Ids
  BY RequestFact DEF SmDelete
<1>2. StoreTypeOK'
  BY <1>1, StoreDeleteType DEF SmDelete, StoreDelete, TypeOK
<1>3. LvmTypeOK' /\ ProcTypeOK'
  BY DEF SmDelete, TypeOK, LvmTypeOK, ProcTypeOK, lvmVars, procVars
<1>4. WorkTypeOK'
  BY DEF SmDelete, TypeOK, WorkTypeOK, Goto, DeleteSteps
<1> QED BY <1>2, <1>3, <1>4 DEF TypeOK

\* Type correctness is preserved by Unregister.
LEMMA UnregisterType ==
    ASSUME TypeOK, NEW w \in Workers, Unregister(w)
    PROVE  TypeOK'
<1>1. StoreTypeOK' /\ LvmTypeOK'
  BY DEF Unregister, TypeOK, StoreTypeOK, LvmTypeOK, storeVars, lvmVars
<1>2. ProcTypeOK'
  BY Zenon DEF Unregister, TypeOK, ProcTypeOK
<1>3. WorkTypeOK'
  BY ReturnType DEF Unregister, TypeOK, Statuses
<1> QED BY <1>1, <1>2, <1>3 DEF TypeOK

\* What a crash may do to the store.
LEMMA CrashStore ==
    ASSUME TypeOK, Crash
    PROVE  \/ UNCHANGED storeVars
           \/ \E w \in Workers :
                 /\ pc[w] \in {"smCreate", "smUpdate"}
                 /\ SMCreate(Id(w), Vol(w)) \/ SMCreateFails(Id(w), Vol(w))
           \/ \E id \in Ids :
                 /\ \/ \E w \in Workers : pc[w] \in {"undo", "smDelete"} /\ Id(w) = id
                    \/ id \in cleanupList
                 /\ SMDelete(id) \/ SMDeleteFails(id)
<1>1. ASSUME NEW w \in Workers, pc[w] \in {"undo", "smDelete"}
      PROVE  Id(w) \in Ids
  BY <1>1, RequestFact
<1>2. cleanupList \subseteq Ids
  BY DEF TypeOK, ProcTypeOK
<1> QED BY <1>1, <1>2 DEF Crash

\* A crash keeps the types, whatever it interrupts.
LEMMA CrashType ==
    ASSUME TypeOK, Crash
    PROVE  TypeOK'
<1>1. StoreTypeOK'
  <2>1. CASE UNCHANGED storeVars
    BY <2>1 DEF TypeOK, StoreTypeOK, storeVars
  <2>2. ASSUME NEW w \in Workers, pc[w] \in {"smCreate", "smUpdate"},
               SMCreate(Id(w), Vol(w)) \/ SMCreateFails(Id(w), Vol(w))
        PROVE  StoreTypeOK'
    <3>1. Id(w) \in Ids /\ Vol(w) \in Volumes
      BY <2>2, RequestFact
    <3> QED BY <2>2, <3>1, StoreCreateType DEF TypeOK
  <2>3. ASSUME NEW id \in Ids, SMDelete(id) \/ SMDeleteFails(id)
        PROVE  StoreTypeOK'
    BY <2>3, StoreDeleteType DEF TypeOK
  <2> QED BY <2>1, <2>2, <2>3, CrashStore
<1>2. 0 \in Nat /\ 0 \in 0 .. NumVGs
  BY LvmAssumption, SMTT(20)
<1>3. LvmTypeOK'
  BY <1>2 DEF Crash, TypeOK, LvmTypeOK
<1>4. ProcTypeOK'
  BY Zenon DEF Crash, TypeOK, ProcTypeOK
<1>5. WorkTypeOK'
  BY <1>2 DEF Crash, TypeOK, WorkTypeOK
<1> QED BY <1>1, <1>3, <1>4, <1>5 DEF TypeOK

\* Type correctness is preserved by PowerLoss.
LEMMA PowerLossType ==
    ASSUME TypeOK, PowerLoss
    PROVE  TypeOK'
<1>1. StoreTypeOK'
  <2>1. UNION {{entry[id]} \cup unsynced[id] : id \in Ids} \subseteq Volumes \cup {None}
    BY DEF TypeOK, StoreTypeOK
  <2> QED BY <2>1 DEF PowerLoss, SMPowerLoss, TypeOK, StoreTypeOK
<1>2. LvmTypeOK' /\ ProcTypeOK' /\ WorkTypeOK'
  BY DEF PowerLoss, TypeOK, LvmTypeOK, ProcTypeOK, WorkTypeOK, lvmVars, procVars, workVars
<1> QED BY <1>1, <1>2 DEF TypeOK

\* Type correctness is preserved by Restart.
LEMMA RestartType ==
    ASSUME TypeOK, Restart
    PROVE  TypeOK'
<1>1. StoreTypeOK' /\ WorkTypeOK'
  BY DEF Restart, TypeOK, StoreTypeOK, WorkTypeOK, storeVars, workVars
<1>2. LvmTypeOK'
  BY LvLoadType DEF Restart, TypeOK
<1>3. ProcTypeOK'
  BY DEF Restart, TypeOK, ProcTypeOK, StoreTypeOK
<1> QED BY <1>1, <1>2, <1>3, Zenon DEF TypeOK

\* Type correctness is preserved by Cleanup.
LEMMA CleanupType ==
    ASSUME TypeOK, NEW id \in Ids, Cleanup(id)
    PROVE  TypeOK'
<1>1. StoreTypeOK'
  BY StoreDeleteType DEF Cleanup, StoreDelete, TypeOK
<1>2. LvmTypeOK' /\ ProcTypeOK' /\ WorkTypeOK'
  BY DEF Cleanup, TypeOK, LvmTypeOK, ProcTypeOK, WorkTypeOK, lvmVars, workVars
<1> QED BY <1>1, <1>2 DEF TypeOK

\* Every step keeps the types.
LEMMA NextType == TypeOK /\ [Next]_vars => TypeOK'
<1> SUFFICES ASSUME TypeOK, [Next]_vars PROVE TypeOK'
  OBVIOUS
<1>1. CASE UNCHANGED vars
  BY <1>1 DEF TypeOK, StoreTypeOK, LvmTypeOK, ProcTypeOK, WorkTypeOK,
              vars, storeVars, lvmVars, procVars, workVars
<1>2. ASSUME NEW w \in Workers, NEW r \in Requests, Call(w, r) PROVE TypeOK'
  BY <1>2, CallType
<1>3. ASSUME NEW w \in Workers, LockKey(w) PROVE TypeOK'
  BY <1>3, LockKeyType
<1>4. ASSUME NEW w \in Workers, Step(w) PROVE TypeOK'
  BY <1>4, CreateLookupType, SmCreateType, CreateLVType, ClearLVType, SmUpdateType,
     RegisterType, UndoCreateType, DeleteLookupType, WipeType, RemoveLVType,
     SmDeleteType, UnregisterType DEF Step
<1>5. CASE Crash \/ PowerLoss \/ Restart
  BY <1>5, CrashType, PowerLossType, RestartType
<1>6. ASSUME NEW id \in Ids, Cleanup(id) PROVE TypeOK'
  BY <1>6, CleanupType
<1> QED BY <1>1, <1>2, <1>3, <1>4, <1>5, <1>6 DEF Next

\* Every state of the driver is well-typed.
THEOREM TypeCorrect == Spec => []TypeOK
BY InitType, NextType, PTL DEF Spec

-----------------------------------------------------------------------------
\* A step of a handler changes the local state of that handler only.
LEMMA StepFrame ==
    ASSUME TypeOK, NEW w \in Workers, LockKey(w) \/ Step(w)
    PROVE  /\ UNCHANGED <<up, cleanupList>>
           /\ pc[w] # "idle"
           /\ pc'[w] = "idle" \/ req'[w] = req[w]
           /\ \A v \in Workers \ {w} : pc'[v] = pc[v] /\ req'[v] = req[v] /\ lv'[v] = lv[v]
<1> USE DEF TypeOK, WorkTypeOK, Goto, Return, ReturnVolume, Undo, procVars
<1>1. CASE LockKey(w) BY <1>1 DEF LockKey
<1>2. CASE CreateLookup(w) BY <1>2, Zenon DEF CreateLookup
<1>3. CASE SmCreate(w) BY <1>3, Zenon DEF SmCreate
<1>4. CASE CreateLV(w) BY <1>4, Zenon DEF CreateLV
<1>5. CASE ClearLV(w) BY <1>5 DEF ClearLV
<1>6. CASE SmUpdate(w) BY <1>6 DEF SmUpdate
<1>7. CASE Register(w) BY <1>7, Zenon DEF Register
<1>8. CASE UndoCreate(w) BY <1>8 DEF UndoCreate
<1>9. CASE DeleteLookup(w) BY <1>9, Zenon DEF DeleteLookup
<1>10. CASE Wipe(w) BY <1>10, ZenonT(30) DEF Wipe
<1>11. CASE RemoveLV(w) BY <1>11 DEF RemoveLV
<1>12. CASE SmDelete(w) BY <1>12, Zenon DEF SmDelete
<1>13. CASE Unregister(w) BY <1>13, Zenon DEF Unregister
<1> QED BY <1>1, <1>2, <1>3, <1>4, <1>5, <1>6, <1>7, <1>8, <1>9, <1>10, <1>11, <1>12, <1>13, Zenon
        DEF Step

\* The order of the steps of a handler, and what they do to the map.
LEMMA StepOrder ==
    ASSUME TypeOK, NEW w \in Workers, Step(w)
    PROVE  /\ Active(w)
           /\ pc'[w] \in CreateSteps => \/ pc[w] \in CreateSteps
                                        \/ req[w].op = "create" /\ pmemVolumes[Id(w)] = None
           /\ pc'[w] \in DeleteSteps => \/ pc[w] \in DeleteSteps
                                        \/ req[w].op = "delete" /\ pmemVolumes[Id(w)] # None
           /\ \/ UNCHANGED pmemVolumes
              \/ /\ pc[w] = "register" /\ pc'[w] = "idle"
                 /\ pmemVolumes' = [pmemVolumes EXCEPT ![Id(w)] = Vol(w)]
              \/ /\ pc[w] = "unregister" /\ pc'[w] = "idle"
                 /\ pmemVolumes' = [pmemVolumes EXCEPT ![Id(w)] = None]
<1> USE DEF TypeOK, WorkTypeOK, Goto, Return, ReturnVolume, Undo, procVars, Active,
            CreateSteps, DeleteSteps
<1>2. CASE CreateLookup(w) BY <1>2, Zenon DEF CreateLookup
<1>3. CASE SmCreate(w) BY <1>3, Zenon DEF SmCreate
<1>4. CASE CreateLV(w) BY <1>4, ZenonT(40) DEF CreateLV
<1>5. CASE ClearLV(w) BY <1>5, Zenon DEF ClearLV
<1>6. CASE SmUpdate(w) BY <1>6, ZenonT(30) DEF SmUpdate
<1>7. CASE Register(w) BY <1>7, Zenon DEF Register
<1>8. CASE UndoCreate(w) BY <1>8, Zenon DEF UndoCreate
<1>9. CASE DeleteLookup(w) BY <1>9, Zenon DEF DeleteLookup
<1>10. CASE Wipe(w) BY <1>10, Zenon DEF Wipe
<1>11. CASE RemoveLV(w) BY <1>11, Zenon DEF RemoveLV
<1>12. CASE SmDelete(w) BY <1>12, Zenon DEF SmDelete
<1>13. CASE Unregister(w) BY <1>13, Zenon DEF Unregister
<1> QED BY <1>2, <1>3, <1>4, <1>5, <1>6, <1>7, <1>8, <1>9, <1>10, <1>11, <1>12, <1>13, Zenon DEF Step

\* Handlers that run for the same volume hold the same key, unless one creates
\* and the other deletes it.
LEMMA SameKey ==
    ASSUME DistinctIDs, TypeOK, NEW v \in Workers, NEW w \in Workers,
           pc[v] # "idle", pc[w] # "idle",
           Id(v) = Id(w), req[v].op = req[w].op
    PROVE  Key(v) = Key(w)
<1>1. req[v].name \in Names /\ req[w].name \in Names
  BY RequestFact
<1> QED BY <1>1 DEF Key, Id, DistinctIDs

\* The locks and the map together keep handlers of one volume apart.
LEMMA LockExclusive ==
    ASSUME DistinctIDs, TypeOK, LockInv
    PROVE  Exclusive
<1> SUFFICES ASSUME NEW v \in Workers, NEW w \in Workers, v # w,
                    pc[v] \in CreateSteps \cup DeleteSteps,
                    pc[w] \in CreateSteps \cup DeleteSteps,
                    Id(v) = Id(w)
             PROVE  FALSE
  BY DEF Exclusive
<1>1. Active(v) /\ Active(w)
  BY DEF Active, CreateSteps, DeleteSteps
<1>2. req[v].op = req[w].op
  BY DEF LockInv
<1>3. Key(v) = Key(w)
  BY <1>1, <1>2, SameKey DEF Active
<1> QED BY <1>1, <1>3 DEF LockInv

-----------------------------------------------------------------------------
(* No two handlers work on the same volume.                                *)

\* Every step preserves StoppedInv.
LEMMA StoppedStep ==
    ASSUME TypeOK, StoppedInv, [Next]_vars
    PROVE  StoppedInv'
<1>1. CASE UNCHANGED vars
  BY <1>1 DEF StoppedInv, Serving, vars, procVars, workVars
<1>2. ASSUME NEW w \in Workers, NEW r \in Requests, Call(w, r)
      PROVE  StoppedInv'
  BY <1>2 DEF StoppedInv, Call, Serving, procVars
<1>3. ASSUME NEW w \in Workers, LockKey(w)
      PROVE  StoppedInv'
  <2>1. Serving /\ UNCHANGED procVars
    BY <1>3 DEF StoppedInv, LockKey
  <2> QED BY <2>1 DEF StoppedInv, Serving, procVars
<1>4. ASSUME NEW w \in Workers, Step(w)
      PROVE  StoppedInv'
  <2>1. UNCHANGED <<up, cleanupList>> /\ pc[w] # "idle"
    BY <1>4, StepFrame
  <2>2. Serving
    BY <2>1, Zenon DEF StoppedInv
  <2> QED BY <2>1, <2>2 DEF StoppedInv, Serving
<1>5. CASE Crash
  BY <1>5 DEF Crash, StoppedInv, Serving
<1>6. CASE PowerLoss
  BY <1>6 DEF PowerLoss, StoppedInv, Serving, procVars, workVars
<1>7. CASE Restart
  BY <1>7 DEF Restart, StoppedInv, Serving, workVars
<1>8. ASSUME NEW id \in Ids, Cleanup(id)
      PROVE  StoppedInv'
  BY <1>8, Zenon DEF Cleanup, StoppedInv, Serving, workVars
<1> QED BY <1>1, <1>2, <1>3, <1>4, <1>5, <1>6, <1>7, <1>8 DEF Next

\* Register and Unregister are the steps that change the map; no other
\* handler is past its lookup for the volume then.
LEMMA LockHandlerStep ==
    ASSUME DistinctIDs, TypeOK, LockInv, NEW w \in Workers, Step(w)
    PROVE  LockInv'
<1>1. \A v \in Workers \ {w} : pc'[v] = pc[v] /\ req'[v] = req[v]
  BY StepFrame, Zenon
<1>2. pc'[w] = "idle" \/ req'[w] = req[w]
  BY StepFrame, Zenon
<1>3. ASSUME NEW u \in Workers, NEW v \in Workers, u # v, Active(u)', Active(v)'
      PROVE  Key(u)' # Key(v)'
  <2>1. ASSUME NEW x \in Workers, Active(x)'
        PROVE  Active(x) /\ req'[x] = req[x] /\ Key(x)' = Key(x)
    <3>1. Active(x) /\ req'[x] = req[x]
      BY <2>1, <1>1, <1>2, StepOrder, Zenon DEF Active
    <3> QED BY <3>1, Zenon DEF Key, Id
  <2> QED BY <1>3, <2>1 DEF LockInv
<1>4. ASSUME NEW v \in Workers, pc'[v] \in CreateSteps
      PROVE  req'[v].op = "create" /\ pmemVolumes'[Id(v)'] = None
  <2>1. req'[v] = req[v] /\ req[v].op = "create" /\ pmemVolumes[Id(v)] = None /\ pc[v] # "idle"
    BY <1>4, <1>1, <1>2, StepOrder, Zenon DEF LockInv, CreateSteps, Active
  <2>2. Id(v)' = Id(v) /\ Id(v) \in Ids
    BY <2>1, RequestFact DEF Id
  <2>3. CASE UNCHANGED pmemVolumes
    BY <2>1, <2>2, <2>3, Zenon
  <2>4. CASE /\ pc[w] = "register" /\ pc'[w] = "idle"
             /\ pmemVolumes' = [pmemVolumes EXCEPT ![Id(w)] = Vol(w)]
    <3>1. v # w /\ pc[v] \in CreateSteps /\ pc[w] \in CreateSteps
      BY <1>4, <1>1, <2>4 DEF CreateSteps
    <3>2. Id(v) # Id(w)
      BY <3>1, LockExclusive DEF Exclusive
    <3> QED BY <2>1, <2>2, <2>4, <3>2 DEF TypeOK, ProcTypeOK
  <2>5. CASE pmemVolumes' = [pmemVolumes EXCEPT ![Id(w)] = None]
    BY <2>1, <2>2, <2>5, Zenon DEF TypeOK, ProcTypeOK
  <2> QED BY <2>1, <2>3, <2>4, <2>5, StepOrder, Zenon
<1>5. ASSUME NEW v \in Workers, pc'[v] \in DeleteSteps
      PROVE  req'[v].op = "delete" /\ pmemVolumes'[Id(v)'] # None
  <2>1. req'[v] = req[v] /\ req[v].op = "delete" /\ pmemVolumes[Id(v)] # None /\ pc[v] # "idle"
    BY <1>5, <1>1, <1>2, StepOrder, Zenon DEF LockInv, DeleteSteps, Active
  <2>2. Id(v)' = Id(v) /\ Id(v) \in Ids
    BY <2>1, RequestFact DEF Id
  <2>3. CASE UNCHANGED pmemVolumes
    BY <2>1, <2>2, <2>3, Zenon
  <2>4. CASE /\ pc[w] = "register" /\ pc'[w] = "idle"
             /\ pmemVolumes' = [pmemVolumes EXCEPT ![Id(w)] = Vol(w)]
    <3>1. Vol(w) # None
      BY <2>4, RequestFact, NodeControllerAssumption
    <3> QED BY <2>1, <2>2, <2>4, <3>1, Zenon DEF TypeOK, ProcTypeOK
  <2>5. CASE /\ pc[w] = "unregister" /\ pc'[w] = "idle"
             /\ pmemVolumes' = [pmemVolumes EXCEPT ![Id(w)] = None]
    <3>1. v # w /\ pc[v] \in DeleteSteps /\ pc[w] \in DeleteSteps
      BY <1>5, <1>1, <2>5 DEF DeleteSteps
    <3>2. Id(v) # Id(w)
      BY <3>1, LockExclusive DEF Exclusive
    <3> QED BY <2>1, <2>2, <2>5, <3>2 DEF TypeOK, ProcTypeOK
  <2> QED BY <2>3, <2>4, <2>5, StepOrder, Zenon
<1> QED BY <1>3, <1>4, <1>5 DEF LockInv

\* Every step preserves LockInv.
LEMMA LockStep ==
    ASSUME DistinctIDs, TypeOK, StoppedInv, LockInv, [Next]_vars
    PROVE  LockInv'
<1>1. CASE UNCHANGED vars
  BY <1>1 DEF LockInv, Active, Key, Id, vars, procVars, workVars
<1>2. ASSUME NEW w \in Workers, NEW r \in Requests, Call(w, r)
      PROVE  LockInv'
  <2>1. pc'[w] = "lock" /\ UNCHANGED pmemVolumes
    BY <1>2, Zenon DEF Call, Goto, TypeOK, WorkTypeOK, procVars
  <2>2. ASSUME NEW v \in Workers, v # w
        PROVE  pc'[v] = pc[v] /\ req'[v] = req[v] /\ Id(v)' = Id(v) /\ Key(v)' = Key(v)
    <3>1. pc'[v] = pc[v] /\ req'[v] = req[v]
      BY <1>2, <2>2 DEF Call, Goto, TypeOK, WorkTypeOK
    <3> QED BY <3>1, Zenon DEF Id, Key
  <2>3. pc'[w] \notin CreateSteps \cup DeleteSteps /\ ~Active(w)'
    BY <2>1 DEF CreateSteps, DeleteSteps, Active
  <2>4. ASSUME NEW v \in Workers
        PROVE  /\ pc'[v] \in CreateSteps => req'[v].op = "create" /\ pmemVolumes'[Id(v)'] = None
               /\ pc'[v] \in DeleteSteps => req'[v].op = "delete" /\ pmemVolumes'[Id(v)'] # None
    <3>1. CASE v = w
      BY <2>3, <3>1, Zenon
    <3>2. CASE v # w
      BY <2>1, <2>2, <3>2 DEF LockInv
    <3> QED BY <3>1, <3>2
  <2>5. ASSUME NEW u \in Workers, NEW v \in Workers, u # v, Active(u)', Active(v)'
        PROVE  Key(u)' # Key(v)'
    <3>1. u # w /\ v # w
      BY <2>3, <2>5
    <3>2. Active(u) /\ Active(v)
      BY <2>2, <2>5, <3>1, Zenon DEF Active
    <3> QED BY <2>2, <2>5, <3>1, <3>2 DEF LockInv
  <2> QED BY <2>4, <2>5, Zenon DEF LockInv
<1>3. ASSUME NEW w \in Workers, LockKey(w)
      PROVE  LockInv'
  <2>1. pc[w] = "lock" /\ pc'[w] = "lookup" /\ UNCHANGED <<pmemVolumes, req>>
    BY <1>3, Zenon DEF LockKey, Goto, TypeOK, WorkTypeOK, procVars
  <2>2. \A v \in Workers \ {w} : pc'[v] = pc[v]
    BY <1>3, StepFrame, Zenon
  <2>3. \A v \in Workers : Id(v)' = Id(v) /\ Key(v)' = Key(v)
    BY <2>1 DEF Id, Key
  <2>4. \A v \in Workers : Active(v) => Key(v) # Key(w)
    BY <1>3 DEF LockKey, Active
  <2> QED BY <2>1, <2>2, <2>3, <2>4 DEF LockInv, Active, CreateSteps, DeleteSteps
<1>4. ASSUME NEW w \in Workers, Step(w)
      PROVE  LockInv'
  BY <1>4, LockHandlerStep
<1>5. CASE Crash \/ PowerLoss \/ Restart
  <2>1. \A w \in Workers : pc'[w] = "idle"
    BY <1>5, ZenonT(30) DEF Crash, PowerLoss, Restart, StoppedInv, Serving, workVars
  <2> QED BY <2>1 DEF LockInv, Active, CreateSteps, DeleteSteps
<1>6. ASSUME NEW id \in Ids, Cleanup(id)
      PROVE  LockInv'
  BY <1>6, Zenon DEF Cleanup, LockInv, Active, Key, Id, workVars
<1> QED BY <1>1, <1>2, <1>3, <1>4, <1>5, <1>6, Zenon DEF Next

\* Initially nothing runs and nothing is stored.
LEMMA InitLock == Init => StoppedInv /\ LockInv
BY DEF Init, StoppedInv, Serving, LockInv, Active, CreateSteps, DeleteSteps

\* Without hash collisions, no two handlers ever work on the same volume
\* although CreateVolume locks names and DeleteVolume locks IDs.
THEOREM ExclusiveHolds ==
    ASSUME DistinctIDs
    PROVE  Spec => []Exclusive
<1>1. TypeOK /\ StoppedInv /\ LockInv /\ [Next]_vars => (StoppedInv /\ LockInv)'
  BY StoppedStep, LockStep
<1>2. TypeOK /\ LockInv => Exclusive
  BY LockExclusive, SMTT(30)
<1> QED BY <1>1, <1>2, InitLock, TypeCorrect, PTL DEF Spec

-----------------------------------------------------------------------------
(* Known volumes are backed by an entry, a device and an LV.               *)

\* A handler past its lookup touches its own volume only.
LEMMA StepLocal ==
    ASSUME TypeOK, NEW w \in Workers, Step(w),
           NEW id \in Ids, id # Id(w)
    PROVE  /\ entry'[id] = entry[id] /\ unsynced'[id] \subseteq unsynced[id]
           /\ lvs'[id] = lvs[id] /\ devices'[id] = devices[id]
           /\ pmemVolumes'[id] = pmemVolumes[id]
<1>0. Id(w) \in Ids
  BY StepFrame, RequestFact, SMTT(30)
<1> USE <1>0 DEF TypeOK, StoreTypeOK, LvmTypeOK, ProcTypeOK, procVars, lvmVars, storeVars,
                 Replace, ReplaceAndSync
<1>2. CASE CreateLookup(w) BY <1>2, Zenon DEF CreateLookup
<1>3. CASE SmCreate(w) BY <1>3, SMTT(30) DEF SmCreate, SMCreate, StoreCreateFails, SMCreateFails
<1>4. CASE CreateLV(w) BY <1>4, ZenonT(40) DEF CreateLV, Undo, LvCreate
<1>5. CASE ClearLV(w) BY <1>5, Zenon DEF ClearLV, Undo, LvReady
<1>6. CASE SmUpdate(w) BY <1>6 DEF SmUpdate, SMCreate, StoreCreateFails, SMCreateFails
<1>7. CASE Register(w) BY <1>7, SMTT(30) DEF Register
<1>8. CASE UndoCreate(w) BY <1>8, ZenonT(40) DEF UndoCreate, StoreDelete, SMDelete, SMDeleteFails
<1>9. CASE DeleteLookup(w) BY <1>9, Zenon DEF DeleteLookup
<1>10. CASE Wipe(w) BY <1>10 DEF Wipe, LvClear
<1>11. CASE RemoveLV(w) BY <1>11, Zenon DEF RemoveLV, LvRemove
<1>12. CASE SmDelete(w) BY <1>12, Zenon DEF SmDelete, StoreDelete, SMDelete, SMDeleteFails
<1>13. CASE Unregister(w) BY <1>13, Zenon DEF Unregister
<1> QED BY <1>2, <1>3, <1>4, <1>5, <1>6, <1>7, <1>8, <1>9, <1>10, <1>11, <1>12, <1>13, Zenon DEF Step

\* What BackedInv says of a handler's own volume is true after its step.
LEMMA BackedOwn ==
    ASSUME TypeOK, LockInv, BackedInv, NEW w \in Workers, Step(w), pc[w] # "lookup",
           NEW id \in Ids, id = Id(w)
    PROVE  /\ pc'[w] \in {"lvcreate", "clear"} => entry'[id] # None
           /\ pc'[w] = "clear" => lvs'[id][lv'[w]] > 0
           /\ pc'[w] \in {"smUpdate", "register", "wipe", "lvremove"} => Backed(id)'
           /\ pmemVolumes'[id] # None => pc'[w] \in {"smDelete", "unregister"} \/ Backed(id)'
<1>0. Id(w) \in Ids /\ Vol(w) # None /\ lv[w] \in 0 .. NumVGs /\ size[w] \in Nat
  BY StepFrame, RequestFact, NodeControllerAssumption, ZenonT(40) DEF TypeOK, WorkTypeOK
<1>1. /\ pc[w] \in CreateSteps => pmemVolumes[Id(w)] = None
      /\ pc[w] \in {"lvcreate", "clear"} => entry[Id(w)] # None
      /\ pc[w] = "clear" => lvs[Id(w)][lv[w]] > 0
      /\ pc[w] \in {"smUpdate", "register", "wipe", "lvremove"} => Backed(Id(w))
  BY ZenonT(40) DEF LockInv, BackedInv
<1> USE <1>0, <1>1 DEF TypeOK, StoreTypeOK, LvmTypeOK, ProcTypeOK, WorkTypeOK, procVars,
                 lvmVars, storeVars, Replace, ReplaceAndSync, Goto, Return, ReturnVolume, Backed,
                 CreateSteps
<1>3. CASE SmCreate(w) BY <1>3, ZenonT(40) DEF SmCreate, SMCreate, StoreCreateFails, SMCreateFails
<1>4. CASE CreateLV(w)
  <2>1. Align(size[w]) > 0
    BY AlignFact
  <2>2. CASE Undo(w, "Internal") \/ Undo(w, "ResourceExhausted")
    BY <1>4, <2>2, ZenonT(40) DEF CreateLV, Undo
  <2>3. CASE \E vg \in Eligible(Id(w), size[w]) :
               LvCreate(Id(w), vg, size[w]) /\ lv' = [lv EXCEPT ![w] = vg]
    <3>1. PICK vg \in VGs : LvCreate(Id(w), vg, size[w]) /\ lv' = [lv EXCEPT ![w] = vg]
      BY <2>3, Zenon DEF Eligible
    <3>2. lvs'[id][lv'[w]] > 0
      <4>1. lv'[w] = vg
        BY <3>1, Zenon
      <4>2. lvs'[id][vg] = Align(size[w])
        BY <3>1, Zenon DEF LvCreate
      <4> QED BY <2>1, <4>1, <4>2, Zenon
    <3>3. UNCHANGED <<entry, devices, pmemVolumes>> /\ pc'[w] \in {"clear", "undo"}
      BY <1>4, <3>1, ZenonT(40) DEF CreateLV, LvCreate, Undo
    <3> QED BY <1>4, <3>2, <3>3, ZenonT(40) DEF CreateLV
  <2> QED BY <1>4, <2>2, <2>3, ZenonT(40) DEF CreateLV
<1>5. CASE ClearLV(w) BY <1>5, ZenonT(40) DEF ClearLV, Undo, LvReady
<1>6. CASE SmUpdate(w) BY <1>6, ZenonT(40) DEF SmUpdate, SMCreate, StoreCreateFails, SMCreateFails
<1>7. CASE Register(w) BY <1>7, ZenonT(40) DEF Register
<1>8. CASE UndoCreate(w) BY <1>8, ZenonT(40) DEF UndoCreate, StoreDelete, SMDelete, SMDeleteFails
<1>10. CASE Wipe(w) BY <1>10, ZenonT(40) DEF Wipe, LvClear
<1>11. CASE RemoveLV(w)
  <2>1. CASE pc'[w] = "smDelete" BY <2>1, ZenonT(40)
  <2>2. CASE pc'[w] = "idle" /\ UNCHANGED <<lvmVars, storeVars>> BY <1>11, <2>2, ZenonT(40) DEF RemoveLV
  <2> QED BY <1>11, <2>1, <2>2, ZenonT(40) DEF RemoveLV
<1>12. CASE SmDelete(w) BY <1>12, Zenon DEF SmDelete, StoreDelete, SMDelete, SMDeleteFails
<1>13. CASE Unregister(w) BY <1>13, ZenonT(40) DEF Unregister
<1> QED BY <1>3, <1>4, <1>5, <1>6, <1>7, <1>8, <1>10, <1>11, <1>12, <1>13, Zenon
        DEF Step, CreateLookup, DeleteLookup

\* Handlers in their first two steps and their lookups change no volume.
LEMMA Waiting ==
    ASSUME TypeOK, NEW w \in Workers,
           \/ \E r \in Requests : Call(w, r)
           \/ LockKey(w)
           \/ Step(w) /\ pc[w] = "lookup"
    PROVE  /\ UNCHANGED <<storeVars, lvmVars, procVars>>
           /\ pc[w] \in {"idle", "lock", "lookup"}
           /\ pc'[w] \in {"idle", "lock", "lookup", "smCreate", "wipe"}
           /\ pc'[w] = "wipe" => req[w].op = "delete" /\ pmemVolumes[Id(w)] # None /\ Active(w)
           /\ pc'[w] = "wipe" => req'[w] = req[w]
           /\ \A v \in Workers \ {w} : pc'[v] = pc[v] /\ req'[v] = req[v] /\ lv'[v] = lv[v]
<1> USE DEF TypeOK, WorkTypeOK, Goto, Return, ReturnVolume, Active
<1>1. ASSUME NEW r \in Requests, Call(w, r)
      PROVE  /\ UNCHANGED <<storeVars, lvmVars, procVars>>
             /\ pc[w] = "idle" /\ pc'[w] = "lock"
             /\ \A v \in Workers \ {w} : pc'[v] = pc[v] /\ req'[v] = req[v] /\ lv'[v] = lv[v]
  BY <1>1, Zenon DEF Call
<1>2. CASE LockKey(w) BY <1>2, ZenonT(40) DEF LockKey
<1>3. CASE CreateLookup(w) BY <1>3, Zenon DEF CreateLookup
<1>4. CASE DeleteLookup(w) BY <1>4, ZenonT(40) DEF DeleteLookup
<1>5. CASE Step(w) /\ pc[w] = "lookup"
  BY <1>3, <1>4, <1>5, ZenonT(40) DEF Step, SmCreate, CreateLV, ClearLV, SmUpdate, Register, UndoCreate,
     Wipe, RemoveLV, SmDelete, Unregister
<1> QED BY <1>1, <1>2, <1>5, ZenonT(40)

\* A delete that finds the volume in the map finds it backed: another delete
\* would hold the key.
LEMMA BackedWaiting ==
    ASSUME DistinctIDs, TypeOK, LockInv, BackedInv, NEW w \in Workers,
           \/ \E r \in Requests : Call(w, r)
           \/ LockKey(w)
           \/ Step(w) /\ pc[w] = "lookup"
    PROVE  BackedInv'
<1>1. UNCHANGED <<entry, lvs, devices, pmemVolumes>>
  BY Waiting, Zenon DEF storeVars, lvmVars, procVars
<1>2. \A id \in Ids : Backed(id)' <=> Backed(id)
  BY <1>1, ZenonT(30) DEF Backed
<1>3. ASSUME NEW v \in Workers, v # w
      PROVE  pc'[v] = pc[v] /\ lv'[v] = lv[v] /\ Id(v)' = Id(v)
  BY <1>3, Waiting, ZenonT(30) DEF Id
<1>4. pc[w] \in {"idle", "lock", "lookup"} /\ pc'[w] \in {"idle", "lock", "lookup", "smCreate", "wipe"}
  BY Waiting, Zenon
<1>5. ASSUME pc'[w] = "wipe" PROVE Id(w)' = Id(w) /\ Id(w) \in Ids /\ Backed(Id(w))
  <2>1. Active(w) /\ req[w].op = "delete" /\ pmemVolumes[Id(w)] # None /\ req'[w] = req[w]
    BY <1>5, Waiting, Zenon
  <2>2. Id(w) \in Ids /\ Id(w)' = Id(w)
    BY <2>1, RequestFact, Zenon DEF Active, Id
  <2>3. ASSUME NEW v \in Workers, pc[v] \in {"smDelete", "unregister"}, Id(v) = Id(w)
        PROVE  FALSE
    <3>1. Active(v) /\ req[v].op = "delete" /\ v # w
      BY <2>3, <1>4, Zenon DEF Active, LockInv, DeleteSteps
    <3>2. Key(v) = Key(w)
      BY <2>1, <2>3, <3>1, SameKey, Zenon DEF Active
    <3> QED BY <2>1, <3>1, <3>2, Zenon DEF LockInv
  <2> QED BY <2>1, <2>2, <2>3, Zenon DEF BackedInv
<1>6. ASSUME NEW v \in Workers
      PROVE  /\ pc'[v] \in {"lvcreate", "clear"} => entry'[Id(v)'] # None
             /\ pc'[v] = "clear" => lvs'[Id(v)'][lv'[v]] > 0
             /\ pc'[v] \in {"smUpdate", "register", "wipe", "lvremove"} => Backed(Id(v))'
  <2>1. CASE v # w
    <3>1. pc'[v] = pc[v] /\ lv'[v] = lv[v] /\ Id(v)' = Id(v)
      BY <2>1, <1>3, Zenon
    <3> QED BY <3>1, <1>1, Zenon DEF BackedInv, Backed
  <2>2. CASE v = w
    BY <2>2, <1>1, <1>4, <1>5, Zenon DEF Backed
  <2> QED BY <2>1, <2>2
<1>7. ASSUME NEW id \in Ids, pmemVolumes'[id] # None
      PROVE  \/ \E v \in Workers : pc'[v] \in {"smDelete", "unregister"} /\ Id(v)' = id
             \/ Backed(id)'
  <2>1. CASE Backed(id)
    BY <2>1, <1>2, Zenon
  <2>2. ASSUME NEW v \in Workers, pc[v] \in {"smDelete", "unregister"}, Id(v) = id
        PROVE  pc'[v] \in {"smDelete", "unregister"} /\ Id(v)' = id
    BY <2>2, <1>3, <1>4, Zenon
  <2> QED BY <1>1, <1>7, <2>1, <2>2, Zenon DEF BackedInv
<1> QED BY <1>6, <1>7, Zenon DEF BackedInv

\* A handler past its lookup works on a volume that is its own.
LEMMA BackedHandlerStep ==
    ASSUME DistinctIDs, TypeOK, LockInv, BackedInv,
           NEW w \in Workers, Step(w), pc[w] # "lookup"
    PROVE  BackedInv'
<1>1. pc[w] \in CreateSteps \cup DeleteSteps /\ Id(w) \in Ids
  BY StepFrame, StepOrder, RequestFact, ZenonT(40) DEF Active, TypeOK, WorkTypeOK
<1>2. ASSUME NEW v \in Workers, v # w
      PROVE  pc'[v] = pc[v] /\ lv'[v] = lv[v] /\ Id(v)' = Id(v)
  BY <1>2, StepFrame, Zenon DEF Id
<1>3. pc'[w] = "idle" \/ Id(w)' = Id(w)
  BY StepFrame, Zenon DEF Id
<1>4. ASSUME NEW id \in Ids, id # Id(w), Backed(id)
      PROVE  Backed(id)'
  BY <1>4, StepLocal, Zenon DEF Backed
<1>5. ASSUME NEW v \in Workers, pc'[v] # "idle"
      PROVE  /\ pc'[v] \in {"lvcreate", "clear"} => entry'[Id(v)'] # None
             /\ pc'[v] = "clear" => lvs'[Id(v)'][lv'[v]] > 0
             /\ pc'[v] \in {"smUpdate", "register", "wipe", "lvremove"} => Backed(Id(v))'
  <2>1. CASE v # w /\ pc[v] \in CreateSteps \cup DeleteSteps
    <3>1. pc'[v] = pc[v] /\ lv'[v] = lv[v] /\ Id(v)' = Id(v)
      BY <2>1, <1>2
    <3>2. Id(v) # Id(w)
      BY <1>1, <2>1, LockExclusive, Zenon DEF Exclusive
    <3>3. Id(v) \in Ids
      BY <1>5, <3>1, RequestFact, Zenon
    <3>4. entry'[Id(v)] = entry[Id(v)] /\ lvs'[Id(v)] = lvs[Id(v)] /\ devices'[Id(v)] = devices[Id(v)]
      BY <3>2, <3>3, StepLocal, Zenon
    <3> QED BY <3>1, <3>4, Zenon DEF BackedInv, Backed
  <2>2. CASE v # w /\ pc[v] \notin CreateSteps \cup DeleteSteps
    BY <2>2, <1>2, Zenon DEF CreateSteps, DeleteSteps
  <2>3. CASE v = w
    <3>1. Id(w)' = Id(w)
      BY <1>3, <1>5, <2>3
    <3>2. PICK id \in Ids : id = Id(w)
      BY <1>1, Zenon
    <3>3. /\ pc'[w] \in {"lvcreate", "clear"} => entry'[id] # None
          /\ pc'[w] = "clear" => lvs'[id][lv'[w]] > 0
          /\ pc'[w] \in {"smUpdate", "register", "wipe", "lvremove"} => Backed(id)'
      BY <3>2, BackedOwn
    <3> QED BY <2>3, <3>1, <3>2, <3>3, Zenon DEF Backed
  <2> QED BY <2>1, <2>2, <2>3, Zenon
<1>6. ASSUME NEW id \in Ids, pmemVolumes'[id] # None
      PROVE  \/ \E v \in Workers : pc'[v] \in {"smDelete", "unregister"} /\ Id(v)' = id
             \/ Backed(id)'
  <2>1. CASE id = Id(w)
    <3>1. pc'[w] \in {"smDelete", "unregister"} \/ Backed(id)'
      BY <1>6, <2>1, BackedOwn, Zenon
    <3> QED BY <2>1, <3>1, <1>3, Zenon
  <2>2. CASE id # Id(w)
    <3>1. pmemVolumes[id] # None
      BY <1>6, <2>2, StepLocal
    <3>2. ASSUME NEW v \in Workers, pc[v] \in {"smDelete", "unregister"}, Id(v) = id
          PROVE  pc'[v] \in {"smDelete", "unregister"} /\ Id(v)' = id
      BY <3>2, <2>2, <1>2
    <3> QED BY <3>1, <3>2, <2>2, <1>4, Zenon DEF BackedInv
  <2> QED BY <2>1, <2>2, Zenon
<1> QED BY <1>5, <1>6, ZenonT(40) DEF BackedInv

\* Every step preserves BackedInv.
LEMMA BackedStep ==
    ASSUME DistinctIDs, TypeOK, StoppedInv, LockInv, BackedInv, [Next]_vars
    PROVE  BackedInv'
<1>1. CASE UNCHANGED vars
  BY <1>1, Zenon DEF BackedInv, Backed, Id, vars, storeVars, lvmVars, procVars, workVars
<1>2. ASSUME NEW w \in Workers, NEW r \in Requests, Call(w, r)
      PROVE  BackedInv'
  BY <1>2, BackedWaiting
<1>3. ASSUME NEW w \in Workers, LockKey(w)
      PROVE  BackedInv'
  BY <1>3, BackedWaiting
<1>4. ASSUME NEW w \in Workers, Step(w)
      PROVE  BackedInv'
  BY <1>4, BackedWaiting, BackedHandlerStep, SMTT(30)
<1>5. CASE Crash
  BY <1>5, Zenon DEF Crash, BackedInv
<1>6. CASE PowerLoss
  BY <1>6, Zenon DEF PowerLoss, StoppedInv, Serving, BackedInv, procVars, workVars
<1>7. CASE Restart
  <2>1. \A w \in Workers : pc'[w] = "idle"
    BY <1>7 DEF Restart, StoppedInv, Serving, workVars
  <2>2. ASSUME NEW id \in Ids, pmemVolumes'[id] # None
        PROVE  Backed(id)'
    <3>1. ListedDevice(id) # 0 /\ entry[id] # None
      BY <1>7, <2>2 DEF Restart
    <3>2. UNCHANGED <<entry, lvs>> /\ devices'[id] = ListedDevice(id)
      BY <1>7, Zenon DEF Restart, LvLoad, storeVars
    <3> QED BY <3>1, <3>2, ListedDeviceFact DEF Backed, TypeOK
  <2> QED BY <2>1, <2>2, Zenon DEF BackedInv
<1>8. ASSUME NEW id \in Ids, Cleanup(id)
      PROVE  BackedInv'
  <2>1. /\ \A w \in Workers : pc[w] = "idle"
        /\ pmemVolumes[id] = None
        /\ UNCHANGED <<pmemVolumes, pc, lvs, devices>>
    BY <1>8 DEF Cleanup, StoppedInv, Serving, workVars, lvmVars
  <2>2. \A i \in Ids \ {id} : entry'[i] = entry[i]
    BY <1>8 DEF Cleanup, StoreDelete, SMDelete, SMDeleteFails, Replace, ReplaceAndSync,
            TypeOK, StoreTypeOK
  <2> QED BY <2>1, <2>2 DEF BackedInv, Backed
<1> QED BY <1>1, <1>2, <1>3, <1>4, <1>5, <1>6, <1>7, <1>8, SMTT(30) DEF Next

\* Without hash collisions, whatever fails: a known volume that is not being
\* deleted has a state entry, a cached device and an LV.
THEOREM RegisteredBackedHolds ==
    ASSUME DistinctIDs
    PROVE  Spec => []RegisteredBacked
<1>1. Init => BackedInv
  BY DEF Init, BackedInv
<1>2. TypeOK /\ StoppedInv /\ LockInv /\ BackedInv /\ [Next]_vars
         => (StoppedInv /\ LockInv /\ BackedInv)'
  BY StoppedStep, LockStep, BackedStep, Zenon
<1>3. BackedInv => RegisteredBacked
  BY DEF BackedInv, RegisteredBacked, Backed, DeleteSteps
<1> QED BY <1>1, <1>2, <1>3, InitLock, TypeCorrect, PTL DEF Spec

-----------------------------------------------------------------------------
\* Clearing a new LV and reading the state files at start-up do not fail.
NoLeakFaults == "clear" \notin Faults /\ "load" \notin Faults

\* A handler that is about to create an LV, or undoes a create, has none.
LEMMA NoLVYet ==
    ASSUME DistinctIDs, TypeOK, LockInv, LeakInv, up,
           NEW w \in Workers, pc[w] \in {"smCreate", "lvcreate", "undo"}
    PROVE  ~HasLV(Id(w))
<1> SUFFICES ASSUME HasLV(Id(w)) PROVE FALSE
  OBVIOUS
<1>1. Id(w) \in Ids /\ pc[w] \in CreateSteps /\ pmemVolumes[Id(w)] = None
  BY RequestFact, Zenon DEF LockInv, CreateSteps
<1>2. PICK v \in Workers : pc[v] \in {"clear", "smUpdate", "register"} /\ Id(v) = Id(w)
  BY <1>1 DEF LeakInv
<1>3. v # w /\ pc[v] \in CreateSteps
  BY <1>2, SMTT(30) DEF CreateSteps
<1> QED BY <1>1, <1>2, <1>3, LockExclusive DEF Exclusive

\* What LeakInv says of a handler's own volume is true after its step.
LEMMA LeakOwn ==
    ASSUME DistinctIDs, NoLeakFaults, TypeOK, LockInv, BackedInv, LeakInv, up,
           NEW w \in Workers, Step(w), pc[w] # "lookup",
           NEW id \in Ids, id = Id(w)
    PROVE  /\ HasLV(id)' => entry'[id] # None /\ None \notin unsynced'[id]
           /\ pc'[w] = "lvcreate" => None \notin unsynced'[id]
           /\ pc'[w] \in {"smDelete", "unregister"} => ~HasLV(id)'
           /\ \A u, v \in VGs : lvs'[id][u] > 0 /\ lvs'[id][v] > 0 => u = v
           /\ HasLV(id)' => \/ pmemVolumes'[id] # None
                            \/ pc'[w] \in {"clear", "smUpdate", "register"}
<1>0. Vol(w) # None /\ lv[w] \in 0 .. NumVGs /\ size[w] \in Nat
  BY StepFrame, RequestFact, NodeControllerAssumption, Zenon DEF TypeOK, WorkTypeOK
<1>1. pc[w] \in {"smCreate", "lvcreate", "undo", "smDelete", "unregister"} => ~HasLV(id)
  BY NoLVYet, Zenon DEF LeakInv
<1>2. pc[w] \in {"wipe", "lvremove"} => pmemVolumes[id] # None
  BY Zenon DEF LockInv, DeleteSteps
<1>3. /\ pc[w] \in {"lvcreate", "clear"} => entry[id] # None
      /\ pc[w] \in {"smUpdate", "register", "wipe", "lvremove"} => Backed(id)
  BY DEF BackedInv
<1>4. /\ HasLV(id) => entry[id] # None /\ None \notin unsynced[id]
      /\ pc[w] = "lvcreate" => None \notin unsynced[id]
      /\ \A u, v \in VGs : lvs[id][u] > 0 /\ lvs[id][v] > 0 => u = v
  BY ZenonT(40) DEF LeakInv, NoLeak, HasLV
<1> USE <1>0 DEF TypeOK, StoreTypeOK, ProcTypeOK, WorkTypeOK, procVars,
                 lvmVars, storeVars, Goto, Return, ReturnVolume
<1>5. ASSUME UNCHANGED lvs, ~HasLV(id)
      PROVE  ~HasLV(id)' /\ \A u, v \in VGs : lvs'[id][u] > 0 /\ lvs'[id][v] > 0 => u = v
  BY <1>4, <1>5, ZenonT(40) DEF HasLV
<1>6. ASSUME UNCHANGED <<lvs, entry, unsynced>>
      PROVE  /\ HasLV(id)' <=> HasLV(id)
             /\ HasLV(id)' => entry'[id] # None /\ None \notin unsynced'[id]
             /\ \A u, v \in VGs : lvs'[id][u] > 0 /\ lvs'[id][v] > 0 => u = v
  BY <1>4, <1>6, ZenonT(40) DEF HasLV
<1>7. CASE SmCreate(w)
  <2>1. UNCHANGED lvs /\ ~HasLV(id)
    BY <1>1, <1>7, ZenonT(40) DEF SmCreate
  <2>2. pc'[w] = "lvcreate" => unsynced'[id] = {}
    BY <1>7, ZenonT(40) DEF SmCreate, SMCreate, ReplaceAndSync
  <2>3. pc'[w] \in {"lvcreate", "idle"}
    BY <1>7, ZenonT(40) DEF SmCreate
  <2> QED BY <1>5, <2>1, <2>2, <2>3, Zenon
<1>8. CASE CreateLV(w)
  <2>1. pc[w] = "lvcreate" /\ UNCHANGED <<entry, unsynced>>
    BY <1>8 DEF CreateLV
  <2>2. CASE Undo(w, "Internal") \/ Undo(w, "ResourceExhausted")
    <3>1. pc'[w] = "undo" /\ UNCHANGED lvs
      BY <2>2 DEF Undo
    <3> QED BY <1>1, <1>5, <2>1, <3>1, Zenon
  <2>3. ASSUME NEW vg \in VGs, LvCreate(id, vg, size[w]), Goto(w, "clear")
        PROVE  /\ pc'[w] = "clear"
               /\ \A u, v \in VGs : lvs'[id][u] > 0 /\ lvs'[id][v] > 0 => u = v
    <3>1. \A u \in VGs : u # vg => lvs'[id][u] = lvs[id][u]
      BY <2>3 DEF LvCreate, LvmTypeOK
    <3>2. \A u \in VGs : u # vg => ~(lvs'[id][u] > 0)
      BY <1>1, <2>1, <3>1, ZenonT(40) DEF HasLV
    <3> QED BY <2>3, <3>2, Zenon
  <2> QED BY <1>3, <1>4, <1>8, <2>1, <2>2, <2>3, Zenon DEF CreateLV, Eligible
<1>9. CASE ClearLV(w)
  <2>1. UNCHANGED <<lvs, entry, unsynced>> /\ pc'[w] \in {"smUpdate", "register"}
    BY <1>9, ZenonT(40) DEF ClearLV, LvReady, NoLeakFaults
  <2> QED BY <1>6, <2>1, ZenonT(40)
<1>10. CASE SmUpdate(w)
  <2>1. UNCHANGED lvs /\ pc'[w] = "register" /\ entry[id] # None
    BY <1>3, <1>10, ZenonT(40) DEF SmUpdate, Backed
  <2>2. entry'[id] # None /\ unsynced'[id] \subseteq unsynced[id] \cup {entry[id]}
    BY <1>10, <2>1, ZenonT(40) DEF SmUpdate, SMCreate, StoreCreateFails, SMCreateFails, Replace,
                                   ReplaceAndSync
  <2>3. HasLV(id)' => HasLV(id)
    BY <2>1, ZenonT(40) DEF HasLV
  <2> QED BY <1>4, <2>1, <2>2, <2>3, Zenon
<1>11. CASE Register(w)
  <2>1. UNCHANGED <<lvs, entry, unsynced>> /\ pc'[w] = "idle" /\ pmemVolumes'[id] # None
    BY <1>11, ZenonT(40) DEF Register
  <2> QED BY <1>6, <2>1, ZenonT(40)
<1>12. CASE UndoCreate(w)
  <2>1. UNCHANGED lvs /\ ~HasLV(id) /\ pc'[w] = "idle"
    BY <1>1, <1>12 DEF UndoCreate
  <2> QED BY <1>5, <2>1, Zenon
<1>13. CASE Wipe(w)
  <2>1. pc[w] = "wipe" /\ UNCHANGED <<entry, unsynced, pmemVolumes>>
    BY <1>13, ZenonT(40) DEF Wipe
  <2>2. UNCHANGED lvs /\ pc'[w] \in {"lvremove", "idle"}
    BY <1>3, <1>13, <2>1, ZenonT(40) DEF Wipe, LvClear, Backed
  <2> QED BY <1>2, <1>6, <2>1, <2>2, Zenon
<1>14. CASE RemoveLV(w)
  <2>1. pc[w] = "lvremove" /\ UNCHANGED <<entry, unsynced, pmemVolumes>>
    BY <1>14, ZenonT(40) DEF RemoveLV
  <2>2. CASE LvRemove(id)
    <3>1. \A u \in VGs : ~(lvs'[id][u] > 0)
      <4>1. devices[id] \in VGs /\ lvs[id][devices[id]] > 0
        BY <1>3, <2>1, LvmAssumption, SMTT(20) DEF Backed, LvmTypeOK, VGs
      <4>2. \A u \in VGs : lvs'[id][u] = IF u = devices[id] THEN 0 ELSE lvs[id][u]
        BY <2>2, <4>1 DEF LvRemove, LvmTypeOK
      <4>3. \A u \in VGs : lvs[id][u] > 0 => u = devices[id]
        BY <1>4, <4>1, Zenon
      <4>4. ~(0 > 0)
        OBVIOUS
      <4> QED BY <4>2, <4>3, <4>4, ZenonT(30)
    <3> QED BY <2>1, <3>1, <1>14, ZenonT(40) DEF RemoveLV, HasLV
  <2>3. CASE UNCHANGED lvs /\ pc'[w] = "idle"
    BY <1>2, <1>6, <2>1, <2>3, Zenon
  <2> QED BY <1>14, <2>2, <2>3, Zenon DEF RemoveLV
<1>15. CASE SmDelete(w) \/ Unregister(w)
  <2>1. UNCHANGED lvs /\ ~HasLV(id) /\ pc'[w] \in {"unregister", "idle"}
    BY <1>1, <1>15, Zenon DEF SmDelete, Unregister
  <2> QED BY <1>5, <2>1, ZenonT(40)
<1> QED BY <1>7, <1>8, <1>9, <1>10, <1>11, <1>12, <1>13, <1>14, <1>15, Zenon
        DEF Step, CreateLookup, DeleteLookup

\* A handler that has not passed its lookup disturbs nothing.
LEMMA LeakWaiting ==
    ASSUME TypeOK, LeakInv, NEW w \in Workers,
           \/ \E r \in Requests : Call(w, r)
           \/ LockKey(w)
           \/ Step(w) /\ pc[w] = "lookup"
    PROVE  LeakInv'
<1>1. UNCHANGED <<entry, unsynced, lvs, pmemVolumes, up, cleanupList>>
  BY Waiting, Zenon DEF storeVars, lvmVars, procVars
<1>2. \A id : HasLV(id)' <=> HasLV(id)
  BY <1>1, Zenon DEF HasLV
<1>3. ASSUME NEW v \in Workers, v # w
      PROVE  pc'[v] = pc[v] /\ Id(v)' = Id(v)
  BY <1>3, Waiting, ZenonT(40) DEF Id
<1>4. pc[w] \in {"idle", "lock", "lookup"} /\ pc'[w] \in {"idle", "lock", "lookup", "smCreate", "wipe"}
  BY Waiting, Zenon
<1>5. NoLeak'
  BY <1>1, Zenon DEF LeakInv, NoLeak
<1>6. ASSUME NEW v \in Workers
      PROVE  /\ pc'[v] = "lvcreate" => None \notin unsynced'[Id(v)']
             /\ pc'[v] \in {"smDelete", "unregister"} => ~HasLV(Id(v))'
  <2>1. CASE v = w
    BY <1>4, <2>1
  <2>2. CASE v # w
    BY <1>1, <1>3, <2>2, Zenon DEF LeakInv, HasLV
  <2> QED BY <2>1, <2>2, Zenon
<1>7. ASSUME NEW id \in Ids, up', HasLV(id)', pmemVolumes'[id] = None
      PROVE  \E v \in Workers : pc'[v] \in {"clear", "smUpdate", "register"} /\ Id(v)' = id
  <2>1. PICK v \in Workers : pc[v] \in {"clear", "smUpdate", "register"} /\ Id(v) = id
    BY <1>1, <1>2, <1>7, ZenonT(40) DEF LeakInv
  <2> QED BY <1>3, <1>4, <2>1, ZenonT(40)
<1>8. \A id \in cleanupList' : ~HasLV(id)'
  BY <1>1, <1>2, Zenon DEF LeakInv
<1>9. \A id \in Ids, u, v \in VGs : lvs'[id][u] > 0 /\ lvs'[id][v] > 0 => u = v
  BY <1>1, Zenon DEF LeakInv
<1> QED BY <1>5, <1>6, <1>7, <1>8, <1>9, ZenonT(40) DEF LeakInv

\* A handler past its lookup works on a volume that is its own.
LEMMA LeakHandlerStep ==
    ASSUME DistinctIDs, NoLeakFaults, TypeOK, StoppedInv, LockInv, BackedInv, LeakInv,
           NEW w \in Workers, Step(w), pc[w] # "lookup"
    PROVE  LeakInv'
<1>1. pc[w] \in CreateSteps \cup DeleteSteps /\ Id(w) \in Ids
  BY StepFrame, StepOrder, RequestFact, ZenonT(40) DEF Active, TypeOK, WorkTypeOK
<1>2. up /\ cleanupList = {} /\ UNCHANGED <<up, cleanupList>>
  BY StepFrame, Zenon DEF StoppedInv, Serving
<1>3. ASSUME NEW v \in Workers, v # w
      PROVE  pc'[v] = pc[v] /\ Id(v)' = Id(v)
  BY <1>3, StepFrame DEF Id
<1>4. pc'[w] = "idle" \/ Id(w)' = Id(w)
  BY StepFrame DEF Id
<1>5. ASSUME NEW id \in Ids, id # Id(w)
      PROVE  /\ HasLV(id)' <=> HasLV(id)
             /\ lvs'[id] = lvs[id]
             /\ entry'[id] = entry[id] /\ unsynced'[id] \subseteq unsynced[id]
             /\ pmemVolumes'[id] = pmemVolumes[id]
  <2>1. lvs'[id] = lvs[id]
    BY <1>5, StepLocal
  <2> QED BY <1>5, <2>1, StepLocal, Zenon DEF HasLV
<1>6. ASSUME NEW id \in Ids, HasLV(id)'
      PROVE  entry'[id] # None /\ None \notin unsynced'[id]
  <2>1. CASE id = Id(w)
    BY <1>2, <1>6, <2>1, LeakOwn, Zenon
  <2>2. CASE id # Id(w)
    <3>1. HasLV(id)
      BY <1>5, <1>6, <2>2, Zenon
    <3>2. entry[id] # None /\ None \notin unsynced[id]
      BY <3>1, Zenon DEF LeakInv, NoLeak, HasLV
    <3> QED BY <1>5, <2>2, <3>2, Zenon
  <2> QED BY <2>1, <2>2
<1>7. ASSUME NEW v \in Workers
      PROVE  /\ pc'[v] = "lvcreate" => None \notin unsynced'[Id(v)']
             /\ pc'[v] \in {"smDelete", "unregister"} => ~HasLV(Id(v))'
  <2>1. CASE v = w /\ pc'[w] # "idle"
    <3>1. PICK id \in Ids : id = Id(w)
      BY <1>1, Zenon
    <3>2. /\ pc'[w] = "lvcreate" => None \notin unsynced'[id]
          /\ pc'[w] \in {"smDelete", "unregister"} => ~HasLV(id)'
      BY <1>2, <3>1, LeakOwn, Zenon
    <3>3. Id(v)' = id
      BY <1>4, <2>1, <3>1, Zenon
    <3> QED BY <2>1, <3>2, <3>3 DEF HasLV
  <2>2. CASE v # w /\ pc[v] \in {"lvcreate", "smDelete", "unregister"}
    <3>1. pc'[v] = pc[v] /\ Id(v)' = Id(v) /\ pc[v] \in CreateSteps \cup DeleteSteps
      BY <1>3, <2>2, Zenon DEF CreateSteps, DeleteSteps
    <3>2. PICK id \in Ids : id = Id(v) /\ id # Id(w)
      BY <1>1, <2>2, <3>1, LockExclusive, RequestFact, Zenon DEF Exclusive
    <3>3. unsynced'[id] \subseteq unsynced[id] /\ lvs'[id] = lvs[id]
      BY <1>5, <3>2
    <3> QED BY <3>1, <3>2, <3>3, Zenon DEF LeakInv, HasLV
  <2>3. CASE v # w /\ pc[v] \notin {"lvcreate", "smDelete", "unregister"}
    BY <1>3, <2>3
  <2> QED BY <2>1, <2>2, <2>3, Zenon
<1>8. ASSUME NEW id \in Ids
      PROVE  \A u, v \in VGs : lvs'[id][u] > 0 /\ lvs'[id][v] > 0 => u = v
  <2>1. CASE id = Id(w)
    BY <1>2, <2>1, LeakOwn, Zenon
  <2>2. CASE id # Id(w)
    BY <1>5, <2>2, Zenon DEF LeakInv
  <2> QED BY <2>1, <2>2, Zenon
<1>9. ASSUME NEW id \in Ids, HasLV(id)', pmemVolumes'[id] = None
      PROVE  \E v \in Workers : pc'[v] \in {"clear", "smUpdate", "register"} /\ Id(v)' = id
  <2>1. CASE id = Id(w)
    <3>1. pc'[w] \in {"clear", "smUpdate", "register"}
      BY <1>2, <1>9, <2>1, LeakOwn, Zenon
    <3> QED BY <1>4, <2>1, <3>1
  <2>2. CASE id # Id(w)
    <3>1. HasLV(id) /\ pmemVolumes[id] = None
      BY <1>5, <1>9, <2>2, Zenon
    <3>2. PICK v \in Workers : pc[v] \in {"clear", "smUpdate", "register"} /\ Id(v) = id
      BY <1>2, <3>1 DEF LeakInv
    <3> QED BY <1>3, <2>2, <3>2, Zenon
  <2> QED BY <2>1, <2>2, Zenon
<1>10. NoLeak'
  BY <1>6 DEF NoLeak, HasLV
<1> QED BY <1>2, <1>7, <1>8, <1>9, <1>10, ZenonT(40) DEF LeakInv

\* Writing an entry, successfully or not, leaves other entries alone.
LEMMA StoreCreateLocal ==
    ASSUME StoreTypeOK, NEW id \in Ids, NEW v \in Volumes,
           SMCreate(id, v) \/ SMCreateFails(id, v),
           NEW i \in Ids, i # id
    PROVE  entry'[i] = entry[i] /\ unsynced'[i] \subseteq unsynced[i]
BY DEF StoreTypeOK, SMCreate, SMCreateFails, Replace, ReplaceAndSync, storeVars

\* Removing an entry, successfully or not, leaves other entries alone.
LEMMA StoreDeleteLocal ==
    ASSUME StoreTypeOK, NEW id \in Ids, SMDelete(id) \/ SMDeleteFails(id),
           NEW i \in Ids, i # id
    PROVE  entry'[i] = entry[i] /\ unsynced'[i] \subseteq unsynced[i]
BY Zenon DEF StoreTypeOK, SMDelete, SMDeleteFails, Replace, ReplaceAndSync

\* A crash can interrupt a write or a removal of a state entry; entries are
\* only removed when there is no LV.
LEMMA CrashLeak ==
    ASSUME DistinctIDs, TypeOK, LockInv, BackedInv, LeakInv, Crash
    PROVE  LeakInv'
<1>1. up /\ UNCHANGED lvs /\ ~up' /\ cleanupList' = {} /\ \A w \in Workers : pc'[w] = "idle"
  BY DEF Crash, TypeOK, WorkTypeOK
<1>2. ASSUME NEW id \in Ids, HasLV(id)
      PROVE  entry'[id] # None /\ None \notin unsynced'[id]
  <2>1. entry[id] # None /\ None \notin unsynced[id]
    BY <1>2 DEF LeakInv, NoLeak, HasLV
  <2>2. CASE UNCHANGED storeVars
    BY <2>1, <2>2 DEF storeVars
  <2>3. ASSUME NEW w \in Workers, pc[w] \in {"smCreate", "smUpdate"},
               SMCreate(Id(w), Vol(w)) \/ SMCreateFails(Id(w), Vol(w))
        PROVE  entry'[id] # None /\ None \notin unsynced'[id]
    <3>1. Id(w) \in Ids /\ Vol(w) \in Volumes /\ Vol(w) # None
      BY <2>3, RequestFact, NodeControllerAssumption, Zenon
    <3>2. CASE id # Id(w)
      BY <2>1, <2>3, <3>1, <3>2, StoreCreateLocal, Zenon DEF TypeOK
    <3>3. CASE id = Id(w)
      BY <2>1, <2>3, <3>1, <3>3, SMTT(30)
         DEF SMCreate, SMCreateFails, Replace, ReplaceAndSync, storeVars, TypeOK, StoreTypeOK
    <3> QED BY <3>2, <3>3
  <2>4. ASSUME NEW i \in Ids,
               \/ \E w \in Workers : pc[w] \in {"undo", "smDelete"} /\ Id(w) = i
               \/ i \in cleanupList,
               SMDelete(i) \/ SMDeleteFails(i)
        PROVE  entry'[id] # None /\ None \notin unsynced'[id]
    <3>1. ~HasLV(i)
      BY <1>1, <2>4, NoLVYet, Zenon DEF LeakInv
    <3> QED BY <1>2, <2>1, <2>4, <3>1, StoreDeleteLocal, ZenonT(40) DEF TypeOK
  <2> QED BY <2>2, <2>3, <2>4, CrashStore, Zenon
<1>3. NoLeak'
  BY <1>1, <1>2 DEF NoLeak, HasLV
<1> QED BY <1>1, <1>3, Zenon DEF LeakInv

\* A restart finds every LV and its entry again.
LEMMA RestartLeak ==
    ASSUME NoLeakFaults, TypeOK, StoppedInv, LeakInv, Restart
    PROVE  LeakInv'
<1>1. UNCHANGED <<entry, unsynced, lvs>> /\ \A w \in Workers : pc'[w] = "idle"
  BY Zenon DEF Restart, LvLoad, StoppedInv, Serving, storeVars, workVars
<1>2. \A id : HasLV(id)' <=> HasLV(id)
  BY <1>1 DEF HasLV
<1>3. ASSUME NEW id \in Ids
      PROVE  HasLV(id) <=> ListedDevice(id) # 0
  BY ListedDeviceFact DEF HasLV, TypeOK, LvmTypeOK
<1>4. ASSUME NEW id \in Ids, HasLV(id)
      PROVE  pmemVolumes'[id] # None /\ id \notin cleanupList'
  <2>1. entry[id] # None
    BY <1>4 DEF LeakInv, NoLeak, HasLV
  <2> QED BY <1>3, <1>4, <2>1, Zenon DEF Restart, NoLeakFaults
<1>5. cleanupList' \subseteq Ids
  BY Zenon DEF Restart
<1>6. NoLeak'
  BY <1>1 DEF LeakInv, NoLeak
<1>7. \A id \in Ids, u, v \in VGs : lvs'[id][u] > 0 /\ lvs'[id][v] > 0 => u = v
  BY <1>1, Zenon DEF LeakInv
<1> QED BY <1>1, <1>2, <1>4, <1>5, <1>6, <1>7, ZenonT(40) DEF LeakInv

\* Start-up only removes entries that have no LV.
LEMMA CleanupLeak ==
    ASSUME TypeOK, StoppedInv, LeakInv, NEW id \in Ids, Cleanup(id)
    PROVE  LeakInv'
<1>1. /\ UNCHANGED <<lvs, pmemVolumes, pc, up>>
      /\ cleanupList' \subseteq cleanupList
      /\ \A w \in Workers : pc[w] = "idle"
  BY DEF Cleanup, StoppedInv, Serving, lvmVars, workVars
<1>2. \A i \in Ids : HasLV(i)' <=> HasLV(i)
  BY <1>1, Zenon DEF HasLV
<1>3. ~HasLV(id)
  BY Zenon DEF Cleanup, LeakInv
<1>4. \A i \in Ids \ {id} : entry'[i] = entry[i] /\ unsynced'[i] \subseteq unsynced[i]
  BY StoreDeleteLocal, ZenonT(30) DEF Cleanup, StoreDelete, TypeOK
<1>5. NoLeak'
  BY <1>1, <1>3, <1>4 DEF LeakInv, NoLeak, HasLV
<1>6. cleanupList \subseteq Ids
  BY DEF TypeOK, ProcTypeOK
<1>7. \A i \in Ids, u, v \in VGs : lvs'[i][u] > 0 /\ lvs'[i][v] > 0 => u = v
  BY <1>1, Zenon DEF LeakInv
<1> QED BY <1>1, <1>2, <1>5, <1>6, <1>7, Zenon DEF LeakInv

\* LeakInv is inductive, given the other invariants.
LEMMA LeakStep ==
    ASSUME DistinctIDs, NoLeakFaults, TypeOK, StoppedInv, LockInv, BackedInv, LeakInv, [Next]_vars
    PROVE  LeakInv'
<1>1. CASE UNCHANGED vars
  BY <1>1, Zenon DEF LeakInv, NoLeak, HasLV, Id, vars, storeVars, lvmVars, procVars, workVars
<1>2. ASSUME NEW w \in Workers, NEW r \in Requests, Call(w, r)
      PROVE  LeakInv'
  BY <1>2, LeakWaiting
<1>3. ASSUME NEW w \in Workers, LockKey(w)
      PROVE  LeakInv'
  BY <1>3, LeakWaiting
<1>4. ASSUME NEW w \in Workers, Step(w)
      PROVE  LeakInv'
  BY <1>4, LeakWaiting, LeakHandlerStep
<1>5. CASE Crash
  BY <1>5, CrashLeak
<1>6. CASE PowerLoss
  <2>1. UNCHANGED <<lvs, up, pc, cleanupList>> /\ ~up /\ cleanupList = {}
        /\ \A w \in Workers : pc[w] = "idle"
    BY <1>6 DEF PowerLoss, StoppedInv, Serving, lvmVars, procVars, workVars
  <2>2. \A id \in Ids : entry'[id] \in {entry[id]} \cup unsynced[id] /\ unsynced'[id] = {}
    BY <1>6 DEF PowerLoss, SMPowerLoss
  <2>3. NoLeak'
    BY <2>1, <2>2, Zenon DEF LeakInv, NoLeak
  <2> QED BY <2>1, <2>3, Zenon DEF LeakInv
<1>7. CASE Restart
  BY <1>7, RestartLeak
<1>8. ASSUME NEW id \in Ids, Cleanup(id)
      PROVE  LeakInv'
  BY <1>8, CleanupLeak
<1> QED BY <1>1, <1>2, <1>3, <1>4, <1>5, <1>6, <1>7, <1>8, SMTT(30) DEF Next

\* Without hash collisions, and if CreateDevice does not fail after lvcreate
\* and state files can be read: no crash, power loss or other failure leaves an
\* LV without a durable state entry.
THEOREM NoLeakHolds ==
    ASSUME DistinctIDs, NoLeakFaults
    PROVE  Spec => []NoLeak
<1>1. Init => BackedInv /\ LeakInv
  BY DEF Init, LvmInit, BackedInv, LeakInv, NoLeak, HasLV
<1>2. TypeOK /\ StoppedInv /\ LockInv /\ BackedInv /\ LeakInv /\ [Next]_vars
         => (StoppedInv /\ LockInv /\ BackedInv /\ LeakInv)'
  BY StoppedStep, LockStep, BackedStep, LeakStep, SMTT(30)
<1>3. LeakInv => NoLeak
  BY Zenon DEF LeakInv
<1> QED BY <1>1, <1>2, <1>3, InitLock, TypeCorrect, PTL DEF Spec

=============================================================================
