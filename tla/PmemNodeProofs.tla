--------------------------- MODULE PmemNodeProofs ---------------------------
(***************************************************************************)
(* DeleteVolume keeps the inductive invariant of PmemNodeInv, so that all  *)
(* steps do.  The safety properties of PmemNode follow from it.            *)
(***************************************************************************)
EXTENDS PmemNodeSteps

\* DeleteDevice goes on with the next step.
LEMMA DeleteStepInv ==
    ASSUME TypeOK, IndInv, pc \in {"wipe", "destroy"}, Goto("destroy") \/ Goto("forget"),
           UNCHANGED <<label, entry, histVars>>,
           ns' \subseteq Namespaces, NamespaceInv', lvs \ {job} \subseteq lvs', lvs' \subseteq Ids,
           \A n \in ns : n.name # job => n \in ns',
           pc' = "destroy" => \A n \in GetNamespaceByName(job)' :
               /\ n.state = "active"
               /\ n.data = IF GetEraseAfter(Parse(entry[job].params)) THEN "clear" ELSE "stale",
           pc' = "forget" => \A n \in Named(job)' : n.state = "active" => n.data = "stale"
    PROVE  TypeOK' /\ IndInv'
<1>0. ProcInv /\ SetupInv /\ EntryInv /\ ConfirmedInv
  BY DEF IndInv
<1>1. /\ running \in {"lvm", "direct"} /\ label = "driver" /\ todo = {} /\ job # None /\ confirmed[job] = 0
  BY <1>0, DriverRuns DEF ConvertSteps, ProcInv, DeleteSteps, EntryInv
<1>2. pc' \in {"destroy", "forget"} /\ UNCHANGED <<running, region, todo, job, pmemVolumes>>
  BY DEF Goto
<1>3. TypeOK'
  BY <1>1, <1>2 DEF TypeOK, histVars, DeleteSteps
<1>4. ProcInv'
  BY <1>1, <1>2 DEF ProcInv, ConvertSteps, DeleteSteps
<1>5. SetupInv'
  BY <1>1, <1>2 DEF SetupInv, ConvertSteps
<1>6. EntryInv'
  BY <1>0, <1>1, <1>2, EntrySame DEF Starting, CreateSteps, DeleteSteps
<1>7. ConfirmedInv'
  <2>1. \A id \in Ids : confirmed'[id] > 0 => id # job
    BY <1>1 DEF histVars
  <2> QED BY <1>0, <2>1, ConfirmedKeep DEF histVars
<1>8. CreateInv'
  BY <1>2 DEF CreateInv, CreatingNS, CreateSteps
<1>9. DeleteInv'
  BY <1>2 DEF DeleteInv
<1> QED BY <1>3, <1>4, <1>5, <1>6, <1>7, <1>8, <1>9, Zenon DEF IndInv

\* DeleteDevice up to the destruction of the namespace.
LEMMA WipeInv ==
    ASSUME TypeOK, IndInv, Wipe
    PROVE  TypeOK' /\ IndInv'
<1> DEFINE device == GetNamespaceByName(job)
           flush == GetEraseAfter(Parse(pmemVolumes[job].params))
           d == IF flush THEN "clear" ELSE "stale"
<1>0. ProcInv /\ SetupInv /\ EntryInv /\ NamespaceInv /\ ConfirmedInv
  BY DEF IndInv
<1>1. pc = "wipe" /\ UNCHANGED <<label, entry, histVars>>
  BY DEF Wipe
<1>2. /\ running \in {"lvm", "direct"} /\ todo = {} /\ job # None /\ job \in Ids
      /\ entry[job] # None /\ confirmed[job] = 0
  BY <1>0, <1>1, DriverRuns, Zenon DEF ConvertSteps, ProcInv, DeleteSteps, TypeOK, EntryInv
<1>3. pmemVolumes[job] = entry[job]
  BY <1>0, <1>1, <1>2, Zenon DEF EntryInv, Starting, CreateSteps
<1>4. ASSUME UNCHANGED ns PROVE ns' \subseteq Namespaces /\ NamespaceInv'
  BY <1>0, <1>1, <1>4, RemoveInv, Zenon DEF NamespaceInv
<1>5. CASE Idle /\ UNCHANGED <<ns, lvs>>
  <2>1. ConfirmedInv'
    BY <1>0, <1>1, <1>5, ConfirmedKeep, Zenon DEF histVars
  <2> QED BY <1>1, <1>4, <1>5, <2>1, IdleInv, Zenon DEF TypeOK, DeleteSteps
<1>6. CASE Mode(pmemVolumes[job]) = "lvm" /\ lvs' = lvs \ {job} /\ Goto("forget") /\ UNCHANGED ns
  <2>1. ASSUME NEW n \in Named(job)', n.state = "active" PROVE n.data = "stale"
    <3>1. n \in ns /\ n.name = job
      BY <1>6, <2>1 DEF Named, Goto
    <3> QED BY <1>0, <1>2, <1>3, <1>6, <2>1, <3>1, Zenon DEF NamespaceInv
  <2>2. pc' = "forget"
    BY <1>6 DEF Goto
  <2> QED BY <1>1, <1>4, <1>6, <2>1, <2>2, DeleteStepInv, Zenon DEF TypeOK
<1>7. CASE /\ Mode(pmemVolumes[job]) = "direct" /\ \A n \in device : n.state = "active"
           /\ SetData(device, d) /\ Goto(IF device = {} THEN "forget" ELSE "destroy") /\ UNCHANGED lvs
  <2>1. lvs' \subseteq Ids /\ job' = job
    BY <1>7 DEF TypeOK, Goto
  <2>2. CASE device = {}
    <3>1. UNCHANGED ns
      BY <1>7, <2>2 DEF SetData
    <3>2. Named(job) = {}
      BY <2>2, FoundByName DEF TypeOK
    <3>3. Named(job)' = {}
      BY <2>1, <3>1, <3>2 DEF Named
    <3>4. pc' = "forget" /\ Goto("forget")
      BY <1>7, <2>2 DEF Goto
    <3> QED BY <1>1, <1>4, <1>7, <2>1, <3>1, <3>3, <3>4, DeleteStepInv, Zenon
  <2>3. CASE device # {}
    <3>1. PICK n \in device : TRUE
      BY <2>3
    <3>2. n.state = "active" /\ n \in ns /\ n.name = job /\ \A m \in ns : m.name = job => m = n
      BY <1>0, <1>2, <1>7, <3>1, FoundUnique
    <3>3. device = {n}
      BY <3>1, <3>2 DEF GetNamespaceByName
    <3>4. d \in {"stale", "clear", "user"} /\ SetData({n}, d)
      BY <1>7, <3>3
    <3>5. Mode(entry[job]) = "direct"
      BY <1>3, <1>7
    <3> HIDE DEF d
    <3>6. PICK e \in {"stale", "clear", "user"} : e = d
      BY <3>4
    <3>7. /\ NamespaceInv' /\ ns' \subseteq Namespaces
          /\ \A m \in ns : m.name # job => m \in ns'
          /\ \A m \in ns' : m.name = job => m.data = e /\ m.state = "active"
      BY <1>0, <1>1, <1>2, <3>1, <3>2, <3>4, <3>5, <3>6, DataStep, SMTT(20)
    <3>8. ASSUME NEW k \in GetNamespaceByName(job)'
          PROVE  /\ k.state = "active"
                 /\ k.data = IF GetEraseAfter(Parse(entry[job].params)) THEN "clear" ELSE "stale"
      <4>1. k \in ns' /\ k.name = job
        BY <2>1, <3>8 DEF GetNamespaceByName
      <4> QED BY <1>3, <3>6, <3>7, <4>1 DEF d
    <3>9. pc' = "destroy" /\ Goto("destroy")
      BY <1>7, <2>3 DEF Goto
    <3> QED BY <1>1, <1>7, <2>1, <3>7, <3>8, <3>9, DeleteStepInv, Zenon
  <2> QED BY <2>2, <2>3
<1> QED BY <1>5, <1>6, <1>7 DEF Wipe

\* The namespace of the volume is destroyed.
LEMMA DestroyInv ==
    ASSUME TypeOK, IndInv, Destroy
    PROVE  TypeOK' /\ IndInv'
<1> DEFINE device == GetNamespaceByName(job)
           g == [n \in ns |-> IF n \in device THEN [n EXCEPT !.state = "disabled"] ELSE n]
<1>0. ProcInv /\ SetupInv /\ EntryInv /\ NamespaceInv /\ ConfirmedInv /\ DeleteInv
  BY DEF IndInv
<1>1. pc = "destroy" /\ UNCHANGED <<lvs, label, entry, histVars>> /\ lvs' \subseteq Ids
  BY DEF Destroy, TypeOK
<1>2. /\ running \in {"lvm", "direct"} /\ todo = {} /\ job # None /\ job \in Ids
      /\ entry[job] # None /\ confirmed[job] = 0
  BY <1>0, <1>1, DriverRuns, Zenon DEF ConvertSteps, ProcInv, DeleteSteps, TypeOK, EntryInv
<1>3. /\ device \subseteq ns
      /\ \A n \in device : n.state = "active" /\ n.name = job /\ \A m \in ns : m.name = job => m = n
  BY <1>0, <1>1, <1>2, FoundUnique DEF DeleteInv, GetNamespaceByName
<1>4. \A n \in ns : n.name = job => n \in device
  BY <1>3, FoundByName DEF Named, TypeOK
<1> HIDE DEF device
<1>5. ASSUME DisableNamespace(job)
      PROVE  /\ NamespaceInv' /\ ns' \subseteq Namespaces
             /\ \A n \in ns : n.name # job => n \in ns'
             /\ \A n \in ns' : n.name = job => n.state = "disabled"
  <2>1. Updated(g)
    BY <1>5, DisableUpdate, Zenon DEF TypeOK, device
  <2>2. ASSUME NEW n \in ns
        PROVE  /\ g[n].name = n.name /\ g[n].region = n.region /\ g[n].size = n.size
               /\ g[n].data = n.data
               /\ n \in device => g[n].state = "disabled"
               /\ n \notin device => g[n] = n
    BY DEF TypeOK, Namespaces
  <2> HIDE DEF g
  <2>3. NamespaceInv' /\ ns' \subseteq Namespaces
    <3>1. \A n \in ns : /\ g[n].name = n.name /\ g[n].region = n.region /\ g[n].size = n.size
                        /\ g[n].state = "seed" <=> n.state = "seed"
                        /\ n.state = "seed" => g[n].data = "stale"
                        /\ n.name = pmemCSINamespaceName => g[n].data # "user"
      BY <1>0, <1>3, <2>2 DEF NamespaceInv
    <3>2. \A n \in ns : n.name \in Ids /\ g[n].state = "active" /\ g[n].data # "stale" =>
                              /\ entry'[n.name] # None /\ Mode(entry'[n.name]) = "direct"
                              /\ \A m \in ns : m.name = n.name => m = n
      BY <1>0, <1>1, <2>2 DEF NamespaceInv
    <3> QED BY <1>0, <2>1, <3>1, <3>2, UpdateInv, Zenon
  <2>4. ns' = {g[n] : n \in ns}
    BY <2>1 DEF Updated
  <2> QED BY <1>3, <1>4, <2>2, <2>3, <2>4
<1>6. ASSUME Idle, ns' \subseteq Namespaces, NamespaceInv', \A n \in ns : n.name # job => n \in ns'
      PROVE  TypeOK' /\ IndInv'
  <2>1. ConfirmedInv'
    <3>1. \A id \in Ids : confirmed'[id] > 0 => id # job
      BY <1>1, <1>2 DEF histVars
    <3> QED BY <1>0, <1>1, <1>6, <3>1, ConfirmedKeep DEF histVars
  <2> QED BY <1>1, <1>6, <2>1, IdleInv DEF DeleteSteps
<1>7. CASE DestroyNamespace(job) /\ Goto("forget")
  <2>1. ns' = ns \ device /\ pc' = "forget" /\ job' = job
    BY <1>7, Zenon DEF DestroyNamespace, device, Goto
  <2>2. NamespaceInv' /\ ns' \subseteq Namespaces
    BY <1>0, <1>1, <2>1, RemoveInv, Zenon DEF NamespaceInv
  <2>3. Named(job)' = {}
    BY <1>4, <2>1 DEF Named
  <2>4. \A n \in ns : n.name # job => n \in ns'
    BY <1>3, <2>1
  <2> QED BY <1>1, <1>7, <2>1, <2>2, <2>3, <2>4, DeleteStepInv, Zenon
<1>8. CASE Idle /\ UNCHANGED ns
  <2>1. NamespaceInv' /\ ns' \subseteq Namespaces
    BY <1>0, <1>1, <1>8, RemoveInv, Zenon DEF NamespaceInv
  <2> QED BY <1>6, <1>8, <2>1, Zenon
<1>9. CASE Idle /\ DisableNamespace(job)
  BY <1>5, <1>6, <1>9, Zenon
<1>10. CASE Goto("forget") /\ DisableNamespace(job)
  <2>1. pc' = "forget" /\ job' = job
    BY <1>10 DEF Goto
  <2>2. \A n \in Named(job)' : n.state = "active" => n.data = "stale"
    BY <1>5, <1>10, <2>1 DEF Named
  <2> QED BY <1>1, <1>5, <1>10, <2>1, <2>2, DeleteStepInv, Zenon
<1> QED BY <1>7, <1>8, <1>9, <1>10 DEF Destroy

-----------------------------------------------------------------------------
\* The invariant is true initially.
LEMMA InitInv ==
    Init => TypeOK /\ IndInv
<1> SUFFICES ASSUME Init PROVE TypeOK /\ IndInv
  OBVIOUS
<1>1. /\ ns \subseteq Foreign /\ label \in {"setup", "driver"} /\ running = "none" /\ pc = "idle"
      /\ region = 0 /\ todo = {} /\ job = None /\ lvs = {}
      /\ entry = [id \in Ids |-> None] /\ pmemVolumes = [id \in Ids |-> None]
      /\ wanted = [id \in Ids |-> None] /\ confirmed = [id \in Ids |-> 0]
  BY DEF Init
<1>2. /\ Foreign \subseteq Namespaces
      /\ \A n \in Foreign : /\ n.name \notin Ids /\ n.state # "seed"
                            /\ n.name = pmemCSINamespaceName => n.data # "user"
  BY RegionsAssumption, Zenon
<1>3. IsFiniteSet(Foreign)
  BY RegionsAssumption, Zenon
<1>4. TypeOK
  <2>1. region \in 0 .. NumRegions + 1
    BY <1>1, RegionNumbers
  <2> QED BY <1>1, <1>2, <2>1, Zenon DEF TypeOK
<1>5. NamespaceInv
  <2>1. IsFiniteSet(ns)
    BY <1>1, <1>3, FS_Subset
  <2> QED BY <1>1, <1>2, <2>1 DEF NamespaceInv
<1>6. ProcInv
  BY <1>1 DEF ProcInv, ConvertSteps, DeleteSteps
<1>7. SetupInv
  BY <1>1, <1>2 DEF SetupInv, ConvertSteps
<1>8. EntryInv
  BY <1>1 DEF EntryInv
<1>9. CreateInv /\ DeleteInv
  BY <1>1 DEF CreateInv, DeleteInv, CreatingNS
<1>10. ConfirmedInv
  BY <1>1 DEF ConfirmedInv
<1> QED BY <1>4, <1>5, <1>6, <1>7, <1>8, <1>9, <1>10, Zenon DEF IndInv

\* A step in which nothing happens.
LEMMA StutterInv ==
    ASSUME TypeOK, IndInv, UNCHANGED vars
    PROVE  TypeOK' /\ IndInv'
<1>1. UNCHANGED <<ns, lvs, label, running, pc, region, todo, job, pmemVolumes, entry, wanted, confirmed>>
  BY DEF vars, procVars, histVars
<1>2. TypeOK'
  BY <1>1, Zenon DEF TypeOK
<1>3. ProcInv' /\ SetupInv'
  BY <1>1, ZenonT(30) DEF IndInv, ProcInv, SetupInv
<1>4. EntryInv'
  BY <1>1 DEF IndInv, EntryInv, Mode, Starting
<1>5. NamespaceInv' /\ ConfirmedInv'
  BY <1>1, ProcStep, Zenon DEF histVars
<1>6. CreateInv'
  BY <1>1, Zenon DEF IndInv, CreateInv, CreatingNS, Named, Suits, Seed, NamespaceName
<1>7. DeleteInv'
  BY <1>1, Zenon DEF IndInv, DeleteInv, GetNamespaceByName, Named
<1> QED BY <1>2, <1>3, <1>4, <1>5, <1>6, <1>7, Zenon DEF IndInv

\* Every step keeps the invariant.
LEMMA NextInv ==
    ASSUME TypeOK, IndInv, [Next]_vars
    PROVE  TypeOK' /\ IndInv'
<1>1. CASE StartSetup \/ ConvertRegion \/ havePMEM \/ relabel
  BY <1>1, SetupStepInv
<1>2. CASE Convert
  BY <1>2, ConvertInv
<1>3. CASE \E mode \in {"lvm", "direct"} : StartDriver(mode)
  BY <1>3, StartDriverInv, Zenon
<1>4. CASE setupNS
  BY <1>4, SetupNSInv
<1>5. CASE NameSeed
  BY <1>5, NameSeedInv
<1>6. CASE EnableSeed
  BY <1>6, EnableSeedInv
<1>7. CASE wipefs
  BY <1>7, WipefsInv
<1>8. CASE setupVG
  BY <1>8, SetupVGInv
<1>9. CASE restore
  BY <1>9, RestoreInv
<1>10. CASE \E id \in Ids : \E m \in Maps : \E asked \in AskedSizes(m) : CreateVolume(id, m, asked)
  BY <1>10, CreateVolumeInv
<1>11. CASE \E id \in Ids : Write(id)
  BY <1>11, WriteInv
<1>12. CASE \E id \in Ids : DeleteVolume(id)
  BY <1>12, DeleteVolumeInv, Zenon
<1>13. CASE CreateDeviceDirect
  BY <1>13, CreateDeviceDirectInv
<1>14. CASE CreateDeviceLVM
  BY <1>14, CreateDeviceLVMInv
<1>15. CASE ClearDevice
  BY <1>15, ClearDeviceInv
<1>16. CASE Register
  BY <1>16, RegisterInv
<1>17. CASE UndoCreate \/ Forget
  BY <1>17, RemoveEntryInv, Zenon
<1>18. CASE Wipe
  BY <1>18, WipeInv
<1>19. CASE Destroy
  BY <1>19, DestroyInv
<1>20. CASE Killed
  BY <1>20, PlainExit DEF Killed
<1>21. CASE UNCHANGED vars
  BY <1>21, StutterInv
<1> QED BY <1>1, <1>2, <1>3, <1>4, <1>5, <1>6, <1>7, <1>8, <1>9, <1>10, <1>11, <1>12, <1>13, <1>14,
           <1>15, <1>16, <1>17, <1>18, <1>19, <1>20, <1>21, Zenon DEF Next

-----------------------------------------------------------------------------
\* The invariant of PmemNodeInv is true in all states of a node, for every
\* number of regions and volumes, all sizes and alignments, whatever fails and
\* whenever the driver is killed.
THEOREM InvariantHolds == Spec => [](TypeOK /\ IndInv)
<1>1. Init => TypeOK /\ IndInv
  BY InitInv
<1>2. (TypeOK /\ IndInv) /\ [Next]_vars => (TypeOK /\ IndInv)'
  BY NextInv
<1> QED BY <1>1, <1>2, PTL DEF Spec

\* The variables of the driver, the state files and the namespaces always have
\* their types.
THEOREM TypeCorrect == Spec => []TypeOK
BY InvariantHolds, PTL

\* pmd-ndctl.go never enables a second namespace with the name of a volume, also
\* when CreateVolume is repeated after failures and kills.
THEOREM OneNamespacePerVolumeHolds == Spec => []OneNamespacePerVolume
<1>1. TypeOK /\ IndInv => OneNamespacePerVolume
  BY Zenon DEF IndInv, NamespaceInv, OneNamespacePerVolume
<1> QED BY <1>1, InvariantHolds, PTL

\* A namespace that holds data of a volume is never without its state file, so
\* DeleteVolume can give the space back.
THEOREM SpaceAccountedHolds == Spec => []SpaceAccounted
<1>1. TypeOK /\ IndInv => SpaceAccounted
  BY Zenon DEF IndInv, NamespaceInv, SpaceAccounted
<1> QED BY <1>1, InvariantHolds, PTL

\* What createVolumeInternal stores can always be parsed again by
\* NewNodeControllerServer.
THEOREM StoredParamsParseHolds == Spec => []StoredParamsParse
<1>1. TypeOK /\ IndInv => StoredParamsParse
  BY EntryFact DEF IndInv, StoredParamsParse
<1> QED BY <1>1, InvariantHolds, PTL

\* A confirmed volume keeps a device of the right mode and size, and a driver that
\* has started knows it, whatever mode it was started in.
THEOREM ConfirmedKeptHolds == Spec => []ConfirmedKept
<1>1. ASSUME TypeOK, IndInv PROVE ConfirmedKept
  <2>0. ProcInv /\ SetupInv /\ EntryInv /\ ConfirmedInv
    BY <1>1 DEF IndInv
  <2>1. SUFFICES ASSUME NEW id \in Ids, confirmed[id] > 0
        PROVE  /\ entry[id] # None
               /\ running = "none" \/ pc \in SetupSteps \/ pmemVolumes[id] = entry[id]
               /\ IF Mode(entry[id]) = "lvm"
                    THEN id \in lvs
                    ELSE \E n \in ns :
                           /\ n.name = id /\ n.state = "active" /\ n.size >= confirmed[id]
                           /\ n.mode = "sector" <=> GetUsage(Parse(wanted[id])) = "FileIO"
                           /\ entry[id].size = RawSize(n)
    BY DEF ConfirmedKept
  <2>2. /\ entry[id] # None
        /\ Mode(entry[id]) = "lvm" => id \in lvs
        /\ Mode(entry[id]) = "direct" => \E n \in ns : Device(n, id)
    BY <2>0, <2>1, Zenon DEF ConfirmedInv
  <2>3. Mode(entry[id]) \in {"lvm", "direct"}
    BY <1>1, <2>0, <2>2, EntryFact, Zenon
  <2>4. running # "setup"
    BY <2>0, <2>2, Zenon DEF SetupInv
  <2>5. ~(job = id /\ pc \in CreateSteps)
    <3>1. id # None
      BY ConstantTypes, Zenon
    <3> QED BY <2>0, <2>1, <3>1 DEF EntryInv
  <2>6. running = "none" \/ pc \in SetupSteps \/ pmemVolumes[id] = entry[id]
    BY <2>0, <2>4, <2>5, Zenon DEF EntryInv, Starting
  <2> QED BY <2>2, <2>3, <2>6, Zenon DEF Device
<1> QED BY <1>1, InvariantHolds, PTL

\* If no command fails, start-up in LVM mode is refused by CreateNamespace only
\* when the free space of a region is no multiple of the alignment.
THEOREM SetupFitsHolds == Spec => []SetupFits
<1>1. ASSUME TypeOK, IndInv PROVE SetupFits
  <2>1. ns \subseteq Namespaces /\ IsFiniteSet(ns)
    BY <1>1, Zenon DEF TypeOK, IndInv, NamespaceInv
  <2>2. pc = "setupNS" => region \in Regions
    BY <1>1 DEF IndInv, ProcInv
  <2>3. \A n \in ns : RawSize(n) \in Int
    <3>1. BttOverhead \in Nat
      BY ConstantTypes, Zenon
    <3>2. ASSUME NEW n \in ns PROVE n.size \in Nat
      BY <2>1 DEF Namespaces
    <3> QED BY <3>1, <3>2 DEF RawSize
  <2>4. \A n \in OwnNamespaces(region) : n \in ns
    BY DEF OwnNamespaces, ActiveNamespaces
  <2> QED BY <2>1, <2>2, <2>3, <2>4, SetupFitsFact, Zenon DEF SetupFits
<1> QED BY <1>1, InvariantHolds, PTL

\* In direct mode, GetCapacity returns the size of the largest volume that can be
\* created, for all regions and alignments.
THEOREM DirectCapacityHonestHolds == Spec => []DirectCapacityHonest
BY DirectCapacity, PTL

-----------------------------------------------------------------------------
\* A step that only changes seeds, or nothing, keeps all data of users.
LEMMA SeedsOnly ==
    ASSUME NamespaceInv, NEW r, ns \ Seed(r) \subseteq ns', NEW n \in ns, n.data = "user"
    PROVE  n \in ns'
BY Zenon DEF NamespaceInv, Seed

\* What a step does with the data of a user.
LEMMA DataKeptStep ==
    ASSUME TypeOK, IndInv, [Next]_vars, NEW n \in ns, n.data = "user"
    PROVE  \/ n \in ns'
           \/ pc \in DeleteSteps /\ job = n.name
           \/ pc = "convert" /\ n.mode \in {"raw", "fsdax"} /\ n.region \notin ReadOnly
<1>0. ProcInv /\ SetupInv /\ EntryInv /\ NamespaceInv /\ CreateInv /\ ns \subseteq Namespaces
  BY Zenon DEF IndInv, TypeOK
<1>1. CASE \/ StartSetup \/ ConvertRegion \/ havePMEM \/ relabel \/ CreateDeviceLVM \/ Register
           \/ UndoCreate \/ Forget \/ Killed \/ UNCHANGED vars
  BY <1>1, Zenon DEF StartSetup, ConvertRegion, havePMEM, relabel, CreateDeviceLVM, Register,
                     UndoCreate,
              Forget, Killed, vars
<1>2. CASE \/ \E mode \in {"lvm", "direct"} : StartDriver(mode)
           \/ \E id \in Ids : \E m \in Maps : \E asked \in AskedSizes(m) : CreateVolume(id, m, asked)
  BY <1>2 DEF StartDriver, CreateVolume
<1>3. CASE Convert
  <2> DEFINE c == CHOOSE m \in todo : \A k \in todo : m.start <= k.start
  <2>1. pc = "convert" /\ todo # {} /\ todo \subseteq ns
    BY <1>3, ZenonT(40) DEF Convert, TypeOK
  <2>2. /\ ns \ {c} \subseteq ns'
        /\ n \in ns' \/ c.mode \in {"raw", "fsdax"}
    BY <1>3, Zenon DEF Convert
  <2>3. c \in todo
    BY <1>3, <2>1, NextNamespace, Zenon DEF ConvertSteps
  <2>4. c.region \notin ReadOnly
    BY <1>0, <2>1, <2>3 DEF SetupInv
  <2> HIDE DEF c
  <2> QED BY <2>1, <2>2, <2>4, Zenon
<1>4. CASE setupNS \/ NameSeed \/ EnableSeed \/ CreateDeviceDirect
  <2>1. ns \ Seed(region) \subseteq ns'
    <3>1. CASE setupNS
      BY <3>1, Zenon DEF setupNS, SetSize
    <3>2. CASE NameSeed
      BY <3>2, Zenon DEF NameSeed, SetAltName, SetupFails, ResetSeed
    <3>3. CASE EnableSeed
      BY <3>3, Zenon DEF EnableSeed, Enable, SetupFails, ResetSeed
    <3>4. CASE CreateDeviceDirect
      BY <3>4, Zenon DEF CreateDeviceDirect, SetSize
    <3> QED BY <1>4, <3>1, <3>2, <3>3, <3>4, Zenon
  <2> QED BY <1>0, <2>1, SeedsOnly, Zenon
<1>5. CASE wipefs
  <2>1. pc = "wipefs"
    BY <1>5 DEF wipefs
  <2>2. n \notin todo
    BY <1>0, <2>1 DEF SetupInv
  <2> QED BY <1>5, <2>2 DEF wipefs, SetData
<1>6. ASSUME (\E rs : JoinVG(rs)) \/ UNCHANGED ns PROVE n \in ns'
  <2>1. ASSUME NEW rs PROVE n \notin Unjoined(rs)
    BY <1>0 DEF Unjoined, NamespaceInv
  <2> QED BY <1>6, <2>1, Zenon DEF JoinVG, SetData
<1>7. CASE setupVG
  BY <1>6, <1>7 DEF setupVG
<1>8. CASE restore
  <2>1. (\E rs : JoinVG(rs)) \/ UNCHANGED ns
    BY <1>8, Zenon DEF restore, NewDeviceManager
  <2> QED BY <1>6, <2>1, Zenon
<1>9. CASE \E id \in Ids : DeleteVolume(id)
  <2>1. (\E rs : JoinVG(rs)) \/ UNCHANGED ns
    BY <1>9 DEF DeleteVolume, NewDeviceManager
  <2> QED BY <1>6, <2>1
<1>10. CASE ClearDevice
  <2>1. pc = "clear" /\ job # None
    BY <1>0, <1>10, Zenon DEF ClearDevice, ProcInv
  <2>2. \A m \in GetNamespaceByName(job) : m.state = "active" => m # n
    BY <1>0, <2>1 DEF CreateInv, CreateSteps, Named, GetNamespaceByName
  <2> QED BY <1>10, <2>2, Zenon DEF ClearDevice, SetData
<1>11. CASE \E id \in Ids : Write(id)
  <2>1. [n EXCEPT !.data = "user"] = n
    BY <1>0 DEF Namespaces
  <2> QED BY <1>11, <2>1 DEF Write, SetData
<1>12. CASE Wipe \/ Destroy
  <2>1. pc \in DeleteSteps
    BY <1>12 DEF Wipe, Destroy, DeleteSteps
  <2>2. ns \ GetNamespaceByName(job) \subseteq ns'
    BY <1>12 DEF Wipe, SetData, Destroy, DestroyNamespace, DisableNamespace
  <2> QED BY <2>1, <2>2, Zenon DEF GetNamespaceByName
<1> QED BY <1>1, <1>2, <1>3, <1>4, <1>5, <1>7, <1>8, <1>9, <1>10, <1>11, <1>12, Zenon DEF Next

\* A namespace with user data goes away only when its own volume is deleted, or by
\* the forced conversion of a writable region.
THEOREM DataKeptHolds == Spec => DataKept
<1>1. ASSUME TypeOK, IndInv, [Next]_vars
      PROVE  [\A n \in ns : n.data = "user" =>
                 \/ n \in ns'
                 \/ pc \in DeleteSteps /\ job = n.name
                 \/ pc = "convert" /\ n.mode \in {"raw", "fsdax"} /\ n.region \notin ReadOnly]_vars
  BY <1>1, DataKeptStep
<1> QED BY <1>1, InvariantHolds, PTL DEF Spec, DataKept

\* Parse turns the text of the key into the setting: data is kept only if the text
\* is one of those for false.
LEMMA EraseText ==
    ASSUME NEW m, ParseOK(Origin(m), m)
    PROVE  GetEraseAfter(Parse(m)) <=> Setting(m, EraseAfter, LAMBDA t : t) \cap FalseTexts = {}
<1>1. CASE EraseAfter \notin DOMAIN m
  <2>1. Setting(m, EraseAfter, LAMBDA t : t) = {}
    BY <1>1, Zenon DEF Setting
  <2>2. Parse(m).EraseAfter = {}
    BY <1>1 DEF Parse, Settings, Setting
  <2> QED BY <2>1, <2>2, Zenon DEF GetEraseAfter, Default
<1>2. CASE EraseAfter \in DOMAIN m
  <2>1. Setting(m, EraseAfter, LAMBDA t : t) = {m[EraseAfter]}
    BY <1>2 DEF Setting
  <2>2. Parse(m).EraseAfter = {m[EraseAfter] \in TrueTexts}
    BY <1>2 DEF Parse, Settings, Setting
  <2>3. GetEraseAfter(Parse(m)) = (m[EraseAfter] \in TrueTexts)
    BY <2>2, Zenon DEF GetEraseAfter, Default
  <2>4. m[EraseAfter] \in TrueTexts \cup FalseTexts
    <3>1. ValueValid(Origin(m), EraseAfter, m[EraseAfter])
      BY <1>2 DEF ParseOK
    <3> QED BY <3>1 DEF ValueValid, EraseAfter, KataContainers, Ephemeral, PersistencyModel,
                        UsageModel, DeviceMode
  <2>5. TrueTexts \cap FalseTexts = {}
    BY DEF TrueTexts, FalseTexts
  <2> QED BY <2>1, <2>3, <2>4, <2>5, Zenon
<1> QED BY <1>1, <1>2, Zenon

\* "eraseafter" decides whether the PMEM of a volume is erased before it is given
\* back, also after restarts.
THEOREM EraseHonouredHolds == Spec => EraseHonoured
<1>1. ASSUME TypeOK, IndInv, NEW n \in ns, pc = "destroy", n.name = job
      PROVE  n.data = "clear" <=> Setting(wanted[job], EraseAfter, LAMBDA t : t) \cap FalseTexts = {}
  <2>0. ProcInv /\ EntryInv /\ NamespaceInv /\ DeleteInv
    BY <1>1, SMTT(20) DEF IndInv
  <2>1. job \in Ids /\ entry[job] # None
    BY <1>1, <2>0 DEF ProcInv, EntryInv, DeleteSteps, TypeOK
  <2>2. \A m \in GetNamespaceByName(job) :
            /\ m.data = IF GetEraseAfter(Parse(entry[job].params)) THEN "clear" ELSE "stale"
            /\ \A k \in ns : k.name = job => k = m
    BY <1>1, <2>0, <2>1, FoundUnique, Zenon DEF DeleteInv
  <2>3. n \in GetNamespaceByName(job)
    BY <1>1, <2>2, FoundByName, SMTT(20) DEF Named, TypeOK
  <2>4. GetEraseAfter(Parse(entry[job].params)) = GetEraseAfter(Parse(wanted[job]))
    BY <1>1, <2>0, <2>1, EntryFact, ZenonT(30)
  <2>5. ParseOK(Origin(wanted[job]), wanted[job])
    BY <2>0, <2>1 DEF EntryInv
  <2> QED BY <2>2, <2>3, <2>4, <2>5, EraseText, ZenonT(40)
<1>2. TypeOK /\ IndInv =>
        [\A n \in ns \ ns' :
            pc = "destroy" /\ n.name = job =>
              (n.data = "clear" <=> Setting(wanted[job], EraseAfter, LAMBDA t : t) \cap FalseTexts = {})]_vars
  BY <1>1, Zenon
<1> QED BY <1>2, InvariantHolds, PTL DEF EraseHonoured

-----------------------------------------------------------------------------
\* Sums and differences of multiples.
LEMMA MultipleSum ==
    ASSUME NEW a \in Nat \ {0}, NEW x \in Nat, NEW y \in Nat, x % a = 0, y % a = 0
    PROVE  (x + y) % a = 0 /\ (y <= x => (x - y) % a = 0)
<1> DEFINE i == x \div a
           k == y \div a
<1>1. i \in Nat /\ k \in Nat /\ x = i * a /\ y = k * a
  BY Division
<1> HIDE DEF i, k
<1>2. x + y = (i + k) * a /\ x - y = (i - k) * a
  BY <1>1
<1>3. ((i + k) * a) % a = 0 /\ ((i - k) * a) % a = 0
  <2>1. i + k \in Int /\ i - k \in Int
    BY <1>1
  <2> QED BY <2>1, Multiples
<1> QED BY <1>2, <1>3

\* Rounding up what is left of the limit stays in the rounded limit if what was
\* taken before was rounded, too.
LEMMA RoundedLimit ==
    ASSUME NEW limit \in Nat, NEW taken \in Nat, taken % align = 0,
           NEW size \in Nat, size > 0, size <= limit - taken
    PROVE  taken + AlignUp(size) <= AlignUp(limit)
<1>0. align \in Nat \ {0}
  BY ConstantTypes, Zenon
<1>1. /\ AlignUp(limit) \in Nat /\ AlignUp(limit) % align = 0 /\ AlignUp(limit) >= limit
      /\ AlignUp(size) \in Nat
  BY Alignment
<1>2. AlignUp(limit) - taken \in Nat \ {0} /\ size <= AlignUp(limit) - taken
  BY <1>1
<1>3. (AlignUp(limit) - taken) % align = 0
  BY <1>0, <1>1, <1>2, MultipleSum
<1>4. AlignUp(size) <= AlignUp(limit) - taken
  BY <1>2, <1>3, Alignment
<1> QED BY <1>1, <1>4

\* The namespaces that setupNS has created have sizes that can be added up.
LEMMA OwnSizes ==
    ASSUME ns \subseteq Namespaces, IsFiniteSet(ns), NEW r
    PROVE  /\ IsFiniteSet(Own(r)) /\ \A n \in Own(r) : n \in ns /\ RawSize(n) \in Int
           /\ TotalSize(Own(r)) \in Nat
<1>1. IsFiniteSet(Own(r))
  <2>1. Own(r) \subseteq ns
    BY DEF Own, AllNamespaces
  <2> QED BY <2>1, FS_Subset
<1>2. ASSUME NEW n \in Own(r) PROVE n \in ns /\ RawSize(n) \in Int
  <2>1. n \in ns /\ n.size \in Nat
    BY DEF Own, AllNamespaces, Namespaces
  <2>2. BttOverhead \in Nat
    BY ConstantTypes, Zenon
  <2> QED BY <2>1, <2>2 DEF RawSize
<1> QED BY <1>1, <1>2, TotalSizeType, Zenon

\* The namespaces differ at most in their data.
Same(m, n) ==
    /\ m.region = n.region /\ m.start = n.start /\ m.size = n.size
    /\ m.name = n.name /\ m.mode = n.mode /\ m.state = n.state

\* The total remains the same if the namespaces of the driver change at most their
\* data.
LEMMA OwnKept ==
    ASSUME TypeOK, NamespaceInv, PlaceInv, OwnInv, PlaceInv',
           \A n \in ns : IsOwn(n) => \E k \in ns' : Same(n, k),
           \A k \in ns' : IsOwn(k) => \E n \in ns : Same(n, k)
    PROVE  /\ \A r \in Regions : TotalSize(Own(r)') = TotalSize(Own(r))
           /\ \A n \in ns' : IsOwn(n) => n.state = "active" /\ n.mode = "fsdax"
<1>1. \A n \in ns' : IsOwn(n) => n.state = "active" /\ n.mode = "fsdax"
  BY DEF OwnInv, IsOwn, Same
<1>2. ASSUME NEW r \in Regions PROVE TotalSize(Own(r)') = TotalSize(Own(r))
  <2> DEFINE S == Own(r)
             f == [n \in S |-> CHOOSE k \in ns' : Same(n, k)]
  <2>1. S \subseteq ns /\ \A n \in S : IsOwn(n) /\ n.region = r
    BY DEF Own, AllNamespaces
  <2>2. \A n \in S : f[n] \in ns' /\ Same(n, f[n])
    BY <2>1, Zenon
  <2>3. IsFiniteSet(S) /\ \A n \in S : RawSize(n) \in Int
    BY OwnSizes DEF TypeOK, NamespaceInv
  <2>4. \A k : k \in Own(r)' <=> k \in ns' /\ k.region = r /\ IsOwn(k)
    BY DEF Own, AllNamespaces
  <2>5. \A n \in ns : n.region = r /\ IsOwn(n) => n \in S
    BY Zenon DEF Own, AllNamespaces
  <2> HIDE DEF f, S
  <2>6. \A n \in S : f[n] \in Own(r)'
    BY <2>1, <2>2, <2>4 DEF Same, IsOwn
  <2>7. ASSUME NEW k \in Own(r)' PROVE \E n \in S : f[n] = k
    <3>1. PICK n \in ns : Same(n, k)
      BY <2>4, Zenon
    <3>2. n \in S
      BY <2>4, <2>5, <3>1, ZenonT(30) DEF Same, IsOwn
    <3>3. f[n] = k
      BY <2>2, <2>4, <3>1, <3>2 DEF Same, PlaceInv
    <3> QED BY <3>2, <3>3, Zenon
  <2>8. Own(r)' = {f[n] : n \in S}
    BY <2>6, <2>7, Zenon
  <2>9. \A n \in S : RawSize(f[n]) = RawSize(n)
    BY <2>2, Zenon DEF RawSize, Same
  <2>10. \A m, n \in S : f[m] = f[n] => m = n
    BY <2>1, <2>2 DEF PlaceInv, Same
  <2>11. TotalSize({f[n] : n \in S}) = TotalSize(S)
    BY <2>3, <2>9, <2>10, TotalImage, Zenon
  <2> QED BY <2>8, <2>11 DEF S
<1> QED BY <1>1, <1>2, Zenon

\* Such a step keeps the invariant if no namespace of the driver is being created.
LEMMA OwnQuiet ==
    ASSUME OwnInv,
           \A r \in Regions : TotalSize(Own(r)') = TotalSize(Own(r)),
           \A n \in ns' : IsOwn(n) => n.state = "active" /\ n.mode = "fsdax",
           pc' \notin {"name", "enable"} \/ job' # None
    PROVE  OwnInv'
<1>1. \A r \in Regions : (TotalSize(Own(r)) % align = 0 /\ TotalSize(Own(r)) <= Limit(r))'
  BY DEF OwnInv, Limit
<1> QED BY <1>1 DEF OwnInv, IsOwn

\* No namespace changes.
LEMMA OwnUnchanged ==
    ASSUME PlaceInv, OwnInv, UNCHANGED ns, pc' \notin {"name", "enable"} \/ job' # None
    PROVE  PlaceInv' /\ OwnInv'
<1>1. PlaceInv'
  BY DEF PlaceInv
<1>2. \A r : Own(r)' = Own(r)
  BY DEF Own, AllNamespaces
<1>3. \A n \in ns' : IsOwn(n) => n.state = "active" /\ n.mode = "fsdax"
  BY DEF OwnInv
<1> QED BY <1>1, <1>2, <1>3, OwnQuiet, Zenon

\* The data in some namespaces changes.
LEMMA OwnData ==
    ASSUME TypeOK, NamespaceInv, PlaceInv, OwnInv, NEW X, X \subseteq ns,
           NEW d \in {"stale", "clear", "pv", "user"}, SetData(X, d),
           pc' \notin {"name", "enable"} \/ job' # None
    PROVE  PlaceInv' /\ OwnInv'
<1> DEFINE g == [n \in ns |-> IF n \in X THEN [n EXCEPT !.data = d] ELSE n]
<1>1. ns' = {g[n] : n \in ns}
  <2>1. Updated(g)
    BY SetDataUpdate, Zenon DEF TypeOK
  <2> QED BY <2>1 DEF Updated
<1>2. ASSUME NEW n \in ns
      PROVE  /\ g[n].region = n.region /\ g[n].start = n.start
             /\ g[n].name = n.name /\ g[n].state = n.state
             /\ g[n].mode = n.mode /\ g[n].size = n.size
  BY DEF TypeOK, Namespaces
<1> HIDE DEF g
<1>3. PlaceInv'
  BY <1>1, <1>2 DEF PlaceInv
<1>4. /\ \A n \in ns : IsOwn(n) => \E k \in ns' : Same(n, k)
      /\ \A k \in ns' : IsOwn(k) => \E n \in ns : Same(n, k)
  BY <1>1, <1>2 DEF Same
<1>5. /\ \A r \in Regions : TotalSize(Own(r)') = TotalSize(Own(r))
      /\ \A n \in ns' : IsOwn(n) => n.state = "active" /\ n.mode = "fsdax"
  BY <1>3, <1>4, OwnKept, Zenon
<1> QED BY <1>3, <1>5, OwnQuiet

\* A step that changes the namespaces so that those of the driver differ at most
\* in their data keeps the invariant.
LEMMA OwnRest ==
    ASSUME TypeOK, NamespaceInv, PlaceInv, OwnInv, PlaceInv',
           \A n \in ns : IsOwn(n) => n \in ns',
           \A k \in ns' : IsOwn(k) => k \in ns,
           pc' \notin {"name", "enable"} \/ job' # None
    PROVE  OwnInv'
<1>1. /\ \A n \in ns : IsOwn(n) => \E k \in ns' : Same(n, k)
      /\ \A k \in ns' : IsOwn(k) => \E n \in ns : Same(n, k)
  BY DEF Same
<1>2. /\ \A r \in Regions : TotalSize(Own(r)') = TotalSize(Own(r))
      /\ \A n \in ns' : IsOwn(n) => n.state = "active" /\ n.mode = "fsdax"
  BY <1>1, OwnKept, Zenon
<1> QED BY <1>2, OwnQuiet

\* SetSize takes a free place, and leaves alone what is not a seed.
LEMMA SetSizePlace ==
    ASSUME TypeOK, NamespaceInv, PlaceInv, NEW r \in Regions, NEW size \in Nat, SetSize(r, size)
    PROVE  /\ PlaceInv'
           /\ \A n \in ns : IsOwn(n) => n \in ns'
           /\ \A n \in ns' : IsOwn(n) => n \in ns
           /\ \A n \in Seed(r)' : n.size = AlignUp(size)
<1>1. PICK e \in Extents(r, ns \ Seed(r)) :
        ns' = (ns \ Seed(r)) \cup
                   {[region |-> r, start |-> e[1], size |-> AlignUp(size),
                     name |-> IF Seed(r) = {} THEN "" ELSE (CHOOSE n \in Seed(r) : TRUE).name,
                     mode |-> "raw", state |-> "seed", data |-> "stale"]}
  BY Zenon DEF SetSize
<1> DEFINE s == [region |-> r, start |-> e[1], size |-> AlignUp(size),
                 name |-> IF Seed(r) = {} THEN "" ELSE (CHOOSE n \in Seed(r) : TRUE).name,
                 mode |-> "raw", state |-> "seed", data |-> "stale"]
<1>2. s.region = r /\ s.start = e[1] /\ s.size = AlignUp(size) /\ s.state = "seed"
  OBVIOUS
<1>3. ns' = (ns \ Seed(r)) \cup {s}
  BY <1>1, Zenon
<1> HIDE DEF s
<1>4. e[1] \in FreeSpace(r, ns \ Seed(r))
  BY DEF Extents
<1>5. ASSUME NEW n \in ns \ Seed(r), n.region = r PROVE n.start # e[1]
  <2>1. n.start \in Nat /\ n.size \in Nat \ {0}
    BY DEF TypeOK, Namespaces
  <2>2. n.start \in n.start .. n.start + n.size - 1
    BY <2>1
  <2> QED BY <1>4, <1>5, <2>2, Zenon DEF FreeSpace
<1>6. PlaceInv'
  BY <1>2, <1>3, <1>5 DEF PlaceInv
<1>7. \A n \in Seed(r) : ~IsOwn(n)
  BY Zenon DEF Seed, IsOwn
<1>8. /\ \A n \in ns : IsOwn(n) => n \in ns'
      /\ \A n \in ns' : IsOwn(n) => n \in ns
  BY <1>2, <1>3, <1>7, ZenonT(30) DEF IsOwn
<1>9. \A n \in Seed(r)' : n.size = AlignUp(size)
  BY <1>2, <1>3 DEF Seed
<1> QED BY <1>6, <1>8, <1>9, Zenon

\* A part of CreateNamespace fails.
LEMMA OwnFails ==
    ASSUME TypeOK, NamespaceInv, PlaceInv, OwnInv, SetupFails
    PROVE  PlaceInv' /\ OwnInv'
<1>1. ns' \subseteq ns /\ \A n \in ns : n.state # "seed" => n \in ns'
  BY DEF SetupFails, ResetSeed, Seed
<1>2. PlaceInv'
  BY <1>1 DEF PlaceInv
<1>3. /\ \A n \in ns : IsOwn(n) => n \in ns'
      /\ \A n \in ns' : IsOwn(n) => n \in ns
  BY <1>1 DEF IsOwn
<1>4. pc' \notin {"name", "enable"}
  BY Zenon DEF SetupFails, Exit, GotoRegion
<1> QED BY <1>2, <1>3, <1>4, OwnRest, Zenon

\* setupNS takes what is left of the limit.
LEMMA OwnSetup ==
    ASSUME TypeOK, IndInv, PlaceInv, OwnInv, setupNS
    PROVE  PlaceInv' /\ OwnInv'
<1>0. NamespaceInv /\ ProcInv /\ ns \subseteq Namespaces /\ IsFiniteSet(ns)
  BY Zenon DEF IndInv, NamespaceInv, TypeOK
<1>1. pc = "setupNS" /\ region \in Regions
  BY <1>0 DEF setupNS, ProcInv
<1>2. CASE UNCHANGED ns /\ pc' \notin {"name", "enable"}
  BY <1>2, OwnUnchanged, Zenon
<1>3. CASE SetupSize(region) > 0 /\ SetSize(region, SetupSize(region)) /\ Goto("name")
  <2> DEFINE limit == (Percentage * RegionSize[region]) \div 100
             taken == TotalSize(Own(region))
             size == SetupSize(region)
  <2>1. OwnNamespaces(region) = Own(region)
    BY DEF OwnNamespaces, ActiveNamespaces, Own, AllNamespaces, IsOwn, OwnInv
  <2>2. taken \in Nat /\ \A n \in Own(region) : RawSize(n) \in Int
    BY <1>0, OwnSizes, Zenon
  <2>3. size \in Nat /\ size > 0 /\ size <= limit - taken
    BY <1>0, <1>1, <1>3, <2>1, <2>2, SetupSizeFact, Zenon
  <2>4. limit \in Nat
    <3>1. Percentage \in Nat
      BY PmemNodeAssumption
    <3>2. RegionSize[region] \in Nat
      BY <1>1, RegionsAssumption, Zenon
    <3>3. Percentage * RegionSize[region] \in Nat
      BY <3>1, <3>2
    <3> QED BY <3>3, Division
  <2>5. taken % align = 0
    BY <1>1 DEF OwnInv
  <2>6. AlignUp(limit) = Limit(region)
    BY DEF Limit
  <2>7. SetSize(region, size) /\ pc' = "name" /\ region' = region /\ job' = job
    BY <1>3 DEF Goto
  <2> HIDE DEF limit, taken, size
  <2>8. taken + AlignUp(size) <= Limit(region) /\ AlignUp(size) % align = 0
    <3>1. AlignUp(size) % align = 0
      BY <2>3, Alignment
    <3>2. taken + AlignUp(size) <= AlignUp(limit)
      BY <2>2, <2>3, <2>4, <2>5, RoundedLimit, Zenon
    <3> QED BY <2>6, <3>1, <3>2, Zenon
  <2>9. PICK r \in Regions : region = r /\ region' = r
    BY <1>1, <2>7, Zenon
  <2>10. /\ PlaceInv'
         /\ \A n \in ns : IsOwn(n) => n \in ns'
         /\ \A n \in ns' : IsOwn(n) => n \in ns
         /\ \A n \in Seed(r)' : n.size = AlignUp(size)
    BY <1>0, <2>3, <2>7, <2>9, SetSizePlace, Zenon
  <2>11. /\ \A q \in Regions : TotalSize(Own(q)') = TotalSize(Own(q))
         /\ \A n \in ns' : IsOwn(n) => n.state = "active" /\ n.mode = "fsdax"
    <3>1. /\ \A n \in ns : IsOwn(n) => \E k \in ns' : Same(n, k)
          /\ \A k \in ns' : IsOwn(k) => \E n \in ns : Same(n, k)
      BY <2>10, Zenon DEF Same
    <3> QED BY <1>0, <2>10, <3>1, OwnKept, Zenon
  <2>12. \A q \in Regions : TotalSize(Own(q)') % align = 0 /\ TotalSize(Own(q)') <= Limit(q)
    BY <2>11, Zenon DEF OwnInv
  <2>13. \A n \in Seed(r)' : n.size % align = 0 /\ TotalSize(Own(r)') + n.size <= Limit(r)
    BY <2>8, <2>9, <2>10, <2>11, Zenon DEF taken
  <2> QED BY <2>9, <2>10, <2>11, <2>12, <2>13, Zenon DEF OwnInv, Own, AllNamespaces, IsOwn, Limit, Seed
<1> QED BY <1>2, <1>3, Zenon DEF setupNS, Goto, Exit

\* The seed gets the name.
LEMMA OwnName ==
    ASSUME TypeOK, IndInv, PlaceInv, OwnInv, NameSeed
    PROVE  PlaceInv' /\ OwnInv'
<1>0. NamespaceInv /\ ProcInv /\ ns \subseteq Namespaces
  BY DEF IndInv, TypeOK
<1>1. pc = "name" /\ region \in Regions
  BY <1>0, Zenon DEF NameSeed, ProcInv
<1>2. CASE SetAltName(region, NamespaceName) /\ Goto("enable")
  <2>1. PICK r \in Regions : region = r /\ region' = r
    BY <1>1, <1>2 DEF Goto
  <2>2. pc' = "enable" /\ job' = job
    BY <1>2 DEF Goto
  <2> DEFINE g == [n \in ns |-> IF n \in Seed(r) THEN [n EXCEPT !.name = NamespaceName] ELSE n]
  <2>3. ns' = {g[n] : n \in ns}
    <3>1. ns' = (ns \ Seed(r)) \cup {[n EXCEPT !.name = NamespaceName] : n \in Seed(r)}
      BY <1>2, <2>1, Zenon DEF SetAltName
    <3>2. Seed(r) \subseteq ns
      BY DEF Seed
    <3> QED BY <3>1, <3>2
  <2>4. ASSUME NEW n \in ns
        PROVE  /\ g[n].region = n.region /\ g[n].start = n.start
               /\ g[n].state = n.state /\ g[n].size = n.size
               /\ n.state # "seed" => g[n] = n
    BY <1>0 DEF Namespaces, Seed
  <2> HIDE DEF g
  <2>5. PlaceInv'
    BY <2>3, <2>4 DEF PlaceInv
  <2>6. /\ \A n \in ns : IsOwn(n) => \E k \in ns' : Same(n, k)
        /\ \A k \in ns' : IsOwn(k) => \E n \in ns : Same(n, k)
    BY <2>3, <2>4 DEF IsOwn, Same
  <2>7. /\ \A q \in Regions : TotalSize(Own(q)') = TotalSize(Own(q))
        /\ \A n \in ns' : IsOwn(n) => n.state = "active" /\ n.mode = "fsdax"
    BY <1>0, <2>5, <2>6, OwnKept, Zenon
  <2>8. \A q \in Regions : TotalSize(Own(q)') % align = 0 /\ TotalSize(Own(q)') <= Limit(q)
    BY <2>7 DEF OwnInv
  <2>9. \A k \in Seed(r)' : \E n \in Seed(r) : k.size = n.size
    BY <2>3, <2>4 DEF Seed
  <2>10. job' = None => \A n \in Seed(r)' : n.size % align = 0 /\ TotalSize(Own(r)') + n.size <= Limit(r)
    BY <1>1, <2>1, <2>2, <2>7, <2>9, Zenon DEF OwnInv
  <2> QED BY <2>1, <2>5, <2>7, <2>8, <2>10, Zenon DEF OwnInv, Own, AllNamespaces, IsOwn, Limit, Seed
<1> QED BY <1>0, <1>2, OwnFails, Zenon DEF NameSeed

\* The namespace is enabled and now counts.
LEMMA OwnEnable ==
    ASSUME TypeOK, IndInv, PlaceInv, OwnInv, EnableSeed
    PROVE  PlaceInv' /\ OwnInv'
<1>0. NamespaceInv /\ ProcInv /\ CreateInv /\ ns \subseteq Namespaces /\ IsFiniteSet(ns)
  BY DEF IndInv, TypeOK, NamespaceInv
<1>1. pc = "enable" /\ region \in Regions
  BY <1>0 DEF EnableSeed, ProcInv
<1>2. CASE Enable(region, NamespaceMode) /\ pc' \notin {"name", "enable"}
  <2>1. PICK r \in Regions : region = r
    BY <1>1, Zenon
  <2> DEFINE g == [n \in ns |-> IF n \in Seed(r)
                                  THEN [n EXCEPT !.mode = NamespaceMode, !.state = "active"] ELSE n]
  <2>2. ns' = {g[n] : n \in ns}
    <3>1. ns' = (ns \ Seed(r)) \cup
                {[n EXCEPT !.mode = NamespaceMode, !.state = "active"] : n \in Seed(r)}
      BY <1>2, <2>1, Zenon DEF Enable
    <3>2. Seed(r) \subseteq ns
      BY DEF Seed
    <3> QED BY <3>1, <3>2, ZenonT(40)
  <2>3. ASSUME NEW n \in ns
        PROVE  /\ g[n].region = n.region /\ g[n].start = n.start
               /\ g[n].name = n.name /\ g[n].size = n.size
               /\ n \in Seed(r) => g[n].state = "active" /\ g[n].mode = NamespaceMode
               /\ n \notin Seed(r) => g[n] = n
    BY <1>0, Zenon DEF Namespaces
  <2> HIDE DEF g
  <2>4. PlaceInv'
    BY <2>2, <2>3 DEF PlaceInv
  <2>5. \A n \in Seed(r) : n \in ns /\ n.region = r /\ n.state = "seed" /\ n.name = NamespaceName /\ ~IsOwn(n)
    BY <1>0, <1>1, <2>1, Zenon DEF Seed, CreateInv, IsOwn
  <2>6. CASE Seed(r) = {} \/ job # None
    <3>1. \A n \in Seed(r) : n.name # pmemCSINamespaceName
      <4>1. job # None => job # pmemCSINamespaceName
        BY ConstantTypes, Zenon DEF TypeOK
      <4> QED BY <2>5, <2>6, <4>1, Zenon DEF NamespaceName
    <3>2. /\ \A n \in ns : IsOwn(n) => n \in ns'
          /\ \A k \in ns' : IsOwn(k) => k \in ns
      BY <2>2, <2>3, <2>5, <3>1, SMTT(20) DEF IsOwn
    <3> QED BY <1>0, <1>2, <2>4, <3>2, OwnRest, Zenon
  <2>7. CASE Seed(r) # {} /\ job = None
    <3>1. PICK s \in Seed(r) : Seed(r) = {s}
      BY <1>0, <2>5, <2>7, Zenon DEF NamespaceInv
    <3>2. NamespaceMode = "fsdax" /\ NamespaceName = pmemCSINamespaceName
      BY <2>7, Zenon DEF NamespaceMode, NamespaceName
    <3>3. s.size % align = 0 /\ TotalSize(Own(r)) + s.size <= Limit(r) /\ s.size \in Nat /\ s \in ns
      BY <1>0, <1>1, <2>1, <2>5, <2>7, Zenon DEF OwnInv, Namespaces
    <3>4. PICK k : k = g[s]
      OBVIOUS
    <3>5. /\ k.region = r /\ IsOwn(k) /\ RawSize(k) = s.size /\ k.state = "active" /\ k.mode = "fsdax"
          /\ k.start = s.start
      BY <2>3, <2>5, <3>1, <3>2, <3>3, <3>4, SMTT(20) DEF IsOwn, RawSize
    <3>6. \A n : n \in ns' <=> (n \in ns /\ n # s) \/ n = k
      BY <2>2, <2>3, <3>1, <3>3, <3>4
    <3>7. ~IsOwn(s)
      BY <2>5, Zenon
    <3>8. k \notin Own(r)
      BY <2>5, <3>1, <3>3, <3>5, <3>7, Zenon DEF Own, AllNamespaces, PlaceInv
    <3>9. Own(r)' = Own(r) \cup {k}
      BY <3>5, <3>6, <3>7, Zenon DEF Own, AllNamespaces
    <3>10. \A q \in Regions : q # r => Own(q)' = Own(q)
      BY <3>5, <3>6, <3>7, Zenon DEF Own, AllNamespaces
    <3>11. /\ IsFiniteSet(Own(r)) /\ TotalSize(Own(r)) \in Nat
           /\ \A n \in Own(r) : RawSize(n) \in Int
      BY <1>0, OwnSizes, Zenon
    <3>12. TotalSize(Own(r)') = TotalSize(Own(r)) + s.size
      BY <3>3, <3>5, <3>8, <3>9, <3>11, TotalAdd
    <3>13. TotalSize(Own(r)') % align = 0 /\ TotalSize(Own(r)') <= Limit(r)
      <4>1. align \in Nat \ {0} /\ TotalSize(Own(r)) % align = 0
        BY ConstantTypes, Zenon DEF OwnInv
      <4>2. (TotalSize(Own(r)) + s.size) % align = 0
        BY <3>3, <3>11, <4>1, MultipleSum, Zenon
      <4> QED BY <3>3, <3>12, <4>2, Zenon
    <3>14. \A q \in Regions : TotalSize(Own(q)') % align = 0 /\ TotalSize(Own(q)') <= Limit(q)
      BY <3>10, <3>13 DEF OwnInv
    <3>15. \A n \in ns' : IsOwn(n) => n.state = "active" /\ n.mode = "fsdax"
      BY <3>5, <3>6, Zenon DEF OwnInv
    <3> QED BY <1>2, <2>4, <3>14, <3>15, SMTT(20) DEF OwnInv, Own, AllNamespaces, IsOwn, Limit
  <2> QED BY <2>6, <2>7
<1> QED BY <1>0, <1>2, OwnFails, ZenonT(30) DEF EnableSeed

\* Steps that change the data in namespaces, or nothing.
LEMMA OwnDataSteps ==
    ASSUME TypeOK, IndInv, PlaceInv, OwnInv,
           \/ wipefs \/ setupVG \/ restore \/ ClearDevice \/ Wipe
           \/ \E id \in Ids : Write(id) \/ DeleteVolume(id)
    PROVE  PlaceInv' /\ OwnInv'
<1>0. NamespaceInv /\ todo \subseteq ns
  BY DEF IndInv, TypeOK
<1>1. \A name : GetNamespaceByName(name) \subseteq ns
  BY DEF GetNamespaceByName
<1>2. ASSUME NEW rs, JoinVG(rs), pc' \notin {"name", "enable"} PROVE PlaceInv' /\ OwnInv'
  <2>1. PICK X \in SUBSET ns : SetData(X, "pv")
    BY <1>2, Zenon DEF JoinVG, Unjoined
  <2> QED BY <1>0, <1>2, <2>1, OwnData, Zenon
<1>3. CASE wipefs
  <2>1. pc' \notin {"name", "enable"}
    BY <1>3 DEF wipefs, Exit
  <2>2. UNCHANGED ns \/ SetData(todo, "clear")
    BY <1>3, Zenon DEF wipefs
  <2> QED BY <1>0, <2>1, <2>2, OwnUnchanged, OwnData, Zenon
<1>4. CASE setupVG
  <2>1. pc' \notin {"name", "enable"}
    BY <1>4 DEF setupVG, Exit, GotoRegion
  <2> QED BY <1>2, <1>4, <2>1, OwnUnchanged, Zenon DEF setupVG
<1>5. CASE restore
  <2>1. pc' \notin {"name", "enable"}
    BY <1>5, ZenonT(40) DEF restore
  <2>2. UNCHANGED ns \/ JoinVG(Regions)
    BY <1>5, Zenon DEF restore, NewDeviceManager
  <2> QED BY <1>2, <2>1, <2>2, OwnUnchanged, Zenon
<1>6. CASE \E id \in Ids : DeleteVolume(id)
  <2>1. pc' \notin {"name", "enable"}
    BY <1>6, Zenon DEF DeleteVolume
  <2>2. UNCHANGED ns \/ JoinVG(Regions)
    BY <1>6, Zenon DEF DeleteVolume, NewDeviceManager
  <2> QED BY <1>2, <2>1, <2>2, OwnUnchanged
<1>7. CASE ClearDevice
  <2>1. pc' \notin {"name", "enable"}
    BY <1>7 DEF ClearDevice, Goto
  <2>2. UNCHANGED ns \/ \E n \in ns : SetData({n}, "clear")
    BY <1>1, <1>7 DEF ClearDevice
  <2>3. \A n \in ns : {n} \subseteq ns
    OBVIOUS
  <2> QED BY <1>0, <2>1, <2>2, <2>3, OwnUnchanged, OwnData, Zenon
<1>8. CASE \E id \in Ids : Write(id)
  <2>1. pc' \notin {"name", "enable"}
    BY <1>8 DEF Write, Serving, procVars
  <2>2. \E n \in ns : SetData({n}, "user")
    BY <1>1, <1>8, ZenonT(40) DEF Write
  <2>3. \A n \in ns : {n} \subseteq ns
    OBVIOUS
  <2> QED BY <1>0, <2>1, <2>2, <2>3, OwnData, Zenon
<1>9. CASE Wipe
  <2>1. pc' \notin {"name", "enable"}
    BY <1>9, Zenon DEF Wipe, Goto, Idle
  <2>2. UNCHANGED ns \/ \E d \in {"clear", "stale"} : SetData(GetNamespaceByName(job), d)
    BY <1>9 DEF Wipe
  <2> QED BY <1>0, <1>1, <2>1, <2>2, OwnUnchanged, OwnData
<1> QED BY <1>3, <1>4, <1>5, <1>6, <1>7, <1>8, <1>9, Zenon

\* Steps that change a namespace that is not the driver's.
LEMMA OwnOtherSteps ==
    ASSUME TypeOK, IndInv, PlaceInv, OwnInv, Convert \/ Destroy \/ CreateDeviceDirect
    PROVE  PlaceInv' /\ OwnInv'
<1>0. NamespaceInv /\ ProcInv /\ EntryInv /\ ns \subseteq Namespaces
  BY DEF IndInv, TypeOK
<1>1. CASE Convert
  <2>1. PICK n : n = CHOOSE m \in todo : \A k \in todo : m.start <= k.start
    OBVIOUS
  <2>2. pc = "convert" /\ todo # {}
    BY <1>1, Zenon DEF Convert
  <2>3. n \in todo /\ n \in ns
    BY <2>1, <2>2, NextNamespace, Zenon DEF TypeOK
  <2>4. pc' \notin {"name", "enable"}
    BY <1>1, <2>2, ZenonT(40) DEF Convert, Exit
  <2>5. \/ UNCHANGED ns
        \/ n.mode = "raw" /\ ns' = (ns \ {n}) \cup {[n EXCEPT !.mode = "fsdax", !.data = "clear"]}
        \/ n.name # pmemCSINamespaceName /\ ns' = (ns \ {n}) \cup {[n EXCEPT !.data = "pv"]}
    BY <1>1, <2>1, Zenon DEF Convert
  <2>6. n.mode = "raw" => ~IsOwn(n)
    BY <2>3 DEF OwnInv
  <2>7. n.name # pmemCSINamespaceName => ~IsOwn(n)
    BY DEF IsOwn
  <2>8. ASSUME ~IsOwn(n), NEW k \in Namespaces, ns' = (ns \ {n}) \cup {k},
               k.region = n.region, k.start = n.start, k.name = n.name, k.state = n.state
        PROVE  PlaceInv' /\ OwnInv'
    <3>1. PlaceInv'
      BY <2>3, <2>8 DEF PlaceInv
    <3>2. /\ \A m \in ns : IsOwn(m) => m \in ns'
          /\ \A m \in ns' : IsOwn(m) => m \in ns
      BY <2>8 DEF IsOwn
    <3> QED BY <1>0, <2>4, <3>1, <3>2, OwnRest, Zenon
  <2>9. CASE UNCHANGED ns
    BY <2>4, <2>9, OwnUnchanged
  <2>10. CASE n.mode = "raw" /\ ns' = (ns \ {n}) \cup {[n EXCEPT !.mode = "fsdax", !.data = "clear"]}
    <3>1. PICK k : k = [n EXCEPT !.mode = "fsdax", !.data = "clear"]
      OBVIOUS
    <3>2. k \in Namespaces /\ k.region = n.region /\ k.start = n.start /\ k.name = n.name /\ k.state = n.state
      BY <1>0, <2>3, <3>1, Zenon DEF Namespaces
    <3> QED BY <2>6, <2>8, <2>10, <3>1, <3>2, Zenon
  <2>11. CASE n.name # pmemCSINamespaceName /\ ns' = (ns \ {n}) \cup {[n EXCEPT !.data = "pv"]}
    <3>1. PICK k : k = [n EXCEPT !.data = "pv"]
      BY Zenon
    <3>2. k \in Namespaces /\ k.region = n.region /\ k.start = n.start /\ k.name = n.name /\ k.state = n.state
      BY <1>0, <2>3, <3>1 DEF Namespaces
    <3> QED BY <2>7, <2>8, <2>11, <3>1, <3>2, Zenon
  <2> QED BY <2>5, <2>9, <2>10, <2>11, Zenon
<1>2. CASE Destroy
  <2> DEFINE device == GetNamespaceByName(job)
             g == [n \in ns |-> IF n \in device THEN [n EXCEPT !.state = "disabled"] ELSE n]
  <2>1. pc = "destroy" /\ pc' \notin {"name", "enable"}
    BY <1>2, Zenon DEF Destroy, Goto, Idle
  <2>2. job \in Ids /\ job # pmemCSINamespaceName
    BY <1>0, <2>1, ConstantTypes, Zenon DEF ProcInv, DeleteSteps, TypeOK
  <2>3. device \subseteq ns /\ \A n \in device : n.name = job /\ ~IsOwn(n)
    BY <2>2, Zenon DEF GetNamespaceByName, IsOwn
  <2>4. CASE ns' \subseteq ns /\ ns \ device \subseteq ns'
    <3>1. PlaceInv'
      BY <2>4 DEF PlaceInv
    <3> QED BY <1>0, <2>1, <2>3, <2>4, <3>1, OwnRest, Zenon
  <2>5. CASE DisableNamespace(job)
    <3>1. ns' = {g[n] : n \in ns}
      <4>1. Updated(g)
        BY <1>0, <2>5, DisableUpdate
      <4> QED BY <4>1 DEF Updated
    <3>2. ASSUME NEW n \in ns
          PROVE  /\ g[n].region = n.region /\ g[n].start = n.start /\ g[n].name = n.name
                 /\ n \notin device => g[n] = n
      BY <1>0, Zenon DEF Namespaces
    <3> HIDE DEF g, device
    <3>3. PlaceInv'
      BY <3>1, <3>2 DEF PlaceInv
    <3>4. /\ \A n \in ns : IsOwn(n) => n \in ns'
          /\ \A k \in ns' : IsOwn(k) => k \in ns
      BY <2>2, <2>3, <3>1, <3>2, ZenonT(30) DEF IsOwn
    <3> QED BY <1>0, <2>1, <3>3, <3>4, OwnRest, Zenon
  <2> QED BY <1>2, <2>4, <2>5 DEF Destroy, DestroyNamespace
<1>3. CASE CreateDeviceDirect
  <2>1. pc = "device" /\ job \in Ids /\ job # None /\ entry[job] # None /\ job' = job
    BY <1>0, <1>3, Zenon DEF CreateDeviceDirect, ProcInv, EntryInv, TypeOK, Goto, GotoRegion
  <2>2. entry[job].size \in Nat
    BY <1>0, <2>1, EntryFact DEF Volumes
  <2>3. CASE UNCHANGED ns
    BY <2>1, <2>3, OwnUnchanged, Zenon
  <2>4. CASE region <= NumRegions /\ SetSize(region, entry[job].size)
    <3>1. region \in Regions
      BY <1>0, <2>1, <2>4, RegionNumbers, Zenon DEF ProcInv, TypeOK
    <3>2. /\ PlaceInv'
          /\ \A n \in ns : IsOwn(n) => n \in ns'
          /\ \A n \in ns' : IsOwn(n) => n \in ns
      <4>1. PICK r \in Regions, size \in Nat : SetSize(r, size)
        BY <2>2, <2>4, <3>1, Zenon
      <4> QED BY <1>0, <4>1, SetSizePlace, Zenon
    <3> QED BY <1>0, <2>1, <3>2, OwnRest, Zenon
  <2> QED BY <1>3, <2>3, <2>4, Zenon DEF CreateDeviceDirect
<1> QED BY <1>1, <1>2, <1>3, Zenon

\* Every step keeps within the limit.
LEMMA OwnStep ==
    ASSUME TypeOK, IndInv, PlaceInv, OwnInv, [Next]_vars
    PROVE  PlaceInv' /\ OwnInv'
<1>1. CASE setupNS
  BY <1>1, OwnSetup
<1>2. CASE NameSeed
  BY <1>2, OwnName, Zenon
<1>3. CASE EnableSeed
  BY <1>3, OwnEnable
<1>4. CASE \/ wipefs \/ setupVG \/ restore \/ ClearDevice \/ Wipe
           \/ \E id \in Ids : Write(id) \/ DeleteVolume(id)
  BY <1>4, OwnDataSteps
<1>5. CASE Convert \/ Destroy \/ CreateDeviceDirect
  BY <1>5, OwnOtherSteps
<1>6. CASE \/ StartSetup \/ ConvertRegion \/ havePMEM \/ relabel \/ CreateDeviceLVM \/ Register
           \/ UndoCreate \/ Forget \/ Killed
           \/ \E mode \in {"lvm", "direct"} : StartDriver(mode)
           \/ \E id \in Ids : \E m \in Maps : \E asked \in AskedSizes(m) : CreateVolume(id, m, asked)
  <2>1. UNCHANGED ns /\ pc' \notin {"name", "enable"}
    BY <1>6, Zenon DEF StartSetup, ConvertRegion, havePMEM, relabel, CreateDeviceLVM, Register,
                       UndoCreate,
                Forget, Killed, StartDriver, CreateVolume, Goto, Idle, Exit
  <2> QED BY <2>1, OwnUnchanged, Zenon
<1>7. CASE UNCHANGED vars
  <2>1. UNCHANGED <<ns, region, pc, job>>
    BY <1>7 DEF vars, procVars
  <2> QED BY <2>1, Zenon DEF PlaceInv, OwnInv, Own, AllNamespaces, IsOwn, Limit, Seed
<1> QED BY <1>1, <1>2, <1>3, <1>4, <1>5, <1>6, <1>7, Zenon DEF Next

\* No matter how often and where the driver is killed and restarted in which mode:
\* the namespaces that setupNS creates in a region have at most the configured
\* percentage of it, rounded up to the alignment.  An admin must not have prepared
\* namespaces for the driver, they count but are not limited.
THEOREM PercentageKeptHolds ==
    ASSUME NothingPrepared
    PROVE  Spec => []PercentageKept
<1>1. Init => PlaceInv /\ OwnInv
  <2> SUFFICES ASSUME Init PROVE PlaceInv /\ OwnInv
    OBVIOUS
  <2>1. ns \subseteq Foreign /\ pc = "idle"
    BY DEF Init
  <2>2. \A m, n \in Foreign : m # n /\ m.region = n.region =>
            m.start + m.size <= n.start \/ n.start + n.size <= m.start
    BY RegionsAssumption, Zenon
  <2>3. \A n \in Foreign : n.start \in Nat /\ n.size \in Nat \ {0}
    BY RegionsAssumption, Zenon DEF Namespaces
  <2>4. PlaceInv
    BY <2>1, <2>2, <2>3 DEF PlaceInv
  <2>5. \A n \in ns : ~IsOwn(n)
    BY <2>1 DEF NothingPrepared, IsOwn
  <2>6. ASSUME NEW r \in Regions PROVE TotalSize(Own(r)) % align = 0 /\ TotalSize(Own(r)) <= Limit(r)
    <3>1. Own(r) = {}
      BY <2>5 DEF Own, AllNamespaces
    <3>2. UNION {{n} \X (1 .. RawSize(n)) : n \in {}} = {}
      OBVIOUS
    <3>3. TotalSize(Own(r)) = 0
      BY <3>1, <3>2, FS_EmptySet, Zenon DEF TotalSize
    <3>4. Limit(r) \in Nat
      <4>1. Percentage \in Nat
        BY PmemNodeAssumption
      <4>2. RegionSize[r] \in Nat
        BY RegionsAssumption, Zenon
      <4>3. Percentage * RegionSize[r] \in Nat
        BY <4>1, <4>2
      <4>4. (Percentage * RegionSize[r]) \div 100 \in Nat
        BY <4>3, Division
      <4> QED BY <4>4, Alignment DEF Limit
    <3>5. 0 % align = 0
      <4>1. align \in Nat \ {0}
        BY ConstantTypes, Zenon
      <4>2. \A a \in Nat \ {0} : 0 % a = 0
        OBVIOUS
      <4> QED BY <4>1, <4>2
    <3> QED BY <3>3, <3>4, <3>5
  <2> QED BY <2>1, <2>4, <2>5, <2>6, Zenon DEF OwnInv
<1>2. TypeOK /\ IndInv /\ PlaceInv /\ OwnInv /\ [Next]_vars => (PlaceInv /\ OwnInv)'
  BY OwnStep, Zenon
<1>3. OwnInv => PercentageKept
  BY DEF OwnInv, PercentageKept, Own, IsOwn, Limit
<1> QED BY <1>1, <1>2, <1>3, InvariantHolds, PTL DEF Spec

=============================================================================
