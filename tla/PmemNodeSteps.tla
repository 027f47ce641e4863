--------------------------- MODULE PmemNodeSteps ----------------------------
(***************************************************************************)
(* The start of the driver and CreateVolume keep the inductive invariant   *)
(* of PmemNodeInv.                                                         *)
(***************************************************************************)
EXTENDS PmemNodeLemmas

\* What setupNS and CreateDevice start with.
LEMMA SetSizeStep ==
    ASSUME TypeOK, IndInv, NEW size \in Nat, SetSize(region, size), Goto("name"),
           \/ pc = "setupNS" /\ job = None
           \/ /\ pc = "device" /\ running = "direct" /\ size = entry[job].size
              /\ region > 1 \/ GetNamespaceByName(job) = {},
           region \in Regions, UNCHANGED <<lvs, label, entry, histVars>>
    PROVE  TypeOK' /\ IndInv'
<1>0. ProcInv /\ SetupInv /\ EntryInv /\ NamespaceInv /\ ConfirmedInv /\ CreateInv
  BY DEF IndInv
<1>1. PICK s \in Namespaces :
          /\ ns' = (ns \ Seed(region)) \cup {s}
          /\ s.region = region /\ s.state = "seed" /\ s.data = "stale"
          /\ s.size >= size /\ s.size = AlignUp(size)
          /\ s.name = "" \/ \E n \in Seed(region) : s.name = n.name
  BY <1>0, SetSizeFact, ZenonT(30)
<1>2. ns' \subseteq Namespaces /\ NamespaceInv'
  BY <1>0, SetSizeFact, Zenon
<1>3. running \in {"lvm", "direct"} /\ label = "driver"
  BY DriverRuns DEF ConvertSteps
<1>4. todo = {}
  BY <1>0 DEF ProcInv
<1>5. pc' = "name" /\ UNCHANGED <<running, region, todo, job, pmemVolumes>>
  BY DEF Goto
<1>6. TypeOK'
  BY <1>2, <1>4, <1>5 DEF TypeOK, histVars, SetupSteps
<1>7. ProcInv'
  BY <1>0, <1>3, <1>4, <1>5 DEF ProcInv, ConvertSteps, DeleteSteps
<1>8. SetupInv'
  BY <1>3, <1>4, <1>5 DEF SetupInv, ConvertSteps
<1>9. EntryInv'
  <2>1. job = None \/ pc = "device"
    OBVIOUS
  <2> QED BY <1>0, <1>5, <2>1, EntrySame DEF Starting, SetupSteps, CreateSteps, DeleteSteps, ProcInv
<1>10. DeleteInv'
  BY <1>5 DEF DeleteInv
<1>11. ConfirmedInv'
  <2>1. ASSUME NEW n \in ns, n.state = "active" PROVE n \in ns'
    BY <1>1, <2>1, Zenon DEF Seed
  <2> QED BY <1>0, <2>1, ConfirmedKeep DEF histVars
<1>12. CreateInv'
  <2>1. ASSUME job # None
        PROVE  /\ pc = "device" /\ running = "direct" /\ size = entry[job].size /\ job \in Ids
               /\ \A n \in Named(job) : n.state = "seed" /\ n.region < region
    <3>1. pc = "device" /\ running = "direct" /\ size = entry[job].size /\ job \in Ids
      BY <2>1 DEF TypeOK
    <3>2. CASE GetNamespaceByName(job) = {}
      <4>1. Named(job) = {}
        BY <3>2, FoundByName DEF TypeOK
      <4> QED BY <3>1, <4>1
    <3>3. CASE region > 1
      <4>1. CreatingNS
        BY <2>1, <3>1 DEF CreatingNS
      <4>2. region # 1
        BY <3>3
      <4> QED BY <1>0, <3>1, <4>1, <4>2 DEF CreateInv
    <3> QED BY <3>1, <3>2, <3>3
  <2>2. ASSUME job # None, NEW n \in Named(job)' PROVE n.state = "seed" /\ n.region < region
    <3>1. n \in ns' /\ n.name = job /\ job \in Ids
      BY <1>5, <2>1, <2>2 DEF Named
    <3>2. CASE n \in ns
      BY <2>1, <2>2, <3>1, <3>2 DEF Named
    <3>3. CASE n = s
      <4>1. PICK m \in Seed(region) : m.name = job
        BY <1>1, <3>1, <3>3, ConstantTypes, Zenon
      <4>2. m \in Named(job) /\ m.region = region /\ region \in Nat
        BY <4>1, ConstantTypes, Zenon DEF Seed, Named
      <4>3. m.region < region
        BY <2>1, <2>2, <4>2
      <4> QED BY <4>2, <4>3
    <3> QED BY <1>1, <3>1, <3>2, <3>3, Zenon
  <2>3. ASSUME NEW n \in Seed(region)', job # None PROVE n.size >= entry[job].size
    <3>1. n = s
      BY <1>1, <1>5, <2>3, Zenon DEF Seed
    <3> QED BY <1>1, <2>1, <2>3, <3>1, Zenon
  <2>4. job' = job /\ region' = region /\ entry' = entry /\ pc' = "name"
    BY <1>5
  <2> QED BY <2>2, <2>3, <2>4 DEF CreateInv, CreatingNS
<1> QED BY <1>2, <1>6, <1>7, <1>8, <1>9, <1>10, <1>11, <1>12 DEF IndInv

\* setupNS of LVM mode.
LEMMA SetupNSInv ==
    ASSUME TypeOK, IndInv, setupNS
    PROVE  TypeOK' /\ IndInv'
<1>0. ProcInv /\ SetupInv /\ EntryInv /\ NamespaceInv
  BY DEF IndInv
<1>1. /\ pc = "setupNS" /\ running = "lvm" /\ job = None /\ region \in Regions
      /\ label = "driver" /\ todo = {} /\ UNCHANGED <<lvs, label, entry, histVars>>
  BY <1>0, DriverRuns DEF setupNS, ProcInv, ConvertSteps
<1>2. SetupSize(region) \in Nat
  <2>1. \A n \in OwnNamespaces(region) : RawSize(n) \in Int
    <3>1. BttOverhead \in Nat
      BY ConstantTypes, Zenon
    <3>2. ASSUME NEW n \in OwnNamespaces(region) PROVE n.size \in Nat
      BY DEF OwnNamespaces, ActiveNamespaces, TypeOK, Namespaces
    <3> QED BY <3>1, <3>2 DEF RawSize
  <2> QED BY <1>0, <1>1, <2>1, SetupSizeFact DEF TypeOK, NamespaceInv
<1>3. CASE Goto("setupVG") /\ UNCHANGED ns
  <2>1. TypeOK'
    BY <1>1, <1>3 DEF Goto, TypeOK, histVars, SetupSteps
  <2>2. ProcInv'
    BY <1>1, <1>3 DEF Goto, ProcInv, ConvertSteps, DeleteSteps
  <2>3. SetupInv'
    BY <1>1, <1>3 DEF Goto, SetupInv, ConvertSteps
  <2>4. EntryInv'
    BY <1>0, <1>1, <1>3, EntrySame DEF Goto, Starting, SetupSteps
  <2>5. CreateInv' /\ DeleteInv'
    BY <1>1, <1>3, Quiet DEF Goto
  <2>6. NamespaceInv' /\ ConfirmedInv'
    BY <1>1, <1>3, ProcStep
  <2> QED BY <2>1, <2>2, <2>3, <2>4, <2>5, <2>6 DEF IndInv
<1>4. CASE SetSize(region, SetupSize(region)) /\ Goto("name")
  BY <1>1, <1>2, <1>4, SetSizeStep
<1>5. CASE Exit /\ UNCHANGED ns
  BY <1>1, <1>5, PlainExit
<1> QED BY <1>3, <1>4, <1>5 DEF setupNS

\* A step of CreateNamespace fails.
LEMMA SetupFailsInv ==
    ASSUME TypeOK, IndInv, pc \in {"name", "enable"}, SetupFails, UNCHANGED <<lvs, label, entry, histVars>>
    PROVE  TypeOK' /\ IndInv'
<1>0. ProcInv /\ SetupInv /\ EntryInv /\ NamespaceInv /\ ConfirmedInv /\ CreateInv
  BY DEF IndInv
<1>1. ns' \subseteq ns /\ \A n \in ns : n.state # "seed" => n \in ns'
  BY DEF SetupFails, ResetSeed, Seed
<1>2. NamespaceInv' /\ ns' \subseteq Namespaces
  BY <1>0, <1>1, RemoveInv DEF NamespaceInv
<1>3. ConfirmedInv'
  BY <1>0, <1>1, ConfirmedKeep DEF histVars
<1>4. running \in {"lvm", "direct"} /\ label = "driver"
  BY DriverRuns DEF ConvertSteps
<1>5. CASE job = None
  BY <1>2, <1>3, <1>4, <1>5, ExitInv DEF SetupFails
<1>6. CASE job # None
  <2>1. /\ pc' = "device" /\ region' = region + 1 /\ UNCHANGED <<running, todo, job, pmemVolumes>>
        /\ region \in Regions /\ todo = {} /\ running = "direct"
    BY <1>0, <1>4, <1>6 DEF SetupFails, GotoRegion, ProcInv
  <2>2. region' \in 0 .. NumRegions + 1 /\ region' # 0
    BY <2>1, RegionNumbers
  <2>3. TypeOK'
    BY <1>2, <2>1, <2>2 DEF TypeOK, histVars, CreateSteps
  <2>4. ProcInv'
    BY <1>6, <2>1, <2>2 DEF ProcInv, ConvertSteps, DeleteSteps
  <2>5. SetupInv'
    BY <1>4, <2>1 DEF SetupInv, ConvertSteps
  <2>6. EntryInv'
    BY <1>0, <1>6, <2>1, EntrySame DEF Starting, CreateSteps, DeleteSteps
  <2>7. CreateInv' /\ DeleteInv'
    <3>1. \A n \in Named(job) : n.state = "seed" /\ (n.region < region \/ n.region = region)
      BY <1>0, <1>6, <2>1 DEF CreateInv, CreatingNS
    <3>2. ASSUME NEW n \in Named(job)' PROVE n.state = "seed" /\ n.region < region'
      <4>1. n \in Named(job)
        BY <1>1, <2>1, <3>2 DEF Named
      <4>2. n.region \in Nat /\ region \in Nat
        BY <2>1, <4>1, ConstantTypes, Zenon DEF Named, TypeOK, Namespaces
      <4> QED BY <2>1, <3>1, <4>1, <4>2
    <3>3. CreateInv'
      BY <2>1, <3>2 DEF CreateInv
    <3> QED BY <2>1, <3>3 DEF DeleteInv
  <2> QED BY <1>2, <1>3, <2>3, <2>4, <2>5, <2>6, <2>7, Zenon DEF IndInv
<1> QED BY <1>5, <1>6

\* The seed gets its name.
LEMMA NameSeedInv ==
    ASSUME TypeOK, IndInv, NameSeed
    PROVE  TypeOK' /\ IndInv'
<1>0. ProcInv /\ SetupInv /\ EntryInv /\ NamespaceInv /\ ConfirmedInv /\ CreateInv
  BY DEF IndInv
<1>1. pc = "name" /\ UNCHANGED <<lvs, label, entry, histVars>>
  BY DEF NameSeed
<1>2. running \in {"lvm", "direct"} /\ label = "driver" /\ region \in Regions /\ todo = {}
      /\ (job # None => running = "direct" /\ job \in Ids)
  BY <1>0, <1>1, DriverRuns DEF ConvertSteps, ProcInv, TypeOK
<1>3. CASE SetupFails
  BY <1>1, <1>3, SetupFailsInv
<1>4. CASE SetAltName(region, NamespaceName) /\ Goto("enable")
  <2>1. pc' = "enable" /\ UNCHANGED <<running, region, todo, job, pmemVolumes>>
    BY <1>4 DEF Goto
  <2>2. NamespaceName \in NamespaceNames
    BY <1>2, Zenon DEF NamespaceName, NamespaceNames
  <2>3. job # None => \A n \in Named(job) : n.state = "seed" /\ n.region < region
    BY <1>0, <1>1, <1>2 DEF CreateInv, CreatingNS
  <2>4. \A n \in ns : n.name = NamespaceName /\ NamespaceName \in Ids => n.state = "seed"
    BY <1>2, <2>3, ConstantTypes, Zenon DEF NamespaceName, Named
  <2>5. /\ ns' \subseteq Namespaces /\ NamespaceInv'
        /\ \A n \in ns' : \/ n \in ns \ Seed(region)
                          \/ /\ n.region = region /\ n.state = "seed" /\ n.name = NamespaceName
                             /\ \E m \in Seed(region) : n.size = m.size
        /\ ns \ Seed(region) \subseteq ns'
    BY <1>0, <1>1, <1>2, <1>4, <2>2, <2>4, SetAltNameFact
  <2>6. ConfirmedInv'
    <3>1. ASSUME NEW n \in ns, n.state = "active" PROVE n \in ns'
      BY <2>5, <3>1 DEF Seed
    <3> QED BY <1>0, <1>1, <3>1, ConfirmedKeep DEF histVars
  <2>7. TypeOK'
    BY <1>1, <1>2, <2>1, <2>5 DEF TypeOK, histVars, CreateSteps
  <2>8. ProcInv'
    BY <1>0, <1>1, <1>2, <2>1 DEF ProcInv, ConvertSteps, DeleteSteps
  <2>9. SetupInv'
    BY <1>1, <1>2, <2>1 DEF SetupInv, ConvertSteps
  <2>10. EntryInv'
    BY <1>0, <1>1, <2>1, EntrySame DEF Starting, SetupSteps, CreateSteps, DeleteSteps
  <2>11. CreateInv'
    <3>1. ASSUME job # None, NEW n \in Named(job)'
          PROVE  n.state = "seed" /\ (n.region < region \/ n.region = region)
      BY <2>1, <2>3, <2>5, <3>1 DEF Named
    <3>2. ASSUME NEW n \in Seed(region)'
          PROVE  (job # None => n.size >= entry[job].size) /\ n.name = NamespaceName
      <4>1. /\ n.name = NamespaceName
            /\ \E m \in Seed(region) : n.size = m.size
        BY <2>1, <2>5, <3>2 DEF Seed
      <4> QED BY <1>0, <1>1, <4>1 DEF CreateInv
    <3>3. job' = job /\ region' = region /\ entry' = entry /\ pc' = "enable" /\ NamespaceName' = NamespaceName
      BY <1>1, <2>1 DEF NamespaceName
    <3>4. ASSUME job' # None, NEW n \in Named(job)'
          PROVE  n.state = "seed" /\ (n.region < region' \/ (n.region = region' /\ pc' = "enable"))
      BY <3>1, <3>3, <3>4
    <3>5. ASSUME NEW n \in Seed(region)'
          PROVE  (job' # None => n.size >= (entry[job].size)') /\ n.name = NamespaceName'
      BY <3>2, <3>3, <3>5
    <3> QED BY <3>3, <3>4, <3>5 DEF CreateInv, CreatingNS
  <2>12. DeleteInv'
    BY <2>1 DEF DeleteInv
  <2> QED BY <2>5, <2>6, <2>7, <2>8, <2>9, <2>10, <2>11, <2>12 DEF IndInv
<1> QED BY <1>3, <1>4 DEF NameSeed

\* The seed is enabled.
LEMMA EnableSeedInv ==
    ASSUME TypeOK, IndInv, EnableSeed
    PROVE  TypeOK' /\ IndInv'
<1>0. ProcInv /\ SetupInv /\ EntryInv /\ NamespaceInv /\ ConfirmedInv /\ CreateInv
  BY DEF IndInv
<1>1. pc = "enable" /\ UNCHANGED <<lvs, label, entry, histVars>>
  BY DEF EnableSeed
<1>2. /\ running \in {"lvm", "direct"} /\ label = "driver" /\ region \in Regions /\ todo = {}
      /\ job # None => running = "direct" /\ job \in Ids
      /\ job = None => running = "lvm"
  BY <1>0, <1>1, DriverRuns DEF ConvertSteps, ProcInv, TypeOK
<1>3. CASE SetupFails
  BY <1>1, <1>3, SetupFailsInv
<1>4. CASE /\ Enable(region, NamespaceMode)
           /\ pc' = IF job = None THEN "wipefs" ELSE "clear"
           /\ todo' = IF job = None THEN ns' \ ns ELSE {}
           /\ UNCHANGED <<running, region, job, pmemVolumes>>
  <2>1. NamespaceMode \in {"fsdax", "sector"}
    BY DEF NamespaceMode
  <2>2. \A s \in Seed(region) : s.name = NamespaceName /\ (job # None => s.size >= entry[job].size)
    BY <1>0, <1>1 DEF CreateInv
  <2>3. job # None => \A n \in Named(job) : n.state = "seed" /\ (n.region < region \/ n.region = region)
    BY <1>0, <1>1, <1>2, Zenon DEF CreateInv, CreatingNS
  <2>4. ASSUME NEW s \in Seed(region), s.name \in Ids, NEW n \in ns, n.name = s.name
        PROVE  n.state = "seed" /\ (n.region < region \/ n = s)
    <3>1. job # None /\ s.name = job
      BY <2>2, <2>4, ConstantTypes, Zenon DEF NamespaceName
    <3>2. n.state = "seed" /\ (n.region < region \/ n.region = region)
      BY <2>3, <2>4, <3>1 DEF Named
    <3> QED BY <1>0, <2>4, <3>2, Zenon DEF NamespaceInv, Seed
  <2>5. /\ ns' \subseteq Namespaces /\ NamespaceInv'
        /\ \A n \in ns' : \/ n \in ns \ Seed(region)
                          \/ \E m \in Seed(region) :
                                /\ n.region = region /\ n.state = "active" /\ n.data = "stale"
                                /\ n.mode = NamespaceMode /\ n.name = m.name /\ n.size = m.size
        /\ ns \ Seed(region) \subseteq ns'
    BY <1>0, <1>1, <1>2, <1>4, <2>1, <2>4, EnableFact, SMTT(20)
  <2>6. ConfirmedInv'
    <3>1. ASSUME NEW n \in ns, n.state = "active" PROVE n \in ns'
      BY <2>5, <3>1 DEF Seed
    <3> QED BY <1>0, <1>1, <3>1, ConfirmedKeep DEF histVars
  <2>7. TypeOK'
    BY <1>1, <1>2, <1>4, <2>5, Zenon DEF TypeOK, histVars, CreateSteps, SetupSteps
  <2>8. ProcInv'
    BY <1>0, <1>1, <1>2, <1>4 DEF ProcInv, ConvertSteps, DeleteSteps
  <2>9. SetupInv'
    <3>1. job = None => \A n \in ns' \ ns :
              n.data = "stale" /\ n.state = "active" /\ n.name = pmemCSINamespaceName
      BY <2>2, <2>5 DEF NamespaceName
    <3> QED BY <1>1, <1>2, <1>4, <3>1 DEF SetupInv, ConvertSteps
  <2>10. EntryInv'
    BY <1>0, <1>1, <1>4, EntrySame DEF Starting, SetupSteps, CreateSteps, DeleteSteps
  <2>11. CreateInv' /\ DeleteInv'
    <3>1. CASE job = None
      BY <1>4, <3>1, Quiet
    <3>2. CASE job # None
      <4>1. pc' = "clear" /\ job' = job /\ entry' = entry /\ wanted' = wanted
        BY <1>1, <1>4, <3>2 DEF histVars
      <4>2. NamespaceMode = "sector" <=> GetUsage(Parse(wanted[job])) = "FileIO"
        <5>1. entry[job] # None /\ job \in Ids
          BY <1>0, <1>2, <3>2, Zenon DEF EntryInv
        <5>2. GetUsage(Parse(entry[job].params)) = GetUsage(Parse(wanted[job]))
          BY <1>0, <5>1, EntryFact
        <5>3. GetUsage(Parse(wanted[job])) \in {"AppDirect", "FileIO"}
          <6>1. wanted[job] \in Maps /\ ParseOK(Origin(wanted[job]), wanted[job])
            BY <1>0, <5>1 DEF EntryInv
          <6> QED BY <6>1, UsageType, Zenon
        <5> QED BY <3>2, <5>2, <5>3, Zenon DEF NamespaceMode
      <4>3. ASSUME NEW n \in Named(job)', n.state # "seed"
            PROVE  n.data = "stale" /\ Suits(n, job)
        <5>1. n \in ns' /\ n.name = job
          BY <4>1, <4>3 DEF Named
        <5>2. n \notin ns
          BY <2>3, <3>2, <4>3, <5>1 DEF Named
        <5>3. PICK m \in Seed(region) : n.data = "stale" /\ n.mode = NamespaceMode /\ n.size = m.size
          BY <2>5, <5>1, <5>2, Zenon
        <5>4. n.size >= entry[job].size
          BY <2>2, <3>2, <5>3
        <5> QED BY <4>2, <5>3, <5>4 DEF Suits
      <4>4. \A n : Suits(n, job)' <=> Suits(n, job)
        BY <4>1 DEF Suits
      <4>5. CreateInv'
        BY <4>1, <4>3, <4>4 DEF CreateInv
      <4> QED BY <4>1, <4>5 DEF DeleteInv
    <3> QED BY <3>1, <3>2
  <2> QED BY <2>5, <2>6, <2>7, <2>8, <2>9, <2>10, <2>11, Zenon DEF IndInv
<1> QED BY <1>3, <1>4 DEF EnableSeed

\* The new namespace is wiped.
LEMMA WipefsInv ==
    ASSUME TypeOK, IndInv, wipefs
    PROVE  TypeOK' /\ IndInv'
<1>0. ProcInv /\ SetupInv /\ EntryInv /\ NamespaceInv /\ ConfirmedInv
  BY DEF IndInv
<1>1. /\ pc = "wipefs" /\ running = "lvm" /\ job = None /\ region \in Regions /\ label = "driver"
      /\ UNCHANGED <<lvs, label, entry, histVars>>
  BY <1>0, DriverRuns DEF wipefs, ProcInv, ConvertSteps
<1>2. CASE Exit /\ UNCHANGED ns
  BY <1>1, <1>2, PlainExit
<1>3. CASE SetData(todo, "clear") /\ pc' = "setupVG" /\ todo' = {} /\ UNCHANGED <<running, region, job, pmemVolumes>>
  <2> DEFINE g == [n \in ns |-> IF n \in todo THEN [n EXCEPT !.data = "clear"] ELSE n]
  <2>1. Updated(g)
    BY <1>3, SetDataUpdate, Zenon DEF TypeOK
  <2>2. ASSUME NEW n \in ns
        PROVE  /\ g[n].name = n.name /\ g[n].region = n.region /\ g[n].size = n.size
               /\ g[n].state = n.state /\ g[n].mode = n.mode
               /\ n \in todo => g[n].data = "clear" /\ n.data = "stale"
               /\ n \notin todo => g[n] = n
    BY <1>0, <1>1 DEF TypeOK, Namespaces, SetupInv
  <2> HIDE DEF g
  <2>3. \A n \in todo : n.name \notin Ids /\ n.state # "seed"
    BY <1>0, <1>1, ConstantTypes, Zenon DEF SetupInv
  <2>4. NamespaceInv' /\ ns' \subseteq Namespaces
    <3>1. \A n \in ns : /\ g[n].name = n.name /\ g[n].region = n.region /\ g[n].size = n.size
                        /\ g[n].state = "seed" <=> n.state = "seed"
                        /\ n.state = "seed" => g[n].data = "stale"
                        /\ n.name = pmemCSINamespaceName => g[n].data # "user"
      BY <1>0, <2>2, <2>3, SMTT(20) DEF NamespaceInv
    <3>2. \A n \in ns : n.name \in Ids /\ g[n].state = "active" /\ g[n].data # "stale" =>
                              /\ entry'[n.name] # None /\ Mode(entry'[n.name]) = "direct"
                              /\ \A m \in ns : m.name = n.name => m = n
      BY <1>0, <1>1, <2>2, <2>3, SMTT(20) DEF NamespaceInv
    <3> QED BY <1>0, <2>1, <3>1, <3>2, UpdateInv, Zenon
  <2>5. ConfirmedInv'
    <3>1. ASSUME NEW n \in ns, n.name \in Ids PROVE n \in ns'
      BY <2>1, <2>2, <2>3, <3>1 DEF Updated
    <3> QED BY <1>0, <1>1, <3>1, ConfirmedKeep DEF histVars
  <2>6. TypeOK'
    BY <1>1, <1>3, <2>4 DEF TypeOK, histVars, SetupSteps
  <2>7. ProcInv'
    BY <1>1, <1>3, Zenon DEF ProcInv, ConvertSteps, DeleteSteps
  <2>8. SetupInv'
    BY <1>1, <1>3 DEF SetupInv, ConvertSteps
  <2>9. EntryInv'
    BY <1>0, <1>1, <1>3, EntrySame DEF Starting, SetupSteps
  <2>10. CreateInv' /\ DeleteInv'
    BY <1>1, <1>3, Quiet
  <2> QED BY <2>4, <2>5, <2>6, <2>7, <2>8, <2>9, <2>10, Zenon DEF IndInv
<1> QED BY <1>2, <1>3 DEF wipefs

\* setupVG of LVM mode.
LEMMA SetupVGInv ==
    ASSUME TypeOK, IndInv, setupVG
    PROVE  TypeOK' /\ IndInv'
<1>0. ProcInv /\ SetupInv /\ EntryInv /\ NamespaceInv /\ ConfirmedInv
  BY DEF IndInv
<1>1. /\ pc = "setupVG" /\ running = "lvm" /\ job = None /\ region \in Regions /\ label = "driver"
      /\ todo = {} /\ UNCHANGED <<lvs, label, entry, histVars>>
  BY <1>0, DriverRuns DEF setupVG, ProcInv, ConvertSteps
<1>2. CASE Exit /\ UNCHANGED ns
  BY <1>1, <1>2, PlainExit
<1>3. CASE /\ JoinVG({region})
           /\ IF region < NumRegions THEN GotoRegion("setupNS", region + 1) ELSE GotoRegion("restore", 0)
  <2>1. /\ ns' \subseteq Namespaces /\ NamespaceInv'
        /\ \A n \in ns : n.name \in Ids \/ n.state = "seed" \/ n.data = "user" => n \in ns'
    BY <1>0, <1>1, <1>3, DeviceManagerFact, Zenon DEF NamespaceInv
  <2>2. ConfirmedInv'
    BY <1>0, <1>1, <2>1, ConfirmedKeep DEF histVars
  <2>3. /\ UNCHANGED <<running, todo, job, pmemVolumes>>
        /\ (pc' = "setupNS" /\ region' \in Regions) \/ (pc' = "restore" /\ region' = 0)
    <3>1. region \in 0 .. NumRegions + 1
      BY DEF TypeOK
    <3>2. region < NumRegions => region + 1 \in Regions
      BY <3>1, RegionNumbers, Zenon
    <3> QED BY <1>3, <3>2 DEF GotoRegion
  <2>4. TypeOK'
    <3>1. region' \in 0 .. NumRegions + 1
      BY <2>3, RegionNumbers
    <3> QED BY <1>1, <2>1, <2>3, <3>1, Zenon DEF TypeOK, histVars, SetupSteps
  <2>5. ProcInv'
    BY <1>1, <2>3 DEF ProcInv, ConvertSteps, DeleteSteps
  <2>6. SetupInv'
    BY <1>1, <2>3 DEF SetupInv, ConvertSteps
  <2>7. EntryInv'
    BY <1>0, <1>1, <2>3, EntrySame DEF Starting, SetupSteps
  <2>8. CreateInv' /\ DeleteInv'
    BY <1>1, <2>3, Quiet, Zenon
  <2> QED BY <2>1, <2>2, <2>4, <2>5, <2>6, <2>7, <2>8, Zenon DEF IndInv
<1> QED BY <1>2, <1>3 DEF setupVG

\* Volumes are restored: all that have a device.
LEMMA RestoreInv ==
    ASSUME TypeOK, IndInv, restore
    PROVE  TypeOK' /\ IndInv'
<1> DEFINE readable == {id \in Ids : entry[id] # None /\ ParseOK("NodeVolumeOrigin", entry[id].params)}
           found == {id \in readable : HasDevice(id, Mode(entry[id]))}
<1>0. ProcInv /\ SetupInv /\ EntryInv /\ NamespaceInv /\ ConfirmedInv
  BY DEF IndInv
<1>1. /\ pc = "restore" /\ running \in {"lvm", "direct"} /\ job = None /\ label = "driver" /\ todo = {}
      /\ pc' = "idle" /\ UNCHANGED <<lvs, label, running, region, todo, job, confirmed>>
      /\ pmemVolumes' = [id \in Ids |-> IF id \in found THEN entry[id] ELSE None]
      /\ entry' = [id \in Ids |-> IF id \in readable \ found THEN None ELSE entry[id]]
      /\ wanted' = [id \in Ids |-> IF id \in readable \ found THEN None ELSE wanted[id]]
  BY <1>0, DriverRuns, Zenon DEF restore, ProcInv, ConvertSteps
<1>2. (\E rs : JoinVG(rs)) \/ UNCHANGED ns
  BY Zenon DEF restore, NewDeviceManager
<1>3. \A id \in Ids : id \in readable <=> entry[id] # None
  BY <1>0, EntryFact, Zenon
<1>4. ASSUME NEW id \in Ids
      PROVE  /\ id \in found => entry'[id] = entry[id] /\ pmemVolumes'[id] = entry[id] /\ wanted'[id] = wanted[id]
             /\ id \notin found => entry'[id] = None /\ pmemVolumes'[id] = None
             /\ id \in found => entry[id] # None
             /\ entry[id] # None /\ HasDevice(id, Mode(entry[id])) => id \in found
             /\ wanted'[id] \in {wanted[id], None}
  <2>1. id \in found => id \in readable
    OBVIOUS
  <2>2. entry[id] # None /\ HasDevice(id, Mode(entry[id])) => id \in found
    BY <1>3
  <2> HIDE DEF found, readable
  <2> QED BY <1>1, <1>3, <2>1, <2>2
<1> HIDE DEF found, readable
<1>5. ASSUME NEW id \in Ids, entry[id] # None, Mode(entry[id]) = "direct", NEW n \in ns, n.name = id
      PROVE  id \in found
  <2>1. GetNamespaceByName(id) # {}
    BY <1>5, FoundByName, Zenon DEF Named, TypeOK
  <2> QED BY <1>4, <1>5, <2>1, Zenon DEF HasDevice
<1>6. /\ ns' \subseteq Namespaces /\ NamespaceInv'
      /\ \A n \in ns : n.name \in Ids \/ n.state = "seed" \/ n.data = "user" => n \in ns'
  <2>1. \A n \in ns : n.name \in Ids /\ n.state = "active" /\ n.data # "stale" =>
            entry'[n.name] # None /\ Mode(entry'[n.name]) = "direct"
    <3>1. SUFFICES ASSUME NEW n \in ns, n.name \in Ids, n.state = "active", n.data # "stale"
                   PROVE  entry'[n.name] # None /\ Mode(entry'[n.name]) = "direct"
      OBVIOUS
    <3>2. entry[n.name] # None /\ Mode(entry[n.name]) = "direct"
      BY <1>0, <3>1 DEF NamespaceInv
    <3>3. n.name \in found
      BY <1>5, <3>1, <3>2, Zenon
    <3> QED BY <1>4, <3>1, <3>2, <3>3, SMTT(20)
  <2> QED BY <1>0, <1>2, <2>1, DeviceManagerFact, Zenon
<1>7. ConfirmedInv'
  <2>1. ASSUME NEW id \in Ids, confirmed[id] > 0 PROVE id \in found
    <3>1. /\ entry[id] # None /\ Mode(entry[id]) \in {"lvm", "direct"}
          /\ Mode(entry[id]) = "lvm" => id \in lvs
          /\ Mode(entry[id]) = "direct" => \E n \in ns : n.name = id
      BY <1>0, <2>1, EntryFact, Zenon DEF ConfirmedInv, Device
    <3>2. CASE Mode(entry[id]) = "lvm"
      BY <1>4, <3>1, <3>2, Zenon DEF HasDevice
    <3>3. CASE Mode(entry[id]) = "direct"
      BY <1>5, <3>1, <3>3, Zenon
    <3> QED BY <3>1, <3>2, <3>3, Zenon
  <2> QED BY <1>0, <1>1, <1>4, <1>6, <2>1, ConfirmedKeep, Zenon
<1>8. TypeOK'
  <2>1. entry' \in [Ids -> Volumes \cup {None}] /\ pmemVolumes' \in [Ids -> Volumes \cup {None}]
        /\ wanted' \in [Ids -> Maps \cup {None}]
    BY <1>1, Zenon DEF TypeOK
  <2> QED BY <1>1, <1>6, <2>1, Zenon DEF TypeOK
<1>9. ProcInv'
  BY <1>1 DEF ProcInv, ConvertSteps, DeleteSteps
<1>10. SetupInv'
  BY <1>1, Zenon DEF SetupInv, ConvertSteps
<1>11. EntryInv'
  <2>1. \A id \in Ids : entry'[id] # None =>
          /\ wanted'[id] \in Maps /\ ParseOK(Origin(wanted'[id]), wanted'[id])
          /\ \E mode \in {"lvm", "direct"} : entry'[id].params = StoredParams(id, wanted'[id], mode)
    BY <1>0, <1>4, Zenon DEF EntryInv
  <2>2. \A id \in Ids : pmemVolumes'[id] = entry'[id]
    BY <1>4
  <2> QED BY <1>1, <2>1, <2>2, ConstantTypes, Zenon DEF EntryInv, Starting, SetupSteps
<1>12. CreateInv' /\ DeleteInv'
  BY <1>1, Quiet, Zenon
<1> QED BY <1>6, <1>7, <1>8, <1>9, <1>10, <1>11, <1>12 DEF IndInv

-----------------------------------------------------------------------------
\* The data in the namespace of a volume changes.
LEMMA DataStep ==
    ASSUME TypeOK, NamespaceInv, NEW id \in Ids, entry[id] # None, Mode(entry[id]) = "direct",
           NEW n \in GetNamespaceByName(id), n.state = "active",
           NEW d \in {"stale", "clear", "user"}, SetData({n}, d), UNCHANGED entry
    PROVE  /\ NamespaceInv' /\ ns' \subseteq Namespaces
           /\ \A m \in ns : m.name # id => m \in ns'
           /\ \A m \in ns' : m.name # id => m \in ns
           /\ \E k \in ns' : /\ k.name = id /\ k.data = d /\ k.state = "active"
                             /\ k.size = n.size /\ k.mode = n.mode
                             /\ \A m \in ns' : m.name = id => m = k
<1> DEFINE g == [m \in ns |-> IF m \in {n} THEN [m EXCEPT !.data = d] ELSE m]
<1>1. n \in ns /\ n.name = id /\ \A m \in ns : m.name = id => m = n
  BY FoundUnique
<1>2. Updated(g)
  BY <1>1, SetDataUpdate, ZenonT(40) DEF TypeOK
<1>3. ASSUME NEW m \in ns
      PROVE  /\ g[m].name = m.name /\ g[m].region = m.region /\ g[m].size = m.size
             /\ g[m].state = m.state /\ g[m].mode = m.mode
             /\ m = n => g[m].data = d
             /\ m # n => g[m] = m
  BY DEF TypeOK, Namespaces
<1> HIDE DEF g
<1>4. NamespaceInv' /\ ns' \subseteq Namespaces
  <2>1. \A m \in ns : /\ g[m].name = m.name /\ g[m].region = m.region /\ g[m].size = m.size
                      /\ g[m].state = "seed" <=> m.state = "seed"
                      /\ m.state = "seed" => g[m].data = "stale"
                      /\ m.name = pmemCSINamespaceName => g[m].data # "user"
    <3>1. id # pmemCSINamespaceName
      BY ConstantTypes, Zenon
    <3> QED BY <1>1, <1>3, <3>1 DEF NamespaceInv
  <2>2. \A m \in ns : m.name \in Ids /\ g[m].state = "active" /\ g[m].data # "stale" =>
                            /\ entry'[m.name] # None /\ Mode(entry'[m.name]) = "direct"
                            /\ \A j \in ns : j.name = m.name => j = m
    BY <1>1, <1>3 DEF NamespaceInv
  <2> QED BY <1>2, <2>1, <2>2, UpdateInv, SMTT(20)
<1>5. ns' = {g[m] : m \in ns}
  BY <1>2 DEF Updated
<1>6. \A m \in ns : m.name # id => m \in ns'
  BY <1>1, <1>3, <1>5, Zenon
<1>7. \A m \in ns' : m.name # id => m \in ns
  BY <1>1, <1>3, <1>5
<1>8. /\ g[n] \in ns' /\ g[n].name = id /\ g[n].data = d /\ g[n].state = "active"
      /\ g[n].size = n.size /\ g[n].mode = n.mode
      /\ \A m \in ns' : m.name = id => m = g[n]
  BY <1>1, <1>3, <1>5
<1> QED BY <1>4, <1>6, <1>7, <1>8, Zenon

\* A volume is stored.
LEMMA CreateVolumeInv ==
    ASSUME TypeOK, IndInv, NEW id \in Ids, NEW m \in Maps, NEW asked \in AskedSizes(m),
           CreateVolume(id, m, asked)
    PROVE  TypeOK' /\ IndInv'
<1> DEFINE vol == [params |-> StoredParams(id, m, running), size |-> asked]
<1>0. ProcInv /\ SetupInv /\ EntryInv /\ NamespaceInv /\ ConfirmedInv
  BY DEF IndInv
<1>1. /\ pc = "idle" /\ running \in {"lvm", "direct"} /\ job = None /\ label = "driver" /\ todo = {}
      /\ pmemVolumes[id] = None /\ ParseOK(Origin(m), m)
      /\ entry' = [entry EXCEPT ![id] = vol] /\ wanted' = [wanted EXCEPT ![id] = m]
      /\ job' = id /\ pc' = "device" /\ region' = 1
      /\ UNCHANGED <<ns, lvs, label, running, todo, pmemVolumes, confirmed>>
  BY <1>0, DriverRuns, Zenon DEF CreateVolume, Serving, ProcInv
<1>2. entry[id] = None
  BY <1>0, <1>1, ConstantTypes, Zenon DEF EntryInv, Starting, SetupSteps
<1>3. asked \in Nat
  BY AskedType, <1>1
<1>4. vol \in Volumes
  BY <1>1, <1>3 DEF Volumes
<1>5. vol.params = StoredParams(id, m, running)
  OBVIOUS
<1> HIDE DEF vol
<1>6. vol # None /\ Mode(vol) = running
  BY <1>1, <1>4, <1>5, StoredFact, PmemNodeAssumption, Zenon DEF Mode
<1>7. /\ entry'[id] = vol /\ wanted'[id] = m
      /\ \A i \in Ids \ {id} : entry'[i] = entry[i] /\ wanted'[i] = wanted[i]
  BY <1>1, Zenon DEF TypeOK
<1>8. ASSUME NEW n \in ns, n.name = id, n.state = "active" PROVE n.data = "stale"
  BY <1>0, <1>2, <1>8, Zenon DEF NamespaceInv
<1>9. NamespaceInv' /\ ns' \subseteq Namespaces
  <2>1. \A n \in ns' : n.name \in Ids /\ n.state = "active" /\ n.data # "stale" =>
                            entry'[n.name] # None /\ Mode(entry'[n.name]) = "direct"
    BY <1>0, <1>1, <1>7, <1>8, Zenon DEF NamespaceInv
  <2>2. ns' \subseteq ns
    BY <1>1
  <2> QED BY <1>0, <2>1, <2>2, RemoveInv, ZenonT(40)
<1>10. confirmed[id] = 0
  <2>1. confirmed[id] \in Nat /\ ~(confirmed[id] > 0)
    BY <1>0, <1>2, ZenonT(30) DEF ConfirmedInv, TypeOK
  <2> QED BY <2>1
<1>11. ConfirmedInv'
  BY <1>0, <1>1, <1>7, <1>10, ConfirmedKeep, SMTT(20)
<1>12. TypeOK'
  <2>1. region' \in 0 .. NumRegions + 1
    BY <1>1, RegionNumbers
  <2>2. entry' \in [Ids -> Volumes \cup {None}] /\ wanted' \in [Ids -> Maps \cup {None}]
    BY <1>1, <1>4, Zenon DEF TypeOK
  <2> QED BY <1>1, <2>1, <2>2, SMTT(20) DEF TypeOK, CreateSteps
<1>13. ProcInv'
  <2>1. id # None
    BY ConstantTypes, Zenon
  <2> QED BY <1>1, <2>1 DEF ProcInv, ConvertSteps, DeleteSteps
<1>14. SetupInv'
  BY <1>1, ZenonT(40) DEF SetupInv, ConvertSteps
<1>15. EntryInv'
  <2>1. ASSUME NEW i \in Ids, entry'[i] # None
        PROVE  /\ wanted'[i] \in Maps /\ ParseOK(Origin(wanted'[i]), wanted'[i])
               /\ \E mode \in {"lvm", "direct"} : entry'[i].params = StoredParams(i, wanted'[i], mode)
    <3>1. CASE i = id
      BY <1>1, <1>5, <1>7, <3>1, Zenon
    <3>2. CASE i # id
      BY <1>0, <1>7, <2>1, <3>2, ZenonT(40) DEF EntryInv
    <3> QED BY <3>1, <3>2, Zenon
  <2>2. ASSUME NEW i \in Ids
        PROVE  pmemVolumes'[i] = IF i = id THEN None ELSE entry'[i]
    BY <1>0, <1>1, <1>7, ConstantTypes, ZenonT(40) DEF EntryInv, Starting, SetupSteps
  <2>3. entry'[job'] # None /\ Mode(entry'[job']) = running' /\ confirmed'[job'] = 0
    BY <1>1, <1>6, <1>7, <1>10, Zenon
  <2>4. ~Starting'
    BY <1>1, ConstantTypes, Zenon DEF Starting, SetupSteps
  <2>5. \A i \in Ids : pmemVolumes'[i] =
          IF running' \in {"none", "setup"} \/ Starting' \/ (job' = i /\ pc' \in CreateSteps)
            THEN None ELSE entry'[i]
    BY <1>1, <2>2, <2>4, Zenon DEF CreateSteps
  <2> HIDE DEF Mode
  <2> QED BY <1>1, <2>1, <2>3, <2>5, ZenonT(40) DEF EntryInv, Mode, DeleteSteps
<1>16. CreateInv' /\ DeleteInv'
  <2>1. \A n \in Named(job)' : n.state = "active" => n.data = "stale"
    BY <1>1, <1>8, Zenon DEF Named
  <2> QED BY <1>1, <2>1, ZenonT(40) DEF CreateInv, DeleteInv
<1> QED BY <1>9, <1>11, <1>12, <1>13, <1>14, <1>15, <1>16, Zenon DEF IndInv

\* A user writes.
LEMMA WriteInv ==
    ASSUME TypeOK, IndInv, NEW id \in Ids, Write(id)
    PROVE  TypeOK' /\ IndInv'
<1>0. ProcInv /\ SetupInv /\ EntryInv /\ NamespaceInv /\ ConfirmedInv
  BY DEF IndInv
<1>1. /\ pc = "idle" /\ running \in {"lvm", "direct"} /\ job = None /\ label = "driver" /\ todo = {}
      /\ UNCHANGED <<lvs, label, running, pc, region, todo, job, pmemVolumes, entry, wanted, confirmed>>
  BY <1>0, DriverRuns, Zenon DEF Write, Serving, ProcInv, procVars, histVars
<1>2. pmemVolumes[id] = entry[id]
  BY <1>0, <1>1, ConstantTypes, Zenon DEF EntryInv, Starting, SetupSteps
<1>3. entry[id] # None /\ Mode(entry[id]) = "direct"
  BY <1>2 DEF Write
<1>4. PICK n \in GetNamespaceByName(id) : n.state = "active" /\ SetData({n}, "user")
  BY Zenon DEF Write
<1>5. /\ NamespaceInv' /\ ns' \subseteq Namespaces
      /\ \A m \in ns : m.name # id => m \in ns'
      /\ \E k \in ns' : /\ k.name = id /\ k.data = "user" /\ k.state = "active"
                        /\ k.size = n.size /\ k.mode = n.mode
                        /\ \A m \in ns' : m.name = id => m = k
  BY <1>0, <1>1, <1>3, <1>4, DataStep, Zenon
<1>6. ConfirmedInv'
  <2>1. \A m \in ns : m.name = id => m = n
    BY <1>0, <1>4, FoundUnique, Zenon
  <2>2. ASSUME NEW m \in ns, m.name \in Ids, m.state = "active", m.data # "stale"
        PROVE  \E k \in ns' : /\ k.name = m.name /\ k.state = "active" /\ k.data # "stale"
                              /\ k.size = m.size /\ k.mode = m.mode
    BY <1>5, <2>1, <2>2, Zenon
  <2> QED BY <1>0, <1>1, <2>2, ConfirmedKeep
<1>7. TypeOK'
  BY <1>1, <1>5, Zenon DEF TypeOK
<1>8. ProcInv'
  BY <1>0, <1>1, Zenon DEF ProcInv
<1>9. SetupInv'
  BY <1>1 DEF SetupInv, ConvertSteps
<1>10. EntryInv'
  BY <1>0, <1>1, EntrySame, Zenon DEF Starting, histVars
<1>11. CreateInv' /\ DeleteInv'
  BY <1>1, Quiet
<1> QED BY <1>5, <1>6, <1>7, <1>8, <1>9, <1>10, <1>11, Zenon DEF IndInv

\* The deletion of a volume starts.
LEMMA DeleteVolumeInv ==
    ASSUME TypeOK, IndInv, NEW id \in Ids, DeleteVolume(id)
    PROVE  TypeOK' /\ IndInv'
<1>0. ProcInv /\ SetupInv /\ EntryInv /\ NamespaceInv /\ ConfirmedInv
  BY DEF IndInv
<1>1. /\ pc = "idle" /\ running \in {"lvm", "direct"} /\ job = None /\ label = "driver" /\ todo = {}
      /\ confirmed' = [confirmed EXCEPT ![id] = 0] /\ job' = id /\ pc' = "wipe"
      /\ UNCHANGED <<lvs, label, running, region, todo, pmemVolumes, entry, wanted>>
  BY <1>0, DriverRuns DEF DeleteVolume, Serving, ProcInv
<1>2. id # None
  BY ConstantTypes, Zenon
<1>3. \A i \in Ids : pmemVolumes[i] = entry[i]
  BY <1>0, <1>1, ConstantTypes, Zenon DEF EntryInv, Starting, SetupSteps
<1>4. entry[id] # None
  BY <1>3, Zenon DEF DeleteVolume
<1>5. /\ confirmed'[id] = 0 /\ \A i \in Ids \ {id} : confirmed'[i] = confirmed[i]
      /\ confirmed' \in [Ids -> Nat]
  BY <1>1 DEF TypeOK
<1>6. (\E rs : JoinVG(rs)) \/ UNCHANGED ns
  BY Zenon DEF DeleteVolume, NewDeviceManager
<1>7. /\ ns' \subseteq Namespaces /\ NamespaceInv'
      /\ \A n \in ns : n.name \in Ids \/ n.state = "seed" \/ n.data = "user" => n \in ns'
  BY <1>0, <1>1, <1>6, DeviceManagerFact, ZenonT(40) DEF NamespaceInv
<1>8. ConfirmedInv'
  BY <1>0, <1>1, <1>5, <1>7, ConfirmedKeep
<1>9. TypeOK'
  BY <1>1, <1>5, <1>7 DEF TypeOK, DeleteSteps
<1>10. ProcInv'
  BY <1>1, <1>2, Zenon DEF ProcInv, ConvertSteps, DeleteSteps
<1>11. SetupInv'
  BY <1>1, ZenonT(40) DEF SetupInv, ConvertSteps
<1>12. EntryInv'
  <2>1. \A i \in Ids : entry[i] # None =>
          /\ wanted[i] \in Maps /\ ParseOK(Origin(wanted[i]), wanted[i])
          /\ \E mode \in {"lvm", "direct"} : entry[i].params = StoredParams(i, wanted[i], mode)
    BY <1>0, Zenon DEF EntryInv
  <2>2. pc' \notin CreateSteps /\ ~Starting'
    BY <1>1, <1>2, Zenon DEF CreateSteps, Starting
  <2> QED BY <1>1, <1>3, <1>4, <1>5, <2>1, <2>2, ZenonT(40) DEF EntryInv
<1>13. CreateInv' /\ DeleteInv'
  BY <1>1, Zenon DEF CreateInv, DeleteInv, CreatingNS, CreateSteps
<1> QED BY <1>7, <1>8, <1>9, <1>10, <1>11, <1>12, <1>13, Zenon DEF IndInv

\* CreateDevice, in both modes: the steps that leave the namespaces alone.
LEMMA DeviceStep ==
    ASSUME TypeOK, IndInv, pc \in {"device", "clear"}, UNCHANGED <<ns, label, entry, histVars>>,
           UNCHANGED <<running, todo, job, pmemVolumes>>,
           \/ pc' = "undo" /\ region' = region /\ lvs' = lvs
           \/ pc' = "register" /\ region' = region /\ running = "lvm" /\ lvs' = lvs \cup {job}
           \/ /\ pc = "device" /\ pc' = "device" /\ running = "direct" /\ lvs' = lvs
              /\ region \in Regions /\ region' = region + 1
              /\ region > 1 \/ GetNamespaceByName(job) = {}
    PROVE  TypeOK' /\ IndInv'
<1>0. ProcInv /\ SetupInv /\ EntryInv /\ NamespaceInv /\ ConfirmedInv /\ CreateInv
  BY Zenon DEF IndInv
<1>1. /\ running \in {"lvm", "direct"} /\ label = "driver" /\ todo = {}
      /\ job # None /\ job \in Ids /\ pc' \in {"undo", "register", "device"}
  BY <1>0, DriverRuns, Zenon DEF ConvertSteps, ProcInv, TypeOK
<1>2. region' \in 0 .. NumRegions + 1 /\ (pc' = "device" => region' # 0)
  BY RegionNumbers, Zenon DEF TypeOK
<1>3. TypeOK'
  BY <1>1, <1>2, Zenon DEF TypeOK, histVars, CreateSteps
<1>4. ProcInv'
  BY <1>1, <1>2, Zenon DEF ProcInv, ConvertSteps, DeleteSteps
<1>5. SetupInv'
  BY <1>1 DEF SetupInv, ConvertSteps
<1>6. EntryInv'
  BY <1>0, <1>1, EntrySame, Zenon DEF Starting, CreateSteps, DeleteSteps
<1>7. NamespaceInv'
  BY <1>0, RemoveInv, ZenonT(40) DEF NamespaceInv
<1>8. ConfirmedInv'
  BY <1>0, ConfirmedKeep, Zenon DEF histVars
<1>9. DeleteInv'
  BY <1>1, Zenon DEF DeleteInv
<1>10. CreateInv'
  <2>1. \A n \in Named(job) : n.state = "active" => n.data = "stale"
    BY <1>0, <1>1 DEF CreateInv, CreateSteps
  <2>2. ASSUME pc' = "device", NEW n \in Named(job) PROVE n.state = "seed" /\ n.region < region'
    <3>1. pc = "device" /\ running = "direct" /\ region \in Regions /\ region' = region + 1
      BY <2>2
    <3>2. CASE GetNamespaceByName(job) = {}
      <4>1. Named(job) = {}
        BY <3>2, FoundByName, Zenon DEF TypeOK
      <4> QED BY <2>2, <4>1, Zenon
    <3>3. CASE region > 1
      <4>1. CreatingNS /\ region # 1
        BY <1>1, <3>1, <3>3 DEF CreatingNS
      <4>2. n.state = "seed" /\ n.region < region
        BY <1>0, <2>2, <3>1, <4>1, Zenon DEF CreateInv
      <4>3. n.region \in Nat /\ region \in Nat
        BY <2>2, <3>1, ConstantTypes, Zenon DEF Named, TypeOK, Namespaces
      <4> QED BY <3>1, <4>2, <4>3
    <3> QED BY <2>2, <3>2, <3>3
  <2>3. Named(job)' = Named(job)
    BY DEF Named
  <2>4. pc' = "register" => running' = "lvm" /\ job' \in lvs'
    BY <1>1, Zenon
  <2> QED BY <1>1, <2>1, <2>2, <2>3, <2>4, ZenonT(30) DEF CreateInv, CreatingNS
<1> QED BY <1>3, <1>4, <1>5, <1>6, <1>7, <1>8, <1>9, <1>10, Zenon DEF IndInv

\* CreateDevice of direct mode looks for a region.
LEMMA CreateDeviceDirectInv ==
    ASSUME TypeOK, IndInv, CreateDeviceDirect
    PROVE  TypeOK' /\ IndInv'
<1>0. ProcInv /\ EntryInv
  BY DEF IndInv
<1>1. pc = "device" /\ running = "direct" /\ UNCHANGED <<lvs, label, entry, histVars>>
  BY DEF CreateDeviceDirect
<1>2. CASE Goto("undo") /\ UNCHANGED ns
  BY <1>1, <1>2, DeviceStep, Zenon DEF Goto
<1>3. ASSUME region > 1 \/ GetNamespaceByName(job) = {}, region <= NumRegions
      PROVE  /\ region \in Regions
             /\ entry[job].size \in Nat
  <2>1. region \in Regions
    BY <1>0, <1>1, <1>3, RegionNumbers, Zenon DEF TypeOK, ProcInv
  <2>2. job \in Ids /\ entry[job] # None
    BY <1>0, <1>1, Zenon DEF TypeOK, ProcInv, EntryInv
  <2>3. entry[job] \in Volumes
    BY <1>0, <2>2, EntryFact, Zenon
  <2> QED BY <2>1, <2>3 DEF Volumes
<1>4. CASE /\ region > 1 \/ GetNamespaceByName(job) = {}
           /\ region <= NumRegions
           /\ SetSize(region, entry[job].size) /\ Goto("name")
  BY <1>1, <1>3, <1>4, SetSizeStep, Zenon
<1>5. CASE /\ region > 1 \/ GetNamespaceByName(job) = {}
           /\ region <= NumRegions
           /\ GotoRegion("device", region + 1) /\ UNCHANGED ns
  BY <1>1, <1>3, <1>5, DeviceStep, Zenon DEF GotoRegion
<1> QED BY <1>2, <1>4, <1>5 DEF CreateDeviceDirect

\* CreateDevice of LVM mode.
LEMMA CreateDeviceLVMInv ==
    ASSUME TypeOK, IndInv, CreateDeviceLVM
    PROVE  TypeOK' /\ IndInv'
<1>1. /\ pc = "device" /\ running = "lvm" /\ UNCHANGED <<ns, label, entry, histVars>>
      /\ UNCHANGED <<running, todo, job, pmemVolumes, region>>
      /\ (pc' = "undo" /\ lvs' = lvs) \/ (pc' = "register" /\ lvs' = lvs \cup {job})
  BY DEF CreateDeviceLVM, Goto
<1> QED BY <1>1, DeviceStep, Zenon

\* The start of the device is cleared.
LEMMA ClearDeviceInv ==
    ASSUME TypeOK, IndInv, ClearDevice
    PROVE  TypeOK' /\ IndInv'
<1>0. ProcInv /\ SetupInv /\ EntryInv /\ NamespaceInv /\ ConfirmedInv /\ CreateInv
  BY DEF IndInv
<1>1. pc = "clear" /\ UNCHANGED <<lvs, label, entry, histVars>>
  BY DEF ClearDevice
<1>2. /\ running = "direct" /\ label = "driver" /\ todo = {} /\ job # None /\ job \in Ids
      /\ entry[job] # None /\ Mode(entry[job]) = "direct" /\ confirmed[job] = 0
  BY <1>0, <1>1, DriverRuns DEF ConvertSteps, ProcInv, TypeOK, EntryInv, CreateSteps
<1>3. CASE Goto("undo") /\ UNCHANGED ns
  BY <1>1, <1>3, DeviceStep, Zenon DEF Goto
<1>4. ASSUME NEW n \in GetNamespaceByName(job), n.state = "active", SetData({n}, "clear"), Goto("register")
      PROVE  TypeOK' /\ IndInv'
  <2>1. /\ NamespaceInv' /\ ns' \subseteq Namespaces
        /\ \A m \in ns : m.name # job => m \in ns'
    BY <1>0, <1>1, <1>2, <1>4, DataStep, Zenon
  <2>2. PICK k \in ns' : /\ k.name = job /\ k.data = "clear" /\ k.state = "active"
                         /\ k.size = n.size /\ k.mode = n.mode
                         /\ \A m \in ns' : m.name = job => m = k
    BY <1>0, <1>1, <1>2, <1>4, DataStep
  <2>3. pc' = "register" /\ UNCHANGED <<running, region, todo, job, pmemVolumes>>
    BY <1>4, Zenon DEF Goto
  <2>4. ConfirmedInv'
    <3>1. UNCHANGED <<lvs, entry, wanted, confirmed>>
      BY <1>1, Zenon DEF histVars
    <3>2. ~(confirmed[job] > 0)
      BY <1>2
    <3>3. ASSUME NEW id \in Ids, confirmed'[id] > 0, NEW m \in ns, m.name = id,
                 m.state = "active", m.data # "stale"
          PROVE  \E j \in ns' : /\ j.name = id /\ j.state = "active" /\ j.data # "stale"
                                 /\ j.size = m.size /\ j.mode = m.mode
      <4>1. m.name # job BY <3>1, <3>2, <3>3, Zenon
      <4>2. m \in ns' BY <2>1, <4>1, Zenon
      <4>3. QED BY <3>3, <4>2, Zenon
    <3>4. ASSUME NEW id \in Ids, confirmed'[id] > 0
          PROVE  /\ confirmed'[id] = confirmed[id] /\ entry'[id] = entry[id] /\ wanted'[id] = wanted[id]
                 /\ id \in lvs => id \in lvs'
      BY <3>1, Zenon
    <3>5. QED BY <1>0, <3>3, <3>4, ConfirmedKeep, Zenon
  <2>5. TypeOK'
    BY <1>1, <1>2, <2>1, <2>3, Zenon DEF TypeOK, histVars, CreateSteps
  <2>6. ProcInv'
    BY <1>1, <1>2, <2>3, Zenon DEF ProcInv, ConvertSteps, DeleteSteps
  <2>7. SetupInv'
    BY <1>1, <1>2, <2>3, Zenon DEF SetupInv, ConvertSteps
  <2>8. EntryInv'
    BY <1>0, <1>1, <1>2, <2>3, EntrySame, Zenon DEF Starting, CreateSteps, DeleteSteps
  <2>9. DeleteInv'
    BY <2>3, Zenon DEF DeleteInv
  <2>10. CreateInv'
    <3>1. n \in Named(job)
      BY <1>4, Zenon DEF GetNamespaceByName, Named
    <3>2. Suits(n, job)
      BY <1>0, <1>1, <1>2, <1>4, <3>1, ZenonT(40) DEF CreateInv, CreatingNS
    <3>3. Suits(k, job)'
      BY <1>1, <2>2, <2>3, <3>2, ZenonT(40) DEF Suits, histVars
    <3>4. k \in Named(job)'
      BY <2>2, <2>3, Zenon DEF Named
    <3> QED BY <1>2, <2>2, <2>3, <3>3, <3>4, Zenon DEF CreateInv, CreatingNS
  <2> QED BY <2>1, <2>4, <2>5, <2>6, <2>7, <2>8, <2>9, <2>10, Zenon DEF IndInv
<1> QED BY <1>3, <1>4, Zenon DEF ClearDevice

\* A call ends without having changed the volumes.
LEMMA IdleInv ==
    ASSUME TypeOK, IndInv, Idle, pc \in DeleteSteps, UNCHANGED <<label, entry, histVars>>,
           ns' \subseteq Namespaces, NamespaceInv', ConfirmedInv', lvs' \subseteq Ids
    PROVE  TypeOK' /\ IndInv'
<1>0. ProcInv /\ SetupInv /\ EntryInv
  BY DEF IndInv
<1>1. /\ running \in {"lvm", "direct"} /\ label = "driver" /\ todo = {} /\ job # None
  BY <1>0, DriverRuns DEF ConvertSteps, ProcInv, DeleteSteps
<1>2. pc' = "idle" /\ region' = 0 /\ job' = None /\ UNCHANGED <<running, todo, pmemVolumes>>
  BY Zenon DEF Idle
<1>3. TypeOK'
  <2>1. region' \in 0 .. NumRegions + 1
    BY <1>2, RegionNumbers, Zenon
  <2> QED BY <1>1, <1>2, <2>1, Zenon DEF TypeOK, histVars
<1>4. ProcInv'
  BY <1>1, <1>2, Zenon DEF ProcInv, ConvertSteps, DeleteSteps
<1>5. SetupInv'
  BY <1>1, <1>2, Zenon DEF SetupInv, ConvertSteps
<1>6. EntryInv'
  <2>1. \A id \in Ids : pmemVolumes[id] = entry[id]
    BY <1>0, <1>1, ZenonT(40) DEF EntryInv, Starting, CreateSteps, DeleteSteps
  <2>2. \A id \in Ids : entry[id] # None =>
          /\ wanted[id] \in Maps /\ ParseOK(Origin(wanted[id]), wanted[id])
          /\ \E mode \in {"lvm", "direct"} : entry[id].params = StoredParams(id, wanted[id], mode)
    BY <1>0, Zenon DEF EntryInv
  <2> QED BY <1>1, <1>2, <2>1, <2>2, ConstantTypes, Zenon DEF EntryInv, Starting, SetupSteps, histVars
<1>7. CreateInv' /\ DeleteInv'
  BY <1>2, Quiet, Zenon
<1> QED BY <1>3, <1>4, <1>5, <1>6, <1>7, Zenon DEF IndInv

\* The entry of a volume is removed, after a failed CreateVolume or at the end of
\* DeleteVolume.
LEMMA RemoveEntryInv ==
    ASSUME TypeOK, IndInv, UndoCreate \/ Forget
    PROVE  TypeOK' /\ IndInv'
<1>0. ProcInv /\ SetupInv /\ EntryInv /\ NamespaceInv /\ ConfirmedInv
  BY Zenon DEF IndInv
<1>1. /\ pc \in {"undo", "forget"} /\ entry' = [entry EXCEPT ![job] = None]
      /\ wanted' = [wanted EXCEPT ![job] = None]
      /\ pc' = "idle" /\ region' = 0 /\ job' = None
      /\ UNCHANGED <<ns, lvs, label, confirmed, running, todo>>
  BY Zenon DEF UndoCreate, Forget, Idle
<1>2. /\ running \in {"lvm", "direct"} /\ label = "driver" /\ todo = {} /\ job # None /\ job \in Ids
      /\ confirmed[job] = 0
  BY <1>0, <1>1, DriverRuns, Zenon DEF ConvertSteps, ProcInv, DeleteSteps, CreateSteps, TypeOK, EntryInv
<1>3. /\ entry'[job] = None /\ entry' \in [Ids -> Volumes \cup {None}] /\ wanted' \in [Ids -> Maps \cup {None}]
      /\ \A id \in Ids \ {job} : entry'[id] = entry[id] /\ wanted'[id] = wanted[id]
  BY <1>1, <1>2, Zenon DEF TypeOK
<1>4. \A id \in Ids : pmemVolumes'[id] = entry'[id]
  <2>1. CASE UndoCreate
    <3>1. pmemVolumes' = pmemVolumes /\ pc = "undo"
      BY <2>1, Zenon DEF UndoCreate, Idle
    <3>2. \A id \in Ids : pmemVolumes[id] = IF id = job THEN None ELSE entry[id]
      BY <1>0, <1>2, <3>1, Zenon DEF EntryInv, Starting, CreateSteps
    <3> QED BY <1>3, <3>1, <3>2, Zenon
  <2>2. CASE Forget
    <3>1. pmemVolumes' = [pmemVolumes EXCEPT ![job] = None] /\ pc = "forget"
      BY <2>2, Zenon DEF Forget
    <3>2. \A id \in Ids : pmemVolumes[id] = entry[id]
      BY <1>0, <1>2, <3>1, Zenon DEF EntryInv, Starting, CreateSteps
    <3> QED BY <1>2, <1>3, <3>1, <3>2, Zenon DEF TypeOK
  <2> QED BY <2>1, <2>2, Zenon
<1>5. pmemVolumes' \in [Ids -> Volumes \cup {None}]
  BY Zenon DEF TypeOK, UndoCreate, Forget, Idle
<1>6. \A n \in ns : n.name = job /\ n.state = "active" => n.data = "stale"
  BY <1>1, <1>2, Zenon DEF IndInv, CreateInv, DeleteInv, CreateSteps, Named
<1>7. NamespaceInv' /\ ns' \subseteq Namespaces
  <2>1. \A n \in ns' : n.name \in Ids /\ n.state = "active" /\ n.data # "stale" =>
                            entry'[n.name] # None /\ Mode(entry'[n.name]) = "direct"
    BY <1>0, <1>1, <1>3, <1>6, Zenon DEF NamespaceInv
  <2>2. ns' \subseteq ns
    BY <1>1, Zenon
  <2> QED BY <1>0, <2>1, <2>2, RemoveInv, Zenon
<1>8. ConfirmedInv'
  BY <1>0, <1>1, <1>2, <1>3, ConfirmedKeep
<1>9. TypeOK'
  <2>1. region' \in 0 .. NumRegions + 1
    BY <1>1, RegionNumbers, Zenon
  <2> QED BY <1>1, <1>2, <1>3, <1>5, <2>1, Zenon DEF TypeOK
<1>10. ProcInv'
  BY <1>1, <1>2, Zenon DEF ProcInv, ConvertSteps, DeleteSteps
<1>11. SetupInv'
  BY <1>1, <1>2, Zenon DEF SetupInv, ConvertSteps
<1>12. EntryInv'
  <2>1. \A id \in Ids : entry'[id] # None =>
          /\ wanted'[id] \in Maps /\ ParseOK(Origin(wanted'[id]), wanted'[id])
          /\ \E mode \in {"lvm", "direct"} : entry'[id].params = StoredParams(id, wanted'[id], mode)
    BY <1>0, <1>3, Zenon DEF EntryInv
  <2> QED BY <1>1, <1>2, <1>4, <2>1, ConstantTypes, Zenon DEF EntryInv, Starting, SetupSteps
<1>13. CreateInv' /\ DeleteInv'
  BY <1>1, Quiet, Zenon
<1> QED BY <1>7, <1>8, <1>9, <1>10, <1>11, <1>12, <1>13, Zenon DEF IndInv

\* The volume is confirmed.
LEMMA RegisterInv ==
    ASSUME TypeOK, IndInv, Register
    PROVE  TypeOK' /\ IndInv'
<1> DEFINE dev == CHOOSE n \in ns : n.name = job /\ n.state = "active"
           actual == IF running = "lvm" THEN entry[job].size ELSE RawSize(dev)
           vol == [entry[job] EXCEPT !.size = actual]
<1>0. ProcInv /\ SetupInv /\ EntryInv /\ NamespaceInv /\ ConfirmedInv /\ CreateInv
  BY DEF IndInv
<1>1. /\ pc = "register" /\ entry' = [entry EXCEPT ![job] = vol]
      /\ pmemVolumes' = [pmemVolumes EXCEPT ![job] = vol]
      /\ confirmed' = [confirmed EXCEPT ![job] = entry[job].size]
      /\ pc' = "idle" /\ region' = 0 /\ job' = None
      /\ UNCHANGED <<ns, lvs, label, running, todo, wanted>>
  BY DEF Register
<1>2. /\ running \in {"lvm", "direct"} /\ label = "driver" /\ todo = {} /\ job # None /\ job \in Ids
      /\ entry[job] # None /\ Mode(entry[job]) = running
  BY <1>0, <1>1, DriverRuns, Zenon DEF ConvertSteps, ProcInv, CreateSteps, TypeOK, EntryInv
<1>3. entry[job] \in Volumes
  BY <1>0, <1>2, EntryFact
<1>4. running = "direct" =>
        /\ dev \in ns /\ dev.name = job /\ dev.state = "active" /\ dev.data = "clear" /\ Suits(dev, job)
        /\ RawSize(dev) \in Nat
  <2>1. SUFFICES ASSUME running = "direct"
                 PROVE  /\ dev \in ns /\ dev.name = job /\ dev.state = "active" /\ dev.data = "clear"
                        /\ Suits(dev, job) /\ RawSize(dev) \in Nat
    OBVIOUS
  <2>2. PICK n \in ns : n.name = job /\ n.state = "active" /\ n.data = "clear" /\ Suits(n, job)
    BY <1>0, <1>1, <2>1, Zenon DEF CreateInv, Named
  <2>3. dev \in ns /\ dev.name = job /\ dev.state = "active"
    BY <2>2, Zenon
  <2> HIDE DEF dev
  <2>4. dev = n
    BY <1>0, <1>2, <2>2, <2>3, Zenon DEF NamespaceInv
  <2>5. dev.size \in Nat /\ dev.size >= align
    BY <1>0, <1>2, <2>3, Zenon DEF NamespaceInv, TypeOK, Namespaces
  <2>6. align \in Nat /\ BttOverhead \in Nat /\ BttOverhead < align
    BY ConstantTypes, Zenon
  <2>7. RawSize(dev) \in Nat
    BY <2>5, <2>6 DEF RawSize
  <2> QED BY <2>2, <2>4, <2>7, Zenon
<1>5. actual \in Nat /\ entry[job].size \in Nat
  BY <1>2, <1>3, <1>4 DEF Volumes
<1> HIDE DEF dev
<1>6. vol \in Volumes /\ vol.params = entry[job].params /\ vol.size = actual
  BY <1>3, <1>5 DEF Volumes
<1>7. vol # None /\ Mode(vol) = running
  BY <1>2, <1>6, PmemNodeAssumption, Zenon DEF Mode
<1> HIDE DEF vol
<1>8. /\ entry'[job] = vol /\ pmemVolumes'[job] = vol /\ confirmed'[job] = entry[job].size
      /\ \A id \in Ids \ {job} : /\ entry'[id] = entry[id] /\ pmemVolumes'[id] = pmemVolumes[id]
                                 /\ confirmed'[id] = confirmed[id]
      /\ entry' \in [Ids -> Volumes \cup {None}] /\ pmemVolumes' \in [Ids -> Volumes \cup {None}]
      /\ confirmed' \in [Ids -> Nat]
  BY <1>1, <1>2, <1>5, <1>6, Zenon DEF TypeOK
<1>9. NamespaceInv' /\ ns' \subseteq Namespaces
  <2>1. \A n \in ns' : n.name \in Ids /\ n.state = "active" /\ n.data # "stale" =>
                            entry'[n.name] # None /\ Mode(entry'[n.name]) = "direct"
    BY <1>0, <1>1, <1>2, <1>7, <1>8, SMTT(20) DEF NamespaceInv
  <2>2. ns' \subseteq ns
    BY <1>1
  <2> QED BY <1>0, <2>1, <2>2, RemoveInv, Zenon
<1>10. ConfirmedInv'
  <2>1. ASSUME NEW id \in Ids, confirmed'[id] > 0
        PROVE  /\ entry'[id] # None
               /\ Mode(entry'[id]) = "lvm" => id \in lvs'
               /\ Mode(entry'[id]) = "direct" => \E n \in ns' : Device(n, id)'
    <3>1. CASE id # job
      <4>1. /\ entry'[id] = entry[id] /\ confirmed'[id] = confirmed[id] /\ wanted'[id] = wanted[id]
            /\ ns' = ns /\ lvs' = lvs
        BY <1>1, <1>8, <3>1, Zenon
      <4>2. \A n \in ns : Device(n, id) => Device(n, id)'
        BY <4>1, Zenon DEF Device, RawSize
      <4> QED BY <1>0, <2>1, <4>1, <4>2, Zenon DEF ConfirmedInv
    <3>2. CASE id = job
      <4>1. running = "lvm" => id \in lvs'
        BY <1>0, <1>1, <3>2, Zenon DEF CreateInv
      <4>2. ASSUME running = "direct" PROVE \E n \in ns' : Device(n, id)'
        <5>1. /\ dev \in ns /\ dev.name = job /\ dev.state = "active" /\ dev.data = "clear" /\ Suits(dev, job)
              /\ vol.size = RawSize(dev)
          BY <1>4, <1>6, <4>2, Zenon
        <5>2. PICK k \in ns : k = dev
          BY <5>1, Zenon
        <5>3. Device(k, id)'
          BY <1>1, <1>8, <3>2, <5>1, <5>2, ZenonT(40) DEF Device, Suits, RawSize
        <5> QED BY <1>1, <5>3, Zenon
      <4> QED BY <1>2, <1>7, <1>8, <3>2, <4>1, <4>2, Zenon
    <3> QED BY <3>1, <3>2, Zenon
  <2> QED BY <2>1 DEF ConfirmedInv, Mode
<1>11. TypeOK'
  <2>1. region' \in 0 .. NumRegions + 1
    BY <1>1, RegionNumbers, Zenon
  <2> QED BY <1>1, <1>2, <1>8, <2>1, Zenon DEF TypeOK
<1>12. ProcInv'
  BY <1>1, <1>2, Zenon DEF ProcInv, ConvertSteps, DeleteSteps
<1>13. SetupInv'
  BY <1>1, <1>2, Zenon DEF SetupInv, ConvertSteps
<1>14. EntryInv'
  <2>1. \A id \in Ids : entry'[id] # None =>
          /\ wanted[id] \in Maps /\ ParseOK(Origin(wanted[id]), wanted[id])
          /\ \E mode \in {"lvm", "direct"} : entry'[id].params = StoredParams(id, wanted[id], mode)
    BY <1>0, <1>2, <1>6, <1>8, Zenon DEF EntryInv
  <2>2. \A id \in Ids : pmemVolumes'[id] = entry'[id]
    <3>1. \A id \in Ids \ {job} : pmemVolumes[id] = entry[id]
      BY <1>0, <1>1, <1>2, Zenon DEF EntryInv, Starting
    <3> QED BY <1>8, <3>1, Zenon
  <2>3. \A id \in Ids : id # None
    BY ConstantTypes, Zenon
  <2>4. ~Starting' /\ running' \notin {"none", "setup"} /\ job' = None /\ wanted' = wanted
    BY <1>1, <1>2, Zenon DEF Starting, SetupSteps
  <2> QED BY <2>1, <2>2, <2>3, <2>4, ZenonT(40) DEF EntryInv
<1>15. CreateInv' /\ DeleteInv'
  BY <1>1, Quiet
<1> QED BY <1>9, <1>10, <1>11, <1>12, <1>13, <1>14, <1>15, SMTT(20) DEF IndInv

=============================================================================
