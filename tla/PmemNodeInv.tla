----------------------------- MODULE PmemNodeInv -----------------------------
(***************************************************************************)
(* The inductive invariant behind the safety properties of PmemNode.       *)
(***************************************************************************)
EXTENDS PmemNode

Named(id) == {n \in ns : n.name = id}

\* In direct mode, the driver creates the device of a volume.
CreatingNS == job # None /\ pc \in {"device", "name", "enable", "clear"} /\ running = "direct"

\* The driver has not restored its volumes yet.
Starting == job = None /\ pc \in SetupSteps

\* Which process runs, and what it works on.
ProcInv ==
    /\ running = "none" => pc = "idle" /\ job = None /\ todo = {}
    /\ running = "setup" <=> pc \in ConvertSteps
    /\ running = "setup" => job = None
    /\ pc \in {"setupNS", "wipefs", "setupVG"} => running = "lvm" /\ job = None /\ region \in Regions
    /\ pc \in {"name", "enable"} => region \in Regions /\ (running = "lvm" <=> job = None)
    /\ pc \in {"restore", "idle"} => job = None
    /\ pc \in {"device", "clear", "register", "undo"} \cup DeleteSteps => job # None
    /\ pc = "clear" => running = "direct"
    /\ pc = "device" => region # 0
    /\ todo # {} => pc \in {"convert", "wipefs"}

\* While raw namespaces are converted, there are no volumes and no seeds.
SetupInv ==
    /\ pc \in ConvertSteps \ {"done"} => label = "setup"
    /\ label = "setup" => /\ running \in {"none", "setup"}
                          /\ \A n \in ns : n.name \notin Ids /\ n.state # "seed"
    /\ label = "setup" \/ running = "setup" => \A id \in Ids : entry[id] = None
    /\ pc = "convert" => \A n \in todo : n.region \notin ReadOnly
    /\ pc = "wipefs" => \A n \in todo :
          n.data = "stale" /\ n.state = "active" /\ n.name = pmemCSINamespaceName

\* What is stored is known, and says what was asked for.
EntryInv ==
    /\ \A id \in Ids : entry[id] # None =>
          /\ wanted[id] \in Maps /\ ParseOK(Origin(wanted[id]), wanted[id])
          /\ \E mode \in {"lvm", "direct"} : entry[id].params = StoredParams(id, wanted[id], mode)
    /\ \A id \in Ids : pmemVolumes[id] =
          IF running \in {"none", "setup"} \/ Starting \/ (job = id /\ pc \in CreateSteps)
            THEN None ELSE entry[id]
    /\ job # None => entry[job] # None
    /\ job # None /\ pc \in CreateSteps => Mode(entry[job]) = running /\ confirmed[job] = 0
    /\ job # None /\ pc \in DeleteSteps => confirmed[job] = 0

\* There is one seed per region and nothing in it.  Of the namespaces with the
\* name of a volume, only the last one can be more than a left-over seed.
NamespaceInv ==
    /\ IsFiniteSet(ns)
    /\ \A m, n \in ns : m.state = "seed" /\ n.state = "seed" /\ m.region = n.region => m = n
    /\ \A n \in ns : n.state = "seed" => n.data = "stale"
    /\ \A n \in ns : n.name \in Ids \/ n.state = "seed" => n.size >= align
    /\ \A n \in ns : n.name = pmemCSINamespaceName => n.data # "user"
    /\ \A m, n \in ns : m.name = n.name /\ m.name \in Ids /\ m # n /\ n.state # "seed"
          => m.state = "seed" /\ m.region < n.region
    /\ \A n \in ns : n.name \in Ids /\ n.state = "active" /\ n.data # "stale"
          => /\ entry[n.name] # None /\ Mode(entry[n.name]) = "direct"
             /\ \A m \in ns : m.name = n.name => m = n

\* The namespace has the mode and the size that the volume id needs.
Suits(n, id) ==
    /\ n.mode = "sector" <=> GetUsage(Parse(wanted[id])) = "FileIO"
    /\ n.size >= entry[id].size

\* A new namespace is given to a volume step by step, region after region.
CreateInv ==
    /\ job # None /\ pc \in CreateSteps \ {"register"} =>
          \A n \in Named(job) : n.state = "active" => n.data = "stale"
    /\ CreatingNS /\ pc # "clear" /\ ~(pc = "device" /\ region = 1) =>
          \A n \in Named(job) : /\ n.state = "seed"
                                /\ n.region < region \/ (n.region = region /\ pc = "enable")
    /\ CreatingNS /\ pc = "clear" => \A n \in Named(job) : n.state # "seed" => Suits(n, job)
    /\ pc \in {"name", "enable"} => \A n \in Seed(region) :
          /\ job # None => n.size >= entry[job].size
          /\ pc = "enable" => n.name = NamespaceName
    /\ pc = "register" /\ running = "direct" =>
          \E n \in Named(job) : n.state = "active" /\ n.data = "clear" /\ Suits(n, job)
    /\ pc = "register" /\ running = "lvm" => job \in lvs

\* The namespace is what CreateVolume has confirmed.
Device(n, id) ==
    /\ n.name = id /\ n.state = "active" /\ n.data # "stale"
    /\ n.size >= confirmed[id]
    /\ n.mode = "sector" <=> GetUsage(Parse(wanted[id])) = "FileIO"
    /\ entry[id].size = RawSize(n)

\* A confirmed volume has its device.
ConfirmedInv ==
    \A id \in Ids : confirmed[id] > 0 =>
        /\ entry[id] # None
        /\ Mode(entry[id]) = "lvm" => id \in lvs
        /\ Mode(entry[id]) = "direct" => \E n \in ns : Device(n, id)

\* A volume that is being deleted has lost its data and then its device.
DeleteInv ==
    /\ pc = "destroy" => \A n \in GetNamespaceByName(job) :
          /\ n.state = "active"
          /\ n.data = IF GetEraseAfter(Parse(entry[job].params)) THEN "clear" ELSE "stale"
    /\ pc = "forget" => \A n \in Named(job) : n.state = "active" => n.data = "stale"

\* The inductive invariant: what is true of the PMEM of a node between any two
\* steps of the driver, and from which the safety properties follow.
IndInv ==
    ProcInv /\ SetupInv /\ EntryInv /\ NamespaceInv /\ CreateInv /\ ConfirmedInv /\ DeleteInv

-----------------------------------------------------------------------------
\* What setupNS has taken in a region, and what it may take.
IsOwn(n) == n.name = pmemCSINamespaceName /\ n.state # "seed"
Own(r) == {n \in AllNamespaces(r) : IsOwn(n)}
Limit(r) == AlignUp((Percentage * RegionSize[r]) \div 100)

\* No two namespaces begin at the same place.
PlaceInv == \A m, n \in ns : m.region = n.region /\ m.start = n.start => m = n

\* If no admin has prepared namespaces for the driver: its own namespaces are as
\* setupNS has created them, and the next one fits into the limit.
OwnInv ==
    /\ \A n \in ns : IsOwn(n) => n.state = "active" /\ n.mode = "fsdax"
    /\ \A r \in Regions : TotalSize(Own(r)) % align = 0 /\ TotalSize(Own(r)) <= Limit(r)
    /\ job = None /\ pc \in {"name", "enable"} => \A n \in Seed(region) :
          n.size % align = 0 /\ TotalSize(Own(region)) + n.size <= Limit(region)

NothingPrepared == \A n \in Foreign : n.name # pmemCSINamespaceName

=============================================================================
