------------------------------ MODULE PmemNode ------------------------------
(***************************************************************************)
(* The PMEM of a node over time: raw namespaces are converted once for LVM *)
(* (convert.go), the driver starts in LVM or direct mode and prepares the  *)
(* regions (pmd-lvm.go), volumes are created and deleted in the mode that  *)
(* the driver was started in (controllerserver-node.go, pmd-ndctl.go), it  *)
(* is killed at any point and started again, perhaps in the other mode.    *)
(*                                                                         *)
(* ndctlMutex and lvmMutex are held during each operation on devices, so   *)
(* one operation runs at a time.  NodeController and LvmDevices model what *)
(* is left out here: concurrent calls, failures of the state files, and    *)
(* the space in volume groups.                                             *)
(***************************************************************************)
EXTENDS Regions, Parameters

CONSTANTS
    Percentage,     \* pmemPercentage
    Maps,           \* parameters of volumes, by users
    Sizes,          \* sizes that are asked for in CreateVolume
    Faults          \* what can fail: subset of FaultKinds

FaultKinds ==
    {"setup",       \* a step of CreateNamespace, or ndctl create-namespace
     "wipefs",
     "vg",          \* vgcreate and vgextend
     "clear",       \* clearing the start of a new device
     "busy",        \* clearing the device of a volume that is deleted
     "destroy",     \* DestroyNamespace and lvremove
     "api"}         \* patching the labels of the node

VARIABLES
    lvs,            \* the logical volumes: IDs of volumes
    label,          \* which pod the labels of the node select: "setup" or "driver"
    running,        \* "none", "setup" pod, or driver in mode "lvm" or "direct"
    pc,             \* next step of the running process
    region,         \* the region it is in
    todo,           \* conversion: remaining namespaces of the region;
                    \* start-up: the new namespace
    job,            \* ID of the volume that is created or deleted, or None
    entry,          \* entry[id]: the state file, None if there is none
    pmemVolumes,    \* pmemVolumes[id]: the known volumes
    wanted,         \* history: the parameters that the stored volume was asked for
    confirmed       \* history: confirmed[id] is the size that CreateVolume was
                    \* asked for, from its success until DeleteVolume is called

procVars == <<running, pc, region, todo, job, pmemVolumes>>
histVars == <<wanted, confirmed>>
vars == <<ns, lvs, label, procVars, entry, histVars>>

IsEphemeral(m) == Ephemeral \in DOMAIN m /\ m[Ephemeral] \in TrueTexts
Origin(m) == IF IsEphemeral(m) THEN "EphemeralVolumeOrigin" ELSE "CreateVolumeOrigin"

AskedSizes(m) == IF IsEphemeral(m) THEN {GetSize(Parse(m))} ELSE Sizes

\* What is stored for volume id, see createVolumeInternal and createEphemeralDevice.
StoredParams(id, m, mode) ==
    ToContext([Parse(m) EXCEPT !.Name = {id},
                               !.Persistency = IF IsEphemeral(m) THEN {"ephemeral"} ELSE @,
                               !.DeviceMode = {mode}])

\* type nodeVolume, as it can be created.
Volumes ==
    [params : {StoredParams(id, m, mode) : id \in Ids, m \in {n \in Maps : ParseOK(Origin(n), n)},
                                           mode \in {"lvm", "direct"}},
     size : Nat]

ASSUME PmemNodeAssumption ==
    /\ Percentage \in 0 .. 100
    /\ Sizes \subseteq Nat \ {0}
    /\ \A m \in Maps : Size \in DOMAIN m => m[Size] \in Nat
    /\ Faults \subseteq FaultKinds
    /\ None \notin Maps \cup Volumes

Mode(vol) == GetDeviceMode(Parse(vol.params))

SetupSteps == {"setupNS", "name", "enable", "wipefs", "setupVG", "restore"}
CreateSteps == {"device", "name", "enable", "clear", "register", "undo"}
DeleteSteps == {"wipe", "destroy", "forget"}
ConvertSteps == {"convert", "havePMEM", "relabel", "done"}

\* The types of all variables.
TypeOK ==
    /\ ns \subseteq Namespaces
    /\ lvs \subseteq Ids
    /\ label \in {"setup", "driver"}
    /\ running \in {"none", "setup", "lvm", "direct"}
    /\ pc \in {"idle"} \cup SetupSteps \cup CreateSteps \cup DeleteSteps \cup ConvertSteps
    /\ region \in 0 .. NumRegions + 1
    /\ todo \subseteq ns
    /\ job \in Ids \cup {None}
    /\ entry \in [Ids -> Volumes \cup {None}]
    /\ pmemVolumes \in [Ids -> Volumes \cup {None}]
    /\ wanted \in [Ids -> Maps \cup {None}]
    /\ confirmed \in [Ids -> Nat]

Init ==
    /\ \/ label = "driver" /\ ns = Foreign
       \/ label = "setup" /\ ns \in SUBSET Foreign
    /\ lvs = {}
    /\ running = "none" /\ pc = "idle" /\ region = 0 /\ todo = {} /\ job = None
    /\ entry = [id \in Ids |-> None]
    /\ pmemVolumes = [id \in Ids |-> None]
    /\ wanted = [id \in Ids |-> None]
    /\ confirmed = [id \in Ids |-> 0]

Goto(step) == pc' = step /\ UNCHANGED <<running, region, todo, job, pmemVolumes>>
GotoRegion(step, r) == pc' = step /\ region' = r /\ UNCHANGED <<running, todo, job, pmemVolumes>>

\* The call is finished.
Idle == pc' = "idle" /\ region' = 0 /\ job' = None /\ UNCHANGED <<running, todo, pmemVolumes>>

\* The process ends, by itself or because it is killed.
Exit ==
    /\ running' = "none" /\ pc' = "idle" /\ region' = 0 /\ todo' = {} /\ job' = None
    /\ pmemVolumes' = [id \in Ids |-> None]

Killed ==
    /\ running # "none"
    /\ Exit
    /\ UNCHANGED <<ns, lvs, label, entry, histVars>>

-----------------------------------------------------------------------------
\* ForceConvertRawNamespaces, in a pod of its own.
StartSetup ==
    /\ running = "none" /\ label = "setup"
    /\ running' = "setup" /\ pc' = "convert" /\ region' = 0
    /\ UNCHANGED <<ns, lvs, label, todo, job, pmemVolumes, entry, histVars>>

\* convert: the next region; read-only ones are skipped.
ConvertRegion ==
    /\ pc = "convert" /\ todo = {}
    /\ \/ /\ region < NumRegions
          /\ region' = region + 1
          /\ todo' = IF region + 1 \in ReadOnly THEN {} ELSE AllNamespaces(region + 1)
          /\ UNCHANGED <<running, pc, job, pmemVolumes>>
       \/ region = NumRegions /\ Goto("havePMEM")
    /\ UNCHANGED <<ns, lvs, label, entry, histVars>>

\* convert: the next namespace of the region.  A raw one is made an fsdax
\* namespace, all its data is lost; then it is handled like one.
Convert ==
    LET n == CHOOSE m \in todo : \A k \in todo : m.start <= k.start
        fsdax == [n EXCEPT !.mode = "fsdax", !.data = "clear"]
        pv == [n EXCEPT !.data = "pv"]
        unused == n.mode = "fsdax" /\ n.name # pmemCSINamespaceName /\ n.data # "pv"
    IN
    /\ pc = "convert" /\ todo # {}
    /\ \/ /\ n.mode = "raw"
          /\ ns' = (ns \ {n}) \cup {fsdax}
          /\ todo' = (todo \ {n}) \cup {fsdax}
          /\ UNCHANGED <<running, pc, region, job, pmemVolumes>>
       \/ /\ unused                         \* setupVGForNamespaces
          /\ ns' = (ns \ {n}) \cup {pv}
          /\ todo' = todo \ {n}
          /\ UNCHANGED <<running, pc, region, job, pmemVolumes>>
       \/ /\ n.mode # "raw" /\ ~unused
          /\ todo' = todo \ {n}
          /\ UNCHANGED <<ns, running, pc, region, job, pmemVolumes>>
       \/ /\ (n.mode = "raw" /\ "setup" \in Faults) \/ (unused /\ "vg" \in Faults)
          /\ Exit
          /\ UNCHANGED ns
    /\ UNCHANGED <<lvs, label, entry, histVars>>

HasVG(r) == \E n \in AllNamespaces(r) : n.data = "pv"

havePMEM ==
    /\ pc = "havePMEM"
    /\ IF \E r \in Regions \ ReadOnly :
             \/ \E n \in AllNamespaces(r) : n.mode = "fsdax" /\ n.name = pmemCSINamespaceName
             \/ HasVG(r)
         THEN Goto("relabel")
         ELSE Exit
    /\ UNCHANGED <<ns, lvs, label, entry, histVars>>

\* The labels now select the driver; the pod waits until it is terminated.
relabel ==
    /\ pc = "relabel"
    /\ \/ label' = "driver" /\ Goto("done")
       \/ "api" \in Faults /\ Exit /\ UNCHANGED label
    /\ UNCHANGED <<ns, lvs, entry, histVars>>

-----------------------------------------------------------------------------
\* The driver is started, in a mode that the admin has chosen.
StartDriver(mode) ==
    /\ running = "none" /\ label = "driver"
    /\ running' = mode
    /\ pc' = IF mode = "lvm" THEN "setupNS" ELSE "restore"
    /\ region' = IF mode = "lvm" THEN 1 ELSE 0
    /\ UNCHANGED <<ns, lvs, label, todo, job, pmemVolumes, entry, histVars>>

\* Mutant: what is in use already is not subtracted.
SetupSizeAgain(r) == Min({(Percentage * RegionSize[r]) \div 100, MaxAvailableExtent(r)})

OwnNamespaces(r) == {n \in ActiveNamespaces(r) : n.name = pmemCSINamespaceName}

\* Mutant: fragmentation is ignored.
SetupSizeFragmented(r) ==
    Max({0, (Percentage * RegionSize[r]) \div 100 - TotalSize(OwnNamespaces(r))})

\* setupNS: how much may still be used in the region.
SetupSize(r) ==
    LET canUse == (Percentage * RegionSize[r]) \div 100 - TotalSize(OwnNamespaces(r))
    IN  Max({0, Min({canUse, AvailableSize(r), MaxAvailableExtent(r)})})

setupNS ==
    /\ pc = "setupNS"
    /\ \/ SetupSize(region) = 0 /\ Goto("setupVG") /\ UNCHANGED ns
       \/ SetupSize(region) > 0 /\ SetSize(region, SetupSize(region)) /\ Goto("name")
       \/ SetupSize(region) > 0 /\ ~CanCreate(region, SetupSize(region)) /\ Exit /\ UNCHANGED ns
    /\ UNCHANGED <<lvs, label, entry, histVars>>

NamespaceName == IF job = None THEN pmemCSINamespaceName ELSE job
NamespaceMode ==
    IF job = None \/ GetUsage(Parse(entry[job].params)) = "AppDirect" THEN "fsdax" ELSE "sector"

\* A step of CreateNamespace fails: the driver does not start, or CreateDevice
\* goes on with the next region.
SetupFails ==
    /\ "setup" \in Faults
    /\ ResetSeed(region)
    /\ IF job = None THEN Exit ELSE GotoRegion("device", region + 1)

NameSeed ==
    /\ pc = "name"
    /\ \/ SetAltName(region, NamespaceName) /\ Goto("enable")
       \/ SetupFails
    /\ UNCHANGED <<lvs, label, entry, histVars>>

EnableSeed ==
    /\ pc = "enable"
    /\ \/ /\ Enable(region, NamespaceMode)
          /\ pc' = IF job = None THEN "wipefs" ELSE "clear"
          /\ todo' = IF job = None THEN ns' \ ns ELSE {}
          /\ UNCHANGED <<running, region, job, pmemVolumes>>
       \/ SetupFails
    /\ UNCHANGED <<lvs, label, entry, histVars>>

\* Mutant: the namespace is remembered as it was.
WipefsStale ==
    /\ pc = "wipefs"
    /\ SetData(todo, "clear") /\ Goto("setupVG")
    /\ UNCHANGED <<lvs, label, entry, histVars>>

wipefs ==
    /\ pc = "wipefs"
    /\ \/ /\ SetData(todo, "clear")
          /\ pc' = "setupVG" /\ todo' = {}
          /\ UNCHANGED <<running, region, job, pmemVolumes>>
       \/ "wipefs" \in Faults /\ Exit /\ UNCHANGED ns
    /\ UNCHANGED <<lvs, label, entry, histVars>>

\* Mutant: all active namespaces are used.
UnjoinedForeign(rs) == {n \in ns : n.region \in rs /\ n.state = "active" /\ n.data # "pv"}

\* The driver's own namespaces that are not in the volume group.
Unjoined(rs) ==
    {n \in ns : /\ n.region \in rs /\ n.state = "active" /\ n.data # "pv"
                /\ n.name = pmemCSINamespaceName}

\* setupVG: a namespace that was not wiped may look like a part of some group,
\* then it is ignored.
JoinVG(rs) ==
    \E ignored \in SUBSET {n \in Unjoined(rs) : n.data = "stale"} :
        SetData(Unjoined(rs) \ ignored, "pv")

setupVG ==
    /\ pc = "setupVG"
    /\ \/ /\ JoinVG({region})
          /\ IF region < NumRegions THEN GotoRegion("setupNS", region + 1) ELSE GotoRegion("restore", 0)
       \/ "vg" \in Faults /\ Unjoined({region}) # {} /\ Exit /\ UNCHANGED ns
    /\ UNCHANGED <<lvs, label, entry, histVars>>

\* pmdmanager.New for a volume of the given mode, with percentage 0.
NewDeviceManager(mode) == IF mode = "lvm" /\ running # "lvm" THEN JoinVG(Regions) ELSE UNCHANGED ns

\* Mutant: devices are looked for in one mode only.
HasLV(id, mode) == id \in lvs

HasDevice(id, mode) == IF mode = "lvm" THEN id \in lvs ELSE GetNamespaceByName(id) # {}

\* Mutant: volumes of the other mode are left alone.
RestoreOwnMode ==
    /\ pc = "restore"
    /\ pmemVolumes' = [id \in Ids |-> IF entry[id] # None /\ Mode(entry[id]) = running
                                        THEN entry[id] ELSE None]
    /\ pc' = "idle"
    /\ UNCHANGED <<ns, lvs, label, running, region, todo, job, entry, histVars>>

\* NewNodeControllerServer: volumes are restored from their state files if
\* there is a device, in the mode that the volume was created in.
restore ==
    LET readable == {id \in Ids : entry[id] # None /\ ParseOK("NodeVolumeOrigin", entry[id].params)}
        found == {id \in readable : HasDevice(id, Mode(entry[id]))}
    IN
    /\ pc = "restore"
    /\ NewDeviceManager(IF \E id \in readable : Mode(entry[id]) = "lvm" THEN "lvm" ELSE "direct")
    /\ pmemVolumes' = [id \in Ids |-> IF id \in found THEN entry[id] ELSE None]
    /\ entry' = [id \in Ids |-> IF id \in readable \ found THEN None ELSE entry[id]]
    /\ wanted' = [id \in Ids |-> IF id \in readable \ found THEN None ELSE wanted[id]]
    /\ pc' = "idle"
    /\ UNCHANGED <<lvs, label, running, region, todo, job, confirmed>>

-----------------------------------------------------------------------------
Serving == running \in {"lvm", "direct"} /\ pc = "idle"

\* CreateVolume, or NodePublishVolume for an ephemeral volume, up to the
\* creation of the device: the volume is stored.  Calls with parameters that
\* cannot be parsed and calls for known volumes change nothing.
CreateVolume(id, m, asked) ==
    /\ Serving
    /\ pmemVolumes[id] = None
    /\ ParseOK(Origin(m), m)
    /\ entry' = [entry EXCEPT ![id] = [params |-> StoredParams(id, m, running), size |-> asked]]
    /\ wanted' = [wanted EXCEPT ![id] = m]
    /\ job' = id /\ pc' = "device" /\ region' = 1
    /\ UNCHANGED <<ns, lvs, label, running, todo, pmemVolumes, confirmed>>

\* Mutant: without looking for the device first.
CreateDeviceAgain ==
    /\ pc = "device" /\ running = "direct"
    /\ \/ region > NumRegions /\ Goto("undo") /\ UNCHANGED ns
       \/ /\ region <= NumRegions
          /\ \/ SetSize(region, entry[job].size) /\ Goto("name")
             \/ /\ ~CanCreate(region, entry[job].size)
                /\ GotoRegion("device", region + 1)
                /\ UNCHANGED ns
    /\ UNCHANGED <<lvs, label, entry, histVars>>

\* CreateDevice in direct mode: the first region in which it works.
CreateDeviceDirect ==
    /\ pc = "device" /\ running = "direct"
    /\ \/ region = 1 /\ GetNamespaceByName(job) # {} /\ Goto("undo") /\ UNCHANGED ns
       \/ /\ region > 1 \/ GetNamespaceByName(job) = {}
          /\ \/ region > NumRegions /\ Goto("undo") /\ UNCHANGED ns
             \/ /\ region <= NumRegions
                /\ \/ SetSize(region, entry[job].size) /\ Goto("name")
                   \/ /\ ~CanCreate(region, entry[job].size)
                      /\ GotoRegion("device", region + 1)
                      /\ UNCHANGED ns
    /\ UNCHANGED <<lvs, label, entry, histVars>>

\* CreateDevice in LVM mode, see LvmDevices.
CreateDeviceLVM ==
    /\ pc = "device" /\ running = "lvm"
    /\ \/ /\ job \notin lvs /\ \E r \in Regions : HasVG(r)
          /\ lvs' = lvs \cup {job}
          /\ Goto("register")
       \/ Goto("undo") /\ UNCHANGED lvs
    /\ UNCHANGED <<ns, label, entry, histVars>>

\* The rest of CreateDevice in direct mode.
ClearDevice ==
    /\ pc = "clear"
    /\ \/ /\ \E n \in GetNamespaceByName(job) : n.state = "active" /\ SetData({n}, "clear")
          /\ Goto("register")
       \/ /\ "clear" \in Faults \/ \E n \in GetNamespaceByName(job) : n.state = "seed"
          /\ Goto("undo") /\ UNCHANGED ns
    /\ UNCHANGED <<lvs, label, entry, histVars>>

\* The actual size is stored, the volume becomes known and is confirmed.
Register ==
    LET actual == IF running = "lvm" THEN entry[job].size
                  ELSE RawSize(CHOOSE n \in ns : n.name = job /\ n.state = "active")
        vol == [entry[job] EXCEPT !.size = actual]
    IN
    /\ pc = "register"
    /\ entry' = [entry EXCEPT ![job] = vol]
    /\ pmemVolumes' = [pmemVolumes EXCEPT ![job] = vol]
    /\ confirmed' = [confirmed EXCEPT ![job] = entry[job].size]
    /\ pc' = "idle" /\ region' = 0 /\ job' = None
    /\ UNCHANGED <<ns, lvs, label, running, todo, wanted>>

UndoCreate ==
    /\ pc = "undo"
    /\ entry' = [entry EXCEPT ![job] = None]
    /\ wanted' = [wanted EXCEPT ![job] = None]
    /\ Idle
    /\ UNCHANGED <<ns, lvs, label, confirmed>>

\* A user stores data in a known volume.
Write(id) ==
    /\ Serving /\ pmemVolumes[id] # None
    /\ Mode(pmemVolumes[id]) = "direct"
    /\ \E n \in GetNamespaceByName(id) : n.state = "active" /\ SetData({n}, "user")
    /\ UNCHANGED <<lvs, label, procVars, entry, histVars>>

-----------------------------------------------------------------------------
\* DeleteVolume: the device manager of the volume is used.
DeleteVolume(id) ==
    /\ Serving
    /\ pmemVolumes[id] # None
    /\ NewDeviceManager(Mode(pmemVolumes[id]))
    /\ confirmed' = [confirmed EXCEPT ![id] = 0]
    /\ job' = id /\ pc' = "wipe"
    /\ UNCHANGED <<lvs, label, running, region, todo, pmemVolumes, entry, wanted>>

\* DeleteDevice: in LVM mode completely, in direct mode up to clearDevice,
\* which needs the block device of an enabled namespace.
Wipe ==
    LET device == GetNamespaceByName(job)
        flush == GetEraseAfter(Parse(pmemVolumes[job].params))
    IN
    /\ pc = "wipe"
    /\ \/ /\ Mode(pmemVolumes[job]) = "lvm"
          /\ lvs' = lvs \ {job}
          /\ Goto("forget")
          /\ UNCHANGED ns
       \/ /\ Mode(pmemVolumes[job]) = "direct"
          /\ \/ /\ \A n \in device : n.state = "active"
                /\ SetData(device, IF flush THEN "clear" ELSE "stale")
                /\ Goto(IF device = {} THEN "forget" ELSE "destroy")
             \/ (\E n \in device : n.state # "active") /\ Idle /\ UNCHANGED ns
          /\ UNCHANGED lvs
       \/ "busy" \in Faults /\ Idle /\ UNCHANGED <<ns, lvs>>
    /\ UNCHANGED <<label, entry, histVars>>

\* DestroyNamespaceByName.  When SetEnforceMode fails, it returns nil.
Destroy ==
    /\ pc = "destroy"
    /\ \/ DestroyNamespace(job) /\ Goto("forget")
       \/ /\ "destroy" \in Faults
          /\ \/ Idle /\ (UNCHANGED ns \/ DisableNamespace(job))
             \/ Goto("forget") /\ DisableNamespace(job)
    /\ UNCHANGED <<lvs, label, entry, histVars>>

Forget ==
    /\ pc = "forget"
    /\ entry' = [entry EXCEPT ![job] = None]
    /\ pmemVolumes' = [pmemVolumes EXCEPT ![job] = None]
    /\ wanted' = [wanted EXCEPT ![job] = None]
    /\ pc' = "idle" /\ region' = 0 /\ job' = None
    /\ UNCHANGED <<ns, lvs, label, running, todo, confirmed>>

-----------------------------------------------------------------------------
Next ==
    \/ StartSetup \/ ConvertRegion \/ Convert \/ havePMEM \/ relabel
    \/ \E mode \in {"lvm", "direct"} : StartDriver(mode)
    \/ setupNS \/ NameSeed \/ EnableSeed \/ wipefs \/ setupVG \/ restore
    \/ \E id \in Ids : \/ \E m \in Maps : \E asked \in AskedSizes(m) : CreateVolume(id, m, asked)
                       \/ Write(id) \/ DeleteVolume(id)
    \/ CreateDeviceDirect \/ CreateDeviceLVM \/ ClearDevice \/ Register \/ UndoCreate
    \/ Wipe \/ Destroy \/ Forget
    \/ Killed

Spec == Init /\ [][Next]_vars

-----------------------------------------------------------------------------
\* Every namespace with the name of a volume has a state file, unless it is the
\* left-over of a CreateVolume that was killed or could not clear the device,
\* or of a DestroyNamespace that returned nil after only disabling it: what a
\* user can use is never forgotten while it takes up space.
SpaceAccounted ==
    \A n \in ns : n.name \in Ids /\ n.state = "active" /\ n.data # "stale" => entry[n.name] # None

\* "Overall, no point having more than one namespace with same name"
\* (pmd-ndctl.go:161-165): a CreateVolume that is repeated after failures and
\* kills never fills the regions with enabled namespaces of the same name, also
\* if a seed stays behind in one region and the next region is used.
OneNamespacePerVolume ==
    \A m, n \in ns : m.name = n.name /\ m.name \in Ids => m = n \/ "seed" \in {m.state, n.state}

\* A confirmed volume has its device, of the mode and at least the size that
\* was asked for, until DeleteVolume is called: preparing regions for LVM,
\* other volumes, kills and starting the driver in the other mode leave it alone.
\* The size in its state file is the usable one, which for a namespace in sector
\* mode may be less than what was asked for.
ConfirmedKept ==
    \A id \in Ids : confirmed[id] > 0 =>
        /\ entry[id] # None
        /\ running = "none" \/ pc \in SetupSteps \/ pmemVolumes[id] = entry[id]
        /\ IF Mode(entry[id]) = "lvm"
             THEN id \in lvs
             ELSE \E n \in ns :
                    /\ n.name = id /\ n.state = "active" /\ n.size >= confirmed[id]
                    /\ n.mode = "sector" <=> GetUsage(Parse(wanted[id])) = "FileIO"
                    /\ entry[id].size = RawSize(n)

\* "This should never happen because PMEM-CSI itself created these parameters"
\* (controllerserver-node.go:338): stored parameters can be parsed again.
StoredParamsParse ==
    \A id \in Ids : entry[id] # None => ParseOK("NodeVolumeOrigin", entry[id].params)

\* A namespace with user data goes away only when its own volume is deleted, or
\* because somebody forces the conversion of raw namespaces, which also takes
\* the fsdax namespaces of writable regions; it never becomes part of a volume
\* group of the driver in any other way.
DataKept ==
    [][\A n \in ns : n.data = "user" =>
          \/ n \in ns'
          \/ pc \in DeleteSteps /\ job = n.name
          \/ pc = "convert" /\ n.mode \in {"raw", "fsdax"} /\ n.region \notin ReadOnly]_vars

\* "eraseafter": the data of a volume is erased before its PMEM is given back,
\* if and only if the user did not ask to keep it.  The setting survives being
\* stored and read back, also by a driver in the other mode.
EraseHonoured ==
    [][\A n \in ns \ ns' :
          pc = "destroy" /\ n.name = job =>
              (n.data = "clear" <=> Setting(wanted[job], EraseAfter, LAMBDA t : t) \cap FalseTexts = {})]_vars

\* setupNS never takes more than pmemPercentage of a region, rounded up to the
\* alignment, no matter how often and where the driver is killed and restarted.
PercentageKept ==
    \A r \in Regions :
        TotalSize({n \in AllNamespaces(r) : n.name = pmemCSINamespaceName /\ n.state # "seed"})
            <= AlignUp((Percentage * RegionSize[r]) \div 100)

\* If no command fails, start-up in LVM mode fails only if the free space of a
\* region is no multiple of the alignment (or the region is read-only):
\* setupNS takes all of it and CreateNamespace rounds up.
SetupFits ==
    pc = "setupNS" /\ SetupSize(region) > 0 /\ ~CanCreate(region, SetupSize(region))
        => region \in ReadOnly \/ MaxAvailableExtent(region) % align # 0

\* GetCapacity of direct mode.
MaxVolumeSize == Max({AlignDown(MaxAvailableExtent(r)) : r \in Regions})

\* "MaxVolumeSize is the size of the largest volume that currently can be
\* created, considering alignment and fragmentation" (pmd-manager.go:34-36):
\* a volume of that size can be created, a larger one cannot.  Only the space
\* in read-only regions is counted although it cannot be used.
DirectCapacityHonest ==
    LET max == MaxVolumeSize IN
    \A size \in {max, max + 1} \ {0} :
        size <= max <=>
            \E r \in Regions : CanCreate(r, size) \/ (r \in ReadOnly /\ AlignUp(size) <= MaxAvailableExtent(r))

=============================================================================
