--------------------------- MODULE NodeController ---------------------------
(***************************************************************************)
(* The node's CSI controller, pkg/pmem-csi-driver/controllerserver-node.go,*)
(* on top of the LVM device manager (LvmDevices) and the persistent volume *)
(* state (StateStore): concurrent CreateVolume and DeleteVolume calls,     *)
(* failures of the calls they make, process crashes, power loss, restart.  *)
(*                                                                         *)
(* One action is one step between two points where another goroutine or a  *)
(* crash can be observed.  nodeVolumeMutex is a hashed key mutex; here     *)
(* every key has a mutex of its own, which allows more interleavings.      *)
(***************************************************************************)
EXTENDS StateStore, LvmDevices

CONSTANTS
    Names,      \* volume names, chosen by the caller of CreateVolume
    volumeID,   \* volumeID[name]: the result of generateVolumeID
    Sizes,      \* sizes that are asked for
    Workers,    \* gRPC handlers that can run concurrently
    Faults      \* what can fail: subset of FaultKinds

FaultKinds ==
    {"store",    \* writing or removing a state file
     "vgs",      \* listing the volume groups
     "lvcreate", \* lvcreate, in any of the VGs
     "clear",    \* after lvcreate: finding, waiting for or clearing the LV
     "busy",     \* clearing the device in DeleteDevice, it may be in use
     "lvremove", \* lvremove
     "load"}     \* reading state files at start-up

Volumes == [name : Names, size : Nat]    \* type nodeVolume

Requests == [op : {"create"}, name : Names, asked : Sizes]
            \cup [op : {"delete"}, name : Names, asked : {0}]

Statuses == {"OK", "AlreadyExists", "ResourceExhausted", "FailedPrecondition", "Internal"}

ASSUME NodeControllerAssumption ==
    /\ volumeID \in [Names -> Ids]
    /\ Sizes \subseteq Nat \ {0}
    /\ Faults \subseteq FaultKinds
    /\ None \notin Volumes \cup Requests \cup Statuses
    /\ None \notin [op : {"create", "delete"}, id : Ids]

CreateSteps == {"smCreate", "lvcreate", "clear", "smUpdate", "register", "undo"}
DeleteSteps == {"wipe", "lvremove", "smDelete", "unregister"}

VARIABLES
    up,             \* the driver process runs
    cleanupList,    \* IDs whose state entries remain to be removed at start-up
    pmemVolumes,    \* the map of known volumes; None: not in the map
    pc,             \* per worker: next step, or "idle"
    req,            \* per worker: the request it handles, None if idle
    size,           \* per worker: vol.Size
    lv,             \* per worker: VG of the LV that it creates
    status,         \* per worker: gRPC status of the last call, None before
    promised        \* history: promised[id] is the largest size that CreateVolume
                    \* confirmed and DeleteVolume was not called for since

procVars == <<up, cleanupList, pmemVolumes>>
workVars == <<pc, req, size, lv, status>>
vars == <<storeVars, lvmVars, procVars, workVars, promised>>

Id(w) == volumeID[req[w].name]
Vol(w) == [name |-> req[w].name, size |-> size[w]]
Serving == up /\ cleanupList = {}

StoreTypeOK ==
    /\ entry \in [Ids -> Volumes \cup {None}]
    /\ blocked \subseteq Ids
    /\ unsynced \in [Ids -> SUBSET (Volumes \cup {None})]

ProcTypeOK ==
    /\ up \in BOOLEAN
    /\ cleanupList \subseteq Ids
    /\ pmemVolumes \in [Ids -> Volumes \cup {None}]
    /\ promised \in [Ids -> Sizes \cup {0}]

WorkTypeOK ==
    /\ pc \in [Workers -> {"idle", "lock", "lookup"} \cup CreateSteps \cup DeleteSteps]
    /\ req \in [Workers -> Requests \cup {None}]
    /\ size \in [Workers -> Nat]
    /\ lv \in [Workers -> 0 .. NumVGs]
    /\ status \in [Workers -> Statuses \cup {None}]
    /\ \A w \in Workers : /\ req[w] = None <=> pc[w] = "idle"
                          /\ pc[w] = "clear" => lv[w] # 0

\* The types of all variables.
TypeOK == StoreTypeOK /\ LvmTypeOK /\ ProcTypeOK /\ WorkTypeOK

Init ==
    /\ entry = [id \in Ids |-> None] /\ blocked = {} /\ unsynced = [id \in Ids |-> {}]
    /\ LvmInit
    /\ up = TRUE
    /\ cleanupList = {}
    /\ pmemVolumes = [id \in Ids |-> None]
    /\ pc = [w \in Workers |-> "idle"]
    /\ req = [w \in Workers |-> None]
    /\ size = [w \in Workers |-> 0]
    /\ lv = [w \in Workers |-> 0]
    /\ status = [w \in Workers |-> None]
    /\ promised = [id \in Ids |-> 0]

Goto(w, step) == pc' = [pc EXCEPT ![w] = step]

\* The handler returns and nodeVolumeMutex is unlocked.
Return(w, s) ==
    /\ pc' = [pc EXCEPT ![w] = "idle"]
    /\ status' = [status EXCEPT ![w] = s]
    /\ req' = [req EXCEPT ![w] = None]
    /\ size' = [size EXCEPT ![w] = 0]
    /\ lv' = [lv EXCEPT ![w] = 0]

Deleting(id) == \E v \in Workers : pc[v] # "idle" /\ req[v].op = "delete" /\ Id(v) = id

\* CreateVolume succeeds.
ReturnVolume(w) ==
    /\ Return(w, "OK")
    /\ promised' = IF Deleting(Id(w)) \/ promised[Id(w)] >= req[w].asked
                     THEN promised
                     ELSE [promised EXCEPT ![Id(w)] = req[w].asked]
-----------------------------------------------------------------------------
\* A CreateVolume or DeleteVolume request arrives.
Call(w, r) ==
    /\ Serving
    /\ pc[w] = "idle"
    /\ Goto(w, "lock")
    /\ req' = [req EXCEPT ![w] = r]
    /\ size' = [size EXCEPT ![w] = r.asked]
    /\ status' = [status EXCEPT ![w] = None]
    /\ promised' = IF r.op = "delete" THEN [promised EXCEPT ![volumeID[r.name]] = 0] ELSE promised
    /\ UNCHANGED <<storeVars, lvmVars, procVars, lv>>

\* CreateVolume locks the volume name, DeleteVolume the volume ID.
Key(w) == IF req[w].op = "create" THEN <<"name", req[w].name>> ELSE <<"id", Id(w)>>

LockKey(w) ==
    /\ pc[w] = "lock"
    /\ \A v \in Workers : pc[v] \notin {"idle", "lock"} => Key(v) # Key(w)
    /\ Goto(w, "lookup")
    /\ UNCHANGED <<storeVars, lvmVars, procVars, req, size, lv, status, promised>>

\* Mutant: lvmMutex is taken a second time by the function that holds it.
LvmMutexTwice == \A v \in Workers : pc[v] \notin {"lvcreate", "clear", "wipe", "lvremove"}

\* lvmMutex is held from the check of the cache to the end of CreateDevice or
\* DeleteDevice.
LvmMutexFree == \A v \in Workers : pc[v] \notin {"clear", "lvremove"}

-----------------------------------------------------------------------------
getVolumeByName(name) == {id \in Ids : pmemVolumes[id] # None /\ pmemVolumes[id].name = name}

\* Mutant: an existing volume is returned without comparing the size.
CreateLookupAnySize(w) ==
    /\ pc[w] = "lookup" /\ req[w].op = "create"
    /\ \/ pmemVolumes[Id(w)] # None /\ ReturnVolume(w)
       \/ /\ pmemVolumes[Id(w)] = None
          /\ Goto(w, "smCreate")
          /\ UNCHANGED <<req, size, lv, status, promised>>
    /\ UNCHANGED <<storeVars, lvmVars, procVars>>

\* Mutant: volume IDs are not checked for collisions.
CreateLookupNoCollision(w) ==
    LET known == getVolumeByName(req[w].name) IN
    /\ pc[w] = "lookup" /\ req[w].op = "create"
    /\ \/ known # {} /\ ReturnVolume(w)
       \/ known = {} /\ Goto(w, "smCreate") /\ UNCHANGED <<req, size, lv, status, promised>>
    /\ UNCHANGED <<storeVars, lvmVars, procVars>>

\* createVolumeInternal: getVolumeByName, then getVolumeByID.
CreateLookup(w) ==
    LET known == getVolumeByName(req[w].name) IN
    /\ pc[w] = "lookup" /\ req[w].op = "create"
    /\ \/ \E id \in known :
             \/ /\ pmemVolumes[id].size < req[w].asked
                /\ Return(w, "AlreadyExists")
                /\ UNCHANGED promised
             \/ /\ pmemVolumes[id].size >= req[w].asked
                /\ ReturnVolume(w)
       \/ /\ known = {} /\ pmemVolumes[Id(w)] # None     \* hash collision
          /\ Return(w, "Internal")
          /\ UNCHANGED promised
       \/ /\ known = {} /\ pmemVolumes[Id(w)] = None
          /\ Goto(w, "smCreate")
          /\ UNCHANGED <<req, size, lv, status, promised>>
    /\ UNCHANGED <<storeVars, lvmVars, procVars>>

StoreCreateFails(w) ==
    /\ "store" \in Faults \/ Id(w) \in blocked
    /\ SMCreateFails(Id(w), Vol(w))

\* Mutant: the volume is persisted only after the device was created.
SmCreateLater(w) ==
    /\ pc[w] = "smCreate"
    /\ Goto(w, "lvcreate")
    /\ UNCHANGED <<storeVars, lvmVars, procVars, req, size, lv, status, promised>>

\* The new volume is persisted before the device is created.
SmCreate(w) ==
    /\ pc[w] = "smCreate"
    /\ \/ /\ SMCreate(Id(w), Vol(w))
          /\ Goto(w, "lvcreate")
          /\ UNCHANGED <<req, size, lv, status>>
       \/ StoreCreateFails(w) /\ Return(w, "Internal")
    /\ UNCHANGED <<lvmVars, procVars, promised>>

Undo(w, s) ==
    /\ Goto(w, "undo")
    /\ status' = [status EXCEPT ![w] = s]
    /\ UNCHANGED <<lvmVars, size, lv>>

\* Mutant: a failure to list volume groups, or to find one, is not reported.
CreateLVNoError(w) ==
    LET eligible == Eligible(Id(w), size[w]) IN
    /\ pc[w] = "lvcreate"
    /\ LvmMutexFree
    /\ \/ \E vg \in eligible : LvCreate(Id(w), vg, size[w]) /\ lv' = [lv EXCEPT ![w] = vg]
       \/ ("vgs" \in Faults \/ eligible = {}) /\ UNCHANGED <<lvmVars, lv>>
    /\ Goto(w, "clear")
    /\ UNCHANGED <<storeVars, procVars, req, size, status, promised>>

\* CreateDevice up to and including lvcreate: the first VG with enough space
\* in which lvcreate succeeds.
CreateLV(w) ==
    LET eligible == Eligible(Id(w), size[w]) IN
    /\ pc[w] = "lvcreate"
    /\ LvmMutexFree
    /\ \/ devices[Id(w)] # 0 /\ Undo(w, "Internal")      \* DeviceExists
       \/ devices[Id(w)] = 0 /\ "vgs" \in Faults /\ Undo(w, "Internal")
       \/ /\ devices[Id(w)] = 0
          /\ \E vg \in eligible :
                /\ "lvcreate" \in Faults \/ \A v \in eligible : vg <= v
                /\ LvCreate(Id(w), vg, size[w])
                /\ lv' = [lv EXCEPT ![w] = vg]
          /\ Goto(w, "clear")
          /\ UNCHANGED <<size, status>>
       \/ /\ devices[Id(w)] = 0                           \* NotEnoughSpace
          /\ "lvcreate" \in Faults \/ eligible = {}
          /\ Undo(w, "ResourceExhausted")
    /\ UNCHANGED <<storeVars, procVars, req, promised>>

\* Mutant: the reported size is larger than the LV.
ClearLVAddsUnit(w) ==
    /\ pc[w] = "clear"
    /\ LvReady(Id(w), lv[w])
    /\ size' = [size EXCEPT ![w] = lvs[Id(w)][lv[w]] + lvmAlign]
    /\ Goto(w, "smUpdate")
    /\ UNCHANGED <<storeVars, procVars, req, lv, status, promised>>

\* The rest of CreateDevice, and the comparison with the actual size.
ClearLV(w) ==
    LET actual == lvs[Id(w)][lv[w]] IN
    /\ pc[w] = "clear"
    /\ \/ /\ LvReady(Id(w), lv[w])
          /\ size' = [size EXCEPT ![w] = actual]
          /\ Goto(w, IF size[w] # actual THEN "smUpdate" ELSE "register")
          /\ UNCHANGED <<lv, status>>
       \/ "clear" \in Faults /\ Undo(w, "Internal")
    /\ UNCHANGED <<storeVars, procVars, req, promised>>

\* The actual size is persisted; a failure is only logged.
SmUpdate(w) ==
    /\ pc[w] = "smUpdate"
    /\ SMCreate(Id(w), Vol(w)) \/ StoreCreateFails(w)
    /\ Goto(w, "register")
    /\ UNCHANGED <<lvmVars, procVars, req, size, lv, status, promised>>

Register(w) ==
    /\ pc[w] = "register"
    /\ pmemVolumes' = [pmemVolumes EXCEPT ![Id(w)] = Vol(w)]
    /\ ReturnVolume(w)
    /\ UNCHANGED <<storeVars, lvmVars, up, cleanupList>>

StoreDelete(id) ==
    \/ SMDelete(id)
    \/ ("store" \in Faults \/ entry[id] = None) /\ SMDeleteFails(id)

\* The deferred removal of the state entry after a failed CreateDevice.
UndoCreate(w) ==
    /\ pc[w] = "undo"
    /\ StoreDelete(Id(w))
    /\ Return(w, status[w])
    /\ UNCHANGED <<lvmVars, procVars, promised>>

-----------------------------------------------------------------------------
\* Mutant: the volume is removed from the map before its device is deleted.
DeleteLookupUnregisters(w) ==
    /\ pc[w] = "lookup" /\ req[w].op = "delete"
    /\ \/ pmemVolumes[Id(w)] = None /\ Return(w, "OK")
       \/ pmemVolumes[Id(w)] # None /\ Goto(w, "wipe") /\ UNCHANGED <<req, size, lv, status>>
    /\ pmemVolumes' = [pmemVolumes EXCEPT ![Id(w)] = None]
    /\ UNCHANGED <<storeVars, lvmVars, up, cleanupList, promised>>

\* DeleteVolume
DeleteLookup(w) ==
    /\ pc[w] = "lookup" /\ req[w].op = "delete"
    /\ \/ pmemVolumes[Id(w)] = None /\ Return(w, "OK")
       \/ pmemVolumes[Id(w)] # None /\ Goto(w, "wipe") /\ UNCHANGED <<req, size, lv, status>>
    /\ UNCHANGED <<storeVars, lvmVars, procVars, promised>>

\* Mutant: a device that is in use counts as deleted.
WipeIgnoresBusy(w) ==
    /\ pc[w] = "wipe"
    /\ LvmMutexFree
    /\ \/ LvClear(Id(w)) /\ Goto(w, "lvremove") /\ UNCHANGED <<req, size, lv, status>>
       \/ "busy" \in Faults /\ Return(w, "OK") /\ UNCHANGED lvmVars
    /\ UNCHANGED <<storeVars, procVars, promised>>

\* DeleteDevice up to clearDevice; a device that is not in the cache is
\* considered deleted.
Wipe(w) ==
    /\ pc[w] = "wipe"
    /\ LvmMutexFree
    /\ \/ /\ devices[Id(w)] = 0
          /\ Goto(w, "smDelete")
          /\ UNCHANGED <<lvmVars, req, size, lv, status>>
       \/ /\ devices[Id(w)] # 0
          /\ LvClear(Id(w))
          /\ Goto(w, "lvremove")
          /\ UNCHANGED <<req, size, lv, status>>
       \/ /\ devices[Id(w)] # 0 /\ "busy" \in Faults
          /\ \E s \in {"FailedPrecondition", "Internal"} : Return(w, s)
          /\ UNCHANGED lvmVars
    /\ UNCHANGED <<storeVars, procVars, promised>>

\* Mutant: the device leaves the cache although lvremove failed.
RemoveLVDropsCache(w) ==
    /\ pc[w] = "lvremove"
    /\ \/ LvRemove(Id(w)) /\ Goto(w, "smDelete") /\ UNCHANGED <<req, size, lv, status>>
       \/ /\ "lvremove" \in Faults /\ Return(w, "Internal")
          /\ devices' = [devices EXCEPT ![Id(w)] = 0]
          /\ UNCHANGED <<lvs, uncleared>>
    /\ UNCHANGED <<storeVars, procVars, promised>>

RemoveLV(w) ==
    /\ pc[w] = "lvremove"
    /\ \/ LvRemove(Id(w)) /\ Goto(w, "smDelete") /\ UNCHANGED <<req, size, lv, status>>
       \/ "lvremove" \in Faults /\ Return(w, "Internal") /\ UNCHANGED lvmVars
    /\ UNCHANGED <<storeVars, procVars, promised>>

\* A failure to remove the state entry is only logged.
SmDelete(w) ==
    /\ pc[w] = "smDelete"
    /\ StoreDelete(Id(w))
    /\ Goto(w, "unregister")
    /\ UNCHANGED <<lvmVars, procVars, req, size, lv, status, promised>>

Unregister(w) ==
    /\ pc[w] = "unregister"
    /\ pmemVolumes' = [pmemVolumes EXCEPT ![Id(w)] = None]
    /\ Return(w, "OK")
    /\ UNCHANGED <<storeVars, lvmVars, up, cleanupList, promised>>

-----------------------------------------------------------------------------
\* The driver process dies.  At most one worker is inside the store, because
\* of its lock; its operation may have had any part of its effect.
Crash ==
    /\ up
    /\ \/ UNCHANGED storeVars
       \/ \E w \in Workers :
             \/ pc[w] \in {"smCreate", "smUpdate"}
                /\ (SMCreate(Id(w), Vol(w)) \/ SMCreateFails(Id(w), Vol(w)))
             \/ pc[w] \in {"undo", "smDelete"}
                /\ (SMDelete(Id(w)) \/ SMDeleteFails(Id(w)))
       \/ \E id \in cleanupList : SMDelete(id) \/ SMDeleteFails(id)
    /\ up' = FALSE
    /\ cleanupList' = {}
    /\ pmemVolumes' = [id \in Ids |-> None]
    /\ devices' = [id \in Ids |-> 0]
    /\ pc' = [w \in Workers |-> "idle"]
    /\ req' = [w \in Workers |-> None]
    /\ size' = [w \in Workers |-> 0]
    /\ lv' = [w \in Workers |-> 0]
    /\ status' = [w \in Workers |-> IF pc[w] = "idle" THEN status[w] ELSE None]
    /\ UNCHANGED <<lvs, uncleared, promised>>

PowerLoss ==
    /\ ~up
    /\ SMPowerLoss
    /\ UNCHANGED <<lvmVars, procVars, workVars, promised>>

\* Mutant: entries without a device are kept.
RestartNoCleanup ==
    /\ ~up
    /\ up' = TRUE
    /\ LvLoad
    /\ pmemVolumes' = [id \in Ids |-> IF ListedDevice(id) # 0 THEN entry[id] ELSE None]
    /\ UNCHANGED <<storeVars, cleanupList, workVars, promised>>

\* NewNodeControllerServer, after the device manager has filled its cache:
\* volumes are restored from their state entries if they have a device.
Restart ==
    /\ ~up
    /\ up' = TRUE
    /\ LvLoad
    /\ \E ignored \in SUBSET Ids :
          /\ "load" \in Faults \/ ignored = {}
          /\ pmemVolumes' = [id \in Ids |->
                IF id \notin ignored /\ ListedDevice(id) # 0 THEN entry[id] ELSE None]
          /\ cleanupList' = {id \in Ids \ ignored : entry[id] # None /\ ListedDevice(id) = 0}
    /\ UNCHANGED <<storeVars, workVars, promised>>

\* State entries without a device are removed.
Cleanup(id) ==
    /\ up /\ id \in cleanupList
    /\ StoreDelete(id)
    /\ cleanupList' = cleanupList \ {id}
    /\ UNCHANGED <<lvmVars, up, pmemVolumes, workVars, promised>>

-----------------------------------------------------------------------------
Step(w) ==
    \/ CreateLookup(w) \/ SmCreate(w) \/ CreateLV(w) \/ ClearLV(w)
    \/ SmUpdate(w) \/ Register(w) \/ UndoCreate(w)
    \/ DeleteLookup(w) \/ Wipe(w) \/ RemoveLV(w) \/ SmDelete(w) \/ Unregister(w)

Next ==
    \/ \E w \in Workers : LockKey(w) \/ Step(w) \/ \E r \in Requests : Call(w, r)
    \/ Crash \/ PowerLoss \/ Restart
    \/ \E id \in Ids : Cleanup(id)

Spec == Init /\ [][Next]_vars

\* Handlers keep running.  Go's mutexes hand over to the longest waiter, so a
\* goroutine that waits for one gets it; the process is restarted after a
\* crash; a store that is asked again and again eventually removes an entry.
Fairness ==
    /\ \A w \in Workers :
          /\ WF_vars(Step(w))
          /\ SF_vars(LockKey(w)) /\ SF_vars(CreateLV(w)) /\ SF_vars(Wipe(w))
    /\ WF_vars(Restart)
    /\ \A id \in Ids : WF_vars(Cleanup(id)) /\ SF_vars(Cleanup(id) /\ entry'[id] = None)

FairSpec == Spec /\ Fairness

-----------------------------------------------------------------------------
\* CreateVolume locks names and DeleteVolume locks IDs, so the mutex does not
\* keep a create and a delete of the same volume apart.  Still no two handlers
\* are past their lookup for the same volume: the map entry is added as the
\* last step of a create and removed as the last step of a delete.
Exclusive ==
    \A v, w \in Workers :
        /\ v # w
        /\ pc[v] \in CreateSteps \cup DeleteSteps
        /\ pc[w] \in CreateSteps \cup DeleteSteps
        => Id(v) # Id(w)

\* "Persist new volume state *before* actually creating the volume. Writing
\* this state after creating the volume has the risk that we leak the volume"
\* (controllerserver-node.go:263-265): whatever crashes or fails, every LV has
\* a state entry, and a power loss cannot take that entry away.
NoLeak ==
    \A id \in Ids, vg \in VGs :
        lvs[id][vg] > 0 => entry[id] # None /\ None \notin unsynced[id]

\* A volume that the driver knows, and that is not being deleted, has a state
\* entry, a device in the cache, and a logical volume behind that.
RegisteredBacked ==
    \A id \in Ids :
        pmemVolumes[id] # None
            => \/ \E w \in Workers : pc[w] \in DeleteSteps /\ Id(w) = id
               \/ /\ entry[id] # None
                  /\ devices[id] # 0
                  /\ lvs[id][devices[id]] > 0

\* A confirmed volume stays until DeleteVolume is called for it: on disk at all
\* times, with a state entry and with an LV of at least the confirmed size, and
\* known to the driver while that runs.  Neither the entry nor the driver ever
\* claims more than the LV has.
PromiseKept ==
    \A id \in Ids :
        promised[id] > 0
            => LET actual == lvs[id][ListedDevice(id)] IN
               /\ ListedDevice(id) # 0 /\ actual >= promised[id]
               /\ entry[id] # None /\ actual >= entry[id].size
               /\ up => /\ pmemVolumes[id] # None /\ actual >= pmemVolumes[id].size
                        /\ devices[id] = ListedDevice(id)

\* "MaxVolumeSize is the size of the largest volume that currently can be
\* created, considering alignment and fragmentation." (pmd-manager.go:33-46):
\* exactly the sizes up to MaxVolumeSize find a volume group.
CapacityHonest ==
    \A s \in 1 .. MaxVolumeSize + lvmAlign :
        s <= MaxVolumeSize <=> \E vg \in VGs : VGFree(vg) >= Align(s)

\* "clear start of device to avoid old data being recognized as file system"
\* (pmd-lvm.go:177): the device of every known volume has been cleared.
RegisteredCleared ==
    \A id \in Ids : pmemVolumes[id] # None => <<id, devices[id]>> \notin uncleared

\* Every call is answered, or cut off by a crash: nodeVolumeMutex and lvmMutex
\* are released on every path and never taken in a cycle.
CallsReturn == \A w \in Workers : pc[w] = "lock" ~> pc[w] = "idle"

\* "This is allowed to fail because orphaned entries will be detected
\* eventually" (controllerserver-node.go:271-272): if the driver keeps being
\* restarted, no state entry stays forever without a device and without a
\* create in progress.
Orphan(id) ==
    /\ entry[id] # None
    /\ ListedDevice(id) = 0
    /\ \A w \in Workers : pc[w] = "idle" \/ Id(w) # id

OrphansDetected ==
    []<>(~up) => \A id \in Ids : Orphan(id) ~> ~Orphan(id)

\* The volumes that exist: those the driver knows, or would know after a restart.
Recoverable == {id \in Ids : entry[id] # None /\ ListedDevice(id) # 0}

Existing == IF up THEN {id \in Ids : pmemVolumes[id] # None} ELSE Recoverable

\* What the callers see of a handler: its call, or the answer to the last one.
Handled == [w \in Workers |-> IF pc[w] = "idle" THEN None ELSE [op |-> req[w].op, id |-> Id(w)]]

Replied == [w \in Workers |-> IF pc[w] # "idle" \/ status[w] = None THEN None
                              ELSE IF status[w] = "OK" THEN "OK" ELSE "error"]

Service == INSTANCE VolumeService WITH volumes <- Existing, call <- Handled, reply <- Replied

\* CreateVolume and DeleteVolume are atomic for their callers, also when they
\* fail or run concurrently, and when the driver or the node goes down.
ImplementsService == Service!ServiceSpec

=============================================================================
