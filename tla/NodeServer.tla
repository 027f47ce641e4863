----------------------------- MODULE NodeServer -----------------------------
(***************************************************************************)
(* The CSI node service, pkg/pmem-csi-driver/nodeserver.go, with the image *)
(* files and loop devices of Kata Containers, for one volume: stage,       *)
(* publish, unpublish and unstage, called by the kubelet, while commands   *)
(* fail, calls time out, the driver is killed and the node reboots.        *)
(*                                                                         *)
(* Handlers share only volumeMutex, and hold it for their own volume, so   *)
(* volumes do not interact here.  The volume itself comes and goes as      *)
(* NodeController describes it: "volume" says that it is known and has a   *)
(* device.  A killed driver is restarted at once.                          *)
(***************************************************************************)
EXTENDS Naturals

CONSTANTS
    Kinds,      \* the volumes: records of VolumeKinds
    Targets,    \* target paths, one for each pod that uses the volume
    Workers,    \* gRPC handlers that can run concurrently
    MaxFaults,  \* how many commands fail, calls time out or crashes happen
    None

VolumeKinds == [eph : BOOLEAN, kata : BOOLEAN, block : BOOLEAN, xfs : BOOLEAN]

Requests == [op : {"stage", "unstage"}, t : {None}]
            \cup [op : {"publish", "unpublish"}, t : Targets]

Statuses == {"OK", "NotFound", "AlreadyExists", "InvalidArgument", "Internal"}

\* Inline ephemeral volumes have no volume mode in Kubernetes.  The capability
\* of a volume is either block, or a mount with a filesystem type.
ASSUME NodeServerAssumption ==
    /\ Kinds \subseteq {k \in VolumeKinds : ~(k.block /\ (k.eph \/ k.xfs))}
    /\ MaxFaults \in Nat
    /\ None \notin Targets \cup Requests \cup Statuses

VARIABLES
    kind,       \* which volume this is
    \* on disk
    volume,     \* the volume exists
    fs,         \* its filesystem: "none", "partial" after an interrupted mkfs, "made"
    configured, \* xfs.ConfigureFS was done for the filesystem
    wiped,      \* DeleteVolume has cleared the device and not removed it yet
    image,      \* the image file in the filesystem: "none", "partial", "complete"
    \* in the kernel
    loop,       \* loop device of the image file; "autoclear": detached while mounted
    staging,    \* the filesystem is mounted at the staging path
    host,       \* what is mounted in the driver's own mount directory
    target,     \* target[t]: what is mounted at the target path
    \* handlers
    pc, req, status,
    waited,     \* waited[w]: the kubelet still waits for the answer
    faults,
    \* the kubelet
    staged,     \* "no", "maybe", "yes"
    published,  \* per target path: "no", "publishing", "yes", "unpublishing"
    stopping,   \* no pod needs the volume any more
    late        \* history: a call timed out while its handler was running

diskVars == <<volume, fs, configured, wiped, image>>
kernelVars == <<loop, staging, host, target>>
kubeletVars == <<staged, published, stopping, late>>
workVars == <<pc, req, status, waited>>
vars == <<kind, diskVars, kernelVars, workVars, faults, kubeletVars>>

StageSteps == {"detect", "mkfs", "mountStaging", "configure"}
PublishSteps == {"check", "mountHost", "mountTarget", "image", "imageCreate", "attach", "mountImage"}
UnpublishSteps == {"unmountTarget", "detach", "unmountHost", "rmTarget", "deleteVolume"}

\* The types of all variables.
TypeOK ==
    /\ kind \in Kinds
    /\ volume \in BOOLEAN /\ wiped \in BOOLEAN /\ configured \in BOOLEAN /\ staging \in BOOLEAN
    /\ fs \in {"none", "partial", "made"}
    /\ image \in {"none", "partial", "complete"}
    /\ loop \in {"none", "attached", "autoclear"}
    /\ host \in {"nothing", "fs", "dir"}
    /\ target \in [Targets -> {"nothing", "fs", "dir", "raw", "image"}]
    /\ pc \in [Workers -> {"idle", "start", "lookup", "unmountStaging"}
                          \cup StageSteps \cup PublishSteps \cup UnpublishSteps]
    /\ req \in [Workers -> Requests \cup {None}]
    /\ \A w \in Workers : req[w] = None <=> pc[w] = "idle"
    /\ status \in [Workers -> Statuses \cup {None}]
    /\ waited \in [Workers -> BOOLEAN]
    /\ faults \in 0 .. MaxFaults
    /\ staged \in {"no", "maybe", "yes"}
    /\ published \in [Targets -> {"no", "publishing", "yes", "unpublishing"}]
    /\ stopping \in BOOLEAN /\ late \in BOOLEAN

\* A persistent volume was created before; an ephemeral one is created on publish.
Init ==
    /\ kind \in Kinds
    /\ volume = ~kind.eph
    /\ fs = "none" /\ configured = FALSE /\ wiped = FALSE /\ image = "none"
    /\ loop = "none" /\ staging = FALSE /\ host = "nothing"
    /\ target = [t \in Targets |-> "nothing"]
    /\ pc = [w \in Workers |-> "idle"]
    /\ req = [w \in Workers |-> None]
    /\ status = [w \in Workers |-> None]
    /\ waited = [w \in Workers |-> FALSE]
    /\ faults = 0
    /\ staged = "no"
    /\ published = [t \in Targets |-> "no"]
    /\ stopping = FALSE /\ late = FALSE

-----------------------------------------------------------------------------
Active(w) == pc[w] # "idle"
T(w) == req[w].t

Goto(w, step) ==
    /\ pc' = [pc EXCEPT ![w] = step]
    /\ UNCHANGED <<kind, req, status, waited, faults, kubeletVars>>

\* The handler returns and volumeMutex is unlocked; the kubelet learns of the
\* result if it still waits.
Return(w, s) ==
    LET heard(op) == waited[w] /\ s = "OK" /\ req[w].op = op IN
    /\ pc' = [pc EXCEPT ![w] = "idle"]
    /\ req' = [req EXCEPT ![w] = None]
    /\ status' = [status EXCEPT ![w] = s]
    /\ waited' = [waited EXCEPT ![w] = FALSE]
    /\ staged' = IF heard("stage") THEN "yes" ELSE IF heard("unstage") THEN "no" ELSE staged
    /\ published' = IF heard("publish") /\ published[T(w)] = "publishing"
                      THEN [published EXCEPT ![T(w)] = "yes"]
                    ELSE IF heard("unpublish") THEN [published EXCEPT ![T(w)] = "no"]
                    ELSE published
    /\ UNCHANGED <<kind, stopping, late>>

Done(w, s) == Return(w, s) /\ UNCHANGED faults

Fault == faults < MaxFaults /\ faults' = faults + 1

\* A command or system call fails.
Fail(w) == Fault /\ Return(w, "Internal")

At(w, op, step) == pc[w] = step /\ req[w].op = op

-----------------------------------------------------------------------------
(* The kubelet.  It stages before it publishes, unpublishes before it      *)
(* unstages, and repeats calls that failed or timed out.  It does not mix  *)
(* stage or unstage with other calls for the volume that still run.        *)

OnlyRunning(ops) == \A v \in Workers : Active(v) => req[v].op \in ops
Awaited(ts) == \E v \in Workers : waited[v] /\ T(v) \in ts

\* The path of a new pod, which no earlier call referred to.  The ID of an
\* ephemeral volume is new as well.
Fresh(t) ==
    /\ target[t] = "nothing"
    /\ \A v \in Workers : Active(v) => T(v) # t
    /\ kind.eph => /\ ~volume
                   /\ \A u \in Targets : published[u] = "no"
                   /\ \A v \in Workers : ~Active(v)

Call(w, r) ==
    /\ ~Active(w)
    /\ pc' = [pc EXCEPT ![w] = "start"]
    /\ req' = [req EXCEPT ![w] = r]
    /\ status' = [status EXCEPT ![w] = None]
    /\ waited' = [waited EXCEPT ![w] = TRUE]
    /\ UNCHANGED <<kind, diskVars, kernelVars, faults, stopping, late>>

CallStage(w) ==
    /\ ~kind.eph /\ ~stopping /\ ~wiped /\ staged # "yes"
    /\ OnlyRunning({"stage"}) /\ ~Awaited({None})
    /\ Call(w, [op |-> "stage", t |-> None])
    /\ staged' = "maybe"
    /\ UNCHANGED published

CallPublish(w, t) ==
    /\ ~stopping /\ ~wiped /\ (kind.eph \/ staged = "yes")
    /\ published[t] \in {"publishing", "yes"} \/ (published[t] = "no" /\ Fresh(t))
    /\ OnlyRunning({"publish", "unpublish"}) /\ ~Awaited({t})
    /\ Call(w, [op |-> "publish", t |-> t])
    /\ published' = IF published[t] = "no" THEN [published EXCEPT ![t] = "publishing"] ELSE published
    /\ UNCHANGED staged

CallUnpublish(w, t) ==
    /\ published[t] # "no"
    /\ OnlyRunning({"publish", "unpublish"}) /\ ~Awaited({t})
    /\ Call(w, [op |-> "unpublish", t |-> t])
    /\ published' = [published EXCEPT ![t] = "unpublishing"]
    /\ UNCHANGED staged

CallUnstage(w) ==
    /\ staged # "no" /\ \A t \in Targets : published[t] = "no"
    /\ OnlyRunning({"unstage"}) /\ ~Awaited({None})
    /\ Call(w, [op |-> "unstage", t |-> None])
    /\ staged' = "maybe"
    /\ UNCHANGED published

\* The kubelet gives up waiting; the handler does not notice.
Timeout(w) ==
    /\ waited[w] /\ Fault
    /\ waited' = [waited EXCEPT ![w] = FALSE]
    /\ late' = TRUE
    /\ UNCHANGED <<kind, diskVars, kernelVars, pc, req, status, staged, published, stopping>>

Stop ==
    /\ ~stopping /\ stopping' = TRUE
    /\ UNCHANGED <<kind, diskVars, kernelVars, workVars, faults, staged, published, late>>

-----------------------------------------------------------------------------
\* volumeMutex.LockKey(volumeID)
LockKey(w) ==
    /\ pc[w] = "start" /\ ~(req[w].op = "stage" /\ kind.block)
    /\ \A v \in Workers : pc[v] \in {"idle", "start"}
    /\ Goto(w, "lookup")
    /\ UNCHANGED <<diskVars, kernelVars>>

\* NodeStageVolume does nothing for raw block volumes.
StageBlock(w) ==
    /\ At(w, "stage", "start") /\ kind.block
    /\ Done(w, "OK")
    /\ UNCHANGED <<diskVars, kernelVars>>

\* getDeviceManagerForVolume and GetDevice
Lookup(w, op, next) ==
    /\ At(w, op, "lookup")
    /\ \/ ~volume /\ Done(w, "NotFound")
       \/ volume /\ Goto(w, next)
       \/ Fail(w)
    /\ UNCHANGED <<diskVars, kernelVars>>

StageLookup(w) == Lookup(w, "stage", "detect")
UnstageLookup(w) == Lookup(w, "unstage", "unmountStaging")
PublishLookup(w) == ~kind.eph /\ Lookup(w, "publish", "check")

\* createEphemeralDevice up to provisionDevice; an existing volume is used again.
CreateEphemeral(w) ==
    /\ At(w, "publish", "lookup") /\ kind.eph
    /\ \/ volume' = TRUE /\ Goto(w, "detect")
       \/ volume' \in {volume, TRUE} /\ Fail(w)
    /\ UNCHANGED <<fs, configured, wiped, image, kernelVars>>

Provisioned(w) == IF req[w].op = "stage" THEN "mountStaging" ELSE "check"

\* Mutant: mkfs without looking for a filesystem.
DetectNothing(w) ==
    /\ pc[w] = "detect" /\ volume
    /\ fs' = "partial" /\ Goto(w, "mkfs")
    /\ UNCHANGED <<volume, configured, wiped, image, kernelVars>>

\* determineFilesystemType, called by NodeStageVolume and provisionDevice, and
\* the start of mkfs.  What an interrupted mkfs left may look like a
\* filesystem, like none, or like nothing that blkid knows.
Detect(w) ==
    /\ pc[w] = "detect"
    /\ \/ volume /\ fs # "none" /\ Goto(w, Provisioned(w)) /\ UNCHANGED fs
       \/ volume /\ fs # "made" /\ fs' = "partial" /\ Goto(w, "mkfs")
       \/ (~volume \/ fs = "partial") /\ Done(w, "Internal") /\ UNCHANGED fs
       \/ Fail(w) /\ UNCHANGED fs
    /\ UNCHANGED <<volume, configured, wiped, image, kernelVars>>

\* The end of mkfs
Mkfs(w) ==
    /\ pc[w] = "mkfs"
    /\ \/ fs' = "made" /\ Goto(w, Provisioned(w))
       \/ Fail(w) /\ UNCHANGED fs
    /\ UNCHANGED <<volume, configured, wiped, image, kernelVars>>

Mountable == volume /\ fs = "made"

\* Mutant: a volume counts as staged before it is mounted.
StageUnmounted(w) ==
    /\ pc[w] = "mountStaging"
    /\ Done(w, "OK")
    /\ UNCHANGED <<diskVars, kernelVars>>

\* NodeStageVolume mounts the device.  ns.mount does nothing for a mount point.
MountStaging(w) ==
    /\ pc[w] = "mountStaging"
    /\ \/ /\ staging \/ Mountable
          /\ staging' = TRUE
          /\ IF kind.xfs THEN Goto(w, "configure") ELSE Done(w, "OK")
       \/ ~staging /\ ~Mountable /\ Done(w, "Internal") /\ UNCHANGED staging
       \/ Fail(w) /\ UNCHANGED staging
    /\ UNCHANGED <<diskVars, loop, host, target>>

\* xfs.ConfigureFS on the filesystem that was just mounted
Configure(w) ==
    /\ pc[w] = "configure"
    /\ \/ /\ configured' = TRUE
          /\ IF req[w].op = "publish" /\ kind.kata THEN Goto(w, "image") ELSE Done(w, "OK")
       \/ Fail(w) /\ UNCHANGED configured
    /\ UNCHANGED <<volume, fs, wiped, image, kernelVars>>

-----------------------------------------------------------------------------
\* Ephemeral volumes are published with "dax", other flags are not used; only
\* a mount of the device itself has that flag.
findMountFlags(t) == kind.eph => target[t] = "fs"

\* NodePublishVolume: an existing mount at the target path must be compatible;
\* raw block volumes are not supported for Kata Containers.
Check(w) ==
    LET mounted == ~kind.block /\ target[T(w)] # "nothing" IN
    /\ pc[w] = "check"
    /\ \/ mounted /\ Done(w, IF findMountFlags(T(w)) THEN "OK" ELSE "AlreadyExists")
       \/ kind.block /\ kind.kata /\ Done(w, "InvalidArgument")
       \/ ~mounted /\ ~(kind.block /\ kind.kata)
          /\ Goto(w, IF kind.kata THEN "mountHost" ELSE "mountTarget")
       \/ ~kind.block /\ Fail(w)
    /\ UNCHANGED <<diskVars, kernelVars>>

\* What a filesystem volume is mounted from: the device, or the staging path,
\* which is a plain directory if nothing is mounted there.
Source == IF kind.eph \/ staging THEN "fs" ELSE "dir"

\* The first mount of a Kata Containers volume is in the driver's directory.
MountHost(w) ==
    /\ pc[w] = "mountHost"
    /\ \/ /\ host # "nothing" \/ ~kind.eph \/ Mountable
          /\ host' = IF host = "nothing" THEN Source ELSE host
          /\ Goto(w, IF kind.eph /\ kind.xfs THEN "configure" ELSE "image")
       \/ host = "nothing" /\ kind.eph /\ ~Mountable /\ Done(w, "Internal") /\ UNCHANGED host
       \/ Fail(w) /\ UNCHANGED host
    /\ UNCHANGED <<diskVars, loop, staging, target>>

MountTarget(w) ==
    LET mounted == target[T(w)] # "nothing"
        source == (kind.eph => Mountable) /\ (kind.block => volume)
    IN
    /\ pc[w] = "mountTarget"
    /\ \/ mounted /\ Done(w, "OK") /\ UNCHANGED target        \* raw block only
       \/ /\ ~mounted /\ source
          /\ target' = [target EXCEPT ![T(w)] = IF kind.block THEN "raw" ELSE Source]
          /\ IF kind.eph /\ kind.xfs THEN Goto(w, "configure") ELSE Done(w, "OK")
       \/ ~mounted /\ ~source /\ Done(w, "Internal") /\ UNCHANGED target
       \/ Fail(w) /\ UNCHANGED target
    /\ UNCHANGED <<diskVars, loop, staging, host>>

\* An image file that exists is used, otherwise imagefile.Create starts.
Image(w) ==
    /\ pc[w] = "image"
    /\ \/ image # "none" /\ Goto(w, "attach") /\ UNCHANGED image
       \/ image = "none" /\ image' = "partial" /\ Goto(w, "imageCreate")
       \/ Fail(w) /\ UNCHANGED image
    /\ UNCHANGED <<volume, fs, configured, wiped, kernelVars>>

\* The rest of imagefile.Create; on failure it tries to remove the file.
ImageCreate(w) ==
    /\ pc[w] = "imageCreate"
    /\ \/ image' = "complete" /\ Goto(w, "attach")
       \/ image' \in {"none", "partial"} /\ Fail(w)
    /\ UNCHANGED <<volume, fs, configured, wiped, kernelVars>>

\* AttachFileDeviceWithOffset uses an existing loop device of the file.
Attach(w) ==
    /\ pc[w] = "attach"
    /\ \/ loop' = (IF loop = "none" THEN "attached" ELSE loop) /\ Goto(w, "mountImage")
       \/ Fail(w) /\ UNCHANGED loop
    /\ UNCHANGED <<diskVars, staging, host, target>>

\* Mutant: the image is mounted over the mount that contains it.
MountImageAtHost(w) ==
    /\ pc[w] = "mountImage"
    /\ host' = "image" /\ Done(w, "OK")
    /\ UNCHANGED <<diskVars, loop, staging, target>>

\* The filesystem in the image is mounted; a partial image has none.
MountImage(w) ==
    /\ pc[w] = "mountImage"
    /\ \/ image = "complete" /\ target' = [target EXCEPT ![T(w)] = "image"] /\ Done(w, "OK")
       \/ image # "complete" /\ Done(w, "Internal") /\ UNCHANGED target
       \/ Fail(w) /\ UNCHANGED target
    /\ UNCHANGED <<diskVars, loop, staging, host>>

-----------------------------------------------------------------------------
Unmounted == IF kind.kata THEN "detach" ELSE "rmTarget"

\* Mutant: a target path that is not a mount point means that all is done.
UnpublishNotMounted(w) ==
    LET mounted == target[T(w)] # "nothing" IN
    /\ At(w, "unpublish", "lookup")
    /\ \/ ~mounted /\ Done(w, "OK")
       \/ mounted /\ volume /\ Goto(w, "unmountTarget")
       \/ mounted /\ ~volume /\ Done(w, "NotFound")
    /\ UNCHANGED <<diskVars, kernelVars>>

\* NodeUnpublishVolume up to the unmount.  A target path that cannot be examined
\* is treated like one that is not a mount point.
UnpublishLookup(w) ==
    LET mounted == target[T(w)] # "nothing" IN
    /\ At(w, "unpublish", "lookup")
    /\ \/ ~volume /\ Done(w, IF mounted THEN "NotFound" ELSE "OK")
       \/ ~volume /\ Fault /\ Return(w, "OK")
       \/ volume /\ Goto(w, IF mounted THEN "unmountTarget" ELSE Unmounted)
       \/ /\ volume /\ Fault /\ pc' = [pc EXCEPT ![w] = Unmounted]
          /\ UNCHANGED <<kind, req, status, waited, kubeletVars>>
    /\ UNCHANGED <<diskVars, kernelVars>>

ImageMounted(ts) == \E t \in ts : target[t] = "image"

UnmountTarget(w) ==
    /\ pc[w] = "unmountTarget"
    /\ \/ /\ target' = [target EXCEPT ![T(w)] = "nothing"]
          /\ loop' = IF loop = "autoclear" /\ ~ImageMounted(Targets \ {T(w)}) THEN "none" ELSE loop
          /\ Goto(w, Unmounted)
       \/ Fail(w) /\ UNCHANGED <<target, loop>>
    /\ UNCHANGED <<diskVars, staging, host>>

\* Mutant: the loop device stays.
DetachNothing(w) ==
    /\ pc[w] = "detach"
    /\ Goto(w, "unmountHost")
    /\ UNCHANGED <<diskVars, kernelVars>>

\* DetachFileDevice: without the image file there is no loop device either.
\* The kernel keeps a detached device while it is mounted.
Detach(w) ==
    /\ pc[w] = "detach"
    /\ \/ /\ loop' = IF host = "nothing" \/ image = "none" \/ loop = "none" THEN loop
                     ELSE IF ImageMounted(Targets) THEN "autoclear" ELSE "none"
          /\ Goto(w, "unmountHost")
       \/ Fail(w) /\ UNCHANGED loop
    /\ UNCHANGED <<diskVars, staging, host, target>>

\* The driver's own mount is in use as long as the image file is.
UnmountHost(w) ==
    /\ pc[w] = "unmountHost"
    /\ \/ host # "nothing" /\ loop # "none" /\ Done(w, "Internal") /\ UNCHANGED host
       \/ (host = "nothing" \/ loop = "none") /\ host' = "nothing" /\ Goto(w, "rmTarget")
       \/ loop = "none" /\ host' = "nothing" /\ Fail(w)          \* removing the directory
       \/ UNCHANGED host /\ Fail(w)
    /\ UNCHANGED <<diskVars, loop, staging, target>>

\* os.Remove(targetPath) fails for a mount point.
RmTarget(w) ==
    /\ pc[w] = "rmTarget"
    /\ \/ target[T(w)] # "nothing" /\ Done(w, "Internal")
       \/ target[T(w)] = "nothing" /\ ~kind.eph /\ Done(w, "OK")
       \/ target[T(w)] = "nothing" /\ kind.eph /\ Goto(w, "deleteVolume")
       \/ Fail(w)
    /\ UNCHANGED <<diskVars, kernelVars>>

\* The device is open exclusively: mounted, or used by mkfs.
InUse ==
    \/ staging \/ host # "nothing"
    \/ \E t \in Targets : target[t] = "fs"
    \/ \E w \in Workers : pc[w] = "mkfs"

Emptied == fs' = "none" /\ configured' = FALSE /\ image' = "none"

\* Mutant: a device that is in use can be cleared.
ClearedInUse == Emptied /\ wiped' = TRUE /\ UNCHANGED volume

\* The two parts of DeleteVolume as modelled in NodeController: clearing the
\* device and removing it.  Both fail for a device that is in use.
Cleared == ~InUse /\ Emptied /\ wiped' = TRUE /\ UNCHANGED volume
Removed == ~InUse /\ Emptied /\ wiped' = FALSE /\ volume' = FALSE

\* NodeUnpublishVolume calls DeleteVolume for ephemeral volumes.
DeleteEphemeral(w) ==
    /\ pc[w] = "deleteVolume"
    /\ \/ Removed /\ Done(w, "OK")
       \/ Cleared /\ Fail(w)
       \/ UNCHANGED diskVars /\ Fail(w)
    /\ UNCHANGED kernelVars

\* NodeUnstageVolume
UnmountStaging(w) ==
    /\ pc[w] = "unmountStaging"
    /\ \/ staging' = FALSE /\ Done(w, "OK")
       \/ UNCHANGED staging /\ Fail(w)
    /\ UNCHANGED <<diskVars, loop, host, target>>

-----------------------------------------------------------------------------
\* DeleteVolume for a persistent volume that no pod uses or will use.  It does
\* not take volumeMutex and may run while the volume is staged or unstaged.
ClearDevice ==
    /\ ~kind.eph /\ volume
    /\ \A t \in Targets : published[t] = "no"
    /\ Cleared
    /\ UNCHANGED <<kind, kernelVars, workVars, faults, kubeletVars>>

RemoveDevice ==
    /\ ~kind.eph /\ wiped
    /\ Removed
    /\ UNCHANGED <<kind, kernelVars, workVars, faults, kubeletVars>>

Killed ==
    /\ Fault
    /\ pc' = [w \in Workers |-> "idle"]
    /\ req' = [w \in Workers |-> None]
    /\ status' = [w \in Workers |-> None]
    /\ waited' = [w \in Workers |-> FALSE]
    /\ UNCHANGED <<kind, diskVars, stopping, late>>

\* The driver is killed and restarted.  Mounts and loop devices stay.
Kill == Killed /\ UNCHANGED <<kernelVars, staged, published>>

\* After a reboot the kubelet stages and publishes again, or cleans up.
Reboot ==
    /\ Killed
    /\ loop' = "none" /\ staging' = FALSE /\ host' = "nothing"
    /\ target' = [t \in Targets |-> "nothing"]
    /\ staged' = IF staged = "yes" THEN "maybe" ELSE staged
    /\ published' = [t \in Targets |-> IF published[t] = "yes" THEN "publishing" ELSE published[t]]

Step(w) ==
    \/ StageBlock(w) \/ StageLookup(w) \/ UnstageLookup(w) \/ PublishLookup(w) \/ CreateEphemeral(w)
    \/ Detect(w) \/ Mkfs(w) \/ MountStaging(w) \/ Configure(w) \/ UnmountStaging(w)
    \/ Check(w) \/ MountHost(w) \/ MountTarget(w)
    \/ Image(w) \/ ImageCreate(w) \/ Attach(w) \/ MountImage(w)
    \/ UnpublishLookup(w) \/ UnmountTarget(w) \/ Detach(w) \/ UnmountHost(w)
    \/ RmTarget(w) \/ DeleteEphemeral(w)

Next ==
    \/ \E w \in Workers :
          \/ CallStage(w) \/ CallUnstage(w) \/ Timeout(w) \/ LockKey(w) \/ Step(w)
          \/ \E t \in Targets : CallPublish(w, t) \/ CallUnpublish(w, t)
    \/ Stop \/ ClearDevice \/ RemoveDevice \/ Kill \/ Reboot

Spec == Init /\ [][Next]_vars

\* Handlers keep running and get volumeMutex, see NodeController.  The kubelet
\* repeats the calls that undo what it has done for a pod.
Fairness ==
    /\ \A w \in Workers : WF_vars(Step(w)) /\ SF_vars(LockKey(w))
    /\ \A t \in Targets : WF_vars(\E w \in Workers : CallUnpublish(w, t))
    /\ WF_vars(\E w \in Workers : CallUnstage(w))

FairSpec == Spec /\ Fairness

-----------------------------------------------------------------------------
\* What an application wrote is never overwritten: once a filesystem or an
\* image file is complete, no retry, crash or late call makes it again while
\* the volume exists and DeleteVolume was not called ("Skipping mkfs", "Create() is not idempotent, so we have
\* to check for the file", nodeserver.go:319-320, 569, 704).
KeepsData ==
    [][volume /\ volume' /\ ~wiped' => /\ fs = "made" => fs' = "made"
                                       /\ image = "complete" => image' = "complete"]_vars

\* Nothing is mounted without what it is mounted from: no filesystem without
\* its device, no image without its loop device, no loop device without the
\* driver's own mount and the image file in it.  DeleteVolume, which takes a
\* different mutex, relies on the device being in use for that.
MountsBacked ==
    /\ staging \/ host = "fs" \/ (\E t \in Targets : target[t] = "fs") => Mountable
    /\ ImageMounted(Targets) => loop # "none"
    /\ loop # "none" => host = "fs" /\ image # "none"

Expected == IF kind.block THEN "raw" ELSE IF kind.kata THEN "image" ELSE "fs"

\* Where NodePublishVolume returned OK, the volume is mounted, until it is
\* unpublished or the node reboots: never an empty staging directory, never
\* a partial image, and never a persistent xfs filesystem that was not
\* prepared for fsdax ("ConfigureFS must be called after mkfs.xfs", xfs.go:28).
PublishSound ==
    \A t \in Targets :
        published[t] = "yes" => /\ target[t] = Expected
                                /\ target[t] = "image" => image = "complete"
                                /\ kind.xfs /\ ~kind.eph => configured

\* When NodeUnpublishVolume returns OK nothing of the publish is left, however
\* often it was cut off before: mounts, loop device, ephemeral device.  Only
\* a raw device file may stay mounted after its volume was deleted.
UnpublishComplete ==
    [][\A w \in Workers :
         Active(w) /\ ~Active(w)' /\ req[w].op = "unpublish" /\ status'[w] = "OK"
           => /\ target'[T(w)] = "nothing" \/ (target'[T(w)] = "raw" /\ ~volume)
              /\ kind.kata => host' = "nothing" /\ loop' = "none"
              /\ kind.eph => ~volume']_vars

\* Once no pod needs the volume any more, repeated calls undo everything,
\* whatever state crashes and failures have left.  A publish that runs later
\* than the kubelet thinks can prevent that.
TornDown ==
    /\ \A t \in Targets : published[t] = "no"
    /\ staged = "no" \/ ~volume
    /\ host = "nothing" /\ loop = "none"
    /\ kind.eph => ~volume

Teardown == stopping ~> TornDown \/ late

=============================================================================
