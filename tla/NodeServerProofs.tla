-------------------------- MODULE NodeServerProofs --------------------------
(***************************************************************************)
(* No retry, crash or late call of the node service overwrites a complete  *)
(* filesystem or image file; nothing is mounted without what it is mounted *)
(* from; a publish that returned OK is real; an unpublish that returned OK *)
(* leaves nothing behind.                                                  *)
(***************************************************************************)
EXTENDS NodeServer, TLAPS

Steps == {"idle", "start", "lookup", "unmountStaging"}
         \cup StageSteps \cup PublishSteps \cup UnpublishSteps

Waiting == {"idle", "start"}

\* volumeMutex is held by at most one handler, and while that one creates the
\* image file nobody else completes it.
DataInv ==
    /\ pc \in [Workers -> Steps]
    /\ \A v, w \in Workers : v # w => pc[v] \in Waiting \/ pc[w] \in Waiting
    /\ \A w \in Workers : pc[w] = "imageCreate" => image # "complete"

DataStep == volume /\ volume' /\ ~wiped' => /\ fs = "made" => fs' = "made"
                                            /\ image = "complete" => image' = "complete"

-----------------------------------------------------------------------------
\* A handler moves on while the image file stays as it is.
LEMMA MoveOn ==
    ASSUME DataInv, NEW w \in Workers, pc[w] \notin Waiting,
           NEW step \in Steps \ {"imageCreate"},
           pc' = [pc EXCEPT ![w] = step], image' = image
    PROVE  DataInv'
<1>1. pc' \in [Workers -> Steps]
  BY DEF DataInv
<1>2. \A v \in Workers \ {w} : pc'[v] = pc[v] /\ pc[v] \in Waiting
  BY DEF DataInv
<1>3. pc'[w] # "imageCreate"
  BY DEF DataInv
<1> QED
  BY <1>1, <1>2, <1>3 DEF DataInv, Waiting

\* A handler returns, whatever it does to the image file.
LEMMA GoIdle ==
    ASSUME DataInv, NEW w \in Workers, pc[w] \notin Waiting,
           pc' = [pc EXCEPT ![w] = "idle"]
    PROVE  DataInv'
<1>1. "idle" \in Steps /\ pc' \in [Workers -> Steps]
  BY DEF DataInv, Steps
<1>2. \A v \in Workers : pc'[v] \in Waiting
  BY DEF DataInv, Waiting
<1> QED
  BY <1>1, <1>2 DEF DataInv, Waiting

\* A call arrives, or returns before it takes the mutex.
LEMMA WaitingStep ==
    ASSUME DataInv, NEW w \in Workers, pc[w] \in Waiting,
           NEW step \in Waiting, pc' = [pc EXCEPT ![w] = step], image' = image
    PROVE  DataInv'
<1>1. step \in Steps /\ pc' \in [Workers -> Steps]
  BY DEF DataInv, Steps, Waiting
<1>2. \A v \in Workers : pc'[v] = pc[v] \/ (v = w /\ pc'[v] \in Waiting)
  BY DEF DataInv
<1>3. "imageCreate" \notin Waiting
  BY Zenon DEF Waiting
<1> QED
  BY <1>1, <1>2, <1>3 DEF DataInv

\* The steps of a handler.
LEMMA HandlerStep ==
    ASSUME DataInv, NEW w \in Workers, Step(w)
    PROVE  DataInv' /\ DataStep
<1> USE DEF Goto, Done, Fail, Return, diskVars, kernelVars, DataStep, At
<1>1. CASE StageBlock(w)
  <2>1. image' = image /\ fs' = fs /\ pc[w] = "start" /\ pc' = [pc EXCEPT ![w] = "idle"]
    BY <1>1 DEF StageBlock
  <2> QED BY <2>1, WaitingStep, Zenon DEF Waiting
<1>2. CASE StageLookup(w) \/ UnstageLookup(w) \/ PublishLookup(w)
  <2>1. image' = image /\ fs' = fs /\ pc[w] = "lookup"
    BY <1>2 DEF StageLookup, UnstageLookup, PublishLookup, Lookup
  <2>2. PICK step \in {"idle", "detect", "unmountStaging", "check"} : pc' = [pc EXCEPT ![w] = step]
    BY <1>2 DEF StageLookup, UnstageLookup, PublishLookup, Lookup
  <2> QED BY <2>1, <2>2, MoveOn, Zenon DEF Waiting, Steps, StageSteps, PublishSteps
<1>3. CASE CreateEphemeral(w)
  <2>1. image' = image /\ fs' = fs /\ pc[w] = "lookup"
    BY <1>3 DEF CreateEphemeral
  <2>2. PICK step \in {"idle", "detect"} : pc' = [pc EXCEPT ![w] = step]
    BY <1>3, Zenon DEF CreateEphemeral
  <2> QED BY <2>1, <2>2, MoveOn, Zenon DEF Waiting, Steps, StageSteps
<1>4. CASE Detect(w)
  <2>1. image' = image /\ (fs = "made" => fs' = "made" \/ ~volume) /\ pc[w] = "detect"
    BY <1>4 DEF Detect
  <2>2. PICK step \in {"idle", "mkfs", "mountStaging", "check"} : pc' = [pc EXCEPT ![w] = step]
    BY <1>4 DEF Detect, Provisioned
  <2> QED BY <2>1, <2>2, MoveOn, Zenon DEF Waiting, Steps, StageSteps, PublishSteps
<1>5. CASE Mkfs(w)
  <2>1. image' = image /\ (fs = "made" => fs' = "made") /\ pc[w] = "mkfs"
    BY <1>5 DEF Mkfs
  <2>2. PICK step \in {"idle", "mountStaging", "check"} : pc' = [pc EXCEPT ![w] = step]
    BY <1>5 DEF Mkfs, Provisioned
  <2> QED BY <2>1, <2>2, MoveOn, Zenon DEF Waiting, Steps, StageSteps, PublishSteps
<1>6. CASE MountStaging(w) \/ Configure(w) \/ UnmountStaging(w)
  <2>1. image' = image /\ fs' = fs /\ pc[w] \in {"mountStaging", "configure", "unmountStaging"}
    BY <1>6 DEF MountStaging, Configure, UnmountStaging
  <2>2. PICK step \in {"idle", "configure", "image"} : pc' = [pc EXCEPT ![w] = step]
    BY <1>6 DEF MountStaging, Configure, UnmountStaging
  <2> QED BY <2>1, <2>2, MoveOn, Zenon DEF Waiting, Steps, StageSteps, PublishSteps
<1>7. CASE Check(w) \/ MountHost(w) \/ MountTarget(w)
  <2>1. image' = image /\ fs' = fs /\ pc[w] \in {"check", "mountHost", "mountTarget"}
    BY <1>7 DEF Check, MountHost, MountTarget
  <2>2. PICK step \in {"idle", "mountHost", "mountTarget", "configure", "image"} :
            pc' = [pc EXCEPT ![w] = step]
    BY <1>7 DEF Check, MountHost, MountTarget
  <2> QED BY <2>1, <2>2, MoveOn, Zenon DEF Waiting, Steps, StageSteps, PublishSteps
<1>8. CASE Image(w)
  <2>1. fs' = fs /\ pc[w] = "image" /\ (image = "complete" => image' = "complete")
    BY <1>8 DEF Image
  <2>2. CASE pc' = [pc EXCEPT ![w] = "imageCreate"] /\ image' = "partial"
    <3>1. "imageCreate" \in Steps /\ pc' \in [Workers -> Steps]
      BY <2>2 DEF DataInv, Steps, PublishSteps
    <3>2. \A v \in Workers \ {w} : pc'[v] \in Waiting
      BY <2>1, <2>2 DEF DataInv, Waiting
    <3> QED BY <2>1, <2>2, <3>1, <3>2 DEF DataInv, Waiting
  <2>3. CASE image' = image /\ \E step \in {"idle", "attach"} : pc' = [pc EXCEPT ![w] = step]
    BY <2>1, <2>3, MoveOn, Zenon DEF Waiting, Steps, PublishSteps
  <2> QED BY <1>8, <2>2, <2>3 DEF Image
<1>9. CASE ImageCreate(w)
  <2>1. fs' = fs /\ pc[w] = "imageCreate" /\ image # "complete"
    BY <1>9 DEF ImageCreate, DataInv
  <2>2. CASE pc' = [pc EXCEPT ![w] = "attach"]
    <3>1. "attach" \in Steps /\ pc' \in [Workers -> Steps]
      BY <2>2 DEF DataInv, Steps, PublishSteps
    <3>2. \A v \in Workers \ {w} : pc'[v] \in Waiting
      BY <2>1, <2>2 DEF DataInv, Waiting
    <3>3. pc'[w] = "attach"
      BY <2>2 DEF DataInv
    <3> QED BY <2>1, <3>1, <3>2, <3>3 DEF DataInv, Waiting
  <2>3. CASE pc' = [pc EXCEPT ![w] = "idle"]
    BY <2>1, <2>3, GoIdle, Zenon DEF Waiting
  <2> QED BY <1>9, <2>2, <2>3 DEF ImageCreate
<1>10. CASE Attach(w) \/ MountImage(w)
  <2>1. image' = image /\ fs' = fs /\ pc[w] \in {"attach", "mountImage"}
    BY <1>10 DEF Attach, MountImage
  <2>2. PICK step \in {"idle", "mountImage"} : pc' = [pc EXCEPT ![w] = step]
    BY <1>10 DEF Attach, MountImage
  <2> QED BY <2>1, <2>2, MoveOn, Zenon DEF Waiting, Steps, PublishSteps
<1>11. CASE UnpublishLookup(w)
  <2>1. image' = image /\ fs' = fs /\ pc[w] = "lookup"
    BY <1>11 DEF UnpublishLookup
  <2>2. PICK step \in {"idle", "unmountTarget", "detach", "rmTarget"} : pc' = [pc EXCEPT ![w] = step]
    BY <1>11 DEF UnpublishLookup, Unmounted
  <2> QED BY <2>1, <2>2, MoveOn, Zenon DEF Waiting, Steps, UnpublishSteps
<1>12. CASE UnmountTarget(w) \/ Detach(w) \/ UnmountHost(w) \/ RmTarget(w)
  <2>1. image' = image /\ fs' = fs /\ pc[w] \in {"unmountTarget", "detach", "unmountHost", "rmTarget"}
    BY <1>12, Zenon DEF UnmountTarget, Detach, UnmountHost, RmTarget
  <2>2. PICK step \in {"idle", "detach", "unmountHost", "rmTarget", "deleteVolume"} :
            pc' = [pc EXCEPT ![w] = step]
    BY <1>12, Zenon DEF UnmountTarget, Detach, UnmountHost, RmTarget, Unmounted
  <2> QED BY <2>1, <2>2, MoveOn, Zenon DEF Waiting, Steps, UnpublishSteps
<1>13. CASE DeleteEphemeral(w)
  <2>1. pc[w] = "deleteVolume" /\ pc' = [pc EXCEPT ![w] = "idle"]
    BY <1>13 DEF DeleteEphemeral
  <2>2. DataStep
    BY <1>13 DEF DeleteEphemeral, Cleared, Removed
  <2> QED BY <2>1, <2>2, GoIdle, Zenon DEF Waiting
<1> QED
  BY <1>1, <1>2, <1>3, <1>4, <1>5, <1>6, <1>7, <1>8, <1>9, <1>10, <1>11, <1>12, <1>13 DEF Step

\* All steps.
LEMMA DataNext ==
    ASSUME DataInv, [Next]_vars
    PROVE  DataInv' /\ [DataStep]_vars
<1>1. CASE UNCHANGED vars
  BY <1>1 DEF DataInv, vars, workVars, diskVars
<1>2. ASSUME NEW w \in Workers, Step(w)
      PROVE  DataInv' /\ [DataStep]_vars
  BY <1>2, HandlerStep
<1>3. ASSUME NEW w \in Workers,
             CallStage(w) \/ CallUnstage(w) \/ \E t \in Targets : CallPublish(w, t) \/ CallUnpublish(w, t)
      PROVE  DataInv' /\ [DataStep]_vars
  <2>1. image' = image /\ fs' = fs /\ pc[w] = "idle" /\ pc' = [pc EXCEPT ![w] = "start"]
    BY <1>3, Zenon DEF CallStage, CallUnstage, CallPublish, CallUnpublish, Call, Active, diskVars
  <2> QED BY <2>1, WaitingStep, Zenon DEF Waiting, DataStep
<1>4. ASSUME NEW w \in Workers, LockKey(w)
      PROVE  DataInv' /\ [DataStep]_vars
  <2>1. image' = image /\ fs' = fs /\ pc' = [pc EXCEPT ![w] = "lookup"]
    BY <1>4 DEF LockKey, Goto, diskVars
  <2>2. \A v \in Workers : pc[v] \in Waiting
    BY <1>4 DEF LockKey, Waiting
  <2>3. "lookup" \in Steps /\ pc' \in [Workers -> Steps] /\ pc'[w] = "lookup"
    BY <2>1 DEF DataInv, Steps
  <2>4. \A v \in Workers \ {w} : pc'[v] \in Waiting
    BY <2>1, <2>2 DEF DataInv
  <2> QED BY <2>1, <2>3, <2>4 DEF DataInv, DataStep, Waiting
<1>5. ASSUME Stop \/ \E w \in Workers : Timeout(w)
      PROVE  DataInv' /\ [DataStep]_vars
  <2>1. image' = image /\ fs' = fs /\ pc' = pc
    BY <1>5 DEF Stop, Timeout, diskVars, workVars
  <2> QED BY <2>1 DEF DataInv, DataStep
<1>6. CASE ClearDevice \/ RemoveDevice
  <2>1. (wiped' \/ ~volume') /\ image' = "none" /\ pc' = pc
    BY <1>6 DEF ClearDevice, RemoveDevice, Cleared, Removed, Emptied, workVars
  <2> QED BY <2>1 DEF DataInv, DataStep
<1>7. CASE Kill \/ Reboot
  <2>1. image' = image /\ fs' = fs /\ pc' = [w \in Workers |-> "idle"]
    BY <1>7 DEF Kill, Reboot, Killed, diskVars
  <2> QED BY <2>1 DEF DataInv, DataStep, Steps, Waiting
<1> QED
  BY <1>1, <1>2, <1>3, <1>4, <1>5, <1>6, <1>7 DEF Next

\* What an application wrote is never overwritten while the volume is not deleted: a
\* complete filesystem or image file stays complete (nodeserver.go:319-320,
\* 569, 704), for every number of handlers and target paths.
THEOREM KeepsDataHolds == Spec => KeepsData
<1>1. Init => DataInv
  BY DEF Init, DataInv, Steps, Waiting
<1>2. DataInv /\ [Next]_vars => DataInv' /\ [DataStep]_vars
  BY DataNext, Zenon
<1> QED
  BY <1>1, <1>2, PTL DEF Spec, KeepsData, DataStep

-----------------------------------------------------------------------------
(* The mounts.  Handlers of one volume exclude each other, the kubelet     *)
(* orders its calls, and the device cannot be cleared or removed while it  *)
(* is in use.  Together this keeps what is mounted, and what the kubelet   *)
(* believes, in line with the disk.                                        *)

ImageSteps == {"image", "imageCreate", "attach", "mountImage"}

\* Which steps belong to which call.
StepOf(step, op) ==
    /\ step = "mountStaging" => op = "stage"
    /\ step \in {"detect", "mkfs", "configure"} => op = "stage" \/ (op = "publish" /\ kind.eph)
    /\ step \in PublishSteps => op = "publish"
    /\ step \in UnpublishSteps => op = "unpublish"
    /\ step = "unmountStaging" => op = "unstage"
    /\ step = "mountTarget" => ~kind.kata
    /\ step \in {"mountHost"} \cup ImageSteps => kind.kata /\ ~kind.block
    /\ step \in {"detach", "unmountHost"} => kind.kata
    /\ step = "deleteVolume" => kind.eph
    /\ op \in {"stage", "unstage"} => ~kind.eph
    /\ op = "stage" /\ step # "start" => ~kind.block

\* The calls that run at the same time, and what the kubelet believes then.
CallInv ==
    /\ \A w \in Workers : Active(w) => StepOf(pc[w], req[w].op)
    /\ kind.eph => staged = "no"
    /\ \A v, w \in Workers : Active(v) /\ Active(w) /\ req[v].op \in {"stage", "unstage"}
                               => req[w].op = req[v].op
    /\ \A w \in Workers : Active(w) /\ req[w].op = "unstage" => staged # "yes"
    /\ \A w \in Workers : Active(w) /\ req[w].op = "publish" /\ ~kind.eph => staged = "yes"
    /\ \A w \in Workers : Active(w) /\ req[w].op = "unpublish"
                            => published[T(w)] \in {"no", "unpublishing"}

\* What a handler relies on at each step because an earlier one did it.
StepReady(w) ==
    /\ pc[w] = "configure" => IF req[w].op = "stage" THEN staging
                              ELSE IF kind.kata THEN host = "fs" ELSE target[T(w)] = "fs"
    /\ pc[w] \in ImageSteps => host = "fs"
    /\ pc[w] = "imageCreate" => image = "partial" /\ loop = "none"
    /\ pc[w] \in {"attach", "mountImage"} => image # "none"
    /\ pc[w] = "mountImage" => loop # "none"
    /\ pc[w] \in {"rmTarget", "deleteVolume"} /\ kind.kata => host = "nothing" /\ loop = "none"
    /\ pc[w] = "deleteVolume" => target[T(w)] = "nothing"

\* What is mounted where.
MountInv ==
    /\ MountsBacked
    /\ host # "dir"
    /\ \A t \in Targets : target[t] \in {"nothing", Expected}
    /\ ImageMounted(Targets) => image = "complete"

\* What the kubelet believes is true.
BeliefInv ==
    /\ staged = "yes" /\ ~kind.block => staging /\ (kind.xfs => configured)
    /\ PublishSound

ServerInv ==
    /\ TypeOK /\ DataInv /\ CallInv /\ MountInv /\ BeliefInv
    /\ \A w \in Workers : StepReady(w)

\* The handler goes on with another step.
Moves(w, step) ==
    /\ pc' = [pc EXCEPT ![w] = step]
    /\ UNCHANGED <<kind, req, status, waited, kubeletVars>>

-----------------------------------------------------------------------------
\* Every step of a handler either leads to another step of the same call, or
\* ends the call.
LEMMA StepControl ==
    ASSUME TypeOK, CallInv, NEW w \in Workers, Step(w)
    PROVE  /\ pc[w] # "idle" /\ kind' = kind /\ faults' \in 0 .. MaxFaults
           /\ \/ \E step \in Steps \ Waiting : StepOf(step, req[w].op) /\ Moves(w, step)
              \/ \E s \in Statuses : Return(w, s)
<1> USE DEF Goto, Done, Fail, Fault, At, kubeletVars
<1>0. /\ faults \in 0 .. MaxFaults /\ MaxFaults \in Nat
      /\ pc[w] # "idle" => StepOf(pc[w], req[w].op)
      /\ ~(kind.block /\ kind.eph)
  BY NodeServerAssumption DEF TypeOK, CallInv, Active
<1> DEFINE Counted == faults' = faults \/ (faults < MaxFaults /\ faults' = faults + 1)
<1>1. Counted => faults' \in 0 .. MaxFaults
  BY <1>0
<1>2. kind' = kind \/ ~ \/ \E step \in Steps \ Waiting : StepOf(step, req[w].op) /\ Moves(w, step)
                        \/ \E s \in Statuses : Return(w, s)
  BY Zenon DEF Moves, Return
<1>4. CASE StageBlock(w)
  <2>1. Return(w, "OK") /\ pc[w] = "start" /\ Counted
    BY <1>4, Zenon DEF StageBlock
  <2> QED BY <1>1, <1>2, <2>1, Zenon DEF Statuses

<1>5. CASE StageLookup(w) \/ UnstageLookup(w) \/ PublishLookup(w)
  <2>1. pc[w] = "lookup"
    BY <1>5, Zenon DEF StageLookup, UnstageLookup, PublishLookup, Lookup
  <2>2. \/ req[w].op = "stage" /\ Moves(w, "detect")
        \/ req[w].op = "unstage" /\ Moves(w, "unmountStaging")
        \/ req[w].op = "publish" /\ Moves(w, "check")
        \/ \E s \in Statuses : Return(w, s)
    BY <1>0, <1>5, <2>1, Zenon DEF StageLookup, UnstageLookup, PublishLookup, Lookup, Statuses, Moves
  <2>3. Counted
    BY <1>5, Zenon DEF StageLookup, UnstageLookup, PublishLookup, Lookup
  <2> HIDE DEF Counted
  <2>4. \/ \E step \in Steps \ Waiting : StepOf(step, req[w].op) /\ Moves(w, step)
        \/ \E s \in Statuses : Return(w, s)
    BY <1>0, <2>1, <2>2 DEF StepOf, Steps, Waiting, StageSteps, PublishSteps, UnpublishSteps, ImageSteps
  <2> QED BY <1>1, <1>2, <2>1, <2>3, <2>4, Zenon DEF ImageSteps, UnpublishSteps
<1>6. CASE CreateEphemeral(w)
  <2>1. pc[w] = "lookup"
    BY <1>6, Zenon DEF CreateEphemeral
  <2>2. \/ req[w].op = "publish" /\ kind.eph /\ Moves(w, "detect")
        \/ \E s \in Statuses : Return(w, s)
    BY <1>0, <1>6, <2>1, Zenon DEF CreateEphemeral, Statuses, Moves
  <2>3. Counted
    BY <1>6, Zenon DEF CreateEphemeral
  <2> HIDE DEF Counted
  <2>4. \/ \E step \in Steps \ Waiting : StepOf(step, req[w].op) /\ Moves(w, step)
        \/ \E s \in Statuses : Return(w, s)
    BY <1>0, <2>1, <2>2 DEF StepOf, Steps, Waiting, StageSteps, PublishSteps, UnpublishSteps, ImageSteps
  <2> QED BY <1>1, <1>2, <2>1, <2>3, <2>4 DEF ImageSteps, UnpublishSteps
<1>7. CASE Detect(w) \/ Mkfs(w)
  <2>1. pc[w] \in {"detect", "mkfs"}
    BY <1>7, Zenon DEF Detect, Mkfs, Provisioned
  <2>2. \/ Moves(w, "mkfs")
        \/ req[w].op = "stage" /\ Moves(w, "mountStaging")
        \/ req[w].op # "stage" /\ Moves(w, "check")
        \/ \E s \in Statuses : Return(w, s)
    BY <1>0, <1>7, <2>1, Zenon DEF Detect, Mkfs, Provisioned, Statuses, Moves
  <2>3. Counted
    BY <1>7, Zenon DEF Detect, Mkfs, Provisioned
  <2> HIDE DEF Counted
  <2>4. \/ \E step \in Steps \ Waiting : StepOf(step, req[w].op) /\ Moves(w, step)
        \/ \E s \in Statuses : Return(w, s)
    BY <1>0, <2>1, <2>2, Zenon DEF StepOf, Steps, Waiting, StageSteps, PublishSteps, UnpublishSteps,
                                   ImageSteps
  <2> QED BY <1>1, <1>2, <2>1, <2>3, <2>4, Zenon DEF ImageSteps, UnpublishSteps
<1>8. CASE MountStaging(w) \/ Configure(w) \/ UnmountStaging(w)
  <2>1. pc[w] \in {"mountStaging", "configure", "unmountStaging"}
    BY <1>8, Zenon DEF MountStaging, Configure, UnmountStaging
  <2>2. \/ pc[w] = "mountStaging" /\ Moves(w, "configure")
        \/ pc[w] = "configure" /\ req[w].op = "publish" /\ kind.kata /\ Moves(w, "image")
        \/ \E s \in Statuses : Return(w, s)
    BY <1>0, <1>8, <2>1, Zenon DEF MountStaging, Configure, UnmountStaging, Statuses, Moves
  <2>3. Counted
    BY <1>8, Zenon DEF MountStaging, Configure, UnmountStaging
  <2> HIDE DEF Counted
  <2>4. \/ \E step \in Steps \ Waiting : StepOf(step, req[w].op) /\ Moves(w, step)
        \/ \E s \in Statuses : Return(w, s)
    BY <1>0, <2>1, <2>2, Zenon DEF StepOf, Steps, Waiting, StageSteps, PublishSteps, UnpublishSteps,
                                   ImageSteps
  <2> QED BY <1>1, <1>2, <2>1, <2>3, <2>4, Zenon DEF ImageSteps, UnpublishSteps
<1>9. CASE Check(w) \/ MountHost(w) \/ MountTarget(w)
  <2>1. pc[w] \in {"check", "mountHost", "mountTarget"}
    BY <1>9, Zenon DEF Check, MountHost, MountTarget
  <2>2. \/ kind.kata /\ ~kind.block /\ Moves(w, "mountHost")
        \/ ~kind.kata /\ Moves(w, "mountTarget")
        \/ kind.eph /\ Moves(w, "configure")
        \/ pc[w] = "mountHost" /\ Moves(w, "image")
        \/ \E s \in Statuses : Return(w, s)
    BY <1>0, <1>9, <2>1, Zenon DEF Check, MountHost, MountTarget, Statuses, Moves, StepOf
  <2>3. Counted
    BY <1>9, Zenon DEF Check, MountHost, MountTarget
  <2> HIDE DEF Counted
  <2>4. \/ \E step \in Steps \ Waiting : StepOf(step, req[w].op) /\ Moves(w, step)
        \/ \E s \in Statuses : Return(w, s)
    BY <1>0, <2>1, <2>2, Zenon DEF StepOf, Steps, Waiting, StageSteps, PublishSteps, UnpublishSteps,
                                   ImageSteps
  <2> QED BY <1>1, <1>2, <2>1, <2>3, <2>4, Zenon DEF ImageSteps, UnpublishSteps
<1>10. CASE Image(w) \/ ImageCreate(w) \/ Attach(w) \/ MountImage(w)
  <2>1. pc[w] \in ImageSteps
    BY <1>10, Zenon DEF Image, ImageCreate, Attach, MountImage, ImageSteps
  <2>2. \/ \E step \in {"imageCreate", "attach", "mountImage"} : Moves(w, step)
        \/ \E s \in Statuses : Return(w, s)
    BY <1>0, <1>10, <2>1, Zenon DEF Image, ImageCreate, Attach, MountImage, ImageSteps, Statuses, Moves
  <2>3. Counted
    BY <1>10, Zenon DEF Image, ImageCreate, Attach, MountImage, ImageSteps
  <2> HIDE DEF Counted
  <2>4. \/ \E step \in Steps \ Waiting : StepOf(step, req[w].op) /\ Moves(w, step)
        \/ \E s \in Statuses : Return(w, s)
    BY <1>0, <2>1, <2>2, Zenon DEF StepOf, Steps, Waiting, StageSteps, PublishSteps, UnpublishSteps,
                                   ImageSteps
  <2> QED BY <1>1, <1>2, <2>1, <2>3, <2>4, Zenon DEF ImageSteps, UnpublishSteps
<1>11. CASE UnpublishLookup(w)
  <2>1. pc[w] = "lookup" /\ req[w].op = "unpublish"
    BY <1>11, Zenon DEF UnpublishLookup, Unmounted
  <2>2. \/ Moves(w, "unmountTarget")
        \/ kind.kata /\ Moves(w, "detach")
        \/ Moves(w, "rmTarget")
        \/ \E s \in Statuses : Return(w, s)
    BY <1>0, <1>11, <2>1, Zenon DEF UnpublishLookup, Unmounted, Statuses, Moves
  <2>3. Counted
    BY <1>11, Zenon DEF UnpublishLookup, Unmounted
  <2> HIDE DEF Counted
  <2>4. \/ \E step \in Steps \ Waiting : StepOf(step, req[w].op) /\ Moves(w, step)
        \/ \E s \in Statuses : Return(w, s)
    BY <1>0, <2>1, <2>2, Zenon DEF StepOf, Steps, Waiting, StageSteps, PublishSteps, UnpublishSteps,
                                   ImageSteps
  <2> QED BY <1>1, <1>2, <2>1, <2>3, <2>4, Zenon DEF ImageSteps, UnpublishSteps
<1>12. CASE UnmountTarget(w) \/ Detach(w) \/ UnmountHost(w) \/ RmTarget(w)
  <2>1. pc[w] \in UnpublishSteps
    BY <1>12, Zenon DEF UnmountTarget, Detach, UnmountHost, RmTarget, Unmounted, UnpublishSteps
  <2>2. \/ kind.kata /\ Moves(w, "detach")
        \/ kind.kata /\ Moves(w, "unmountHost")
        \/ Moves(w, "rmTarget")
        \/ kind.eph /\ Moves(w, "deleteVolume")
        \/ \E s \in Statuses : Return(w, s)
    BY <1>0, <1>12, <2>1, Zenon DEF UnmountTarget, Detach, UnmountHost, RmTarget, Unmounted,
                                    UnpublishSteps, Statuses, Moves, StepOf
  <2>3. Counted
    BY <1>12, Zenon DEF UnmountTarget, Detach, UnmountHost, RmTarget, Unmounted, UnpublishSteps
  <2> HIDE DEF Counted
  <2>4. \/ \E step \in Steps \ Waiting : StepOf(step, req[w].op) /\ Moves(w, step)
        \/ \E s \in Statuses : Return(w, s)
    BY <1>0, <2>1, <2>2, Zenon DEF StepOf, Steps, Waiting, StageSteps, PublishSteps, UnpublishSteps,
                                   ImageSteps
  <2> QED BY <1>1, <1>2, <2>1, <2>3, <2>4, Zenon DEF ImageSteps, UnpublishSteps
<1>13. CASE DeleteEphemeral(w)
  <2>1. pc[w] = "deleteVolume"
    BY <1>13, Zenon DEF DeleteEphemeral
  <2>2. \E s \in Statuses : Return(w, s)
    BY <1>0, <1>13, <2>1 DEF DeleteEphemeral, Statuses, Moves
  <2>3. Counted
    BY <1>13 DEF DeleteEphemeral
  <2> QED BY <1>1, <1>2, <2>1, <2>2, <2>3, Zenon
<1> QED BY <1>4, <1>5, <1>6, <1>7, <1>8, <1>9, <1>10, <1>11, <1>12, <1>13, Zenon DEF Step

-----------------------------------------------------------------------------
\* TypeOK, in two parts: the calls, and what is on disk or mounted.
CallType ==
    /\ pc \in [Workers -> Steps]
    /\ req \in [Workers -> Requests \cup {None}]
    /\ \A w \in Workers : req[w] = None <=> pc[w] = "idle"
    /\ status \in [Workers -> Statuses \cup {None}]
    /\ waited \in [Workers -> BOOLEAN]
    /\ staged \in {"no", "maybe", "yes"}
    /\ published \in [Targets -> {"no", "publishing", "yes", "unpublishing"}]
    /\ stopping \in BOOLEAN /\ late \in BOOLEAN

MountType ==
    /\ volume \in BOOLEAN /\ wiped \in BOOLEAN /\ configured \in BOOLEAN /\ staging \in BOOLEAN
    /\ fs \in {"none", "partial", "made"}
    /\ image \in {"none", "partial", "complete"}
    /\ loop \in {"none", "attached", "autoclear"}
    /\ host \in {"nothing", "fs", "dir"}
    /\ target \in [Targets -> {"nothing", "fs", "dir", "raw", "image"}]

\* The request of a call that runs.
LEMMA RequestOf ==
    ASSUME TypeOK, NEW w \in Workers, pc[w] # "idle"
    PROVE  /\ req[w] \in Requests /\ req[w] # None
           /\ req[w].op \in {"stage", "unstage", "publish", "unpublish"}
           /\ req[w].op \in {"publish", "unpublish"} => T(w) \in Targets
<1>1. req[w] \in Requests /\ req[w] # None
  BY DEF TypeOK
<1> QED BY <1>1 DEF Requests, T

\* A step that suits its call still does while the volume is the same: the
\* capability and the mount options of a request do not change.
LEMMA StepOfKept ==
    ASSUME kind' = kind, NEW v \in Workers, StepOf(pc'[v], req'[v].op)
    PROVE  StepOf(pc[v], req[v].op)'
BY DEF StepOf

\* A handler that goes on keeps the order of the calls.
LEMMA MovesInv ==
    ASSUME TypeOK, CallInv, NEW w \in Workers, pc[w] # "idle",
           NEW step \in Steps \ Waiting, StepOf(step, req[w].op), Moves(w, step)
    PROVE  CallType' /\ CallInv'
<1>1. /\ pc' \in [Workers -> Steps] /\ pc'[w] = step
      /\ \A v \in Workers : v # w => pc'[v] = pc[v]
      /\ step # "idle"
  BY Zenon DEF TypeOK, Moves, Steps, Waiting
<1>2. \A v \in Workers : pc'[v] = "idle" <=> pc[v] = "idle"
  BY <1>1
<1>3. /\ req' = req /\ status' = status /\ waited' = waited /\ kind' = kind
      /\ staged' = staged /\ published' = published /\ stopping' = stopping /\ late' = late
  BY Zenon DEF Moves, kubeletVars
<1>4. CallType'
  BY <1>1, <1>2, <1>3, Zenon DEF TypeOK, CallType
<1>5. \A v \in Workers : Active(v)' => StepOf(pc[v], req[v].op)'
  <2> SUFFICES ASSUME NEW v \in Workers, pc'[v] # "idle" PROVE StepOf(pc[v], req[v].op)'
    BY Zenon DEF Active
  <2>1. StepOf(pc'[v], req[v].op)
    BY <1>1, <1>2, Zenon DEF CallInv, Active
  <2> QED BY <1>3, <2>1, StepOfKept, Zenon
<1>6. CallInv'
  BY <1>2, <1>3, <1>5, Zenon DEF CallInv, Active, T
<1> QED BY <1>4, <1>6

\* What the kubelet learns when a call returns.
LEMMA ReturnLearns ==
    ASSUME TypeOK, NEW w \in Workers, pc[w] # "idle", NEW s \in Statuses, Return(w, s)
    PROVE  /\ \/ staged' = staged
              \/ s = "OK" /\ req[w].op = "stage" /\ staged' = "yes"
              \/ s = "OK" /\ req[w].op = "unstage" /\ staged' = "no"
           /\ \/ published' = published
              \/ /\ s = "OK" /\ req[w].op = "publish" /\ published[T(w)] = "publishing"
                 /\ published' = [published EXCEPT ![T(w)] = "yes"]
              \/ /\ s = "OK" /\ req[w].op = "unpublish"
                 /\ published' = [published EXCEPT ![T(w)] = "no"]
           /\ pc' = [pc EXCEPT ![w] = "idle"] /\ req' = [req EXCEPT ![w] = None]
           /\ status' = [status EXCEPT ![w] = s] /\ waited' = [waited EXCEPT ![w] = FALSE]
           /\ kind' = kind /\ stopping' = stopping /\ late' = late
  BY DEF Return

\* A handler that returns keeps the order of the calls.
LEMMA ReturnInv ==
    ASSUME TypeOK, CallInv, NEW w \in Workers, pc[w] # "idle", NEW s \in Statuses, Return(w, s)
    PROVE  CallType' /\ CallInv'
<1>1. /\ pc' = [pc EXCEPT ![w] = "idle"] /\ req' = [req EXCEPT ![w] = None]
      /\ status' = [status EXCEPT ![w] = s] /\ waited' = [waited EXCEPT ![w] = FALSE]
      /\ kind' = kind /\ stopping' = stopping /\ late' = late
  BY ReturnLearns
<1>2. /\ \/ staged' = staged
         \/ req[w].op = "stage" /\ staged' = "yes"
         \/ req[w].op = "unstage" /\ staged' = "no"
      /\ \/ published' = published
         \/ /\ req[w].op = "publish" /\ published[T(w)] = "publishing"
            /\ published' = [published EXCEPT ![T(w)] = "yes"]
         \/ req[w].op = "unpublish" /\ published' = [published EXCEPT ![T(w)] = "no"]
  BY ReturnLearns, Zenon
<1>3. /\ pc' \in [Workers -> Steps] /\ req' \in [Workers -> Requests \cup {None}]
      /\ status' \in [Workers -> Statuses \cup {None}] /\ waited' \in [Workers -> BOOLEAN]
  BY <1>1, Zenon DEF TypeOK, Steps
<1>4. /\ pc'[w] = "idle" /\ req'[w] = None
      /\ \A v \in Workers : v # w => pc'[v] = pc[v] /\ req'[v] = req[v]
  BY <1>1, Zenon DEF TypeOK
<1>5. /\ staged' \in {"no", "maybe", "yes"}
      /\ published' \in [Targets -> {"no", "publishing", "yes", "unpublishing"}]
  BY <1>2, Zenon DEF TypeOK
<1>6. \A v \in Workers : req'[v] = None <=> pc'[v] = "idle"
  BY <1>4 DEF TypeOK
<1>7. CallType'
  BY <1>1, <1>3, <1>5, <1>6 DEF TypeOK, CallType
<1>8. \A v \in Workers : pc'[v] # "idle" => v # w /\ pc[v] # "idle" /\ pc'[v] = pc[v] /\ req'[v] = req[v]
  BY <1>4, Zenon
<1>9. StepOf(pc[w], req[w].op) /\ req[w].op \in {"stage", "unstage", "publish", "unpublish"}
      /\ (req[w].op \in {"publish", "unpublish"} => T(w) \in Targets)
  BY RequestOf, Zenon DEF CallInv, Active
<1>10. \A v \in Workers : Active(v)' => StepOf(pc[v], req[v].op)'
  <2> SUFFICES ASSUME NEW v \in Workers, pc'[v] # "idle" PROVE StepOf(pc[v], req[v].op)'
    BY Zenon DEF Active
  <2>1. StepOf(pc'[v], req'[v].op)
    BY <1>8, Zenon DEF CallInv, Active
  <2> QED BY <1>1, <2>1, StepOfKept, Zenon
<1>11. kind.eph => staged' = "no"
  BY <1>2, <1>9, Zenon DEF CallInv, StepOf
<1>12. \A v \in Workers : pc[v] # "idle" /\ v # w /\ req[v].op = "unstage" => staged' # "yes"
  BY <1>2, Zenon DEF CallInv, Active
<1>13. \A v \in Workers : pc[v] # "idle" /\ v # w /\ req[v].op = "publish" /\ ~kind.eph => staged' = "yes"
  BY <1>2, Zenon DEF CallInv, Active
<1>14. \A v \in Workers : pc[v] # "idle" /\ req[v].op = "unpublish" => published'[T(v)] \in {"no", "unpublishing"}
  <2> SUFFICES ASSUME NEW v \in Workers, pc[v] # "idle", req[v].op = "unpublish"
               PROVE  published'[T(v)] \in {"no", "unpublishing"}
    BY Zenon
  <2>1. T(v) \in Targets /\ published[T(v)] \in {"no", "unpublishing"}
    BY RequestOf, Zenon DEF CallInv, Active
  <2> QED BY <1>2, <2>1, Zenon DEF TypeOK
<1>15. CallInv'
  <2>1. \A u, v \in Workers : Active(u)' /\ Active(v)' /\ req'[u].op \in {"stage", "unstage"}
                                => req'[v].op = req'[u].op
    <3>1. \A u, v \in Workers : pc[u] # "idle" /\ pc[v] # "idle" /\ req[u].op \in {"stage", "unstage"}
                                  => req[v].op = req[u].op
      BY Zenon DEF CallInv, Active
    <3> QED BY <1>8, <3>1, Zenon DEF Active
  <2>2. \A v \in Workers : Active(v)' /\ req'[v].op = "unstage" => staged' # "yes"
    BY <1>8, <1>12, Zenon DEF Active
  <2>3. \A v \in Workers : Active(v)' /\ req'[v].op = "publish" /\ ~kind.eph => staged' = "yes"
    BY <1>8, <1>13, Zenon DEF Active
  <2>4. \A v \in Workers : Active(v)' /\ req'[v].op = "unpublish"
                              => published'[req'[v].t] \in {"no", "unpublishing"}
    BY <1>8, <1>14, Zenon DEF Active, T
  <2> QED BY <1>1, <1>10, <1>11, <2>1, <2>2, <2>3, <2>4, Zenon DEF CallInv, T
<1> QED BY <1>7, <1>15

\* A new call: the kubelet does not mix stage and unstage with other calls.
LEMMA NewCall ==
    ASSUME TypeOK, CallInv, NEW w \in Workers, NEW r \in Requests, Call(w, r),
           staged' \in {"no", "maybe", "yes"},
           published' \in [Targets -> {"no", "publishing", "yes", "unpublishing"}],
           StepOf("start", r.op), kind.eph => staged' = "no",
           \A v \in Workers : pc[v] # "idle" =>
               /\ r.op \in {"stage", "unstage"} \/ req[v].op \in {"stage", "unstage"} => req[v].op = r.op
               /\ req[v].op = "unstage" => staged' # "yes"
               /\ req[v].op = "publish" /\ ~kind.eph => staged' = "yes"
               /\ req[v].op = "unpublish" => published'[T(v)] \in {"no", "unpublishing"},
           r.op = "unstage" => staged' # "yes",
           r.op = "publish" /\ ~kind.eph => staged' = "yes",
           r.op = "unpublish" => published'[r.t] \in {"no", "unpublishing"}
    PROVE  CallType' /\ CallInv'
<1>1. /\ pc' = [pc EXCEPT ![w] = "start"] /\ req' = [req EXCEPT ![w] = r] /\ pc[w] = "idle"
      /\ status' = [status EXCEPT ![w] = None] /\ waited' = [waited EXCEPT ![w] = TRUE]
      /\ kind' = kind /\ stopping' = stopping /\ late' = late
  BY Zenon DEF Call, Active
<1>2. /\ pc' \in [Workers -> Steps] /\ req' \in [Workers -> Requests \cup {None}]
      /\ status' \in [Workers -> Statuses \cup {None}] /\ waited' \in [Workers -> BOOLEAN]
  BY <1>1, Zenon DEF TypeOK, Steps
<1>3. /\ pc'[w] = "start" /\ req'[w] = r /\ r # None
      /\ \A v \in Workers : v # w => pc'[v] = pc[v] /\ req'[v] = req[v]
  BY <1>1, NodeServerAssumption, Zenon DEF TypeOK
<1>4. \A v \in Workers : req'[v] = None <=> pc'[v] = "idle"
  BY <1>3 DEF TypeOK
<1>5. CallType'
  BY <1>1, <1>2, <1>4, Zenon DEF TypeOK, CallType
<1>6. \A v \in Workers : pc'[v] # "idle" =>
        (v = w /\ req'[v] = r) \/ (v # w /\ pc[v] # "idle" /\ pc'[v] = pc[v] /\ req'[v] = req[v])
  BY <1>3, Zenon
<1>7. \A v \in Workers : Active(v)' => StepOf(pc[v], req[v].op)'
  <2> SUFFICES ASSUME NEW v \in Workers, pc'[v] # "idle" PROVE StepOf(pc[v], req[v].op)'
    BY Zenon DEF Active
  <2>1. StepOf(pc'[v], req'[v].op)
    BY <1>3, <1>6, Zenon DEF CallInv, Active
  <2> QED BY <1>1, <2>1, StepOfKept, Zenon
<1>8. CallInv'
  <2>1. \A u, v \in Workers : Active(u)' /\ Active(v)' /\ req'[u].op \in {"stage", "unstage"}
                                => req'[v].op = req'[u].op
    <3>1. \A u, v \in Workers : pc[u] # "idle" /\ pc[v] # "idle" /\ req[u].op \in {"stage", "unstage"}
                                  => req[v].op = req[u].op
      BY Zenon DEF CallInv, Active
    <3> SUFFICES ASSUME NEW u \in Workers, NEW v \in Workers, pc'[u] # "idle", pc'[v] # "idle",
                        req'[u].op \in {"stage", "unstage"}
                 PROVE  req'[v].op = req'[u].op
      BY Zenon DEF Active
    <3>2. CASE req'[u] = r /\ req'[v] = r
      BY <3>2, Zenon
    <3>3. CASE req'[u] = r /\ pc[v] # "idle" /\ req'[v] = req[v]
      BY <3>3, Zenon
    <3>4. CASE pc[u] # "idle" /\ req'[u] = req[u] /\ req'[v] = r
      BY <3>4, Zenon
    <3>5. CASE pc[u] # "idle" /\ req'[u] = req[u] /\ pc[v] # "idle" /\ req'[v] = req[v]
      BY <3>1, <3>5, Zenon
    <3> QED BY <1>6, <3>2, <3>3, <3>4, <3>5, Zenon
  <2>2. \A v \in Workers : Active(v)' /\ req'[v].op = "unstage" => staged' # "yes"
    BY <1>6, Zenon DEF Active
  <2>3. \A v \in Workers : Active(v)' /\ req'[v].op = "publish" /\ ~kind.eph => staged' = "yes"
    BY <1>6, Zenon DEF Active
  <2>4. \A v \in Workers : Active(v)' /\ req'[v].op = "unpublish"
                              => published'[req'[v].t] \in {"no", "unpublishing"}
    BY <1>6, Zenon DEF Active, T
  <2> QED BY <1>1, <1>7, <2>1, <2>2, <2>3, <2>4, Zenon DEF CallInv, T
<1> QED BY <1>5, <1>8

\* The calls of the kubelet.
LEMMA KubeletCalls ==
    ASSUME TypeOK, CallInv, NEW w \in Workers,
           CallStage(w) \/ CallUnstage(w) \/ \E t \in Targets : CallPublish(w, t) \/ CallUnpublish(w, t)
    PROVE  CallType' /\ CallInv'
<1>0. /\ staged \in {"no", "maybe", "yes"}
      /\ published \in [Targets -> {"no", "publishing", "yes", "unpublishing"}]
  BY DEF TypeOK
<1>1. CASE CallStage(w)
  <2> DEFINE r == [op |-> "stage", t |-> None]
  <2>1. /\ Call(w, r) /\ ~kind.eph /\ staged' = "maybe" /\ published' = published
        /\ \A v \in Workers : pc[v] # "idle" => req[v].op = "stage"
    BY <1>1, Zenon DEF CallStage, OnlyRunning, Active
  <2>2. r \in Requests /\ r.op = "stage" /\ StepOf("start", r.op)
    BY <2>1, Zenon DEF Requests, StepOf, PublishSteps, UnpublishSteps, ImageSteps
  <2> HIDE DEF r
  <2> QED BY <1>0, <2>1, <2>2, NewCall
<1>2. CASE CallUnstage(w)
  <2> DEFINE r == [op |-> "unstage", t |-> None]
  <2>1. /\ Call(w, r) /\ ~kind.eph /\ staged' = "maybe" /\ published' = published
        /\ \A v \in Workers : pc[v] # "idle" => req[v].op = "unstage"
    BY <1>2, Zenon DEF CallUnstage, OnlyRunning, Active, CallInv
  <2>2. r \in Requests /\ r.op = "unstage" /\ StepOf("start", r.op)
    BY <2>1, Zenon DEF Requests, StepOf, PublishSteps, UnpublishSteps, ImageSteps
  <2> HIDE DEF r
  <2> QED BY <1>0, <2>1, <2>2, NewCall, Zenon
<1>3. ASSUME NEW t \in Targets, CallPublish(w, t)
      PROVE  CallType' /\ CallInv'
  <2> DEFINE r == [op |-> "publish", t |-> t]
  <2>1. /\ Call(w, r) /\ (~kind.eph => staged = "yes") /\ staged' = staged
        /\ published' = IF published[t] = "no" THEN [published EXCEPT ![t] = "publishing"] ELSE published
        /\ published[t] = "no" => \A v \in Workers : pc[v] # "idle" => T(v) # t
        /\ \A v \in Workers : pc[v] # "idle" => req[v].op \in {"publish", "unpublish"}
    BY <1>3, Zenon DEF CallPublish, OnlyRunning, Active, Fresh
  <2>2. r \in Requests /\ r.op = "publish" /\ StepOf("start", r.op)
    BY <2>1, Zenon DEF Requests, StepOf, PublishSteps, UnpublishSteps, ImageSteps
  <2>3. published' \in [Targets -> {"no", "publishing", "yes", "unpublishing"}]
    BY <1>0, <2>1, Zenon
  <2>4. \A v \in Workers : pc[v] # "idle" /\ req[v].op = "unpublish"
                             => published'[T(v)] \in {"no", "unpublishing"}
    <3> SUFFICES ASSUME NEW v \in Workers, pc[v] # "idle", req[v].op = "unpublish"
                 PROVE  published'[T(v)] \in {"no", "unpublishing"}
      BY Zenon
    <3>1. T(v) \in Targets /\ published[T(v)] \in {"no", "unpublishing"}
      BY RequestOf, Zenon DEF CallInv, Active
    <3> QED BY <1>0, <2>1, <3>1, Zenon
  <2>5. kind.eph => staged' = "no"
    BY <2>1, Zenon DEF CallInv
  <2> HIDE DEF r
  <2> QED BY <1>0, <2>1, <2>2, <2>3, <2>4, <2>5, NewCall, Zenon
<1>4. ASSUME NEW t \in Targets, CallUnpublish(w, t)
      PROVE  CallType' /\ CallInv'
  <2> DEFINE r == [op |-> "unpublish", t |-> t]
  <2>1. /\ Call(w, r) /\ staged' = staged
        /\ published' = [published EXCEPT ![t] = "unpublishing"]
        /\ \A v \in Workers : pc[v] # "idle" => req[v].op \in {"publish", "unpublish"}
    BY <1>4, Zenon DEF CallUnpublish, OnlyRunning, Active
  <2>2. r \in Requests /\ r.op = "unpublish" /\ r.t = t /\ StepOf("start", r.op)
    BY <2>1, Zenon DEF Requests, StepOf, PublishSteps, UnpublishSteps, ImageSteps
  <2>3. published' \in [Targets -> {"no", "publishing", "yes", "unpublishing"}]
        /\ published'[t] = "unpublishing"
    BY <1>0, <2>1, Zenon
  <2>4. \A v \in Workers : pc[v] # "idle" /\ req[v].op = "unpublish"
                             => published'[T(v)] \in {"no", "unpublishing"}
    <3> SUFFICES ASSUME NEW v \in Workers, pc[v] # "idle", req[v].op = "unpublish"
                 PROVE  published'[T(v)] \in {"no", "unpublishing"}
      OBVIOUS
    <3>1. T(v) \in Targets /\ published[T(v)] \in {"no", "unpublishing"}
      BY RequestOf DEF CallInv, Active
    <3> QED BY <1>0, <2>1, <3>1, Zenon
  <2>5. /\ kind.eph => staged' = "no"
        /\ \A v \in Workers : pc[v] # "idle" /\ req[v].op = "publish" /\ ~kind.eph => staged' = "yes"
    BY <2>1, Zenon DEF CallInv, Active
  <2> HIDE DEF r
  <2> QED BY <1>0, <2>1, <2>2, <2>3, <2>4, <2>5, NewCall, Zenon
<1> QED BY <1>1, <1>2, <1>3, <1>4

-----------------------------------------------------------------------------
\* What a step promises about the mounts, for the handler that takes it.
Kept(w) == MountType' /\ MountInv' /\ BeliefInv' /\ StepReady(w)'

KindType == kind \in VolumeKinds /\ ~(kind.block /\ (kind.eph \/ kind.xfs))

\* A raw block volume is persistent and has no filesystem.
LEMMA KindTyped ==
    ASSUME TypeOK
    PROVE  KindType /\ kind.eph \in BOOLEAN /\ kind.kata \in BOOLEAN /\ kind.block \in BOOLEAN
                    /\ kind.xfs \in BOOLEAN
  BY NodeServerAssumption DEF TypeOK, KindType, VolumeKinds

\* A step that only makes the device more complete keeps all mounts backed.
LEMMA MountFrame ==
    ASSUME MountInv, kind' = kind, UNCHANGED <<loop, staging, host, target, image>>,
           Mountable => Mountable'
    PROVE  MountInv'
<1>1. Expected' = Expected /\ (ImageMounted(Targets)' <=> ImageMounted(Targets))
  BY Zenon DEF Expected, ImageMounted
<1> QED BY <1>1 DEF MountInv, MountsBacked

\* What the kubelet believes stays true when a step does not undo anything that
\* is in use, and when a call returns OK only after it has done its work.
LEMMA BeliefKept ==
    ASSUME TypeOK, CallInv, MountInv, BeliefInv, NEW w \in Workers, pc[w] # "idle", kind' = kind,
           staging => staging' \/ req[w].op = "unstage",
           configured => configured',
           image = "complete" => image' = "complete",
           \A t \in Targets : published[t] = "yes" => target'[t] = target[t],
           \/ staged' \in {staged, "no"}
           \/ staged' = "yes" /\ (kind.block \/ (staging' /\ (kind.xfs => configured'))),
           \/ published' = published
           \/ req[w].op = "unpublish" /\ published' = [published EXCEPT ![T(w)] = "no"]
           \/ /\ req[w].op = "publish" /\ published' = [published EXCEPT ![T(w)] = "yes"]
              /\ target'[T(w)] = Expected /\ (target'[T(w)] = "image" => image' = "complete")
    PROVE  BeliefInv'
<1>1. staged' = "yes" /\ ~kind.block => staging' /\ (kind.xfs => configured')
  BY Zenon DEF BeliefInv, CallInv, Active
<1>2. Expected' = Expected
  BY Zenon DEF Expected
<1>3. KindType /\ published \in [Targets -> {"no", "publishing", "yes", "unpublishing"}]
  BY KindTyped, Zenon DEF TypeOK
<1>4. req[w].op \in {"publish", "unpublish"} => T(w) \in Targets
  BY RequestOf, Zenon
<1>5. ASSUME NEW t \in Targets, published'[t] = "yes"
      PROVE  /\ target'[t] = Expected /\ (target'[t] = "image" => image' = "complete")
             /\ kind.xfs /\ ~kind.eph => configured'
  <2>1. CASE published[t] = "yes"
    BY <1>5, <2>1, Zenon DEF BeliefInv, PublishSound
  <2>2. CASE published[t] # "yes"
    <3>1. /\ req[w].op = "publish" /\ t = T(w)
          /\ target'[t] = Expected /\ (target'[t] = "image" => image' = "complete")
      BY <1>3, <1>4, <1>5, <2>2, Zenon
    <3>2. kind.xfs /\ ~kind.eph => staged = "yes" /\ ~kind.block
      BY <1>3, <3>1, Zenon DEF CallInv, Active, KindType
    <3>3. kind.xfs /\ ~kind.eph => configured'
      BY <3>2, Zenon DEF BeliefInv
    <3> QED BY <3>1, <3>3, Zenon
  <2> QED BY <2>1, <2>2, Zenon
<1> QED BY <1>1, <1>2, <1>5, Zenon DEF BeliefInv, PublishSound

\* A handler goes on, or returns without success.
LEMMA BeliefQuiet ==
    ASSUME TypeOK, CallInv, MountInv, BeliefInv, NEW w \in Workers, pc[w] # "idle", kind' = kind,
           (\E step : Moves(w, step)) \/ (\E s \in Statuses \ {"OK"} : Return(w, s)),
           staging => staging' \/ req[w].op = "unstage",
           configured => configured',
           image = "complete" => image' = "complete",
           \A t \in Targets : published[t] = "yes" => target'[t] = target[t]
    PROVE  BeliefInv'
<1>1. CASE \E step : Moves(w, step)
  <2>1. staged' = staged /\ published' = published
    BY <1>1, Zenon DEF Moves, kubeletVars
  <2> QED BY <2>1, BeliefKept, Zenon
<1>2. CASE \E s \in Statuses \ {"OK"} : Return(w, s)
  <2>1. staged' = staged /\ published' = published
    BY <1>2, ReturnLearns, Zenon
  <2> QED BY <2>1, BeliefKept
<1> QED BY <1>1, <1>2, Zenon

\* The call is over.
LEMMA ReadyIdle ==
    ASSUME TypeOK, NEW w \in Workers, NEW s, Return(w, s)
    PROVE  StepReady(w)'
<1>1. pc'[w] = "idle"
  BY Zenon DEF Return, TypeOK
<1> QED BY <1>1, Zenon DEF StepReady, ImageSteps

\* Steps that need nothing in particular.
LEMMA ReadyFree ==
    ASSUME TypeOK, NEW w \in Workers,
           NEW step \in {"lookup", "detect", "mkfs", "mountStaging", "unmountStaging", "check", "mountHost",
                         "mountTarget", "unmountTarget", "detach", "unmountHost"},
           Moves(w, step)
    PROVE  StepReady(w)'
<1>1. pc'[w] = step
  BY DEF Moves, TypeOK
<1> QED BY <1>1, Zenon DEF StepReady, ImageSteps

\* Steps that only look: the start of all calls, and the checks in between.
LEMMA LookingKept ==
    ASSUME ServerInv, NEW w \in Workers,
           StageBlock(w) \/ StageLookup(w) \/ UnstageLookup(w) \/ PublishLookup(w) \/ Check(w)
               \/ UnpublishLookup(w) \/ RmTarget(w)
    PROVE  Kept(w)
<1> USE DEF Goto, Done, Fail, Fault, At
<1>0. TypeOK /\ CallInv /\ MountInv /\ BeliefInv /\ StepReady(w)
  BY Zenon DEF ServerInv
<1>1. /\ pc[w] # "idle" /\ kind' = kind /\ UNCHANGED <<diskVars, kernelVars>>
  BY Zenon DEF StageBlock, StageLookup, UnstageLookup, PublishLookup, Lookup, Check,
               UnpublishLookup, RmTarget, Return
<1>2. MountType' /\ MountInv'
  <2>1. MountType'
    BY <1>0, <1>1 DEF TypeOK, MountType, diskVars, kernelVars
  <2>2. Mountable => Mountable'
    BY <1>1, Zenon DEF Mountable, diskVars
  <2> QED BY <1>0, <1>1, <2>1, <2>2, MountFrame, Zenon DEF diskVars, kernelVars
<1>3. /\ staging => staging' \/ req[w].op = "unstage"
      /\ configured => configured'
      /\ image = "complete" => image' = "complete"
      /\ \A t \in Targets : published[t] = "yes" => target'[t] = target[t]
  BY <1>1, Zenon DEF diskVars, kernelVars
<1>4. CASE StageBlock(w)
  <2>1. Return(w, "OK") /\ req[w].op = "stage" /\ kind.block
    BY <1>4, Zenon DEF StageBlock
  <2>2. (staged' = staged \/ staged' = "yes") /\ published' = published
    BY <1>0, <1>1, <2>1, ReturnLearns, Zenon DEF Statuses
  <2> QED BY <1>0, <1>1, <1>2, <1>3, <2>1, <2>2, BeliefKept, ReadyIdle, Zenon DEF Kept
<1>5. CASE StageLookup(w) \/ UnstageLookup(w) \/ PublishLookup(w)
  <2>1. (\E step \in {"detect", "unmountStaging", "check"} : Moves(w, step))
          \/ (\E s \in {"NotFound", "Internal"} : Return(w, s))
    BY <1>5, Zenon DEF StageLookup, UnstageLookup, PublishLookup, Lookup, Moves
  <2>2. BeliefInv'
    BY <1>0, <1>1, <1>3, <2>1, BeliefQuiet, Zenon DEF Statuses
  <2> QED BY <1>0, <1>2, <2>1, <2>2, ReadyIdle, ReadyFree, Zenon DEF Kept
<1>6. CASE Check(w)
  <2>1. \/ \E step \in {"mountHost", "mountTarget"} : Moves(w, step)
        \/ \E s \in Statuses \ {"OK"} : Return(w, s)
        \/ target[T(w)] # "nothing" /\ Return(w, "OK")
    BY <1>6, Zenon DEF Check, Moves, Statuses
  <2>2. CASE target[T(w)] # "nothing" /\ Return(w, "OK")
    <3>1. req[w].op = "publish" /\ T(w) \in Targets
      BY <1>0, <1>1, <1>6, RequestOf, Zenon DEF Check, CallInv, Active, StepOf, PublishSteps
    <3>2. /\ target'[T(w)] = Expected /\ (target'[T(w)] = "image" => image' = "complete")
      BY <1>0, <1>1, <2>2, <3>1, Zenon DEF MountInv, ImageMounted, diskVars, kernelVars
    <3>3. staged' = staged /\ (published' = published \/ published' = [published EXCEPT ![T(w)] = "yes"])
      BY <1>0, <1>1, <2>2, <3>1, ReturnLearns, Zenon DEF Statuses
    <3> QED BY <1>0, <1>1, <1>2, <1>3, <2>2, <3>1, <3>2, <3>3, BeliefKept, ReadyIdle, Zenon DEF Kept
  <2>3. CASE \/ \E step \in {"mountHost", "mountTarget"} : Moves(w, step)
             \/ \E s \in Statuses \ {"OK"} : Return(w, s)
    BY <1>0, <1>1, <1>2, <1>3, <2>3, BeliefQuiet, ReadyIdle, ReadyFree DEF Kept
  <2> QED BY <2>1, <2>2, <2>3, Zenon
<1>7. CASE UnpublishLookup(w) \/ RmTarget(w)
  <2>1. \/ \E step \in {"unmountTarget", "detach", "rmTarget", "deleteVolume"} : Moves(w, step)
        \/ \E s \in Statuses : Return(w, s)
    BY <1>7, Zenon DEF UnpublishLookup, RmTarget, Unmounted, Moves, Statuses
  <2>2. req[w].op = "unpublish"
    BY <1>0, <1>1, <1>7, Zenon DEF UnpublishLookup, RmTarget, CallInv, Active, StepOf, UnpublishSteps
  <2>3. /\ staged' = staged
        /\ published' = published \/ published' = [published EXCEPT ![T(w)] = "no"]
    BY <1>0, <1>1, <2>1, <2>2, ReturnLearns, Zenon DEF Moves, kubeletVars
  <2>4. BeliefInv'
    BY <1>0, <1>1, <1>3, <2>2, <2>3, BeliefKept, Zenon
  <2>5. StepReady(w)'
    <3>1. CASE Moves(w, "deleteVolume")
      <4>1. pc[w] = "rmTarget" /\ target[T(w)] = "nothing" /\ pc'[w] = "deleteVolume" /\ req' = req
        BY <1>0, <1>7, <3>1, Zenon DEF UnpublishLookup, RmTarget, Unmounted, Moves, Return, TypeOK
      <4> QED BY <1>0, <1>1, <4>1, Zenon DEF StepReady, ImageSteps, kernelVars, T
    <3>2. CASE Moves(w, "rmTarget")
      <4>1. ~kind.kata /\ pc'[w] = "rmTarget"
        BY <1>0, <1>7, <3>2, Zenon DEF UnpublishLookup, RmTarget, Unmounted, Moves, Return, TypeOK
      <4> QED BY <1>1, <4>1, Zenon DEF StepReady, ImageSteps
    <3> QED BY <1>0, <2>1, <3>1, <3>2, ReadyIdle, ReadyFree, Zenon
  <2> QED BY <1>2, <2>4, <2>5, Zenon DEF Kept
<1> QED BY <1>4, <1>5, <1>6, <1>7

\* The device: a filesystem that is mounted is never made again.
LEMMA DeviceKept ==
    ASSUME ServerInv, NEW w \in Workers, CreateEphemeral(w) \/ Detect(w) \/ Mkfs(w)
    PROVE  Kept(w)
<1> USE DEF Goto, Done, Fail, Fault, At
<1>0. TypeOK /\ CallInv /\ MountInv /\ BeliefInv /\ StepReady(w)
  BY DEF ServerInv
<1>1. /\ pc[w] # "idle" /\ image' = image /\ configured' = configured /\ wiped' = wiped
      /\ UNCHANGED kernelVars
  BY Zenon DEF CreateEphemeral, Detect, Mkfs
<1>2. /\ volume' \in {volume, TRUE} /\ fs' \in {fs, "partial", "made"}
      /\ Mountable => Mountable'
  <2>1. CASE CreateEphemeral(w)
    <3>1. (volume' = TRUE \/ volume' = volume) /\ fs' = fs
      BY <2>1, Zenon DEF CreateEphemeral
    <3>2. volume => volume'
      BY <3>1, Zenon
    <3>3. volume' \in {volume, TRUE} /\ fs' \in {fs, "partial", "made"}
      BY <3>1, Zenon
    <3> QED BY <3>1, <3>2, <3>3, Zenon DEF Mountable
  <2>2. CASE Detect(w)
    BY <2>2, Zenon DEF Detect, Mountable
  <2>3. CASE Mkfs(w)
    BY <2>3, Zenon DEF Mkfs, Mountable
  <2> QED BY <2>1, <2>2, <2>3, Zenon
<1>3. (\E step \in {"detect", "mkfs", "mountStaging", "check"} : Moves(w, step)) \/ Return(w, "Internal")
  BY Zenon DEF CreateEphemeral, Detect, Mkfs, Moves, Provisioned
<1>4. kind' = kind
  BY <1>3, Zenon DEF Moves, Return
<1>5. MountType'
  BY <1>0, <1>1, <1>2, ZenonT(30) DEF TypeOK, MountType, kernelVars
<1>6. MountInv'
  BY <1>0, <1>1, <1>2, <1>4, MountFrame DEF kernelVars
<1>7. BeliefInv'
  <2>1. \A t \in Targets : published[t] = "yes" => target'[t] = target[t]
    BY <1>1 DEF kernelVars
  <2> QED BY <1>0, <1>1, <1>3, <1>4, <2>1, BeliefQuiet DEF Statuses, kernelVars
<1>8. StepReady(w)'
  BY <1>0, <1>3, ReadyIdle, ReadyFree
<1> QED BY <1>5, <1>6, <1>7, <1>8 DEF Kept

\* The staging path: NodeStageVolume returns OK only when the filesystem is
\* mounted there, and configured if it is xfs.
LEMMA StagingKept ==
    ASSUME ServerInv, NEW w \in Workers, MountStaging(w) \/ UnmountStaging(w)
    PROVE  Kept(w)
<1> USE DEF Goto, Done, Fail, Fault, At
<1>0. TypeOK /\ CallInv /\ MountInv /\ BeliefInv /\ StepReady(w)
  BY DEF ServerInv
<1>1. /\ pc[w] # "idle" /\ UNCHANGED <<diskVars, loop, host, target>>
  BY DEF MountStaging, UnmountStaging
<1>2. \/ staging' = staging
      \/ staging' = TRUE /\ Mountable
      \/ staging' = FALSE /\ pc[w] = "unmountStaging"
  BY <1>0 DEF MountStaging, UnmountStaging, MountInv, MountsBacked
<1>3. \/ Moves(w, "configure") /\ staging' = TRUE /\ req[w].op = "stage" /\ kind.xfs
      \/ Return(w, "Internal")
      \/ Return(w, "OK") /\ req[w].op = "stage" /\ staging' = TRUE /\ ~kind.xfs
      \/ Return(w, "OK") /\ req[w].op = "unstage"
  BY <1>0, <1>1, Zenon DEF MountStaging, UnmountStaging, Moves, CallInv, Active, StepOf
<1>4. kind' = kind
  BY <1>3, Zenon DEF Moves, Return
<1>5. MountType'
  BY <1>0, <1>1, <1>2, ZenonT(30) DEF TypeOK, MountType, diskVars
<1>6. MountInv'
  <2>1. /\ Expected' = Expected /\ (ImageMounted(Targets)' <=> ImageMounted(Targets))
        /\ Mountable' = Mountable
    BY <1>1, <1>4 DEF Expected, ImageMounted, Mountable, diskVars
  <2> QED BY <1>0, <1>1, <1>2, <2>1 DEF MountInv, MountsBacked, diskVars
<1>7. BeliefInv'
  <2>1. /\ configured => configured'
        /\ image = "complete" => image' = "complete"
        /\ \A t \in Targets : published[t] = "yes" => target'[t] = target[t]
    BY <1>1 DEF diskVars
  <2>2. staging => staging' \/ req[w].op = "unstage"
    BY <1>0, <1>1, <1>2, Zenon DEF CallInv, Active, StepOf
  <2>3. /\ published' = published
        /\ \/ staged' \in {staged, "no"}
           \/ staged' = "yes" /\ staging' /\ ~kind.xfs
    BY <1>0, <1>1, <1>3, ReturnLearns DEF Moves, kubeletVars, Statuses
  <2> QED BY <1>0, <1>1, <1>4, <2>1, <2>2, <2>3, BeliefKept
<1>8. StepReady(w)'
  <2>1. CASE Moves(w, "configure") /\ staging' = TRUE /\ req[w].op = "stage"
    <3>1. pc'[w] = "configure" /\ req' = req
      BY <1>0, <2>1 DEF Moves, TypeOK
    <3> QED BY <2>1, <3>1, Zenon DEF StepReady, ImageSteps
  <2> QED BY <1>0, <1>3, <2>1, ReadyIdle, Zenon
<1> QED BY <1>5, <1>6, <1>7, <1>8 DEF Kept

\* xfs.ConfigureFS
LEMMA ConfigureKept ==
    ASSUME ServerInv, NEW w \in Workers, Configure(w)
    PROVE  Kept(w)
<1> USE DEF Goto, Done, Fail, Fault, At
<1>0. TypeOK /\ CallInv /\ MountInv /\ BeliefInv /\ StepReady(w)
  BY Zenon DEF ServerInv
<1>1. /\ pc[w] = "configure" /\ UNCHANGED <<volume, fs, wiped, image, kernelVars>>
      /\ configured' \in {configured, TRUE}
  BY Zenon DEF Configure
<1>2. \/ Moves(w, "image") /\ req[w].op = "publish" /\ kind.kata
      \/ Return(w, "Internal")
      \/ Return(w, "OK") /\ configured' = TRUE /\ ~(req[w].op = "publish" /\ kind.kata)
  BY DEF Configure, Moves
<1>3. kind' = kind
  BY <1>2 DEF Moves, Return
<1>4. /\ req[w].op = "stage" => staging
      /\ req[w].op # "stage" => /\ req[w].op = "publish" /\ kind.eph
                                /\ IF kind.kata THEN host = "fs" ELSE target[T(w)] = "fs"
  BY <1>0, <1>1, Zenon DEF StepReady, CallInv, Active, StepOf
<1>5. MountType'
  BY <1>0, <1>1, Zenon DEF TypeOK, MountType, kernelVars
<1>6. MountInv'
  <2>1. Mountable => Mountable'
    BY <1>1 DEF Mountable
  <2> QED BY <1>0, <1>1, <1>3, <2>1, MountFrame DEF kernelVars
<1>7. BeliefInv'
  <2>1. /\ staging' = staging
        /\ image = "complete" => image' = "complete"
        /\ \A t \in Targets : published[t] = "yes" => target'[t] = target[t]
    BY <1>1 DEF kernelVars
  <2>0. configured => configured'
    <3>1. configured' = configured \/ configured' = TRUE
      BY <1>1, Zenon
    <3> QED BY <3>1, Zenon
  <2>2. \/ staged' = staged
        \/ staged' = "yes" /\ staging' /\ configured'
    <3>1. CASE Return(w, "OK") /\ configured' = TRUE
      <4>1. staged' = staged \/ (req[w].op = "stage" /\ staged' = "yes")
        BY <1>0, <1>1, <1>4, <3>1, ReturnLearns DEF Statuses
      <4> QED BY <1>4, <2>1, <3>1, <4>1
    <3>2. CASE Return(w, "Internal")
      BY <1>0, <1>1, <3>2, ReturnLearns, Zenon DEF Statuses
    <3> QED BY <1>2, <3>1, <3>2, Zenon DEF Moves, kubeletVars
  <2>3. \/ published' = published
        \/ /\ req[w].op = "publish" /\ published' = [published EXCEPT ![T(w)] = "yes"] /\ ~kind.kata
    BY <1>0, <1>1, <1>2, <1>4, ReturnLearns, Zenon DEF Moves, kubeletVars, Statuses
  <2>4. req[w].op = "publish" /\ ~kind.kata => target'[T(w)] = Expected /\ target'[T(w)] # "image"
    BY <1>0, <1>1, <1>4, KindTyped, Zenon DEF Expected, kernelVars, KindType
  <2> QED BY <1>0, <1>1, <1>3, <2>0, <2>1, <2>2, <2>3, <2>4, BeliefKept
<1>8. StepReady(w)'
  <2>1. CASE Moves(w, "image") /\ req[w].op = "publish" /\ kind.kata
    <3>1. pc'[w] = "image" /\ host' = "fs"
      BY <1>0, <1>1, <1>4, <2>1, Zenon DEF Moves, TypeOK, kernelVars
    <3> QED BY <2>1, <3>1, Zenon DEF StepReady, ImageSteps
  <2> QED BY <1>0, <1>2, <2>1, ReadyIdle, Zenon
<1> QED BY <1>5, <1>6, <1>7, <1>8 DEF Kept

\* What NodePublishVolume mounts from is the filesystem, because the kubelet
\* publishes a persistent volume only while it is staged.
LEMMA SourceStaged ==
    ASSUME TypeOK, CallInv, MountInv, BeliefInv, NEW w \in Workers, pc[w] # "idle",
           req[w].op = "publish", ~kind.block
    PROVE  Source = "fs" /\ (~kind.eph => Mountable)
<1>1. ~kind.eph => staged = "yes"
  BY Zenon DEF CallInv, Active
<1>2. ~kind.eph => staging
  BY <1>1 DEF BeliefInv
<1> QED BY <1>2, Zenon DEF Source, MountInv, MountsBacked

\* The driver's own mount.
LEMMA MountHostKept ==
    ASSUME ServerInv, NEW w \in Workers, MountHost(w)
    PROVE  Kept(w)
<1> USE DEF Goto, Done, Fail, Fault
<1>0. TypeOK /\ CallInv /\ MountInv /\ BeliefInv
  BY Zenon DEF ServerInv
<1>1. /\ pc[w] = "mountHost" /\ UNCHANGED <<diskVars, loop, staging, target>>
  BY Zenon DEF MountHost
<1>2. req[w].op = "publish" /\ kind.kata /\ ~kind.block
  BY <1>0, <1>1, Zenon DEF CallInv, Active, StepOf, PublishSteps
<1>3. Source = "fs" /\ (~kind.eph => Mountable)
  BY <1>0, <1>1, <1>2, SourceStaged, Zenon
<1>4. \/ /\ host' = "fs" /\ Mountable
         /\ (Moves(w, "configure") /\ kind.eph) \/ Moves(w, "image")
      \/ host' = host /\ Return(w, "Internal")
  <2>1. host \in {"nothing", "fs"} /\ (host = "fs" => Mountable)
    BY <1>0, Zenon DEF TypeOK, MountInv, MountsBacked
  <2> QED BY <1>3, <2>1, Zenon DEF MountHost, Moves
<1>5. kind' = kind
  BY <1>4, Zenon DEF Moves, Return
<1>6. MountType'
  BY <1>0, <1>1, <1>4 DEF TypeOK, MountType, diskVars
<1>7. MountInv'
  <2>1. /\ Expected' = Expected /\ (ImageMounted(Targets)' <=> ImageMounted(Targets))
        /\ Mountable' = Mountable
    BY <1>1, <1>5 DEF Expected, ImageMounted, Mountable, diskVars
  <2>2. host' = host \/ (host' = "fs" /\ Mountable)
    BY <1>4, Zenon
  <2> QED BY <1>0, <1>1, <2>1, <2>2, Zenon DEF MountInv, MountsBacked, diskVars
<1>8. BeliefInv'
  <2>1. /\ staging' = staging /\ configured' = configured /\ image' = image /\ target' = target
    BY <1>1 DEF diskVars
  <2>2. (\E step : Moves(w, step)) \/ (\E s \in Statuses \ {"OK"} : Return(w, s))
    BY <1>4 DEF Statuses
  <2> QED BY <1>0, <1>1, <1>5, <2>1, <2>2, BeliefQuiet
<1>9. StepReady(w)'
  <2>1. CASE host' = "fs" /\ (Moves(w, "configure") \/ Moves(w, "image"))
    <3>1. pc'[w] \in {"configure", "image"} /\ req' = req /\ kind' = kind
      BY <1>0, <2>1, Zenon DEF Moves, TypeOK
    <3> QED BY <1>2, <2>1, <3>1, Zenon DEF StepReady, ImageSteps
  <2> QED BY <1>0, <1>4, <2>1, ReadyIdle, Zenon
<1> QED BY <1>6, <1>7, <1>8, <1>9 DEF Kept

\* The target path gets what the application expects.
LEMMA MountTargetKept ==
    ASSUME ServerInv, NEW w \in Workers, MountTarget(w)
    PROVE  Kept(w)
<1> USE DEF Goto, Done, Fail, Fault
<1>0. TypeOK /\ CallInv /\ MountInv /\ BeliefInv
  BY DEF ServerInv
<1>1. /\ pc[w] = "mountTarget" /\ UNCHANGED <<diskVars, loop, staging, host>>
  BY Zenon DEF MountTarget
<1>2. req[w].op = "publish" /\ ~kind.kata /\ T(w) \in Targets
  BY <1>0, <1>1, RequestOf, Zenon DEF CallInv, Active, StepOf, PublishSteps
<1>3. ~kind.block => Source = "fs" /\ (~kind.eph => Mountable)
  BY <1>0, <1>1, <1>2, SourceStaged, Zenon
<1>4. Expected \in {"raw", "fs"} /\ (kind.block <=> Expected = "raw")
  BY <1>2, Zenon DEF Expected
<1>5. \/ /\ target[T(w)] = "nothing" /\ target' = [target EXCEPT ![T(w)] = Expected]
         /\ ~kind.block => Mountable
         /\ (Moves(w, "configure") /\ kind.eph) \/ Return(w, "OK")
      \/ target' = target /\ Return(w, "Internal")
      \/ target' = target /\ target[T(w)] # "nothing" /\ Return(w, "OK")
  <2>1. ~kind.block => Expected = "fs"
    BY <1>4
  <2>2. kind.block => Expected = "raw"
    BY <1>4, Zenon
  <2> QED BY <1>3, <2>1, <2>2 DEF MountTarget, Moves
<1>6. kind' = kind
  BY <1>5, Zenon DEF Moves, Return
<1>7. target \in [Targets -> {"nothing", "fs", "dir", "raw", "image"}]
  BY <1>0, Zenon DEF TypeOK
<1>8. MountType'
  <2>1. target' \in [Targets -> {"nothing", "fs", "dir", "raw", "image"}]
    BY <1>4, <1>5, <1>7, Zenon
  <2> QED BY <1>0, <1>1, <2>1 DEF TypeOK, MountType, diskVars
<1>9. \A t \in Targets : target'[t] = target[t] \/ (t = T(w) /\ target'[t] = Expected /\ target[t] = "nothing"
                                                    /\ (~kind.block => Mountable))
  BY <1>5, <1>7, Zenon
<1>10. MountInv'
  <2>1. Expected' = Expected /\ Mountable' = Mountable
    BY <1>1, <1>6, Zenon DEF Expected, Mountable, diskVars
  <2>2. ImageMounted(Targets)' => ImageMounted(Targets)
    BY <1>4, <1>9, Zenon DEF ImageMounted
  <2>3. (\E t \in Targets : target'[t] = "fs") => Mountable
    BY <1>0, <1>4, <1>9, Zenon DEF MountInv, MountsBacked
  <2>4. \A t \in Targets : target'[t] \in {"nothing", Expected}
    BY <1>0, <1>9, Zenon DEF MountInv
  <2> QED BY <1>0, <1>1, <2>1, <2>2, <2>3, <2>4, Zenon DEF MountInv, MountsBacked, diskVars
<1>11. BeliefInv'
  <2>1. /\ staging' = staging /\ configured' = configured /\ image' = image
    BY <1>1, Zenon DEF diskVars
  <2>2. \A t \in Targets : published[t] = "yes" => target'[t] = target[t]
    BY <1>0, <1>4, <1>9, Zenon DEF BeliefInv, PublishSound
  <2>3. \/ target'[T(w)] = Expected /\ ((\E step : Moves(w, step)) \/ Return(w, "OK"))
        \/ Return(w, "Internal")
    BY <1>0, <1>2, <1>5, <1>7, Zenon DEF MountInv
  <2>4. /\ staged' = staged
        /\ \/ published' = published
           \/ published' = [published EXCEPT ![T(w)] = "yes"] /\ target'[T(w)] = Expected
    <3>1. CASE Return(w, "OK") /\ target'[T(w)] = Expected
      BY <1>0, <1>1, <1>2, <3>1, ReturnLearns, Zenon DEF Statuses
    <3>2. CASE Return(w, "Internal")
      BY <1>0, <1>1, <3>2, ReturnLearns, Zenon DEF Statuses
    <3> QED BY <2>3, <3>1, <3>2, Zenon DEF Moves, kubeletVars
  <2> QED BY <1>0, <1>1, <1>2, <1>4, <1>6, <2>1, <2>2, <2>4, BeliefKept
<1>12. StepReady(w)'
  <2>1. CASE Moves(w, "configure") /\ kind.eph /\ target' = [target EXCEPT ![T(w)] = Expected]
    <3>1. pc'[w] = "configure" /\ req' = req /\ target'[T(w)] = Expected
      BY <1>0, <1>2, <1>7, <2>1 DEF Moves, TypeOK
    <3>2. Expected = "fs"
      BY <1>0, <1>4, <2>1, KindTyped, Zenon DEF KindType
    <3> QED BY <1>2, <1>6, <3>1, <3>2, Zenon DEF StepReady, ImageSteps, T
  <2> QED BY <1>0, <1>5, <2>1, ReadyIdle, Zenon
<1> QED BY <1>8, <1>10, <1>11, <1>12 DEF Kept

\* The image file is created on the driver's mount, and never changed while a
\* loop device uses it.
LEMMA ImageKept ==
    ASSUME ServerInv, NEW w \in Workers, Image(w) \/ ImageCreate(w)
    PROVE  Kept(w)
<1> USE DEF Goto, Done, Fail, Fault
<1>0. TypeOK /\ CallInv /\ MountInv /\ BeliefInv /\ StepReady(w)
  BY DEF ServerInv
<1>1. /\ pc[w] \in {"image", "imageCreate"} /\ volume' = volume /\ fs' = fs
      /\ UNCHANGED <<configured, wiped, loop, staging, host, target>>
  BY Zenon DEF Image, ImageCreate, kernelVars
<1>2. host = "fs"
  BY <1>0, <1>1, Zenon DEF StepReady, ImageSteps
<1>3. \/ Moves(w, "attach") /\ image' # "none"
      \/ Moves(w, "imageCreate") /\ image' = "partial"
      \/ Return(w, "Internal")
  BY DEF Image, ImageCreate, Moves
<1>4. image' = image \/ (image # "complete" /\ image' \in {"none", "partial", "complete"} /\ loop = "none")
  <2>1. CASE Image(w)
    BY <1>0, <2>1, Zenon DEF Image, MountInv, MountsBacked
  <2>2. CASE ImageCreate(w)
    BY <1>0, <2>2 DEF ImageCreate, StepReady
  <2> QED BY <2>1, <2>2, Zenon
<1>5. Moves(w, "imageCreate") => loop = "none" \/ pc'[w] # "imageCreate"
  <2>1. CASE Image(w)
    <3>1. image = "none" \/ Moves(w, "attach") \/ Return(w, "Internal")
      BY <2>1 DEF Image, Moves
    <3>2. image = "none" => loop = "none"
      BY <1>0, Zenon DEF MountInv, MountsBacked
    <3>3. Moves(w, "attach") => pc'[w] = "attach"
      BY <1>0, Zenon DEF Moves, TypeOK
    <3>4. Return(w, "Internal") => pc'[w] = "idle"
      BY <1>0, Zenon DEF Return, TypeOK
    <3> QED BY <3>1, <3>2, <3>3, <3>4, Zenon
  <2>2. CASE ImageCreate(w)
    BY <1>0, <2>2, Zenon DEF ImageCreate, StepReady
  <2> QED BY <2>1, <2>2
<1>6. kind' = kind
  BY <1>3, Zenon DEF Moves, Return
<1>7. MountType'
  BY <1>0, <1>1, <1>4 DEF TypeOK, MountType
<1>8. MountInv'
  <2>1. /\ Expected' = Expected /\ (ImageMounted(Targets)' <=> ImageMounted(Targets))
        /\ Mountable' = Mountable
    BY <1>1, <1>6 DEF Expected, ImageMounted, Mountable
  <2>2. ImageMounted(Targets) => loop # "none"
    BY <1>0, Zenon DEF MountInv, MountsBacked
  <2> QED BY <1>0, <1>1, <1>4, <2>1, <2>2, Zenon DEF MountInv, MountsBacked
<1>9. BeliefInv'
  <2>1. (\E step : Moves(w, step)) \/ (\E s \in Statuses \ {"OK"} : Return(w, s))
    BY <1>3, Zenon DEF Statuses
  <2>2. /\ pc[w] # "idle" /\ staging' = staging /\ configured' = configured /\ target' = target
        /\ image = "complete" => image' = "complete"
    BY <1>1, <1>4, Zenon
  <2> QED BY <1>0, <1>6, <2>1, <2>2, BeliefQuiet, Zenon
<1>10. StepReady(w)'
  <2>1. CASE Moves(w, "attach") /\ image' # "none"
    <3>1. pc'[w] = "attach"
      BY <1>0, <2>1, Zenon DEF Moves, TypeOK
    <3> QED BY <1>1, <1>2, <2>1, <3>1, Zenon DEF StepReady, ImageSteps
  <2>2. CASE Moves(w, "imageCreate") /\ image' = "partial"
    <3>1. pc'[w] = "imageCreate" /\ loop = "none"
      BY <1>0, <1>5, <2>2, Zenon DEF Moves, TypeOK
    <3> QED BY <1>1, <1>2, <2>2, <3>1, Zenon DEF StepReady, ImageSteps
  <2> QED BY <1>0, <1>3, <2>1, <2>2, ReadyIdle, Zenon
<1> QED BY <1>7, <1>8, <1>9, <1>10 DEF Kept

\* The loop device of the image file.
LEMMA AttachKept ==
    ASSUME ServerInv, NEW w \in Workers, Attach(w)
    PROVE  Kept(w)
<1> USE DEF Goto, Done, Fail, Fault
<1>0. TypeOK /\ CallInv /\ MountInv /\ BeliefInv /\ StepReady(w)
  BY DEF ServerInv
<1>1. pc[w] = "attach" /\ UNCHANGED <<diskVars, staging, host, target>>
  BY Zenon DEF Attach
<1>2. host = "fs" /\ image # "none"
  BY <1>0, <1>1, Zenon DEF StepReady, ImageSteps
<1>3. \/ Moves(w, "mountImage") /\ loop' \in {"attached", "autoclear"}
      \/ Return(w, "Internal") /\ loop' = loop
  BY <1>0, Zenon DEF Attach, Moves, TypeOK
<1>4. kind' = kind
  BY <1>3, Zenon DEF Moves, Return
<1>5. MountType'
  BY <1>0, <1>1, <1>3 DEF TypeOK, MountType, diskVars
<1>6. MountInv'
  <2>1. /\ Expected' = Expected /\ (ImageMounted(Targets)' <=> ImageMounted(Targets))
        /\ Mountable' = Mountable
    BY <1>1, <1>4 DEF Expected, ImageMounted, Mountable, diskVars
  <2>2. loop' = loop \/ loop' # "none"
    BY <1>3, Zenon
  <2> QED BY <1>0, <1>1, <1>2, <2>1, <2>2, Zenon DEF MountInv, MountsBacked, diskVars
<1>7. BeliefInv'
  <2>1. (\E step : Moves(w, step)) \/ (\E s \in Statuses \ {"OK"} : Return(w, s))
    BY <1>3 DEF Statuses
  <2>2. pc[w] # "idle" /\ staging' = staging /\ configured' = configured /\ target' = target /\ image' = image
    BY <1>1 DEF diskVars
  <2> QED BY <1>0, <1>4, <2>1, <2>2, BeliefQuiet, Zenon
<1>8. StepReady(w)'
  <2>1. CASE Moves(w, "mountImage") /\ loop' \in {"attached", "autoclear"}
    <3>1. pc'[w] = "mountImage" /\ host' = "fs" /\ image' # "none"
      BY <1>0, <1>1, <1>2, <2>1, Zenon DEF Moves, TypeOK, diskVars
    <3> QED BY <2>1, <3>1, Zenon DEF StepReady, ImageSteps
  <2> QED BY <1>0, <1>3, <2>1, ReadyIdle, Zenon
<1> QED BY <1>5, <1>6, <1>7, <1>8 DEF Kept

\* The filesystem in the image is mounted at the target path.
LEMMA MountImageKept ==
    ASSUME ServerInv, NEW w \in Workers, MountImage(w)
    PROVE  Kept(w)
<1> USE DEF Goto, Done, Fail, Fault
<1>0. TypeOK /\ CallInv /\ MountInv /\ BeliefInv /\ StepReady(w)
  BY DEF ServerInv
<1>1. pc[w] = "mountImage" /\ UNCHANGED <<diskVars, loop, staging, host>>
  BY Zenon DEF MountImage
<1>2. loop # "none" /\ req[w].op = "publish" /\ kind.kata /\ T(w) \in Targets
  BY <1>0, <1>1, RequestOf, Zenon DEF StepReady, CallInv, Active, StepOf, PublishSteps, ImageSteps
<1>3. ~kind.block
  BY <1>0, <1>1, Zenon DEF CallInv, Active, StepOf, PublishSteps, ImageSteps
<1>4. \/ target' = [target EXCEPT ![T(w)] = "image"] /\ image = "complete" /\ Return(w, "OK")
      \/ target' = target /\ Return(w, "Internal")
  BY Zenon DEF MountImage
<1>5. kind' = kind
  BY <1>4, Zenon DEF Return
<1>6. target \in [Targets -> {"nothing", "fs", "dir", "raw", "image"}]
  BY <1>0, Zenon DEF TypeOK
<1>7. MountType'
  <2>1. target' \in [Targets -> {"nothing", "fs", "dir", "raw", "image"}]
    BY <1>4, <1>6, Zenon
  <2> QED BY <1>0, <1>1, <2>1 DEF TypeOK, MountType, diskVars
<1>8. Expected = "image"
  BY <1>2, <1>3, Zenon DEF Expected
<1>9. \A t \in Targets : target'[t] = target[t] \/ (target'[t] = "image" /\ image = "complete")
  BY <1>4, <1>6, Zenon
<1>10. MountInv'
  <2>1. Expected' = Expected /\ Mountable' = Mountable
    BY <1>1, <1>5, Zenon DEF Expected, Mountable, diskVars
  <2>2. ImageMounted(Targets)' => image = "complete"
    BY <1>0, <1>9, Zenon DEF ImageMounted, MountInv
  <2>3. \A t \in Targets : target'[t] # "fs" /\ target'[t] \in {"nothing", Expected}
    BY <1>0, <1>8, <1>9, Zenon DEF MountInv
  <2> QED BY <1>0, <1>1, <1>2, <2>1, <2>2, <2>3, Zenon DEF MountInv, MountsBacked, diskVars
<1>11. BeliefInv'
  <2>1. /\ staging' = staging /\ configured' = configured /\ image' = image
    BY <1>1 DEF diskVars
  <2>2. \A t \in Targets : published[t] = "yes" => target'[t] = target[t]
    BY <1>0, <1>8, <1>9 DEF BeliefInv, PublishSound
  <2>3. /\ staged' = staged
        /\ \/ published' = published
           \/ published' = [published EXCEPT ![T(w)] = "yes"] /\ target'[T(w)] = Expected /\ image' = "complete"
    <3>1. CASE Return(w, "OK") /\ target' = [target EXCEPT ![T(w)] = "image"] /\ image = "complete"
      <4>1. target'[T(w)] = Expected /\ image' = "complete"
        BY <1>2, <1>6, <1>8, <2>1, <3>1, Zenon
      <4>2. /\ staged' = staged \/ req[w].op = "stage" \/ req[w].op = "unstage"
            /\ \/ published' = published \/ req[w].op = "unpublish"
               \/ published' = [published EXCEPT ![T(w)] = "yes"]
        <5>1. pc[w] # "idle" /\ "OK" \in Statuses
          BY <1>1, Zenon DEF Statuses
        <5>2. Return(w, "OK")
          BY <3>1, Zenon
        <5> HIDE DEF Return, Goto, Done, Fail, Fault
        <5> QED BY <1>0, <5>1, <5>2, ReturnLearns, Zenon
      <4> QED BY <1>2, <4>1, <4>2, Zenon
    <3>2. CASE Return(w, "Internal")
      BY <1>0, <1>1, <3>2, ReturnLearns, Zenon DEF Statuses
    <3> QED BY <1>4, <3>1, <3>2
  <2>4. pc[w] # "idle" /\ kind' = kind /\ TypeOK /\ CallInv /\ MountInv /\ BeliefInv
    BY <1>0, <1>1, <1>5, Zenon
  <2>5. /\ staging => staging' \/ req[w].op = "unstage"
        /\ configured => configured'
        /\ image = "complete" => image' = "complete"
    BY <2>1, Zenon
  <2>6. /\ staged' \in {staged, "no"}
        /\ \/ published' = published
           \/ /\ req[w].op = "publish" /\ published' = [published EXCEPT ![T(w)] = "yes"]
              /\ target'[T(w)] = Expected /\ (target'[T(w)] = "image" => image' = "complete")
    BY <1>2, <2>3, Zenon
  <2> HIDE DEF Return, Goto, Done, Fail, Fault
  <2> QED BY <2>2, <2>4, <2>5, <2>6, BeliefKept, Zenon
<1>12. StepReady(w)'
  BY <1>0, <1>4, ReadyIdle, Zenon
<1> QED BY <1>7, <1>10, <1>11, <1>12 DEF Kept

\* Unmounting the target path; the loop device of a detached image goes with
\* its last mount.
LEMMA UnmountTargetKept ==
    ASSUME ServerInv, NEW w \in Workers, UnmountTarget(w)
    PROVE  Kept(w)
<1> USE DEF Goto, Done, Fail, Fault
<1>0. TypeOK /\ CallInv /\ MountInv /\ BeliefInv
  BY DEF ServerInv
<1>1. pc[w] = "unmountTarget" /\ UNCHANGED <<diskVars, staging, host>>
  BY Zenon DEF UnmountTarget
<1>2. /\ req[w].op = "unpublish" /\ T(w) \in Targets
      /\ published[T(w)] \in {"no", "unpublishing"}
  BY <1>0, <1>1, RequestOf, Zenon DEF CallInv, Active, StepOf, UnpublishSteps
<1>3. \/ /\ target' = [target EXCEPT ![T(w)] = "nothing"]
         /\ loop' = loop \/ (loop' = "none" /\ ~ImageMounted(Targets \ {T(w)}))
         /\ Moves(w, Unmounted)
      \/ target' = target /\ loop' = loop /\ Return(w, "Internal")
  BY Zenon DEF UnmountTarget, Moves
<1>4. kind' = kind
  BY <1>3, Zenon DEF Moves, Return
<1>5. target \in [Targets -> {"nothing", "fs", "dir", "raw", "image"}]
  BY <1>0 DEF TypeOK
<1>6. MountType'
  <2>1. target' \in [Targets -> {"nothing", "fs", "dir", "raw", "image"}]
    BY <1>3, <1>5, Zenon
  <2>2. loop' \in {"none", "attached", "autoclear"}
    BY <1>0, <1>3, Zenon DEF TypeOK
  <2> QED BY <1>0, <1>1, <2>1, <2>2, Zenon DEF TypeOK, MountType, diskVars
<1>7. \A t \in Targets : target'[t] = target[t] \/ (t = T(w) /\ target'[t] = "nothing")
  BY <1>3, <1>5, Zenon
<1>8. MountInv'
  <2>1. Expected' = Expected /\ Mountable' = Mountable
    BY <1>1, <1>4, Zenon DEF Expected, Mountable, diskVars
  <2>2. ImageMounted(Targets)' => ImageMounted(Targets) /\ loop' = loop
    BY <1>3, <1>5, <1>7, Zenon DEF ImageMounted
  <2>3. \A t \in Targets : /\ target'[t] = "fs" => target[t] = "fs"
                           /\ target'[t] \in {"nothing", Expected}
    BY <1>0, <1>7, Zenon DEF MountInv
  <2>4. loop' # "none" => loop' = loop
    BY <1>3, Zenon
  <2> QED BY <1>0, <1>1, <2>1, <2>2, <2>3, <2>4, Zenon DEF MountInv, MountsBacked, diskVars
<1>9. BeliefInv'
  <2>1. (\E step : Moves(w, step)) \/ (\E s \in Statuses \ {"OK"} : Return(w, s))
    BY <1>3 DEF Statuses
  <2>2. /\ pc[w] # "idle" /\ staging' = staging /\ configured' = configured /\ image' = image
    BY <1>1, Zenon DEF diskVars
  <2>3. \A t \in Targets : published[t] = "yes" => target'[t] = target[t]
    BY <1>2, <1>7
  <2> QED BY <1>0, <1>4, <2>1, <2>2, <2>3, BeliefQuiet, Zenon
<1>10. StepReady(w)'
  <2>1. CASE Moves(w, Unmounted)
    <3>1. pc'[w] = "detach" \/ (pc'[w] = "rmTarget" /\ ~kind.kata)
      BY <1>0, <2>1, Zenon DEF Moves, TypeOK, Unmounted
    <3> QED BY <1>4, <3>1, Zenon DEF StepReady, ImageSteps
  <2> QED BY <1>0, <1>3, <2>1, ReadyIdle, Zenon
<1> QED BY <1>6, <1>8, <1>9, <1>10 DEF Kept

\* Detaching the loop device.
LEMMA DetachKept ==
    ASSUME ServerInv, NEW w \in Workers, Detach(w)
    PROVE  Kept(w)
<1> USE DEF Goto, Done, Fail, Fault
<1>0. TypeOK /\ CallInv /\ MountInv /\ BeliefInv
  BY DEF ServerInv
<1>1. pc[w] = "detach" /\ UNCHANGED <<diskVars, staging, host, target>>
  BY Zenon DEF Detach
<1>2. loop' = loop \/ (loop # "none" /\ loop' = IF ImageMounted(Targets) THEN "autoclear" ELSE "none")
  BY Zenon DEF Detach
<1>3. Moves(w, "unmountHost") \/ Return(w, "Internal")
  BY Zenon DEF Detach, Moves
<1>4. kind' = kind
  BY <1>3, Zenon DEF Moves, Return
<1>5. MountType'
  BY <1>0, <1>1, <1>2 DEF TypeOK, MountType, diskVars
<1>6. MountInv'
  <2>1. /\ Expected' = Expected /\ (ImageMounted(Targets)' <=> ImageMounted(Targets))
        /\ Mountable' = Mountable
    BY <1>1, <1>4 DEF Expected, ImageMounted, Mountable, diskVars
  <2>2. (loop' # "none" => loop # "none") /\ (ImageMounted(Targets) /\ loop # "none" => loop' # "none")
    BY <1>2, Zenon
  <2> QED BY <1>0, <1>1, <2>1, <2>2, Zenon DEF MountInv, MountsBacked, diskVars
<1>7. BeliefInv'
  <2>1. (\E step : Moves(w, step)) \/ (\E s \in Statuses \ {"OK"} : Return(w, s))
    BY <1>3 DEF Statuses
  <2>2. pc[w] # "idle" /\ staging' = staging /\ configured' = configured /\ target' = target /\ image' = image
    BY <1>1 DEF diskVars
  <2> QED BY <1>0, <1>4, <2>1, <2>2, BeliefQuiet
<1>8. StepReady(w)'
  BY <1>0, <1>3, ReadyIdle, ReadyFree, Zenon
<1> QED BY <1>5, <1>6, <1>7, <1>8 DEF Kept

\* The driver's own mount goes only when no loop device needs it.
LEMMA UnmountHostKept ==
    ASSUME ServerInv, NEW w \in Workers, UnmountHost(w)
    PROVE  Kept(w)
<1> USE DEF Goto, Done, Fail, Fault
<1>0. TypeOK /\ CallInv /\ MountInv /\ BeliefInv
  BY DEF ServerInv
<1>1. pc[w] = "unmountHost" /\ UNCHANGED <<diskVars, loop, staging, target>>
  BY DEF UnmountHost
<1>2. host = "nothing" => loop = "none"
  BY <1>0, Zenon DEF MountInv, MountsBacked
<1>3. \/ Moves(w, "rmTarget") /\ host' = "nothing" /\ loop = "none"
      \/ Return(w, "Internal") /\ (host' = host \/ (host' = "nothing" /\ loop = "none"))
  BY <1>2, Zenon DEF UnmountHost, Moves
<1>4. kind' = kind
  BY <1>3, Zenon DEF Moves, Return
<1>5. MountType'
  BY <1>0, <1>1, <1>3 DEF TypeOK, MountType, diskVars
<1>6. MountInv'
  <2>1. /\ Expected' = Expected /\ (ImageMounted(Targets)' <=> ImageMounted(Targets))
        /\ Mountable' = Mountable
    BY <1>1, <1>4 DEF Expected, ImageMounted, Mountable, diskVars
  <2>2. host' = host \/ (host' = "nothing" /\ loop = "none")
    BY <1>3, Zenon
  <2> QED BY <1>0, <1>1, <2>1, <2>2, Zenon DEF MountInv, MountsBacked, diskVars
<1>7. BeliefInv'
  <2>1. (\E step : Moves(w, step)) \/ (\E s \in Statuses \ {"OK"} : Return(w, s))
    BY <1>3 DEF Statuses
  <2>2. pc[w] # "idle" /\ staging' = staging /\ configured' = configured /\ target' = target /\ image' = image
    BY <1>1, Zenon DEF diskVars
  <2> QED BY <1>0, <1>4, <2>1, <2>2, BeliefQuiet
<1>8. StepReady(w)'
  <2>1. CASE Moves(w, "rmTarget") /\ host' = "nothing" /\ loop = "none"
    <3>1. pc'[w] = "rmTarget" /\ loop' = "none"
      BY <1>0, <1>1, <2>1 DEF Moves, TypeOK
    <3> QED BY <2>1, <3>1, Zenon DEF StepReady, ImageSteps
  <2> QED BY <1>0, <1>3, <2>1, ReadyIdle, Zenon
<1> QED BY <1>5, <1>6, <1>7, <1>8 DEF Kept

\* A device that is not in use backs no mount, so it can be cleared or removed:
\* nothing that the kubelet relies on goes with it.
LEMMA NotInUse ==
    ASSUME MountInv, ~InUse
    PROVE  /\ ~staging /\ host = "nothing" /\ loop = "none"
           /\ \A t \in Targets : target[t] \notin {"fs", "image"}
<1>1. ~staging /\ host = "nothing" /\ \A t \in Targets : target[t] # "fs"
  BY DEF InUse
<1>2. loop = "none"
  BY <1>1 DEF MountInv, MountsBacked
<1>3. ~ImageMounted(Targets)
  BY <1>2, Zenon DEF MountInv, MountsBacked
<1> QED BY <1>1, <1>2, <1>3 DEF ImageMounted

\* DeleteVolume leaves every mount backed, whether it only clears the device
\* or also removes it.
LEMMA EmptiedKept ==
    ASSUME TypeOK, MountInv, BeliefInv, ~InUse, kind' = kind, UNCHANGED kernelVars,
           Cleared \/ Removed,
           staged' = "yes" => staged = "yes",
           \A t \in Targets : published'[t] = "yes" => published[t] = "yes"
    PROVE  MountType' /\ MountInv' /\ BeliefInv'
<1>1. /\ ~staging /\ host = "nothing" /\ loop = "none"
      /\ \A t \in Targets : target[t] \notin {"fs", "image"}
  BY NotInUse, Zenon
<1>2. /\ staging' = staging /\ host' = host /\ loop' = loop /\ target' = target
  BY Zenon DEF kernelVars
<1>3. fs' = "none" /\ configured' = FALSE /\ image' = "none"
  BY DEF Cleared, Removed, Emptied
<1>4. volume' \in BOOLEAN /\ wiped' \in BOOLEAN
  BY Zenon DEF Cleared, Removed, TypeOK
<1>5. MountType'
  BY <1>2, <1>3, <1>4, Zenon DEF TypeOK, MountType
<1>6. Expected' = Expected /\ ~ImageMounted(Targets)'
  BY <1>1, <1>2, Zenon DEF Expected, ImageMounted
<1>7. MountInv'
  BY <1>1, <1>2, <1>6, Zenon DEF MountInv, MountsBacked
<1>8. kind.block \/ staged # "yes"
  BY <1>1, Zenon DEF BeliefInv
<1>9. \A t \in Targets : published[t] = "yes" => kind.block /\ target[t] = Expected
  BY <1>1, Zenon DEF BeliefInv, PublishSound, Expected
<1>10. kind.block => ~kind.xfs
  BY KindTyped, Zenon DEF KindType
<1>11. PublishSound'
  BY <1>2, <1>6, <1>9, <1>10, <1>1 DEF PublishSound
<1>12. BeliefInv'
  BY <1>8, <1>11 DEF BeliefInv
<1> QED BY <1>5, <1>7, <1>12, Zenon

\* Deleting the device of an ephemeral volume.
LEMMA DeleteKept ==
    ASSUME ServerInv, NEW w \in Workers, DeleteEphemeral(w)
    PROVE  Kept(w)
<1> USE DEF Goto, Done, Fail, Fault
<1>0. TypeOK /\ CallInv /\ MountInv /\ BeliefInv
  BY DEF ServerInv
<1>1. pc[w] = "deleteVolume" /\ UNCHANGED kernelVars
  BY Zenon DEF DeleteEphemeral
<1>2. \/ (Cleared \/ Removed) /\ \E s \in Statuses : Return(w, s)
      \/ UNCHANGED diskVars /\ Return(w, "Internal")
  BY Zenon DEF DeleteEphemeral, Statuses
<1>3. kind' = kind
  BY <1>2, Zenon DEF Return
<1>4. req[w].op = "unpublish"
  BY <1>0, <1>1, Zenon DEF CallInv, Active, StepOf, UnpublishSteps
<1>5. MountType' /\ MountInv' /\ BeliefInv'
  <2>1. CASE (Cleared \/ Removed) /\ \E s \in Statuses : Return(w, s)
    <3>1. PICK s \in Statuses : Return(w, s)
      BY <2>1, Zenon
    <3>2. staged' = staged
      BY <1>0, <1>1, <1>4, <3>1, ReturnLearns, Zenon
    <3>3. published' = published \/ published' = [published EXCEPT ![T(w)] = "no"]
      BY <1>0, <1>1, <1>4, <3>1, ReturnLearns, Zenon
    <3>4. \A t \in Targets : published'[t] = "yes" => published[t] = "yes"
      BY <1>0, <3>3 DEF TypeOK
    <3>5. ~InUse
      BY <2>1 DEF Cleared, Removed
    <3> QED BY <1>0, <1>1, <1>3, <2>1, <3>2, <3>4, <3>5, EmptiedKept, Zenon
  <2>2. CASE UNCHANGED diskVars /\ Return(w, "Internal")
    <3>1. MountType'
      BY <1>0, <1>1, <2>2 DEF TypeOK, MountType, diskVars, kernelVars
    <3>2. Mountable' = Mountable /\ UNCHANGED <<loop, staging, host, target, image>>
      BY <1>1, <2>2, Zenon DEF Mountable, diskVars, kernelVars
    <3>3. MountInv'
      BY <1>0, <1>3, <3>2, MountFrame, Zenon
    <3>4. configured' = configured /\ image' = image /\ staging' = staging /\ target' = target
      BY <1>1, <2>2, ZenonT(30) DEF diskVars, kernelVars
    <3>5. BeliefInv'
      BY <1>0, <1>1, <1>3, <2>2, <3>4, BeliefQuiet DEF Statuses
    <3> QED BY <3>1, <3>3, <3>5, Zenon
  <2> QED BY <1>2, <2>1, <2>2, Zenon
<1>6. StepReady(w)'
  BY <1>0, <1>2, ReadyIdle
<1> QED BY <1>5, <1>6 DEF Kept

-----------------------------------------------------------------------------
\* Every step of a handler keeps the mounts backed.
LEMMA StepKept ==
    ASSUME ServerInv, NEW w \in Workers, Step(w)
    PROVE  Kept(w)
  BY LookingKept, DeviceKept, StagingKept, ConfigureKept, MountHostKept, MountTargetKept, ImageKept,
     AttachKept, MountImageKept, UnmountTargetKept, DetachKept, UnmountHostKept, DeleteKept, Zenon
     DEF Step

\* TypeOK is the sum of its parts.
LEMMA TypeParts ==
    ASSUME CallType', MountType', kind' \in Kinds, faults' \in 0 .. MaxFaults
    PROVE  TypeOK'
  BY Zenon DEF CallType, MountType, TypeOK, Steps

\* What another handler needs stays as it is.
LEMMA ReadyFrame ==
    ASSUME NEW v \in Workers, StepReady(v), pc'[v] = pc[v], req'[v] = req[v], kind' = kind,
           UNCHANGED <<diskVars, kernelVars>>
    PROVE  StepReady(v)'
<1>1. staging' = staging /\ host' = host /\ loop' = loop /\ image' = image /\ target' = target
  BY Zenon DEF diskVars, kernelVars
<1> QED BY <1>1, Zenon DEF StepReady, T

\* A handler that waits for volumeMutex needs nothing.
LEMMA ReadyWaiting ==
    ASSUME NEW v \in Workers, pc'[v] \in Waiting
    PROVE  StepReady(v)'
  BY Zenon DEF StepReady, Waiting, ImageSteps

\* Every step of a handler, for all handlers.
LEMMA StepNext ==
    ASSUME ServerInv, NEW w \in Workers, Step(w)
    PROVE  ServerInv'
<1>0. TypeOK /\ CallInv /\ DataInv
  BY DEF ServerInv
<1>1. DataInv'
  BY <1>0, HandlerStep, Zenon
<1>2. /\ pc[w] # "idle" /\ kind' = kind /\ faults' \in 0 .. MaxFaults
      /\ \/ \E step \in Steps \ Waiting : StepOf(step, req[w].op) /\ Moves(w, step)
         \/ \E s \in Statuses : Return(w, s)
  BY <1>0, StepControl, Zenon
<1>3. CallType' /\ CallInv'
  BY <1>0, <1>2, MovesInv, ReturnInv, Zenon
<1>4. MountType' /\ MountInv' /\ BeliefInv' /\ StepReady(w)'
  BY StepKept, Zenon DEF Kept
<1>5. TypeOK'
  BY <1>0, <1>2, <1>3, <1>4, TypeParts, Zenon DEF TypeOK
<1>6. ASSUME NEW v \in Workers, v # w PROVE StepReady(v)'
  <2>1. pc'[v] = pc[v] /\ req'[v] = req[v]
    BY <1>0, <1>2, <1>6, Zenon DEF Moves, Return, TypeOK
  <2>2. CASE StageBlock(w)
    <3>1. UNCHANGED <<diskVars, kernelVars>>
      BY <2>2, Zenon DEF StageBlock
    <3> QED BY <1>2, <2>1, <3>1, ReadyFrame, Zenon DEF ServerInv
  <2>3. CASE ~StageBlock(w)
    <3>1. pc[w] \notin Waiting
      BY <2>3, Zenon DEF Step, Waiting, StageLookup, UnstageLookup, PublishLookup, Lookup,
                         CreateEphemeral, Detect,
                  Mkfs, MountStaging, Configure, UnmountStaging, Check, MountHost, MountTarget, Image,
                  ImageCreate, Attach, MountImage, UnpublishLookup, UnmountTarget, Detach, UnmountHost,
                  RmTarget, DeleteEphemeral, At
    <3>2. pc[v] \in Waiting
      BY <1>0, <1>6, <3>1 DEF DataInv
    <3> QED BY <2>1, <3>2, ReadyWaiting, Zenon
  <2> QED BY <2>2, <2>3, Zenon
<1>7. \A v \in Workers : StepReady(v)'
  BY <1>4, <1>6, Zenon
<1> QED BY <1>1, <1>3, <1>4, <1>5, <1>7 DEF ServerInv

\* Steps that leave the node as it is, and let the kubelet expect no more.
LEMMA NodeFrame ==
    ASSUME TypeOK, MountInv, BeliefInv, kind' = kind, UNCHANGED <<diskVars, kernelVars>>,
           staged' = "yes" => staged = "yes",
           \A t \in Targets : published'[t] = "yes" => published[t] = "yes"
    PROVE  MountType' /\ MountInv' /\ BeliefInv'
<1>1. /\ UNCHANGED <<loop, staging, host, target, image>> /\ Mountable' = Mountable
      /\ configured' = configured
  BY Zenon DEF diskVars, kernelVars, Mountable
<1>2. MountInv'
  BY <1>1, MountFrame, Zenon
<1>3. MountType'
  BY DEF TypeOK, MountType, diskVars, kernelVars
<1>4. Expected' = Expected
  BY Zenon DEF Expected
<1>5. BeliefInv'
  BY <1>1, <1>4, Zenon DEF BeliefInv, PublishSound
<1> QED BY <1>2, <1>3, <1>5, Zenon

\* The calls of the kubelet.
LEMMA CallNext ==
    ASSUME ServerInv, NEW w \in Workers,
           CallStage(w) \/ CallUnstage(w) \/ \E t \in Targets : CallPublish(w, t) \/ CallUnpublish(w, t)
    PROVE  ServerInv'
<1>0. TypeOK /\ CallInv /\ DataInv /\ MountInv /\ BeliefInv
  BY DEF ServerInv
<1>1. CallType' /\ CallInv'
  BY <1>0, KubeletCalls, Zenon
<1>2. DataInv'
  BY <1>0, DataNext, Zenon DEF Next
<1>3. \E r : Call(w, r)
  BY Zenon DEF CallStage, CallUnstage, CallPublish, CallUnpublish
<1>4. /\ kind' = kind /\ faults' = faults /\ UNCHANGED <<diskVars, kernelVars>>
      /\ pc' = [pc EXCEPT ![w] = "start"]
      /\ \A v \in Workers : v # w => req'[v] = req[v]
  BY <1>0, <1>3 DEF Call, TypeOK
<1>5. /\ staged' = "yes" => staged = "yes"
      /\ \A t \in Targets : published'[t] = "yes" => published[t] = "yes"
  BY <1>0, Zenon DEF CallStage, CallUnstage, CallPublish, CallUnpublish, TypeOK
<1>6. MountType' /\ MountInv' /\ BeliefInv'
  BY <1>0, <1>4, <1>5, NodeFrame, Zenon
<1>7. TypeOK'
  BY <1>0, <1>1, <1>4, <1>6, TypeParts, Zenon DEF TypeOK
<1>8. ASSUME NEW v \in Workers PROVE StepReady(v)'
  <2>1. v = w => pc'[v] \in Waiting
    BY <1>0, <1>4, Zenon DEF TypeOK, Waiting
  <2>2. v # w => pc'[v] = pc[v] /\ req'[v] = req[v]
    BY <1>0, <1>4 DEF TypeOK
  <2> QED BY <1>4, <2>1, <2>2, ReadyWaiting, ReadyFrame, Zenon DEF ServerInv
<1> QED BY <1>1, <1>2, <1>6, <1>7, <1>8 DEF ServerInv

\* A call gets volumeMutex, the kubelet gives up on one, or no pod needs the
\* volume any more.
LEMMA QuietNext ==
    ASSUME ServerInv, Stop \/ \E w \in Workers : LockKey(w) \/ Timeout(w)
    PROVE  ServerInv'
<1>0. TypeOK /\ CallInv /\ DataInv /\ MountInv /\ BeliefInv
  BY Zenon DEF ServerInv
<1>1. DataInv'
  BY <1>0, DataNext, Zenon DEF Next
<1>2. /\ kind' = kind /\ UNCHANGED <<diskVars, kernelVars>> /\ req' = req
      /\ staged' = staged /\ published' = published
  BY Zenon DEF Stop, LockKey, Timeout, Goto, workVars, kubeletVars
<1>3. MountType' /\ MountInv' /\ BeliefInv'
  BY <1>0, <1>2, NodeFrame, Zenon
<1>4. faults' \in 0 .. MaxFaults
  <2>1. faults' = faults \/ (faults < MaxFaults /\ faults' = faults + 1)
    BY Zenon DEF Stop, LockKey, Timeout, Goto, Fault
  <2>2. faults \in 0 .. MaxFaults /\ MaxFaults \in Nat
    BY <1>0, NodeServerAssumption, Zenon DEF TypeOK
  <2> QED BY <2>1, <2>2
<1>5. CASE Stop \/ \E w \in Workers : Timeout(w)
  <2>1. pc' = pc /\ status' = status /\ stopping' \in BOOLEAN /\ late' \in BOOLEAN
    BY <1>0, <1>5, Zenon DEF Stop, Timeout, workVars, TypeOK
  <2>2. waited' \in [Workers -> BOOLEAN]
    <3>1. waited' = waited \/ \E w \in Workers : waited' = [waited EXCEPT ![w] = FALSE]
      BY <1>5 DEF Stop, Timeout, workVars
    <3> QED BY <1>0, <3>1, Zenon DEF TypeOK
  <2>3. CallType'
    BY <1>0, <1>2, <2>1, <2>2 DEF CallType, TypeOK, Steps
  <2>4. CallInv'
    BY <1>0, <1>2, <2>1, Zenon DEF CallInv, Active, StepOf, T
  <2>5. \A v \in Workers : StepReady(v)'
    BY <1>2, <2>1, ReadyFrame DEF ServerInv
  <2>6. TypeOK'
    BY <1>0, <1>2, <1>3, <1>4, <2>3, TypeParts, Zenon DEF TypeOK
  <2> QED BY <1>1, <1>3, <2>4, <2>5, <2>6 DEF ServerInv
<1>6. ASSUME NEW w \in Workers, LockKey(w) PROVE ServerInv'
  <2>1. Moves(w, "lookup") /\ pc[w] = "start" /\ ~(req[w].op = "stage" /\ kind.block)
    BY <1>6, Zenon DEF LockKey, Goto, Moves
  <2>2. "lookup" \in Steps \ Waiting /\ StepOf("lookup", req[w].op)
    BY <1>0, <2>1, Zenon DEF Steps, Waiting, StepOf, CallInv, Active, PublishSteps, UnpublishSteps,
                             ImageSteps
  <2>3. CallType' /\ CallInv'
    BY <1>0, <2>1, <2>2, MovesInv, Zenon
  <2>4. ASSUME NEW v \in Workers PROVE StepReady(v)'
    <3>1. v # w => pc'[v] = pc[v]
      BY <1>0, <2>1, Zenon DEF Moves, TypeOK
    <3>2. CASE v = w
      BY <1>0, <2>1, <3>2, ReadyFree, Zenon
    <3>3. CASE v # w
      BY <1>2, <3>1, <3>3, ReadyFrame, Zenon DEF ServerInv
    <3> QED BY <3>2, <3>3, Zenon
  <2>5. TypeOK'
    BY <1>0, <1>2, <1>3, <1>4, <2>3, TypeParts, Zenon DEF TypeOK
  <2> QED BY <1>1, <1>3, <2>3, <2>4, <2>5, Zenon DEF ServerInv
<1> QED BY <1>5, <1>6

\* DeleteVolume, which does not hold volumeMutex.
LEMMA DeleteNext ==
    ASSUME ServerInv, ClearDevice \/ RemoveDevice
    PROVE  ServerInv'
<1>0. TypeOK /\ CallInv /\ DataInv /\ MountInv /\ BeliefInv
  BY DEF ServerInv
<1>1. DataInv'
  BY <1>0, DataNext, Zenon DEF Next
<1>2. /\ Cleared \/ Removed
      /\ ~InUse /\ kind' = kind /\ UNCHANGED <<kernelVars, workVars, faults, kubeletVars>>
  BY DEF ClearDevice, RemoveDevice, Cleared, Removed
<1>3. staged' = staged /\ published' = published
  BY <1>2, Zenon DEF kubeletVars
<1>4. MountType' /\ MountInv' /\ BeliefInv'
  BY <1>0, <1>2, <1>3, EmptiedKept
<1>5. pc' = pc /\ req' = req
  BY <1>2 DEF workVars
<1>6. CallType' /\ CallInv'
  <2>1. CallType'
    BY <1>0, <1>2, Zenon DEF CallType, TypeOK, Steps, workVars, kubeletVars
  <2>2. CallInv'
    BY <1>0, <1>2, <1>3, <1>5, Zenon DEF CallInv, Active, StepOf, T
  <2> QED BY <2>1, <2>2, Zenon
<1>7. TypeOK'
  BY <1>0, <1>2, <1>4, <1>6, TypeParts, Zenon DEF TypeOK
<1>8. ASSUME NEW v \in Workers PROVE StepReady(v)'
  <2>1. StepReady(v)
    BY DEF ServerInv
  <2>2. /\ ~staging /\ host = "nothing" /\ loop = "none"
        /\ \A t \in Targets : target[t] \notin {"fs", "image"}
    BY <1>0, <1>2, NotInUse, Zenon
  <2>3. pc[v] \notin ImageSteps
    BY <2>1, <2>2, Zenon DEF StepReady
  <2>4. pc[v] # "configure"
    <3>1. pc[v] = "configure" => req[v].op \in {"stage", "publish"}
      BY <1>0, Zenon DEF CallInv, Active, StepOf, PublishSteps, ImageSteps, UnpublishSteps, TypeOK
    <3>2. pc[v] = "configure" /\ req[v].op # "stage" => T(v) \in Targets
      BY <1>0, <3>1, RequestOf
    <3> QED BY <2>1, <2>2, <3>2, Zenon DEF StepReady
  <2>5. host' = host /\ loop' = loop /\ target' = target
    BY <1>2, Zenon DEF kernelVars
  <2> QED BY <1>2, <1>5, <2>1, <2>3, <2>4, <2>5, Zenon DEF StepReady, ImageSteps, T
<1> QED BY <1>1, <1>4, <1>6, <1>7, <1>8 DEF ServerInv

\* A crash of the driver, or a reboot of the node, in the middle of any call.
LEMMA CrashNext ==
    ASSUME ServerInv, Kill \/ Reboot
    PROVE  ServerInv'
<1>0. TypeOK /\ CallInv /\ DataInv /\ MountInv /\ BeliefInv
  BY DEF ServerInv
<1>1. DataInv'
  BY <1>0, DataNext DEF Next
<1>2. Killed
  BY DEF Kill, Reboot
<1>3. /\ kind' = kind /\ UNCHANGED diskVars
      /\ \A v \in Workers : pc'[v] = "idle"
  BY <1>2, Zenon DEF Killed
<1>4. faults' \in 0 .. MaxFaults
  <2>1. faults < MaxFaults /\ faults' = faults + 1
    BY <1>2, Zenon DEF Killed, Fault
  <2>2. faults \in 0 .. MaxFaults /\ MaxFaults \in Nat
    BY <1>0, NodeServerAssumption, Zenon DEF TypeOK
  <2> QED BY <2>1, <2>2
<1>5. /\ staged' \in {"no", "maybe", "yes"} /\ (staged' = "yes" => Kill /\ staged = "yes")
      /\ staged = "no" => staged' = "no"
  BY <1>0, Zenon DEF Kill, Reboot, TypeOK
<1>6. /\ published' \in [Targets -> {"no", "publishing", "yes", "unpublishing"}]
      /\ Reboot => \A t \in Targets : published'[t] # "yes"
  <2>1. Kill => published' = published
    BY Zenon DEF Kill
  <2>2. Reboot => published' = [t \in Targets |-> IF published[t] = "yes" THEN "publishing"
                                                  ELSE published[t]]
    BY Zenon DEF Reboot
  <2>3. published \in [Targets -> {"no", "publishing", "yes", "unpublishing"}]
    BY <1>0, Zenon DEF TypeOK
  <2> QED BY <2>1, <2>2, <2>3
<1>7. CallType'
  BY <1>0, <1>2, <1>5, <1>6, Zenon DEF CallType, TypeOK, Killed, Steps
<1>8. CallInv'
  BY <1>0, <1>3, <1>5, Zenon DEF CallInv, Active
<1>9. MountType' /\ MountInv' /\ BeliefInv'
  <2>1. CASE Kill
    <3>1. UNCHANGED kernelVars /\ staged' = staged /\ published' = published
      BY <2>1 DEF Kill
    <3> QED BY <1>0, <1>3, <3>1, NodeFrame
  <2>2. CASE Reboot
    <3>1. loop' = "none" /\ staging' = FALSE /\ host' = "nothing" /\ target' = [t \in Targets |-> "nothing"]
      BY <2>2, Zenon DEF Reboot
    <3>2. MountType'
      BY <1>0, <1>3, <3>1, Zenon DEF MountType, TypeOK, diskVars
    <3>3. MountInv'
      BY <3>1 DEF MountInv, MountsBacked, ImageMounted
    <3>4. staged' # "yes"
      BY <2>2, <1>0 DEF Reboot, TypeOK
    <3>5. BeliefInv'
      BY <1>6, <2>2, <3>4, Zenon DEF BeliefInv, PublishSound
    <3> QED BY <3>2, <3>3, <3>5, Zenon
  <2> QED BY <2>1, <2>2, Zenon
<1>10. TypeOK'
  BY <1>0, <1>3, <1>4, <1>7, <1>9, TypeParts, Zenon DEF TypeOK
<1>11. \A v \in Workers : StepReady(v)'
  BY <1>3, ReadyWaiting, Zenon DEF Waiting
<1> QED BY <1>1, <1>8, <1>9, <1>10, <1>11, Zenon DEF ServerInv

\* All steps.
LEMMA ServerNext ==
    ASSUME ServerInv, [Next]_vars
    PROVE  ServerInv'
<1>1. CASE UNCHANGED vars
  <2>1. UNCHANGED <<kind, diskVars, kernelVars, pc, req, staged, published>>
    BY <1>1, Zenon DEF vars, workVars, kubeletVars
  <2>2. TypeOK' /\ DataInv'
    <3>1. TypeOK'
      <4>1. TypeOK /\ kind' = kind /\ faults' = faults
        BY <1>1, Zenon DEF ServerInv, vars
      <4>2. UNCHANGED <<volume, fs, configured, wiped, image, loop, staging, host, target>>
        BY <1>1, Zenon DEF vars, diskVars, kernelVars
      <4>3. UNCHANGED <<pc, req, status, waited, staged, published, stopping, late>>
        BY <1>1, Zenon DEF vars, workVars, kubeletVars
      <4>4. MountType'
        BY <4>1, <4>2, ZenonT(30) DEF TypeOK, MountType
      <4>5. CallType'
        BY <4>1, <4>3, Zenon DEF TypeOK, CallType, Steps
      <4> QED BY <4>1, <4>4, <4>5, TypeParts DEF TypeOK
    <3>2. pc' = pc /\ image' = image /\ DataInv
      BY <1>1, Zenon DEF ServerInv, vars, diskVars, workVars
    <3> QED BY <3>1, <3>2, Zenon DEF DataInv
  <2>3. CallInv'
    <3>1. \A v \in Workers : Active(v)' => StepOf(pc[v], req[v].op)'
      BY <2>1, StepOfKept, Zenon DEF ServerInv, CallInv, Active
    <3>2. /\ pc' = pc /\ req' = req /\ kind' = kind /\ staged' = staged /\ published' = published
          /\ CallInv
      BY <2>1, Zenon DEF ServerInv
    <3> QED BY <3>1, <3>2 DEF CallInv, Active, T
  <2>4. MountInv' /\ BeliefInv'
    BY <2>1, NodeFrame, SMTT(20) DEF ServerInv
  <2>5. \A v \in Workers : StepReady(v)'
    BY <2>1, ReadyFrame, Zenon DEF ServerInv
  <2> QED BY <2>2, <2>3, <2>4, <2>5, Zenon DEF ServerInv
<1> QED BY <1>1, StepNext, CallNext, QuietNext, DeleteNext, CrashNext, Zenon DEF Next

\* The initial states: nothing is mounted, no call runs.
LEMMA ServerInit == ASSUME Init PROVE ServerInv
<1>1. \A w \in Workers : pc[w] = "idle" /\ req[w] = None
  BY Zenon DEF Init
<1>2. kind.eph \in BOOLEAN
  BY NodeServerAssumption DEF Init, VolumeKinds
<1>3. volume \in BOOLEAN
  BY <1>2, Zenon DEF Init
<1>4. TypeOK
  <2>1. /\ kind \in Kinds /\ wiped \in BOOLEAN /\ configured \in BOOLEAN /\ staging \in BOOLEAN
        /\ stopping \in BOOLEAN /\ late \in BOOLEAN
    BY Zenon DEF Init
  <2>2. waited \in [Workers -> BOOLEAN]
    BY Zenon DEF Init
  <2>3. faults \in 0 .. MaxFaults
    BY NodeServerAssumption DEF Init
  <2>4. /\ fs = "none" /\ image = "none" /\ loop = "none" /\ host = "nothing" /\ staged = "no"
        /\ target = [t \in Targets |-> "nothing"] /\ published = [t \in Targets |-> "no"]
        /\ pc = [w \in Workers |-> "idle"] /\ req = [w \in Workers |-> None]
        /\ status = [w \in Workers |-> None]
    BY Zenon DEF Init
  <2> QED BY <1>1, <1>3, <2>1, <2>2, <2>3, <2>4 DEF TypeOK
<1>5. DataInv
  BY Zenon DEF Init, DataInv, Steps, Waiting
<1>6. CallInv /\ \A w \in Workers : StepReady(w)
  BY <1>1, Zenon DEF Init, CallInv, Active, StepReady, ImageSteps
<1>7. MountInv /\ BeliefInv
  BY DEF Init, MountInv, MountsBacked, ImageMounted, BeliefInv, PublishSound
<1> QED BY <1>4, <1>5, <1>6, <1>7, Zenon DEF ServerInv

-----------------------------------------------------------------------------
\* ServerInv holds in all reachable states.
THEOREM ServerInvHolds == Spec => []ServerInv
<1>1. Init => ServerInv
  BY ServerInit
<1>2. ServerInv /\ [Next]_vars => ServerInv'
  BY ServerNext
<1> QED
  BY <1>1, <1>2, PTL DEF Spec

\* Type correctness: a worker has a request exactly while a call runs.
THEOREM TypeCorrect == Spec => []TypeOK
<1>1. ServerInv => TypeOK
  BY DEF ServerInv
<1> QED
  BY <1>1, ServerInvHolds, PTL

\* Nothing is mounted without what it is mounted from, although DeleteVolume
\* (nodecontroller.go) and the node service (nodeserver.go) hold different
\* mutexes, whatever fails and whenever the driver or the node restarts.
THEOREM MountsBackedHolds == Spec => []MountsBacked
<1>1. ServerInv => MountsBacked
  BY DEF ServerInv, MountInv
<1> QED
  BY <1>1, ServerInvHolds, PTL

\* Where NodePublishVolume returned OK the application has its volume: the
\* filesystem and not an empty staging directory, a complete image, an xfs
\* filesystem that is prepared for fsdax.
THEOREM PublishSoundHolds == Spec => []PublishSound
<1>1. ServerInv => PublishSound
  BY Zenon DEF ServerInv, BeliefInv
<1> QED
  BY <1>1, ServerInvHolds, PTL

\* What NodeUnpublishVolume leaves behind when it returns OK.
Unpublished(w) ==
    /\ target'[T(w)] = "nothing" \/ (target'[T(w)] = "raw" /\ ~volume)
    /\ kind.kata => host' = "nothing" /\ loop' = "none"
    /\ kind.eph => ~volume'

\* The steps in which NodeUnpublishVolume returns OK.
LEMMA UnpublishReturns ==
    ASSUME ServerInv, NEW w \in Workers, Step(w), req[w].op = "unpublish",
           pc'[w] = "idle", status'[w] = "OK"
    PROVE  Unpublished(w)
<1> USE DEF Goto, Done, Fail, Fault
<1>0. TypeOK /\ CallInv /\ MountInv /\ StepReady(w)
  BY Zenon DEF ServerInv
<1>1. pc[w] # "idle" /\ StepOf(pc[w], "unpublish") /\ T(w) \in Targets
  BY <1>0, StepControl, RequestOf, Zenon DEF CallInv, Active
<1>2. /\ \A step : Moves(w, step) => step = "idle"
      /\ \A s : Return(w, s) => s = "OK"
  BY <1>0, Zenon DEF Moves, Return, TypeOK
<1>3. CASE UnpublishLookup(w)
  <2>1. ~volume /\ UNCHANGED <<diskVars, kernelVars>>
    BY <1>2, <1>3, Zenon DEF UnpublishLookup, Unmounted, Moves
  <2>2. ~Mountable
    BY <2>1, Zenon DEF Mountable
  <2>3. host = "nothing"
    BY <1>0, <2>2, Zenon DEF MountInv, MountsBacked, TypeOK
  <2>4. loop = "none"
    BY <1>0, <2>3, Zenon DEF MountInv, MountsBacked
  <2>5. target[T(w)] \notin {"fs", "image"}
    BY <1>0, <1>1, <2>2, <2>4, Zenon DEF MountInv, MountsBacked, ImageMounted
  <2>6. target[T(w)] \in {"nothing", "raw"}
    BY <1>0, <1>1, <2>5, Zenon DEF MountInv, Expected
  <2>7. volume' = volume /\ host' = host /\ loop' = loop /\ target' = target
    BY <2>1, Zenon DEF diskVars, kernelVars
  <2> QED BY <2>1, <2>3, <2>4, <2>6, <2>7, Zenon DEF Unpublished
<1>4. CASE RmTarget(w)
  <2>1. /\ pc[w] = "rmTarget" /\ target[T(w)] = "nothing" /\ ~kind.eph
        /\ host' = host /\ loop' = loop /\ target' = target
    BY <1>2, <1>4, Zenon DEF RmTarget, Moves, kernelVars
  <2>2. kind.kata => host = "nothing" /\ loop = "none"
    BY <1>0, <2>1, Zenon DEF StepReady
  <2> QED BY <2>1, <2>2, Zenon DEF Unpublished
<1>5. CASE DeleteEphemeral(w)
  <2>1. pc[w] = "deleteVolume" /\ volume' = FALSE /\ host' = host /\ loop' = loop /\ target' = target
    BY <1>2, <1>5, Zenon DEF DeleteEphemeral, Removed, kernelVars
  <2>2. target[T(w)] = "nothing" /\ (kind.kata => host = "nothing" /\ loop = "none")
    BY <1>0, <2>1, Zenon DEF StepReady
  <2> QED BY <2>1, <2>2, Zenon DEF Unpublished
<1>6. CASE UnmountTarget(w) \/ Detach(w) \/ UnmountHost(w)
  BY <1>2, <1>6, Zenon DEF UnmountTarget, Detach, UnmountHost, Unmounted, Moves
<1>7. pc[w] = "lookup" \/ pc[w] \in UnpublishSteps \/ pc[w] = "start"
  BY <1>0, <1>1, Zenon DEF StepOf, TypeOK, StageSteps
<1>8. Step(w) => \/ UnpublishLookup(w) \/ RmTarget(w) \/ DeleteEphemeral(w)
                 \/ UnmountTarget(w) \/ Detach(w) \/ UnmountHost(w)
  BY <1>7, Zenon DEF Step, UnpublishSteps, StageBlock, StageLookup, UnstageLookup, PublishLookup,
                     Lookup,
              CreateEphemeral, Detect, Mkfs, MountStaging, Configure, UnmountStaging, Check, MountHost,
              MountTarget, Image, ImageCreate, Attach, MountImage, At
<1> QED BY <1>3, <1>4, <1>5, <1>6, <1>8, Zenon

\* When NodeUnpublishVolume returns OK nothing of the publish is left: no
\* mount, no loop device, no ephemeral device, however often it was cut off
\* before (nodeserver.go, NodeUnpublishVolume).
THEOREM UnpublishCompleteHolds == Spec => UnpublishComplete
<1> DEFINE Complete == \A w \in Workers :
                         Active(w) /\ ~Active(w)' /\ req[w].op = "unpublish" /\ status'[w] = "OK"
                           => Unpublished(w)
<1>1. ServerInv /\ [Next]_vars => [Complete]_vars
  <2> SUFFICES ASSUME ServerInv, Next, NEW w \in Workers, pc[w] # "idle", pc'[w] = "idle",
                      req[w].op = "unpublish", status'[w] = "OK"
               PROVE  Unpublished(w)
    BY Zenon DEF Active
  <2>0. TypeOK /\ CallInv
    BY Zenon DEF ServerInv
  <2>1. ASSUME NEW v \in Workers, Step(v) PROVE Unpublished(w)
    <3>1. v = w
      BY <2>0, <2>1, StepControl, ZenonT(30) DEF Moves, Return, TypeOK
    <3> QED BY <2>1, <3>1, UnpublishReturns, Zenon
  <2>2. ASSUME NEW v \in Workers,
               \/ CallStage(v) \/ CallUnstage(v) \/ Timeout(v) \/ LockKey(v)
               \/ \E t \in Targets : CallPublish(v, t) \/ CallUnpublish(v, t)
        PROVE  FALSE
    <3>1. pc' = pc \/ \E step \in {"start", "lookup"} : pc' = [pc EXCEPT ![v] = step]
      BY <2>2, Zenon DEF CallStage, CallUnstage, CallPublish, CallUnpublish, Call, Timeout, LockKey,
                         Goto
    <3> QED BY <2>0, <3>1 DEF TypeOK
  <2>3. CASE Stop \/ ClearDevice \/ RemoveDevice
    BY <2>3, Zenon DEF Stop, ClearDevice, RemoveDevice, workVars
  <2>4. CASE Kill \/ Reboot
    <3>1. status'[w] = None
      BY <2>4 DEF Kill, Reboot, Killed
    <3> QED BY <3>1, NodeServerAssumption, Zenon DEF Statuses
  <2> QED BY <2>1, <2>2, <2>3, <2>4, Zenon DEF Next
<1> QED
  BY <1>1, ServerInvHolds, PTL DEF Spec, UnpublishComplete, Unpublished

=============================================================================
