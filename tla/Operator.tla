------------------------------ MODULE Operator ------------------------------
(***************************************************************************)
(* The operator, pkg/pmem-csi-operator: it creates the objects of a driver *)
(* deployment, keeps them as described by the PmemCSIDeployment CR, and    *)
(* reports their state in the status of the CR.                            *)
(*                                                                         *)
(* The API server, the informers, the work queue and the garbage collector *)
(* are external.  All reads except those of deleteObsoleteObjects come     *)
(* from the informer cache, which lags behind.  One CR name is modelled.   *)
(* The goroutine that reconciles and one goroutine per kind of object      *)
(* contend for reconcileMutex.  A patch has those fields which differ from *)
(* the object that it is based on.  Events about the same object that wait *)
(* for their goroutine are merged, only the owner is used of each.         *)
(***************************************************************************)
EXTENDS Naturals, FiniteSets, Sequences

CONSTANTS
    None,
    Handlers,       \* the keys of subObjectHandlers that are considered
    Obsolete,       \* objects that only an earlier release has created
    Specs,          \* what the admin may write into the CR
    operatorImage,
    MaxUid,         \* how often a CR may be created
    MaxLag,         \* by how many changes an informer may be behind
    Faulty,         \* requests to the API server may fail
    Disturbances    \* how often something happens that is not the operator's work

\* The objects with postUpdate.
Reported == Handlers \cap {"node driver", "controller driver"}
Immutable == {"CSIDriver"}
Objects == Handlers \cup Obsolete
Uids == 1 .. MaxUid
Foreign == 0        \* owner of objects that the operator has not created

\* The reported state of the components is the part of the status that the
\* operator builds on; phase and conditions are left out.
Components == [Reported -> {"", "NotReady", "Ready"}]
Unreported == [o \in Reported |-> ""]

Defaults == [deviceMode |-> "", image |-> "", labels |-> {}]

\* EnsureDefaults returns no error.
Valid(spec) == spec.deviceMode \in {"", "lvm", "direct"}

EnsureDefaults(spec) ==
    [spec EXCEPT !.deviceMode = IF @ = "" THEN "lvm" ELSE @,
                 !.image = IF @ = "" THEN operatorImage ELSE @]

\* Which part of the specification an object depends on.
getNodeDriverContainer(spec) == <<spec.image, spec.deviceMode>>
getControllerContainer(spec) == <<spec.image>>
getNodeSetupContainer(spec) == <<spec.image>>

getNodeDaemonSet(spec) == <<getNodeDriverContainer(spec), spec.labels>>
getControllerDeployment(spec) == <<getControllerContainer(spec), spec.labels>>
getNodeSetupDaemonSet(spec) == <<getNodeSetupContainer(spec), spec.labels>>
getCSIDriver(spec) == <<>>

Content(o, spec) ==
    CASE o = "node driver" -> getNodeDaemonSet(spec)
      [] o = "controller driver" -> getControllerDeployment(spec)
      [] o = "node setup driver" -> getNodeSetupDaemonSet(spec)
      [] o = "CSIDriver" -> getCSIDriver(spec)

CRs == [uid : Uids, spec : Specs, deleting : BOOLEAN, comps : Components]
SavedCRs == [uid : Uids, spec : Specs, comps : Components]
Reconciles ==
    [uid : Uids, spec : Specs, comps : Components, touched : BOOLEAN,
     todo : SUBSET Handlers, step : {"redeploy", "ok", "failed"}]

\* What an object may consist of: as created, from an earlier release, edited by
\* others, or as described by a CR.
Contents ==
    {<<>>, <<"old">>, <<"edited">>}
      \cup {Content(h, EnsureDefaults(spec)) : h \in Handlers, spec \in Specs}
ObjectRecords ==
    [owner : Uids \cup {Foreign}, content : Contents,
     labels : SUBSET UNION {spec.labels : spec \in Specs}, ready : BOOLEAN]
ObjectStates == ObjectRecords \cup {None}

ASSUME OperatorAssumption ==
    /\ Handlers \subseteq {"node driver", "controller driver", "CSIDriver", "node setup driver"}
    /\ Handlers \cap Obsolete = {}
    /\ Defaults \in Specs
    /\ \A spec \in Specs : DOMAIN spec = {"deviceMode", "image", "labels"}
    /\ MaxUid \in Nat \ {0} /\ MaxLag \in Nat /\ Disturbances \in Nat /\ Faulty \in BOOLEAN
    /\ None \notin CRs \cup SavedCRs \cup Reconciles \cup ObjectRecords

VARIABLES
    cr,             \* the CR [uid, spec, deleting, comps], or None
    objs,           \* objs[o]: object o [owner, content, labels, ready], or None
    crCache, cache, \* what the informers know about them
    watch,          \* watch[o]: later states of o that the informer will learn about
    crEvents,       \* events about the CR that were not handled yet
    pending,        \* pending[o]: owners in events about o that were not handled yet
    deployments,    \* the CR [uid, spec, comps] that was reconciled last, or None
    copies,         \* copies[o]: the copy of it with which an event is handled, or None
    queued,         \* the CR is in the work queue
    rec,            \* the running Reconcile, or None; it holds reconcileMutex
    lastUid,        \* UID of the CR that was created last
    left            \* how many disturbances are left

apiVars == <<cr, objs, watch, lastUid>>
informerVars == <<crCache, cache, crEvents, pending>>
objVars == <<objs, watch>>
vars == <<apiVars, informerVars, deployments, copies, queued, rec, left>>

-----------------------------------------------------------------------------
\* modify and the labels of the object itself, which get added, never removed.
modify(d, o, obj) ==
    [obj EXCEPT !.content = Content(o, EnsureDefaults(d.spec)), !.labels = @ \cup d.spec.labels]

getObjectMeta(d) == [owner |-> d.uid, content |-> <<>>, labels |-> {}, ready |-> FALSE]

Patched(obj, base, new) ==
    [obj EXCEPT !.content = IF new.content = base.content THEN @ ELSE new.content,
                !.labels = @ \cup (new.labels \ base.labels)]

\* The API server fails n requests.
FailTimes(n) == (n = 0 \/ Faulty) /\ n <= left /\ left' = left - n

\* What a request that makes object o become obj, or fails, leads to.  A failure
\* of the API server costs a disturbance.
Success(o, obj) ==
    [ok |-> TRUE, obj |-> obj, seen |-> IF obj = objs[o] THEN <<>> ELSE <<obj>>, cost |-> 0]
Failure(o) == [ok |-> FALSE, obj |-> objs[o], seen |-> <<>>, cost |-> 0]
Fault(o) == [Failure(o) EXCEPT !.cost = 1]

\* Mutant: an object of somebody else is used like an own one.
RedeployForeign(d, o) ==
    LET old == cache[o]
    IN  IF old = None
          THEN {IF objs[o] = None THEN Success(o, modify(d, o, getObjectMeta(d))) ELSE Failure(o)}
          ELSE {IF objs[o] = None THEN Failure(o)
                ELSE Success(o, Patched(objs[o], old, modify(d, o, old)))}

\* redeploy: the possible results.  An immutable object is deleted and created.
redeploy(d, o) ==
    LET old == cache[o]                         \* getSubObject
        new == modify(d, o, old)
        created == modify(d, o, getObjectMeta(d))
        recreated == [new EXCEPT !.ready = FALSE]
    IN  CASE old = None ->
               IF objs[o] = None THEN {Success(o, created), Fault(o)} ELSE {Failure(o)}
          [] old # None /\ old.owner # d.uid -> {Failure(o)}
          [] old # None /\ old.owner = d.uid /\ new = old -> {Success(o, objs[o])}
          [] OTHER ->
               IF objs[o] = None THEN {Failure(o)}
               ELSE IF o \in Immutable
                 THEN {[Success(o, recreated) EXCEPT !.seen = <<None, recreated>>], Fault(o),
                       [Fault(o) EXCEPT !.obj = None, !.seen = <<None>>]}
                 ELSE {Success(o, Patched(objs[o], old, new)), Fault(o)}

\* Object o becomes obj, informers will see all of seen.
Publish(o, obj, seen) ==
    /\ objs' = [objs EXCEPT ![o] = obj]
    /\ Len(watch[o]) + Len(seen) <= MaxLag
    /\ watch' = [watch EXCEPT ![o] = @ \o seen]

\* postUpdate: SetDriverStatus with the state of the object before the update.
postUpdate(comps, o) ==
    [c \in Reported |->
        IF c # o THEN comps[c] ELSE IF cache[o] # None /\ cache[o].ready THEN "Ready" ELSE "NotReady"]

\* patchDeploymentStatus, for a CR that still exists.  The list of components
\* is in the patch if one of them was set, then it gets replaced completely.
PatchStatus(comps, touched) ==
    /\ cr' = IF touched THEN [cr EXCEPT !.comps = comps] ELSE cr
    /\ deployments' = IF deployments = None THEN None ELSE [deployments EXCEPT !.comps = comps]

-----------------------------------------------------------------------------
\* The types of all variables.
TypeOK ==
    /\ cr \in CRs \cup {None} /\ crCache \in CRs \cup {None}
    /\ objs \in [Objects -> ObjectStates] /\ cache \in [Handlers -> ObjectStates]
    /\ watch \in [Handlers -> Seq(ObjectStates)]
    /\ crEvents \subseteq {"changed", "gone"}
    /\ pending \in [Handlers -> SUBSET Uids]
    /\ deployments \in SavedCRs \cup {None} /\ copies \in [Handlers -> SavedCRs \cup {None}]
    /\ queued \in BOOLEAN
    /\ rec \in Reconciles \cup {None}
    /\ lastUid \in Uids /\ left \in 0 .. Disturbances

NewCR(uid, spec) == [uid |-> uid, spec |-> spec, deleting |-> FALSE, comps |-> Unreported]

\* The operator starts: everything is listed, a CR that exists is reconciled.
Started ==
    /\ crCache' = cr' /\ cache' = [o \in Handlers |-> objs'[o]]
    /\ watch' = [o \in Handlers |-> <<>>]
    /\ crEvents' = IF cr' = None THEN {} ELSE {"changed"}
    /\ pending' = [o \in Handlers |-> {}]
    /\ copies' = [o \in Handlers |-> None]
    /\ deployments' = None /\ queued' = FALSE /\ rec' = None

\* A new deployment, or one that an earlier release has left behind.
Init ==
    /\ \/ /\ \E spec \in Specs : cr = NewCR(1, spec)
          /\ objs = [o \in Objects |-> None]
       \/ /\ cr = NewCR(1, Defaults)
          /\ objs = [o \in Objects |-> [owner |-> 1, content |-> <<"old">>, labels |-> {}, ready |-> TRUE]]
    /\ crCache = cr /\ cache = [o \in Handlers |-> objs[o]]
    /\ watch = [o \in Handlers |-> <<>>]
    /\ crEvents = {"changed"}
    /\ pending = [o \in Handlers |-> {}]
    /\ copies = [o \in Handlers |-> None]
    /\ deployments = None /\ queued = FALSE /\ rec = None
    /\ lastUid = 1 /\ left = Disturbances

-----------------------------------------------------------------------------
\* Mutant: newDeployment modifies the CR that was saved.
StartReconcileShared ==
    /\ rec = None /\ queued /\ crCache # None
    /\ queued' = FALSE
    /\ IF crCache.deleting
         THEN UNCHANGED <<rec, deployments>>
         ELSE LET spec == EnsureDefaults(crCache.spec)
              IN  /\ deployments' = [uid |-> crCache.uid, spec |-> spec, comps |-> crCache.comps]
                  /\ rec' = [uid |-> crCache.uid, spec |-> spec, comps |-> crCache.comps, touched |-> FALSE,
                             todo |-> IF Valid(spec) THEN Handlers ELSE {},
                             step |-> IF Valid(spec) THEN "redeploy" ELSE "failed"]
    /\ UNCHANGED <<apiVars, informerVars, copies, left>>

\* Reconcile, up to newDeployment.  For a CR that does not exist it fails and
\* is tried again and again, which changes nothing.
StartReconcile ==
    /\ rec = None /\ queued /\ crCache # None
    /\ queued' = FALSE
    /\ IF crCache.deleting
         THEN UNCHANGED <<rec, deployments>>
         ELSE /\ deployments' = [uid |-> crCache.uid, spec |-> crCache.spec, comps |-> crCache.comps]
              /\ rec' = [uid |-> crCache.uid, spec |-> crCache.spec, comps |-> crCache.comps, touched |-> FALSE,
                         todo |-> IF Valid(crCache.spec) THEN Handlers ELSE {},
                         step |-> IF Valid(crCache.spec) THEN "redeploy" ELSE "failed"]
    /\ UNCHANGED <<apiVars, informerVars, copies, left>>

\* reconcile: one iteration of redeployAll.
RedeployNext(o) ==
    /\ rec # None /\ rec.step = "redeploy" /\ o \in rec.todo
    /\ \E res \in redeploy(rec, o) :
          /\ FailTimes(res.cost)
          /\ Publish(o, res.obj, res.seen)
          /\ rec' = IF res.ok
                      THEN [rec EXCEPT !.todo = @ \ {o}, !.comps = postUpdate(@, o),
                                       !.touched = @ \/ o \in Reported]
                      ELSE [rec EXCEPT !.step = "failed"]
    /\ UNCHANGED <<cr, lastUid, informerVars, deployments, copies, queued>>

\* reconcile: deleteObsoleteObjects.
deleteObsoleteObjects ==
    LET isObsolete(o) == objs[o] # None /\ objs[o].owner = rec.uid /\ o \notin Handlers
    IN
    /\ rec # None /\ rec.step = "redeploy" /\ rec.todo = {}
    /\ \/ /\ objs' = [o \in Objects |-> IF isObsolete(o) THEN None ELSE objs[o]]
          /\ rec' = [rec EXCEPT !.step = "ok"]
          /\ UNCHANGED left
       \/ /\ FailTimes(1)
          /\ rec' = [rec EXCEPT !.step = "failed"]
          /\ UNCHANGED objs
    /\ UNCHANGED <<cr, watch, lastUid, informerVars, deployments, copies, queued>>

\* Mutant: a failure is not tried again.
FinishOnce ==
    /\ rec # None /\ rec.step \in {"ok", "failed"}
    /\ IF cr # None
         THEN PatchStatus(rec.comps, rec.touched)
         ELSE UNCHANGED <<cr, deployments>>
    /\ rec' = None
    /\ UNCHANGED <<objVars, lastUid, informerVars, copies, queued, left>>

\* The rest of Reconcile.  That the status cannot be updated is only logged.
FinishReconcile ==
    /\ rec # None /\ rec.step \in {"ok", "failed"}
    /\ \/ /\ cr # None
          /\ PatchStatus(rec.comps, rec.touched)
          /\ UNCHANGED left
       \/ cr = None /\ UNCHANGED <<cr, deployments, left>>
       \/ FailTimes(1) /\ UNCHANGED <<cr, deployments>>
    /\ rec' = None
    /\ queued' = (queued \/ rec.step = "failed")
    /\ UNCHANGED <<objVars, lastUid, informerVars, copies>>

-----------------------------------------------------------------------------
\* Mutant: a CR that is gone is not forgotten.
HandleCREventKept ==
    /\ rec = None
    /\ \E e \in crEvents : crEvents' = crEvents \ {e} /\ queued' = (queued \/ e = "changed")
    /\ UNCHANGED <<apiVars, crCache, cache, pending, deployments, copies, rec, left>>

\* The predicate for the CR: UpdateFunc and DeleteFunc.
HandleCREvent ==
    /\ rec = None
    /\ \E e \in crEvents :
          /\ crEvents' = crEvents \ {e}
          /\ queued' = (queued \/ e = "changed")
          /\ deployments' = IF e = "gone" THEN None ELSE deployments
    /\ UNCHANGED <<apiVars, crCache, cache, pending, copies, rec, left>>

\* eventFunc: getDeploymentFor, without reconcileMutex.  Events for objects
\* without a known owner are ignored.
getDeploymentFor(o) ==
    /\ copies[o] = None
    /\ \E u \in pending[o] :
          /\ pending' = [pending EXCEPT ![o] = @ \ {u}]
          /\ copies' = [copies EXCEPT ![o] =
                IF deployments # None /\ deployments.uid = u /\ Valid(deployments.spec)
                  THEN deployments ELSE None]
    /\ UNCHANGED <<apiVars, crCache, cache, crEvents, deployments, queued, rec, left>>

\* The rest of eventFunc, with handleEvent: an error is handed to Reconcile.
handleEvent(o) ==
    LET d == copies[o]
    IN
    /\ copies[o] # None /\ rec = None
    /\ copies' = [copies EXCEPT ![o] = None]
    /\ \E res \in redeploy(d, o) :
          /\ Publish(o, res.obj, res.seen)
          /\ \/ /\ res.ok /\ cr # None
                /\ PatchStatus(postUpdate(d.comps, o), o \in Reported)
                /\ UNCHANGED <<queued, left>>
             \/ /\ ~res.ok \/ cr = None
                /\ FailTimes(res.cost)
                /\ queued' = TRUE
                /\ UNCHANGED <<cr, deployments>>
             \/ /\ res.ok /\ FailTimes(1)
                /\ queued' = TRUE
                /\ UNCHANGED <<cr, deployments>>
    /\ UNCHANGED <<lastUid, informerVars, rec>>

-----------------------------------------------------------------------------
\* An informer catches up.  Creation of an object causes no event.
Sync(o) ==
    /\ watch[o] # <<>>
    /\ cache' = [cache EXCEPT ![o] = Head(watch[o])]
    /\ watch' = [watch EXCEPT ![o] = Tail(@)]
    /\ pending' = IF cache[o] # None /\ cache[o].owner # Foreign
                    THEN [pending EXCEPT ![o] = @ \cup {cache[o].owner}]
                    ELSE pending
    /\ UNCHANGED <<cr, objs, lastUid, crCache, crEvents, deployments, copies, queued, rec, left>>

\* Changes of the status cause no event that matters.
SyncCR ==
    /\ crCache # cr
    /\ crCache' = cr
    /\ crEvents' = crEvents \cup
          (IF cr = None \/ cr.deleting THEN {"gone"}
           ELSE IF crCache = None \/ crCache.spec # cr.spec THEN {"changed"} ELSE {})
    /\ UNCHANGED <<apiVars, cache, pending, deployments, copies, queued, rec, left>>

LiveUids == {c.uid : c \in {d \in {cr} \ {None} : ~d.deleting}}

Garbage == {o \in Objects : objs[o] # None /\ objs[o].owner # Foreign /\ objs[o].owner \notin LiveUids}

\* The garbage collector: objects without owner, and those of an owner that is
\* deleted in the foreground, which goes away after them.
CollectGarbage ==
    /\ \/ \E o \in Garbage \cap Handlers : Publish(o, None, <<None>>) /\ UNCHANGED cr
       \/ \E o \in Garbage \cap Obsolete : objs' = [objs EXCEPT ![o] = None] /\ UNCHANGED <<cr, watch>>
       \/ /\ cr # None /\ cr.deleting /\ \A o \in Garbage : objs[o].owner # cr.uid
          /\ cr' = None
          /\ UNCHANGED objVars
    /\ UNCHANGED <<lastUid, informerVars, deployments, copies, queued, rec, left>>

\* Something else happens: the admin changes or deletes the CR, an object is
\* modified, deleted or created by others, or pods become ready or fail.
DisturbCR ==
    /\ left > 0 /\ left' = left - 1
    /\ cr # None /\ ~cr.deleting
    /\ \/ \E spec \in Specs \ {cr.spec} : cr' = [cr EXCEPT !.spec = spec]
       \/ cr' = [cr EXCEPT !.deleting = TRUE]
       \/ cr' = None
    /\ UNCHANGED <<objVars, lastUid, informerVars, deployments, copies, queued, rec>>

\* A CR, with defaults, is created again once the operator knows about the deletion.
RecreateCR ==
    /\ cr = None /\ crCache = None /\ crEvents = {} /\ lastUid < MaxUid
    /\ lastUid' = lastUid + 1
    /\ cr' = NewCR(lastUid', Defaults)
    /\ UNCHANGED <<objVars, informerVars, deployments, copies, queued, rec, left>>

DisturbObject(o) ==
    /\ left > 0 /\ left' = left - 1
    /\ \E obj \in (IF objs[o] = None
                     THEN {[owner |-> Foreign, content |-> <<>>, labels |-> {}, ready |-> FALSE]}
                     ELSE {None, [objs[o] EXCEPT !.content = <<"edited">>],
                           [objs[o] EXCEPT !.ready = (o \in Reported /\ ~@)]} \ {objs[o]}) :
          Publish(o, obj, <<obj>>)
    /\ UNCHANGED <<cr, lastUid, informerVars, deployments, copies, queued, rec>>

Restart ==
    /\ left > 0 /\ left' = left - 1
    /\ UNCHANGED <<cr, objs, lastUid>>
    /\ Started

-----------------------------------------------------------------------------
Next ==
    \/ StartReconcile \/ deleteObsoleteObjects \/ FinishReconcile \/ HandleCREvent
    \/ \E o \in Handlers : RedeployNext(o)
    \/ \E o \in Handlers : getDeploymentFor(o) \/ handleEvent(o) \/ Sync(o) \/ DisturbObject(o)
    \/ SyncCR \/ CollectGarbage \/ DisturbCR \/ RecreateCR \/ Restart

Spec == Init /\ [][Next]_vars

\* The goroutines of the operator run, informers catch up, garbage is collected.
Fairness ==
    /\ WF_vars(StartReconcile) /\ WF_vars(deleteObsoleteObjects) /\ WF_vars(FinishReconcile)
    /\ WF_vars(\E o \in Handlers : RedeployNext(o))
    /\ WF_vars(HandleCREvent)
    /\ \A o \in Handlers : WF_vars(getDeploymentFor(o)) /\ WF_vars(handleEvent(o)) /\ WF_vars(Sync(o))
    /\ WF_vars(SyncCR) /\ WF_vars(CollectGarbage)

FairSpec == Spec /\ Fairness

-----------------------------------------------------------------------------
AsDescribed(o) ==
    /\ objs[o] # None /\ objs[o].owner = cr.uid
    /\ objs[o].content = Content(o, EnsureDefaults(cr.spec)) /\ cr.spec.labels \subseteq objs[o].labels

Deployed ==
    /\ \A o \in Handlers : AsDescribed(o)
    /\ \A o \in Obsolete : objs[o] = None \/ objs[o].owner # cr.uid

\* There is nothing that the operator or an informer still would do.
Quiescent ==
    /\ rec = None /\ ~queued /\ crEvents = {}
    /\ \A o \in Handlers : pending[o] = {} /\ copies[o] = None /\ watch[o] = <<>>
    /\ crCache = cr

\* When the operator rests, the objects of a CR are as described by the CR, for
\* any order in which edits, events, failures and restarts have happened.
RestsWhenDeployed == Quiescent /\ cr # None /\ ~cr.deleting => Deployed

\* getSubObject protects objects of others: one is changed only when the
\* informer has not noticed yet that it took the place of an own object.
OthersUntouched ==
    [][\A o \in Handlers :
          objs[o] # None /\ objs[o].owner = Foreign /\ objs'[o] # objs[o] /\ left' = left
              => cache[o] # None /\ cache[o].owner # Foreign]_vars

HasForeign == \E o \in Handlers : objs[o] # None /\ objs[o].owner = Foreign

\* "It ensures that any undesirable change is reverted" (controller_driver.go:
\* 625): in the end all objects are as described by the CR, or they are gone
\* together with the CR.
Converges ==
    <>[](IF cr = None THEN \A o \in Objects : objs[o] = None \/ objs[o].owner = Foreign
         ELSE ~cr.deleting /\ (Valid(cr.spec) /\ ~HasForeign => Deployed))

\* "Component becomes `Ready` if all the instances(Pods) of the driver component
\* are in running state. Otherwise, `NotReady`" (deployment_types.go:201-203):
\* when the operator rests, the status of the CR is that of the objects.
StatusCurrent ==
    Quiescent /\ cr # None /\ ~cr.deleting /\ Deployed =>
        \A o \in Reported : (cr.comps[o] = "Ready") = objs[o].ready

=============================================================================
