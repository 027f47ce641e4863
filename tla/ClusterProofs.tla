--------------------------- MODULE ClusterProofs ----------------------------
(***************************************************************************)
(* The parts of the driver that act on the cluster: the operator and, at   *)
(* the end, the rescheduler.                                               *)
(*                                                                         *)
(* When the operator rests, all objects are as described by the CR.  Two   *)
(* ways lead there, the work queue and the events about each object, and   *)
(* either may work with outdated copies, of the object as well as of the   *)
(* CR.  The invariant says for each object what the operator still is      *)
(* going to do about it, as long as it is not as described by that state   *)
(* of the CR that the operator has seen last.                              *)
(***************************************************************************)
EXTENDS Operator, TLAPS

\* The operator has to keep the objects of the CR that it knows.
Live == crCache # None /\ ~crCache.deleting

Due == "changed" \in crEvents \/ queued

\* A CR that gets deleted stays deleted, and it is forgotten before the next one
\* is known.
KnownInv ==
    /\ crCache # None /\ cr # None => crCache.uid = cr.uid /\ (crCache.deleting => cr.deleting)
    /\ Live \/ (cr # None /\ crCache = None) => "gone" \notin crEvents

\* What was saved is what is reconciled or was reconciled last.
SavedInv ==
    /\ rec # None => /\ deployments # None
                     /\ deployments.uid = rec.uid /\ deployments.spec = rec.spec
                     /\ rec.step # "failed" => Valid(rec.spec)
    /\ Live /\ ~Due =>
          /\ deployments # None
          /\ deployments.uid = crCache.uid /\ deployments.spec = crCache.spec
          /\ Valid(crCache.spec) \/ (rec # None /\ rec.step = "failed")

\* The states of object o that the informer knows, i = 0, or will learn about.
Known(o, i) == IF i = 0 THEN cache[o] ELSE watch[o][i]

\* An informer misses nothing.
LagInv == \A o \in Handlers : objs[o] = Known(o, Len(watch[o]))

Own(obj) == obj # None /\ obj.owner = crCache.uid

AsSeen(o, obj) ==
    /\ Own(obj)
    /\ obj.content = Content(o, EnsureDefaults(crCache.spec))
    /\ crCache.spec.labels \subseteq obj.labels

\* There will be an event about o as object of the CR.
Coming(o) == \E i \in 0 .. Len(watch[o]) - 1 : Own(Known(o, i))

Fresh(o) == copies[o] # None /\ copies[o].uid = crCache.uid /\ copies[o].spec = crCache.spec

Notified(o) == Coming(o) \/ crCache.uid \in pending[o] \/ Fresh(o)

ToDo(o) == Due \/ (rec # None /\ (rec.step = "failed" \/ (rec.step = "redeploy" /\ o \in rec.todo)))

ObjectInv == Live => \A o \in Handlers : AsSeen(o, objs[o]) \/ Notified(o) \/ ToDo(o)

ObsoleteInv == Live => Due \/ (rec # None /\ rec.step # "ok") \/ \A o \in Obsolete : ~Own(objs[o])

OperatorInv == TypeOK /\ KnownInv /\ SavedInv /\ LagInv /\ ObjectInv /\ ObsoleteInv

-----------------------------------------------------------------------------
\* modify keeps the owner and the state of an object, and adds labels.
LEMMA Modified ==
    ASSUME NEW o \in Handlers, NEW d, d.spec \in Specs, NEW obj \in ObjectRecords
    PROVE  LET new == modify(d, o, obj)
           IN  /\ new \in ObjectRecords
               /\ new.owner = obj.owner /\ new.ready = obj.ready
               /\ new.content = Content(o, EnsureDefaults(d.spec))
               /\ new.labels = obj.labels \cup d.spec.labels
<1> DEFINE content == Content(o, EnsureDefaults(d.spec))
<1>1. content \in Contents BY DEF Contents
<1>2. d.spec.labels \subseteq UNION {spec.labels : spec \in Specs} OBVIOUS
<1> HIDE DEF content
<1>3. modify(d, o, obj) = [obj EXCEPT !.content = content, !.labels = @ \cup d.spec.labels]
      BY DEF modify, content
<1>4. obj.labels \cup d.spec.labels \in SUBSET UNION {spec.labels : spec \in Specs}
      BY <1>2 DEF ObjectRecords
<1>5. modify(d, o, obj) \in ObjectRecords BY <1>1, <1>3, <1>4, Zenon DEF ObjectRecords
<1>6. QED BY <1>3, <1>5 DEF ObjectRecords, content

\* getObjectMeta starts with an object of the CR.
LEMMA MetaType ==
    ASSUME NEW d, d.uid \in Uids
    PROVE  getObjectMeta(d) \in ObjectRecords /\ getObjectMeta(d).owner = d.uid
BY DEF getObjectMeta, ObjectRecords, Contents

\* A patch sets what the new version has changed in the base version.
LEMMA PatchedObject ==
    ASSUME NEW obj \in ObjectRecords, NEW base \in ObjectRecords, NEW new \in ObjectRecords
    PROVE  LET p == Patched(obj, base, new)
           IN  /\ p \in ObjectRecords /\ p.owner = obj.owner /\ p.ready = obj.ready
               /\ obj = base => p.content = new.content /\ new.labels \subseteq p.labels
<1> DEFINE content == IF new.content = base.content THEN obj.content ELSE new.content
           labels1 == obj.labels \cup (new.labels \ base.labels)
<1>1. content \in Contents /\ labels1 \in SUBSET UNION {spec.labels : spec \in Specs}
      BY DEF ObjectRecords
<1>2. Patched(obj, base, new) = [obj EXCEPT !.content = content, !.labels = labels1]
      BY DEF Patched, ObjectRecords
<1>3. obj = base => content = new.content /\ new.labels \subseteq labels1 OBVIOUS
<1> HIDE DEF content, labels1
<1>4. Patched(obj, base, new) \in ObjectRecords BY <1>1, <1>2, Zenon DEF ObjectRecords
<1>5. QED BY <1>2, <1>3, <1>4 DEF ObjectRecords

\* What redeploy(d, o) makes of object o.
LEMMA Redeployed ==
    ASSUME TypeOK, LagInv, NEW o \in Handlers, NEW d, d.uid \in Uids, d.spec \in Specs,
           NEW res \in redeploy(d, o)
    PROVE  /\ res.obj \in ObjectStates /\ res.cost \in {0, 1} /\ res.ok \in BOOLEAN
           /\ \/ res.seen = <<>> /\ res.obj = objs[o]
              \/ res.seen = <<res.obj>>
              \/ res.seen = <<None, res.obj>>
           /\ res.obj # objs[o] /\ objs[o] # None => cache[o] # None /\ cache[o].owner = d.uid
           /\ res.ok /\ d.uid = crCache.uid /\ d.spec = crCache.spec =>
                 AsSeen(o, res.obj) \/ (Own(cache[o]) /\ watch[o] # <<>>)
<1> DEFINE old == cache[o]
           new == modify(d, o, old)
           created == modify(d, o, getObjectMeta(d))
           recreated == [new EXCEPT !.ready = FALSE]
<1>1. objs[o] \in ObjectStates /\ old \in ObjectStates BY DEF TypeOK, Objects
<1>2. watch[o] = <<>> => objs[o] = old
      BY DEF LagInv, Known
<1>3. created \in ObjectRecords /\ created.owner = d.uid
      /\ created.content = Content(o, EnsureDefaults(d.spec)) /\ d.spec.labels \subseteq created.labels
      BY Modified, MetaType
<1>4. old # None => /\ new \in ObjectRecords /\ new.owner = old.owner
                    /\ new.content = Content(o, EnsureDefaults(d.spec)) /\ d.spec.labels \subseteq new.labels
      BY <1>1, Modified DEF ObjectStates
<1>5. old # None => /\ recreated \in ObjectRecords /\ recreated.owner = old.owner
                    /\ recreated.content = new.content /\ recreated.labels = new.labels
      BY <1>4, Zenon DEF ObjectRecords
<1>6. None \notin ObjectRecords BY OperatorAssumption
<1>7. CASE old = None /\ objs[o] = None
  <2>1. res \in {Success(o, created), Fault(o)} BY <1>7 DEF redeploy
  <2>2. CASE res = Success(o, created)
        BY <1>3, <1>6, <1>7, <2>2 DEF Success, AsSeen, Own, ObjectStates
  <2>3. CASE res = Fault(o)
        BY <1>1, <2>3 DEF Fault, Failure
  <2> QED BY <2>1, <2>2, <2>3
<1>8. CASE (old = None /\ objs[o] # None) \/ (old # None /\ old.owner # d.uid)
  <2>1. res = Failure(o) BY <1>8 DEF redeploy
  <2> QED BY <1>1, <2>1 DEF Failure
<1>9. CASE old # None /\ old.owner = d.uid /\ new = old
  <2>1. res = Success(o, objs[o]) BY <1>9 DEF redeploy
  <2>2. watch[o] = <<>> /\ d.uid = crCache.uid /\ d.spec = crCache.spec => AsSeen(o, objs[o])
        BY <1>2, <1>4, <1>9 DEF AsSeen, Own
  <2> QED BY <1>1, <1>9, <2>1, <2>2 DEF Success, Own
<1>10. CASE old # None /\ old.owner = d.uid /\ new # old /\ objs[o] = None
  <2>1. res = Failure(o) BY <1>10 DEF redeploy
  <2> QED BY <1>1, <2>1 DEF Failure
<1>11. CASE old # None /\ old.owner = d.uid /\ new # old /\ objs[o] # None /\ o \in Immutable
  <2>1. res \in {[Success(o, recreated) EXCEPT !.seen = <<None, recreated>>], Fault(o),
                 [Fault(o) EXCEPT !.obj = None, !.seen = <<None>>]}
        BY <1>11, Zenon DEF redeploy
  <2>2. CASE res = [Success(o, recreated) EXCEPT !.seen = <<None, recreated>>]
        BY <1>4, <1>5, <1>6, <1>11, <2>2, Zenon DEF Success, AsSeen, Own, ObjectStates
  <2>3. CASE res = Fault(o)
        BY <1>1, <2>3 DEF Fault, Failure
  <2>4. CASE res = [Fault(o) EXCEPT !.obj = None, !.seen = <<None>>]
        BY <1>11, <2>4 DEF Fault, Failure, ObjectStates
  <2> QED BY <2>1, <2>2, <2>3, <2>4, Zenon
<1>12. CASE old # None /\ old.owner = d.uid /\ new # old /\ objs[o] # None /\ o \notin Immutable
  <2> DEFINE p == Patched(objs[o], old, new)
  <2>1. res \in {Success(o, p), Fault(o)} BY <1>12 DEF redeploy
  <2>2. p \in ObjectRecords /\ p.owner = objs[o].owner
        /\ (objs[o] = old => p.content = new.content /\ new.labels \subseteq p.labels)
        BY <1>1, <1>4, <1>12, PatchedObject DEF ObjectStates
  <2> HIDE DEF p
  <2>3. watch[o] = <<>> /\ d.uid = crCache.uid /\ d.spec = crCache.spec => AsSeen(o, p)
        BY <1>2, <1>4, <1>6, <1>12, <2>2 DEF AsSeen, Own
  <2>4. CASE res = Success(o, p)
        BY <1>12, <2>2, <2>3, <2>4 DEF Success, Own, ObjectStates
  <2>5. CASE res = Fault(o)
        BY <1>1, <2>5 DEF Fault, Failure
  <2> QED BY <2>1, <2>4, <2>5
<1>13. QED BY <1>7, <1>8, <1>9, <1>10, <1>11, <1>12

\* What follows s in s \o t.
LEMMA Followed ==
    ASSUME NEW S, NEW s \in Seq(S), NEW t \in Seq(S)
    PROVE  /\ s \o t \in Seq(S) /\ Len(s \o t) = Len(s) + Len(t) /\ Len(s) \in Nat /\ Len(t) \in Nat
           /\ \A i \in 1 .. Len(s) : (s \o t)[i] = s[i]
           /\ \A i \in 1 .. Len(t) : (s \o t)[Len(s) + i] = t[i]
OBVIOUS

\* Informers will learn about a change of object o, and there will be an event
\* if it was an object of the CR.
LEMMA Published ==
    ASSUME TypeOK, LagInv, NEW o \in Handlers, NEW obj \in ObjectStates, NEW seen,
           \/ seen = <<>> /\ obj = objs[o]
           \/ seen = <<obj>>
           \/ seen = <<None, obj>>,
           Publish(o, obj, seen), UNCHANGED <<crCache, cache>>
    PROVE  /\ objs' \in [Objects -> ObjectStates] /\ watch' \in [Handlers -> Seq(ObjectStates)]
           /\ LagInv'
           /\ objs'[o] = obj
           /\ \A p \in Objects \ {o} : objs'[p] = objs[p]
           /\ \A p \in Handlers \ {o} : watch'[p] = watch[p]
           /\ Coming(o) => Coming(o)'
           /\ seen # <<>> /\ Own(objs[o]) => Coming(o)'
           /\ Own(cache[o]) /\ watch[o] # <<>> => Coming(o)'
<1>1. seen \in Seq(ObjectStates) /\ (seen = <<>> \/ seen[Len(seen)] = obj)
  <2>1. None \in ObjectStates BY DEF ObjectStates
  <2>2. CASE seen = <<>> BY <2>2
  <2>3. CASE seen = <<obj>> BY <2>3
  <2>4. CASE seen = <<None, obj>> BY <2>1, <2>4
  <2>5. QED BY <2>2, <2>3, <2>4
<1>2. objs' = [objs EXCEPT ![o] = obj] /\ watch' = [watch EXCEPT ![o] = watch[o] \o seen] BY DEF Publish
<1>3. watch[o] \in Seq(ObjectStates) /\ o \in Objects BY DEF TypeOK, Objects
<1>4. /\ watch[o] \o seen \in Seq(ObjectStates) /\ Len(watch[o]) \in Nat /\ Len(seen) \in Nat
      /\ Len(watch[o] \o seen) = Len(watch[o]) + Len(seen)
      /\ \A i \in 1 .. Len(watch[o]) : (watch[o] \o seen)[i] = watch[o][i]
      /\ \A i \in 1 .. Len(seen) : (watch[o] \o seen)[Len(watch[o]) + i] = seen[i]
      BY <1>1, <1>3, Followed
<1>5. /\ objs' \in [Objects -> ObjectStates] /\ watch' \in [Handlers -> Seq(ObjectStates)]
      /\ objs'[o] = obj /\ watch'[o] = watch[o] \o seen
      /\ \A p \in Objects \ {o} : objs'[p] = objs[p]
      /\ \A p \in Handlers \ {o} : watch'[p] = watch[p]
      BY <1>2, <1>3, <1>4 DEF TypeOK
<1>6. \A i \in 0 .. Len(watch[o]) : Known(o, i)' = Known(o, i)
      BY <1>4, <1>5 DEF Known
<1>7. seen # <<>> => Len(seen) > 0 /\ Known(o, Len(watch[o]))' = obj
  <2> SUFFICES ASSUME seen # <<>> PROVE Len(seen) > 0 /\ Known(o, Len(watch[o]))' = obj
      OBVIOUS
  <2>1. Len(seen) \in Nat /\ Len(seen) > 0 /\ seen[Len(seen)] = obj BY <1>1
  <2>2. watch'[o][Len(watch[o]) + Len(seen)] = obj BY <1>4, <1>5, <2>1
  <2>3. QED BY <1>4, <1>5, <2>1, <2>2 DEF Known
<1>8. objs'[o] = Known(o, Len(watch[o]))'
  <2>1. CASE seen = <<>>
    <3>1. obj = objs[o] BY <2>1
    <3>2. Len(watch'[o]) = Len(watch[o]) BY <1>4, <1>5, <2>1
    <3>3. QED BY <1>4, <1>5, <1>6, <3>1, <3>2 DEF LagInv
  <2>2. CASE seen # <<>> BY <1>5, <1>7, <2>2
  <2>3. QED BY <2>1, <2>2
<1>9. LagInv'
  <2> SUFFICES ASSUME NEW p \in Handlers, p # o PROVE objs'[p] = Known(p, Len(watch[p]))'
      BY <1>8 DEF LagInv
  <2>1. QED BY <1>5, Zenon DEF LagInv, Known, Objects
<1>10. \A i \in 0 .. Len(watch[o]) : Own(Known(o, i)) /\ i < Len(watch'[o]) => Coming(o)'
  <2> SUFFICES ASSUME NEW i \in 0 .. Len(watch[o]), Own(Known(o, i)), i < Len(watch'[o]) PROVE Coming(o)'
      OBVIOUS
  <2>1. Own(Known(o, i))' BY <1>6 DEF Own
  <2>2. i \in 0 .. Len(watch'[o]) - 1 BY <1>4, <1>5
  <2>3. QED BY <2>1, <2>2 DEF Coming
<1>11. Coming(o) => Coming(o)'
  <2> SUFFICES ASSUME NEW i \in 0 .. Len(watch[o]) - 1, Own(Known(o, i)) PROVE Coming(o)'
      BY DEF Coming
  <2>1. i \in 0 .. Len(watch[o]) /\ i < Len(watch'[o]) BY <1>4, <1>5
  <2>2. QED BY <1>10, <2>1
<1>12. seen # <<>> /\ Own(objs[o]) => Coming(o)'
  <2> SUFFICES ASSUME seen # <<>>, Own(objs[o]) PROVE Coming(o)'
      OBVIOUS
  <2>1. Len(watch[o]) \in 0 .. Len(watch[o]) /\ Len(watch[o]) < Len(watch'[o]) BY <1>4, <1>5, <1>7
  <2>2. Own(Known(o, Len(watch[o]))) BY DEF LagInv
  <2>3. QED BY <1>10, <2>1, <2>2
<1>13. Own(cache[o]) /\ watch[o] # <<>> => Coming(o)'
  <2> SUFFICES ASSUME Own(cache[o]), watch[o] # <<>> PROVE Coming(o)'
      OBVIOUS
  <2>1. 0 \in 0 .. Len(watch[o]) /\ 0 < Len(watch'[o]) BY <1>3, <1>4, <1>5
  <2>2. Own(Known(o, 0)) BY DEF Known
  <2>3. QED BY <1>10, <2>1, <2>2
<1>14. QED BY <1>5, <1>9, <1>11, <1>12, <1>13

\* An object that nobody touches stays as it is, and so does what is known about it.
LEMMA ObjectFrame ==
    ASSUME NEW o \in Handlers, objs'[o] = objs[o], watch'[o] = watch[o], cache'[o] = cache[o],
           UNCHANGED crCache
    PROVE  /\ Coming(o) => Coming(o)'
           /\ AsSeen(o, objs[o]) => AsSeen(o, objs[o])'
<1>1. Coming(o)' <=> Coming(o) BY DEF Coming, Known, Own
<1>2. QED BY <1>1 DEF AsSeen, Own

\* Objects that nobody touches, while the operator knows the same CR and has at
\* least as much to do about them.
LEMMA ObjectsKept ==
    ASSUME ObjectInv, UNCHANGED <<crCache, cache, objs, watch>>,
           \A o \in Handlers : ToDo(o) => ToDo(o)',
           \A o \in Handlers : crCache.uid \in pending[o] => crCache.uid \in pending'[o],
           \A o \in Handlers : Fresh(o) => Fresh(o)'
    PROVE  ObjectInv'
<1> SUFFICES ASSUME Live', NEW o \in Handlers
             PROVE  (AsSeen(o, objs[o]) \/ Notified(o) \/ ToDo(o))'
    BY DEF ObjectInv
<1>1. AsSeen(o, objs[o]) \/ Notified(o) \/ ToDo(o) BY DEF ObjectInv, Live
<1>2. (Coming(o) => Coming(o)') /\ (AsSeen(o, objs[o]) => AsSeen(o, objs[o])')
      BY ObjectFrame
<1>3. QED BY <1>1, <1>2 DEF Notified

\* Reconcile begins with all objects still to be done, or fails.
LEMMA StartKept == ASSUME OperatorInv, StartReconcile PROVE OperatorInv'
<1> USE DEF OperatorInv
<1>1. CASE crCache.deleting
  <2>1. UNCHANGED <<cr, objs, crCache, cache, watch, crEvents, pending, deployments, copies, rec, lastUid, left>>
        /\ queued' = FALSE /\ ~Live'
        BY <1>1 DEF StartReconcile, apiVars, informerVars, Live
  <2>2. TypeOK' /\ KnownInv' /\ LagInv' BY <2>1, Zenon DEF TypeOK, KnownInv, Live, LagInv, Known
  <2>3. QED BY <2>1, <2>2 DEF SavedInv, ObjectInv, ObsoleteInv
<1>2. CASE ~crCache.deleting
  <2> DEFINE todo == IF Valid(crCache.spec) THEN Handlers ELSE {}
             step == IF Valid(crCache.spec) THEN "redeploy" ELSE "failed"
             r == [uid |-> crCache.uid, spec |-> crCache.spec, comps |-> crCache.comps, touched |-> FALSE,
                   todo |-> todo, step |-> step]
  <2>1. /\ UNCHANGED <<cr, objs, crCache, cache, watch, crEvents, pending, copies, lastUid, left>>
        /\ queued' = FALSE /\ rec' = r /\ crCache # None
        /\ deployments' = [uid |-> crCache.uid, spec |-> crCache.spec, comps |-> crCache.comps]
        BY <1>2 DEF StartReconcile, apiVars, informerVars
  <2>2. crCache \in CRs BY <2>1 DEF TypeOK
  <2>3. r \in Reconciles /\ deployments' \in SavedCRs BY <2>1, <2>2 DEF CRs, Reconciles, SavedCRs
  <2>4. rec' # None /\ deployments' # None BY <2>1, <2>3, OperatorAssumption, Zenon
  <2>5. TypeOK' BY <2>1, <2>3, Zenon DEF TypeOK
  <2>6. KnownInv' /\ LagInv' BY <2>1 DEF KnownInv, Live, LagInv, Known
  <2>7. SavedInv' BY <2>1, <2>4 DEF SavedInv
  <2>8. \A o \in Handlers : ToDo(o)' BY <2>1, <2>4 DEF ToDo
  <2>9. QED BY <2>1, <2>4, <2>5, <2>6, <2>7, <2>8 DEF ObjectInv, ObsoleteInv
<1>3. QED BY <1>1, <1>2

\* Failures count as disturbances.
LEMMA FailTimesType ==
    ASSUME TypeOK, NEW n \in {0, 1}, FailTimes(n)
    PROVE  left' \in 0 .. Disturbances
<1>1. left \in 0 .. Disturbances /\ n <= left /\ left' = left - n BY DEF TypeOK, FailTimes
<1>2. Disturbances \in Nat BY OperatorAssumption, Zenon
<1> HIDE DEF TypeOK, FailTimes
<1>3. QED BY <1>1, <1>2

\* postUpdate sets one component.
LEMMA PostUpdateType ==
    ASSUME NEW comps \in Components, NEW o \in Handlers
    PROVE  postUpdate(comps, o) \in Components
BY Zenon DEF postUpdate, Components

\* redeployAll: object o is done afterwards, or there will be an event, or
\* everything is tried again.
LEMMA RedeployNextKept ==
    ASSUME OperatorInv, NEW o \in Handlers, RedeployNext(o)
    PROVE  OperatorInv'
<1> USE DEF OperatorInv
<1>1. PICK res \in redeploy(rec, o) :
          /\ FailTimes(res.cost)
          /\ Publish(o, res.obj, res.seen)
          /\ rec' = IF res.ok
                      THEN [rec EXCEPT !.todo = @ \ {o}, !.comps = postUpdate(@, o),
                                       !.touched = @ \/ o \in Reported]
                      ELSE [rec EXCEPT !.step = "failed"]
      BY DEF RedeployNext
<1>2. /\ rec # None /\ rec.step = "redeploy" /\ o \in rec.todo
      /\ UNCHANGED <<cr, lastUid, crCache, cache, crEvents, pending, deployments, copies, queued>>
      BY Zenon DEF RedeployNext, informerVars
<1>3. rec \in Reconciles BY <1>2 DEF TypeOK
<1>4. rec.uid \in Uids /\ rec.spec \in Specs BY <1>3, Zenon DEF Reconciles
<1>5. /\ res.obj \in ObjectStates /\ res.cost \in {0, 1} /\ res.ok \in BOOLEAN
      /\ \/ res.seen = <<>> /\ res.obj = objs[o]
         \/ res.seen = <<res.obj>>
         \/ res.seen = <<None, res.obj>>
      /\ res.ok /\ rec.uid = crCache.uid /\ rec.spec = crCache.spec =>
            AsSeen(o, res.obj) \/ (Own(cache[o]) /\ watch[o] # <<>>)
      BY <1>4, Redeployed
<1>6. /\ objs' \in [Objects -> ObjectStates] /\ watch' \in [Handlers -> Seq(ObjectStates)]
      /\ LagInv'
      /\ objs'[o] = res.obj
      /\ \A p \in Objects \ {o} : objs'[p] = objs[p]
      /\ \A p \in Handlers \ {o} : watch'[p] = watch[p]
      /\ Own(cache[o]) /\ watch[o] # <<>> => Coming(o)'
      BY <1>1, <1>2, <1>5, Published, Zenon
<1>7. left' \in 0 .. Disturbances BY <1>1, <1>5, FailTimesType
<1>8. /\ rec' \in Reconciles /\ rec'.uid = rec.uid /\ rec'.spec = rec.spec
      /\ IF res.ok THEN rec'.step = "redeploy" /\ rec'.todo = rec.todo \ {o} ELSE rec'.step = "failed"
  <2>1. CASE res.ok
    <3>1. postUpdate(rec.comps, o) \in Components BY <1>3, PostUpdateType DEF Reconciles
    <3>2. (rec.touched \/ o \in Reported) \in BOOLEAN OBVIOUS
    <3>3. rec' = [rec EXCEPT !.todo = rec.todo \ {o}, !.comps = postUpdate(rec.comps, o),
                             !.touched = (rec.touched \/ o \in Reported)]
          BY <1>1, <1>3, <2>1 DEF Reconciles
    <3>4. QED BY <1>2, <1>3, <2>1, <3>1, <3>2, <3>3, Zenon DEF Reconciles
  <2>2. CASE ~res.ok BY <1>1, <1>3, <2>2 DEF Reconciles
  <2>3. QED BY <2>1, <2>2
<1>9. rec' # None BY <1>8, OperatorAssumption, Zenon
<1>10. TypeOK' BY <1>2, <1>6, <1>7, <1>8, Zenon DEF TypeOK
<1>11. KnownInv' BY <1>2, Zenon DEF KnownInv, Live
<1>12. SavedInv' BY <1>2, <1>8, <1>9, Zenon DEF SavedInv, Live, Due
<1>13. ObjectInv'
  <2> SUFFICES ASSUME Live', ~Due', NEW p \in Handlers
               PROVE  (AsSeen(p, objs[p]) \/ Notified(p) \/ ToDo(p))'
      BY DEF ObjectInv, ToDo
  <2>1. Live /\ ~Due BY <1>2 DEF Live, Due
  <2>2. CASE ~res.ok BY <1>8, <1>9, <2>2, Zenon DEF ToDo
  <2>3. CASE res.ok /\ p # o
    <3>1. (Coming(p) => Coming(p)') /\ (AsSeen(p, objs[p]) => AsSeen(p, objs[p])')
          BY <1>2, <1>6, <2>3, ObjectFrame, Zenon DEF Objects
    <3>2. ToDo(p) => ToDo(p)' BY <1>2, <1>8, <1>9, <2>1, <2>3 DEF ToDo
    <3>3. AsSeen(p, objs[p]) \/ Notified(p) \/ ToDo(p) BY <2>1 DEF ObjectInv
    <3>4. (Fresh(p) => Fresh(p)') /\ UNCHANGED <<crCache, pending>> BY <1>2, Zenon DEF Fresh
    <3>5. QED BY <3>1, <3>2, <3>3, <3>4, Zenon DEF Notified
  <2>4. CASE res.ok /\ p = o
    <3>1. rec.uid = crCache.uid /\ rec.spec = crCache.spec BY <1>2, <2>1, Zenon DEF SavedInv
    <3>2. AsSeen(o, res.obj) \/ (Own(cache[o]) /\ watch[o] # <<>>) BY <1>5, <2>4, <3>1, Zenon
    <3>3. AsSeen(o, res.obj) => AsSeen(o, objs[o])' BY <1>2, <1>6, Zenon DEF AsSeen, Own
    <3>4. QED BY <1>6, <2>4, <3>2, <3>3, Zenon DEF Notified
  <2>5. QED BY <1>5, <2>2, <2>3, <2>4, Zenon
<1>14. ObsoleteInv' BY <1>8, <1>9 DEF ObsoleteInv
<1>15. QED BY <1>6, <1>10, <1>11, <1>12, <1>13, <1>14

\* deleteObsoleteObjects: nothing of an earlier release is left, or everything is
\* tried again.
LEMMA DeleteObsoleteKept ==
    ASSUME OperatorInv, deleteObsoleteObjects
    PROVE  OperatorInv'
<1> USE DEF OperatorInv
<1>1. /\ rec # None /\ rec.step = "redeploy" /\ rec.todo = {}
      /\ UNCHANGED <<cr, watch, lastUid, crCache, cache, crEvents, pending, deployments, copies, queued>>
      BY Zenon DEF deleteObsoleteObjects, informerVars
<1>2. rec \in Reconciles BY <1>1 DEF TypeOK
<1>3. \/ /\ objs' = [o \in Objects |-> IF objs[o] # None /\ objs[o].owner = rec.uid /\ o \notin Handlers
                                         THEN None ELSE objs[o]]
         /\ rec' = [rec EXCEPT !.step = "ok"] /\ left' = left
      \/ FailTimes(1) /\ rec' = [rec EXCEPT !.step = "failed"] /\ objs' = objs
      BY DEF deleteObsoleteObjects
<1>4. /\ rec' \in Reconciles /\ rec'.uid = rec.uid /\ rec'.spec = rec.spec
      /\ rec'.step \in {"ok", "failed"}
      /\ rec'.step = "ok" => \A o \in Obsolete : objs'[o] = None \/ objs'[o].owner # rec.uid
  <2>1. rec'.step \in {"ok", "failed"} /\ rec' \in Reconciles /\ rec'.uid = rec.uid /\ rec'.spec = rec.spec
        BY <1>2, <1>3 DEF Reconciles
  <2>2. \A o \in Obsolete : o \in Objects /\ o \notin Handlers BY OperatorAssumption, Zenon DEF Objects
  <2>3. [rec EXCEPT !.step = "failed"].step = "failed" BY <1>2 DEF Reconciles
  <2>4. QED BY <1>3, <2>1, <2>2, <2>3, Zenon
<1>5. rec' # None BY <1>4, OperatorAssumption, Zenon
<1>6. \A o \in Handlers : objs'[o] = objs[o] BY <1>3 DEF Objects
<1>7. objs' \in [Objects -> ObjectStates] BY <1>3 DEF TypeOK, ObjectStates
<1>8. left' \in 0 .. Disturbances BY <1>3, FailTimesType DEF TypeOK
<1>9. TypeOK' BY <1>1, <1>4, <1>7, <1>8 DEF TypeOK
<1>10. KnownInv' BY <1>1 DEF KnownInv, Live
<1>11. LagInv' BY <1>1, <1>6, Zenon DEF LagInv, Known
<1>12. SavedInv' BY <1>1, <1>4, <1>5, Zenon DEF SavedInv, Live, Due
<1>13. ObjectInv'
  <2> SUFFICES ASSUME Live', NEW o \in Handlers
               PROVE  (AsSeen(o, objs[o]) \/ Notified(o) \/ ToDo(o))'
      BY DEF ObjectInv
  <2>1. AsSeen(o, objs[o]) \/ Notified(o) \/ ToDo(o) BY <1>1, Zenon DEF ObjectInv, Live
  <2>2. (Coming(o) => Coming(o)') /\ (AsSeen(o, objs[o]) => AsSeen(o, objs[o])')
        BY <1>1, <1>6, ObjectFrame
  <2>3. ToDo(o) => ToDo(o)' BY <1>1, Zenon DEF ToDo, Due
  <2>4. Notified(o) => Notified(o)' BY <1>1, <2>2 DEF Notified, Fresh
  <2>5. QED BY <2>1, <2>2, <2>3, <2>4
<1>14. ObsoleteInv'
  <2> SUFFICES ASSUME Live', ~Due', rec'.step = "ok", NEW o \in Obsolete PROVE ~Own(objs[o])'
      BY <1>5 DEF ObsoleteInv
  <2>1. rec.uid = crCache.uid BY <1>1 DEF SavedInv, Live, Due
  <2>2. QED BY <1>1, <1>4, <2>1 DEF Own
<1>15. QED BY <1>9, <1>10, <1>11, <1>12, <1>13, <1>14

\* Only the reported state of the components changes.
LEMMA StatusPatched ==
    ASSUME TypeOK, cr # None, NEW comps \in Components, NEW touched \in BOOLEAN,
           PatchStatus(comps, touched)
    PROVE  /\ cr' \in CRs /\ cr' # None /\ cr'.uid = cr.uid /\ cr'.spec = cr.spec /\ cr'.deleting = cr.deleting
           /\ deployments' \in SavedCRs \cup {None}
           /\ deployments = None => deployments' = None
           /\ deployments # None => deployments' # None /\ deployments'.uid = deployments.uid
                                    /\ deployments'.spec = deployments.spec
<1>1. cr \in CRs /\ (deployments # None => deployments \in SavedCRs) BY DEF TypeOK
<1>2. cr' \in CRs /\ cr'.uid = cr.uid /\ cr'.spec = cr.spec /\ cr'.deleting = cr.deleting
  <2>1. CASE touched BY <1>1, <2>1 DEF PatchStatus, CRs
  <2>2. CASE ~touched BY <1>1, <2>2 DEF PatchStatus
  <2>3. QED BY <2>1, <2>2
<1>3. deployments = None => deployments' = None BY DEF PatchStatus
<1>4. deployments # None => deployments' \in SavedCRs /\ deployments'.uid = deployments.uid
                            /\ deployments'.spec = deployments.spec
      BY <1>1 DEF PatchStatus, SavedCRs
<1>5. QED BY <1>2, <1>3, <1>4, OperatorAssumption, Zenon

\* The same, or nothing happens to the status.
StatusOnly ==
    /\ cr = None => cr' = None
    /\ cr # None => cr' # None /\ cr'.uid = cr.uid /\ cr'.spec = cr.spec /\ cr'.deleting = cr.deleting
    /\ deployments = None => deployments' = None
    /\ deployments # None => deployments' # None /\ deployments'.uid = deployments.uid
                             /\ deployments'.spec = deployments.spec

\* What is known about the CR does not depend on its status.
LEMMA StatusFrame ==
    ASSUME KnownInv, StatusOnly, UNCHANGED <<crCache, crEvents>>
    PROVE  KnownInv'
BY DEF KnownInv, StatusOnly, Live

\* The end of Reconcile: a failure is tried again.
LEMMA FinishKept ==
    ASSUME OperatorInv, FinishReconcile
    PROVE  OperatorInv'
<1> USE DEF OperatorInv
<1>1. /\ rec # None /\ rec.step \in {"ok", "failed"} /\ rec' = None
      /\ UNCHANGED <<objs, watch, lastUid, crCache, cache, crEvents, pending, copies>>
      /\ queued' = (queued \/ rec.step = "failed")
      BY DEF FinishReconcile, informerVars, objVars
<1>2. rec \in Reconciles BY <1>1 DEF TypeOK
<1>3. cr' \in CRs \cup {None} /\ deployments' \in SavedCRs \cup {None} /\ StatusOnly
      /\ left' \in 0 .. Disturbances
  <2>1. CASE cr # None /\ PatchStatus(rec.comps, rec.touched) /\ UNCHANGED left
    <3>1. rec.comps \in Components /\ rec.touched \in BOOLEAN BY <1>2 DEF Reconciles
    <3>2. QED BY <2>1, <3>1, StatusPatched DEF StatusOnly, TypeOK
  <2>2. CASE UNCHANGED <<cr, deployments, left>> BY <2>2, Zenon DEF TypeOK, StatusOnly
  <2>3. CASE FailTimes(1) /\ UNCHANGED <<cr, deployments>>
        BY <2>3, FailTimesType DEF TypeOK, StatusOnly
  <2>4. QED BY <2>1, <2>2, <2>3, Zenon DEF FinishReconcile
<1>4. queued' \in BOOLEAN BY <1>1
<1>5. TypeOK' BY <1>1, <1>3, <1>4 DEF TypeOK
<1>6. KnownInv' BY <1>1, <1>3, StatusFrame, Zenon
<1>7. LagInv' BY <1>1 DEF LagInv, Known
<1>8. Due' <=> Due \/ rec.step = "failed" BY <1>1, Zenon DEF Due
<1>9. Live' <=> Live BY <1>1 DEF Live
<1>10. SavedInv' BY <1>1, <1>3, <1>8, <1>9 DEF SavedInv, StatusOnly
<1>11. \A o \in Handlers : ToDo(o) => ToDo(o)' BY <1>1, <1>8 DEF ToDo
<1>12. ObjectInv' BY <1>1, <1>11, ObjectsKept DEF Fresh
<1>13. ObsoleteInv' BY <1>1, <1>8, <1>9 DEF ObsoleteInv, Own
<1>14. QED BY <1>5, <1>6, <1>7, <1>10, <1>12, <1>13

\* Events about the CR: a change leads to Reconcile, and a CR that is gone is not
\* the one that has to be kept.
LEMMA CREventKept ==
    ASSUME OperatorInv, HandleCREvent
    PROVE  OperatorInv'
<1> USE DEF OperatorInv
<1>1. PICK e \in crEvents :
          /\ crEvents' = crEvents \ {e}
          /\ queued' = (queued \/ e = "changed")
          /\ deployments' = IF e = "gone" THEN None ELSE deployments
      BY DEF HandleCREvent
<1>2. rec = None /\ UNCHANGED <<cr, objs, watch, lastUid, crCache, cache, pending, copies, rec, left>>
      BY DEF HandleCREvent, apiVars
<1>3. e \in {"changed", "gone"} BY DEF TypeOK
<1>4. queued' \in BOOLEAN /\ deployments' \in SavedCRs \cup {None} BY <1>1, Zenon DEF TypeOK
<1>5. TypeOK' BY <1>1, <1>2, <1>4, Zenon DEF TypeOK
<1>6. KnownInv' BY <1>1, <1>2, Zenon DEF KnownInv, Live
<1>7. LagInv' BY <1>2 DEF LagInv, Known
<1>8. Due => Due' BY <1>1, Zenon DEF Due
<1>9. Live' <=> Live BY <1>2 DEF Live
<1>10. SavedInv'
  <2> SUFFICES ASSUME Live, ~Due' PROVE deployments' = deployments
      BY <1>2, <1>8, <1>9 DEF SavedInv
  <2>1. e # "gone" BY DEF KnownInv
  <2>2. QED BY <1>1, <2>1
<1>11. ObjectInv'
  <2>1. \A o \in Handlers : ToDo(o) => ToDo(o)' BY <1>2, <1>8, Zenon DEF ToDo
  <2>2. QED BY <1>2, <2>1, ObjectsKept DEF Fresh
<1>12. ObsoleteInv' BY <1>2, <1>8, <1>9 DEF ObsoleteInv, Own
<1>13. QED BY <1>5, <1>6, <1>7, <1>10, <1>11, <1>12, Zenon

\* An event about an object of the CR is handled with a copy of the CR that is
\* current, as long as nothing else is due.
LEMMA GetDeploymentKept ==
    ASSUME OperatorInv, NEW o \in Handlers, getDeploymentFor(o)
    PROVE  OperatorInv'
<1> USE DEF OperatorInv
<1> DEFINE copy(u) == IF deployments # None /\ deployments.uid = u /\ Valid(deployments.spec)
                        THEN deployments ELSE None
<1>1. PICK u \in pending[o] :
          /\ pending' = [pending EXCEPT ![o] = @ \ {u}]
          /\ copies' = [copies EXCEPT ![o] = copy(u)]
      BY Zenon DEF getDeploymentFor
<1>2. copies[o] = None
      /\ UNCHANGED <<cr, objs, watch, lastUid, crCache, cache, crEvents, deployments, queued, rec, left>>
      BY DEF getDeploymentFor, apiVars
<1>3. copy(u) \in SavedCRs \cup {None} BY DEF TypeOK
<1>4. TypeOK' BY <1>1, <1>2, <1>3 DEF TypeOK
<1>5. KnownInv' /\ LagInv' BY <1>2, Zenon DEF KnownInv, Live, LagInv, Known
<1>6. SavedInv' BY <1>2, Zenon DEF SavedInv, Live, Due
<1>7. ObjectInv'
  <2> SUFFICES ASSUME Live, NEW p \in Handlers, ~ToDo(p)
               PROVE  (AsSeen(p, objs[p]) \/ Notified(p))'
      BY <1>2, Zenon DEF ObjectInv, Live, ToDo, Due
  <2>1. AsSeen(p, objs[p]) \/ Notified(p) BY Zenon DEF ObjectInv
  <2>2. (Coming(p) => Coming(p)') /\ (AsSeen(p, objs[p]) => AsSeen(p, objs[p])')
        BY <1>2, ObjectFrame, Zenon
  <2>3. CASE p # o
    <3>1. copies'[p] = copies[p] /\ pending'[p] = pending[p] BY <1>1, <2>3, Zenon DEF TypeOK
    <3>2. QED BY <1>2, <2>1, <2>2, <3>1, Zenon DEF Notified, Fresh
  <2>4. CASE p = o /\ u = crCache.uid
    <3>1. deployments # None /\ deployments.uid = crCache.uid /\ deployments.spec = crCache.spec
          /\ Valid(crCache.spec)
          BY Zenon DEF SavedInv, ToDo
    <3>2. copies'[o] = deployments BY <1>1, <2>4, <3>1, Zenon DEF TypeOK
    <3>3. QED BY <1>2, <2>4, <3>1, <3>2, Zenon DEF Notified, Fresh
  <2>5. CASE p = o /\ u # crCache.uid
    <3>1. pending'[o] = pending[o] \ {u} BY <1>1, Zenon DEF TypeOK
    <3>2. QED BY <1>2, <2>1, <2>2, <2>5, <3>1, Zenon DEF Notified, Fresh
  <2>6. QED BY <2>3, <2>4, <2>5, Zenon
<1>8. ObsoleteInv' BY <1>2, Zenon DEF ObsoleteInv, Own, Live, Due
<1>9. QED BY <1>4, <1>5, <1>6, <1>7, <1>8, Zenon

\* An event is handled.  With an outdated copy of the CR the object may become
\* one that is not as described, but then there will be another event.
LEMMA HandleEventKept ==
    ASSUME OperatorInv, NEW o \in Handlers, handleEvent(o)
    PROVE  OperatorInv'
<1> USE DEF OperatorInv
<1> DEFINE d == copies[o]
<1>1. PICK res \in redeploy(d, o) :
          /\ Publish(o, res.obj, res.seen)
          /\ \/ /\ res.ok /\ cr # None
                /\ PatchStatus(postUpdate(d.comps, o), o \in Reported)
                /\ UNCHANGED <<queued, left>>
             \/ /\ ~res.ok \/ cr = None
                /\ FailTimes(res.cost)
                /\ queued' = TRUE
                /\ UNCHANGED <<cr, deployments>>
             \/ /\ res.ok /\ FailTimes(1)
                /\ queued' = TRUE
                /\ UNCHANGED <<cr, deployments>>
      BY Zenon DEF handleEvent
<1>2. /\ d # None /\ rec = None /\ copies' = [copies EXCEPT ![o] = None]
      /\ UNCHANGED <<lastUid, crCache, cache, crEvents, pending, rec>>
      BY Zenon DEF handleEvent, informerVars
<1>3. d \in SavedCRs BY <1>2 DEF TypeOK
<1>4. d.uid \in Uids /\ d.spec \in Specs /\ d.comps \in Components BY <1>3, Zenon DEF SavedCRs
<1>5. /\ res.obj \in ObjectStates /\ res.cost \in {0, 1} /\ res.ok \in BOOLEAN
      /\ \/ res.seen = <<>> /\ res.obj = objs[o]
         \/ res.seen = <<res.obj>>
         \/ res.seen = <<None, res.obj>>
      /\ res.ok /\ d.uid = crCache.uid /\ d.spec = crCache.spec =>
            AsSeen(o, res.obj) \/ (Own(cache[o]) /\ watch[o] # <<>>)
      BY <1>4, Redeployed, Zenon
<1>6. /\ objs' \in [Objects -> ObjectStates] /\ watch' \in [Handlers -> Seq(ObjectStates)]
      /\ LagInv'
      /\ objs'[o] = res.obj
      /\ \A p \in Objects \ {o} : objs'[p] = objs[p]
      /\ \A p \in Handlers \ {o} : watch'[p] = watch[p]
      /\ Coming(o) => Coming(o)'
      /\ res.seen # <<>> /\ Own(objs[o]) => Coming(o)'
      /\ Own(cache[o]) /\ watch[o] # <<>> => Coming(o)'
      BY <1>1, <1>2, <1>5, Published, Zenon
<1> HIDE DEF d
<1>7. /\ cr' \in CRs \cup {None} /\ deployments' \in SavedCRs \cup {None} /\ StatusOnly
      /\ left' \in 0 .. Disturbances /\ queued' \in BOOLEAN
      /\ queued' = TRUE \/ (queued' = queued /\ res.ok)
  <2>1. CASE /\ res.ok /\ cr # None
             /\ PatchStatus(postUpdate(d.comps, o), o \in Reported)
             /\ UNCHANGED <<queued, left>>
    <3>1. postUpdate(d.comps, o) \in Components /\ (o \in Reported) \in BOOLEAN BY <1>4, PostUpdateType
    <3>2. QED BY <2>1, <3>1, StatusPatched, Zenon DEF StatusOnly, TypeOK
  <2>2. CASE FailTimes(res.cost) /\ queued' = TRUE /\ UNCHANGED <<cr, deployments>>
        BY <1>5, <2>2, FailTimesType, Zenon DEF TypeOK, StatusOnly
  <2>3. CASE FailTimes(1) /\ queued' = TRUE /\ UNCHANGED <<cr, deployments>>
        BY <2>3, FailTimesType, Zenon DEF TypeOK, StatusOnly
  <2>4. QED BY <1>1, <2>1, <2>2, <2>3, Zenon
<1>8. copies' \in [Handlers -> SavedCRs \cup {None}] BY <1>2, Zenon DEF TypeOK
<1>9. TypeOK' BY <1>2, <1>6, <1>7, <1>8, Zenon DEF TypeOK
<1>10. KnownInv' BY <1>2, <1>7, StatusFrame, Zenon
<1>11. (Live' <=> Live) /\ (Due => Due') BY <1>2, <1>7 DEF Live, Due
<1>12. SavedInv' BY <1>2, <1>7, <1>11 DEF SavedInv, StatusOnly
<1>13. ObjectInv'
  <2> SUFFICES ASSUME Live, ~Due', NEW p \in Handlers
               PROVE  (AsSeen(p, objs[p]) \/ Notified(p))'
      BY <1>11, Zenon DEF ObjectInv, ToDo
  <2>1. res.ok BY <1>7, Zenon DEF Due
  <2>2. AsSeen(p, objs[p]) \/ Notified(p) BY <1>2, <1>11, Zenon DEF ObjectInv, ToDo
  <2>3. CASE p # o
    <3>1. (Coming(p) => Coming(p)') /\ (AsSeen(p, objs[p]) => AsSeen(p, objs[p])')
          BY <1>2, <1>6, <2>3, ObjectFrame, Zenon DEF Objects
    <3>2. copies'[p] = copies[p] BY <1>2, <2>3, Zenon DEF TypeOK
    <3>3. QED BY <1>2, <2>2, <3>1, <3>2, Zenon DEF Notified, Fresh
  <2>4. CASE p = o
    <3>1. AsSeen(o, res.obj) => AsSeen(o, objs[o])' BY <1>2, <1>6, Zenon DEF AsSeen, Own
    <3>2. CASE Fresh(o) BY <1>5, <1>6, <2>1, <2>4, <3>1, <3>2, Zenon DEF Fresh, Notified, d
    <3>3. CASE Coming(o) \/ crCache.uid \in pending[o] BY <1>2, <1>6, <2>4, <3>3, Zenon DEF Notified
    <3>4. CASE AsSeen(o, objs[o])
      <4>1. CASE res.seen = <<>>
        <5>1. res.obj = objs[o] BY <1>5, <4>1
        <5>2. QED BY <2>4, <3>1, <3>4, <5>1, Zenon
      <4>2. CASE res.seen # <<>>
        <5>1. Own(objs[o]) BY <3>4, Zenon DEF AsSeen
        <5>2. Coming(o)' BY <1>6, <4>2, <5>1, Zenon
        <5>3. QED BY <2>4, <5>2, Zenon DEF Notified
      <4>3. QED BY <4>1, <4>2, Zenon
    <3>5. QED BY <2>2, <2>4, <3>2, <3>3, <3>4, Zenon DEF Notified
  <2>5. QED BY <2>3, <2>4, Zenon
<1>14. ObsoleteInv'
  <2>1. \A p \in Obsolete : objs'[p] = objs[p] BY <1>6, OperatorAssumption, Zenon DEF Objects
  <2>2. QED BY <1>2, <1>11, <2>1, Zenon DEF ObsoleteInv, Own
<1>15. QED BY <1>6, <1>9, <1>10, <1>12, <1>13, <1>14, Zenon

\* What the informer will learn about moves up by one.
LEMMA Shifted ==
    ASSUME NEW S, NEW s \in Seq(S), s # <<>>
    PROVE  /\ Head(s) = s[1] /\ Head(s) \in S /\ Tail(s) \in Seq(S)
           /\ Len(s) \in Nat \ {0} /\ Len(Tail(s)) = Len(s) - 1
           /\ \A i \in 1 .. Len(s) - 1 : Tail(s)[i] = s[i + 1]
OBVIOUS

\* The informer catches up: the event is there, or still to come.
LEMMA SyncKept ==
    ASSUME OperatorInv, NEW o \in Handlers, Sync(o)
    PROVE  OperatorInv'
<1> USE DEF OperatorInv
<1>1. /\ watch[o] # <<>> /\ cache' = [cache EXCEPT ![o] = Head(watch[o])]
      /\ watch' = [watch EXCEPT ![o] = Tail(watch[o])]
      /\ pending' = IF cache[o] # None /\ cache[o].owner # Foreign
                      THEN [pending EXCEPT ![o] = @ \cup {cache[o].owner}]
                      ELSE pending
      /\ UNCHANGED <<cr, objs, lastUid, crCache, crEvents, deployments, copies, queued, rec, left>>
      BY DEF Sync
<1>2. watch[o] \in Seq(ObjectStates) BY Zenon DEF TypeOK
<1>3. /\ Head(watch[o]) = watch[o][1] /\ Head(watch[o]) \in ObjectStates /\ Tail(watch[o]) \in Seq(ObjectStates)
      /\ Len(watch[o]) \in Nat \ {0} /\ Len(Tail(watch[o])) = Len(watch[o]) - 1
      /\ \A i \in 1 .. Len(watch[o]) - 1 : Tail(watch[o])[i] = watch[o][i + 1]
      BY <1>1, <1>2, Shifted, Zenon
<1>4. /\ cache' \in [Handlers -> ObjectStates] /\ watch' \in [Handlers -> Seq(ObjectStates)]
      /\ cache'[o] = Head(watch[o]) /\ watch'[o] = Tail(watch[o])
      /\ \A p \in Handlers \ {o} : cache'[p] = cache[p] /\ watch'[p] = watch[p]
      BY <1>1, <1>3, Zenon DEF TypeOK
<1>5. /\ pending' \in [Handlers -> SUBSET Uids] /\ \A p \in Handlers : pending[p] \subseteq pending'[p]
      /\ cache[o] # None /\ cache[o].owner # Foreign => cache[o].owner \in pending'[o]
  <2>1. CASE cache[o] # None /\ cache[o].owner # Foreign
    <3>1. cache[o] \in ObjectRecords BY <2>1, Zenon DEF TypeOK, ObjectStates
    <3>2. cache[o].owner \in Uids BY <2>1, <3>1, Zenon DEF ObjectRecords
    <3>3. QED BY <1>1, <2>1, <3>2, Zenon DEF TypeOK
  <2>2. CASE ~(cache[o] # None /\ cache[o].owner # Foreign)
    <3>1. pending' = pending BY <1>1, <2>2, Zenon
    <3>2. QED BY <2>2, <3>1, Zenon DEF TypeOK
  <2>3. QED BY <2>1, <2>2, Zenon
<1>6. \A i \in 0 .. Len(watch[o]) - 1 : Known(o, i)' = Known(o, i + 1)
      BY <1>3, <1>4 DEF Known
<1>7. TypeOK' BY <1>1, <1>4, <1>5, Zenon DEF TypeOK
<1>8. KnownInv' BY <1>1, Zenon DEF KnownInv, Live
<1>9. LagInv'
  <2> SUFFICES ASSUME NEW p \in Handlers PROVE objs'[p] = Known(p, Len(watch[p]))'
      BY Zenon DEF LagInv
  <2>1. CASE p = o
    <3>1. Len(watch'[o]) = Len(watch[o]) - 1 /\ Len(watch'[o]) \in 0 .. Len(watch[o]) - 1 BY <1>3, <1>4
    <3>2. Known(o, Len(watch[o]))' = Known(o, Len(watch[o])) BY <1>3, <1>6, <3>1
    <3>3. QED BY <1>1, <2>1, <3>2, Zenon DEF LagInv
  <2>2. CASE p # o BY <1>1, <1>4, <2>2, Zenon DEF LagInv, Known
  <2>3. QED BY <2>1, <2>2, Zenon
<1>10. SavedInv' BY <1>1, Zenon DEF SavedInv, Live, Due
<1>11. ObjectInv'
  <2> SUFFICES ASSUME Live, NEW p \in Handlers, ~ToDo(p)
               PROVE  (AsSeen(p, objs[p]) \/ Notified(p))'
      BY <1>1, Zenon DEF ObjectInv, Live, ToDo, Due
  <2>1. AsSeen(p, objs[p]) \/ Notified(p) BY Zenon DEF ObjectInv
  <2>2. (AsSeen(p, objs[p]) => AsSeen(p, objs[p])') /\ (Fresh(p) => Fresh(p)') BY <1>1, Zenon DEF AsSeen, Own, Fresh
  <2>3. crCache.uid \in pending[p] => crCache'.uid \in pending'[p] BY <1>1, <1>5, Zenon
  <2>4. CASE p = o /\ Coming(o)
    <3>1. PICK i \in 0 .. Len(watch[o]) - 1 : Own(Known(o, i)) BY <2>4, Zenon DEF Coming
    <3>2. CASE i = 0
      <4>1. Own(cache[o]) BY <3>1, <3>2, Zenon DEF Known
      <4>2. crCache \in CRs BY DEF Live, TypeOK
      <4>3. crCache.uid # Foreign
        <5>1. crCache.uid \in 1 .. MaxUid BY <4>2, Zenon DEF CRs, Uids
        <5>2. MaxUid \in Nat BY OperatorAssumption, Zenon
        <5>3. QED BY <5>1, <5>2 DEF Foreign
      <4>4. crCache'.uid \in pending'[o] BY <1>1, <1>5, <4>1, <4>3, Zenon DEF Own
      <4>5. QED BY <2>4, <4>4, Zenon DEF Notified
    <3>3. CASE i > 0
      <4>1. i - 1 \in 0 .. Len(watch[o]) - 1 /\ i - 1 \in 0 .. Len(watch'[o]) - 1 /\ (i - 1) + 1 = i
            BY <1>3, <1>4, <3>3
      <4>2. Known(o, i - 1)' = Known(o, i) BY <1>6, <4>1, Zenon
      <4>3. Own(Known(o, i - 1))' BY <1>1, <3>1, <4>2, Zenon DEF Own
      <4>4. Coming(o)' BY <4>1, <4>3, Zenon DEF Coming
      <4>5. QED BY <2>4, <4>4, Zenon DEF Notified
    <3>4. i = 0 \/ i > 0 BY <1>3
    <3>5. QED BY <3>2, <3>3, <3>4, Zenon
  <2>5. CASE p # o /\ Coming(p)
    <3>1. Coming(p)' BY <1>1, <1>4, <2>5, ObjectFrame, Zenon
    <3>2. QED BY <3>1, Zenon DEF Notified
  <2>6. QED BY <2>1, <2>2, <2>3, <2>4, <2>5, Zenon DEF Notified
<1>12. ObsoleteInv' BY <1>1, Zenon DEF ObsoleteInv, Own, Live, Due
<1>13. QED BY <1>7, <1>8, <1>9, <1>10, <1>11, <1>12

\* Others change an object: there will be an event if it was as described.
LEMMA ObjectChanged ==
    ASSUME OperatorInv, NEW o \in Handlers, NEW obj \in ObjectStates, Publish(o, obj, <<obj>>),
           UNCHANGED <<cr, lastUid, crCache, cache, crEvents, pending, deployments, copies, queued, rec>>,
           left' \in 0 .. Disturbances
    PROVE  OperatorInv'
<1> DEFINE seen == <<obj>>
<1>1. TypeOK /\ LagInv /\ UNCHANGED <<crCache, cache>> /\ Publish(o, obj, seen) BY DEF OperatorInv
<1>2. /\ seen # <<>>
      /\ \/ seen = <<>> /\ obj = objs[o]
         \/ seen = <<obj>>
         \/ seen = <<None, obj>>
      BY Zenon
<1> HIDE DEF seen
<1>3. /\ objs' \in [Objects -> ObjectStates] /\ watch' \in [Handlers -> Seq(ObjectStates)]
      /\ LagInv'
      /\ \A p \in Objects \ {o} : objs'[p] = objs[p]
      /\ \A p \in Handlers \ {o} : watch'[p] = watch[p]
      /\ Coming(o) => Coming(o)'
      /\ Own(objs[o]) => Coming(o)'
      BY <1>1, <1>2, Published, Zenon
<1> USE DEF OperatorInv
<1>4. TypeOK' BY <1>3, Zenon DEF TypeOK
<1>5. KnownInv' /\ SavedInv' BY DEF KnownInv, SavedInv, Live, Due
<1>6. ObjectInv'
  <2> SUFFICES ASSUME Live, NEW p \in Handlers, ~ToDo(p)
               PROVE  (AsSeen(p, objs[p]) \/ Notified(p))'
      BY Zenon DEF ObjectInv, Live, ToDo, Due
  <2>1. AsSeen(p, objs[p]) \/ Notified(p) BY Zenon DEF ObjectInv
  <2>2. CASE p = o BY <1>3, <2>1, <2>2, Zenon DEF AsSeen, Notified, Fresh
  <2>3. CASE p # o
    <3>1. (Coming(p) => Coming(p)') /\ (AsSeen(p, objs[p]) => AsSeen(p, objs[p])')
          BY <1>3, <2>3, ObjectFrame, Zenon DEF Objects
    <3>2. QED BY <2>1, <3>1, Zenon DEF Notified, Fresh
  <2>4. QED BY <2>2, <2>3, Zenon
<1>7. ObsoleteInv'
  <2>1. \A p \in Obsolete : objs'[p] = objs[p] BY <1>3, OperatorAssumption, Zenon DEF Objects
  <2>2. QED BY <2>1, Zenon DEF ObsoleteInv, Own, Live, Due
<1>8. QED BY <1>3, <1>4, <1>5, <1>6, <1>7

\* A disturbance is used up.
LEMMA OneLeft ==
    ASSUME TypeOK, left > 0, left' = left - 1
    PROVE  left' \in 0 .. Disturbances
<1>1. left \in 0 .. Disturbances BY DEF TypeOK
<1>2. Disturbances \in Nat BY OperatorAssumption, Zenon
<1>3. QED BY <1>1, <1>2

\* Somebody edits, deletes or creates an object.
LEMMA DisturbObjectKept ==
    ASSUME OperatorInv, NEW o \in Handlers, DisturbObject(o)
    PROVE  OperatorInv'
<1>1. PICK obj \in (IF objs[o] = None
                      THEN {[owner |-> Foreign, content |-> <<>>, labels |-> {}, ready |-> FALSE]}
                      ELSE {None, [objs[o] EXCEPT !.content = <<"edited">>],
                            [objs[o] EXCEPT !.ready = (o \in Reported /\ ~@)]} \ {objs[o]}) :
          Publish(o, obj, <<obj>>)
      BY Zenon DEF DisturbObject
<1>2. UNCHANGED <<cr, lastUid, crCache, cache, crEvents, pending, deployments, copies, queued, rec>>
      /\ left' \in 0 .. Disturbances
      BY OneLeft DEF DisturbObject, informerVars, OperatorInv
<1>3. obj \in ObjectStates
  <2>1. CASE objs[o] = None
    <3>1. [owner |-> Foreign, content |-> <<>>, labels |-> {}, ready |-> FALSE] \in ObjectRecords
          BY DEF ObjectRecords, Contents
    <3>2. QED BY <1>1, <2>1, <3>1, Zenon DEF ObjectStates
  <2>2. CASE objs[o] # None
    <3>1. objs[o] \in ObjectRecords BY <2>2 DEF OperatorInv, TypeOK, Objects, ObjectStates
    <3>2. [objs[o] EXCEPT !.content = <<"edited">>] \in ObjectRecords BY <3>1 DEF ObjectRecords, Contents
    <3>3. \A b \in BOOLEAN : [objs[o] EXCEPT !.ready = b] \in ObjectRecords BY <3>1 DEF ObjectRecords
    <3>4. [objs[o] EXCEPT !.ready = (o \in Reported /\ ~@)]
            = [objs[o] EXCEPT !.ready = (o \in Reported /\ ~objs[o].ready)]
          BY <3>1 DEF ObjectRecords
    <3>5. (o \in Reported /\ ~objs[o].ready) \in BOOLEAN OBVIOUS
    <3>6. [objs[o] EXCEPT !.ready = (o \in Reported /\ ~objs[o].ready)] \in ObjectRecords BY <3>3, <3>5, Zenon
    <3>7. QED BY <1>1, <2>2, <3>2, <3>4, <3>6 DEF ObjectStates
  <2>3. QED BY <2>1, <2>2
<1>4. QED BY <1>1, <1>2, <1>3, ObjectChanged, Zenon

\* Nothing depends on the CR itself as long as the operator does not know about
\* a change, except that a CR which was seen to be deleted does not come back.
LEMMA CRFrame ==
    ASSUME OperatorInv, cr' \in CRs \cup {None}, lastUid' \in Uids, left' \in 0 .. Disturbances,
           UNCHANGED <<objs, watch, crCache, cache, crEvents, pending, deployments, copies, queued, rec>>,
           crCache # None /\ cr' # None => crCache.uid = cr'.uid /\ (crCache.deleting => cr'.deleting),
           cr' # None /\ crCache = None => "gone" \notin crEvents
    PROVE  OperatorInv'
<1> USE DEF OperatorInv
<1>1. TypeOK' BY Zenon DEF TypeOK
<1>2. KnownInv' BY Zenon DEF KnownInv, Live
<1>3. SavedInv' /\ LagInv' BY Zenon DEF SavedInv, LagInv, Known, Live, Due
<1>4. \A o \in Handlers : (ToDo(o) => ToDo(o)') /\ (Fresh(o) => Fresh(o)') BY Zenon DEF ToDo, Due, Fresh
<1>5. ObjectInv' BY <1>4, ObjectsKept, Zenon
<1>6. ObsoleteInv' BY Zenon DEF ObsoleteInv, Own, Live, Due
<1>7. QED BY <1>1, <1>2, <1>3, <1>5, <1>6, Zenon

\* The admin changes or deletes the CR.
LEMMA DisturbCRKept ==
    ASSUME OperatorInv, DisturbCR
    PROVE  OperatorInv'
<1>1. /\ left > 0 /\ left' = left - 1 /\ cr # None /\ ~cr.deleting
      /\ UNCHANGED <<objs, watch, lastUid, crCache, cache, crEvents, pending, deployments, copies, queued, rec>>
      BY Zenon DEF DisturbCR, objVars, informerVars
<1>2. cr \in CRs /\ lastUid \in Uids BY <1>1 DEF OperatorInv, TypeOK
<1>3. left' \in 0 .. Disturbances BY <1>1, OneLeft DEF OperatorInv
<1>4. cr' = None \/ (cr' \in CRs /\ cr'.uid = cr.uid)
  <2>1. CASE \E spec \in Specs : cr' = [cr EXCEPT !.spec = spec] BY <1>2, <2>1 DEF CRs
  <2>2. CASE cr' = [cr EXCEPT !.deleting = TRUE] BY <1>2, <2>2, Zenon DEF CRs
  <2>3. QED BY <2>1, <2>2 DEF DisturbCR
<1>5. crCache # None => crCache.uid = cr.uid /\ ~crCache.deleting BY <1>1 DEF OperatorInv, KnownInv
<1>6. crCache = None => "gone" \notin crEvents BY <1>1 DEF OperatorInv, KnownInv
<1>7. cr' \in CRs \cup {None} /\ lastUid' \in Uids BY <1>1, <1>2, <1>4
<1>8. crCache # None /\ cr' # None => crCache.uid = cr'.uid /\ (crCache.deleting => cr'.deleting)
      BY <1>4, <1>5
<1>9. QED BY <1>1, <1>3, <1>6, <1>7, <1>8, CRFrame

\* The CR is created again.
LEMMA RecreateCRKept ==
    ASSUME OperatorInv, RecreateCR
    PROVE  OperatorInv'
<1>1. /\ crCache = None /\ crEvents = {} /\ lastUid < MaxUid
      /\ lastUid' = lastUid + 1 /\ cr' = NewCR(lastUid', Defaults)
      /\ UNCHANGED <<objs, watch, crCache, cache, crEvents, pending, deployments, copies, queued, rec, left>>
      BY DEF RecreateCR, objVars, informerVars
<1>2. lastUid' \in Uids
  <2>1. lastUid \in 1 .. MaxUid BY DEF OperatorInv, TypeOK, Uids
  <2>2. MaxUid \in Nat BY OperatorAssumption, Zenon
  <2>3. QED BY <1>1, <2>1, <2>2 DEF Uids
<1>3. Unreported \in Components /\ Defaults \in Specs BY OperatorAssumption, Zenon DEF Unreported, Components
<1>4. cr' \in CRs BY <1>1, <1>2, <1>3, Zenon DEF NewCR, CRs
<1>5. left' \in 0 .. Disturbances BY <1>1, Zenon DEF OperatorInv, TypeOK
<1>6. QED BY <1>1, <1>2, <1>4, <1>5, CRFrame

\* The garbage collector deletes an object, or the CR whose objects are gone.
LEMMA CollectGarbageKept ==
    ASSUME OperatorInv, CollectGarbage
    PROVE  OperatorInv'
<1>1. UNCHANGED <<lastUid, crCache, cache, crEvents, pending, deployments, copies, queued, rec, left>>
      BY Zenon DEF CollectGarbage, informerVars
<1>2. TypeOK /\ left' \in 0 .. Disturbances /\ lastUid' \in Uids BY <1>1 DEF OperatorInv, TypeOK
<1>3. ASSUME NEW o \in Garbage \cap Handlers, Publish(o, None, <<None>>), UNCHANGED cr
      PROVE  OperatorInv'
  <2>1. None \in ObjectStates /\ o \in Handlers BY DEF ObjectStates
  <2>2. QED BY <1>1, <1>2, <1>3, <2>1, ObjectChanged
<1>4. ASSUME NEW o \in Garbage \cap Obsolete, objs' = [objs EXCEPT ![o] = None], UNCHANGED <<cr, watch>>
      PROVE  OperatorInv'
  <2> USE DEF OperatorInv
  <2>1. o \in Objects /\ o \notin Handlers BY OperatorAssumption, Zenon DEF Objects
  <2>2. (\A p \in Handlers : objs'[p] = objs[p]) /\ (\A p \in Obsolete : objs'[p] \in {objs[p], None})
        BY <1>2, <1>4, <2>1, Zenon DEF TypeOK, Objects
  <2>3. objs' \in [Objects -> ObjectStates] BY <1>2, <1>4, Zenon DEF TypeOK, ObjectStates
  <2>4. TypeOK' BY <1>1, <1>4, <2>3 DEF TypeOK
  <2>5. KnownInv' /\ SavedInv' BY <1>1, <1>4 DEF KnownInv, SavedInv, Live, Due
  <2>6. LagInv' BY <1>1, <1>4, <2>2 DEF LagInv, Known
  <2>7. ObjectInv'
    <3> SUFFICES ASSUME Live, NEW p \in Handlers, ~ToDo(p)
                 PROVE  (AsSeen(p, objs[p]) \/ Notified(p))'
        BY <1>1 DEF ObjectInv, Live, ToDo, Due
    <3>1. AsSeen(p, objs[p]) \/ Notified(p) BY Zenon DEF ObjectInv
    <3>2. (Coming(p) => Coming(p)') /\ (AsSeen(p, objs[p]) => AsSeen(p, objs[p])')
          BY <1>1, <1>4, <2>2, ObjectFrame, Zenon
    <3>3. QED BY <1>1, <3>1, <3>2, Zenon DEF Notified, Fresh
  <2>8. ObsoleteInv' BY <1>1, <2>2, Zenon DEF ObsoleteInv, Own, Live, Due
  <2>9. QED BY <2>4, <2>5, <2>6, <2>7, <2>8
<1>5. ASSUME cr' = None, UNCHANGED objVars
      PROVE  OperatorInv'
      BY <1>1, <1>2, <1>5, CRFrame, Zenon DEF objVars
<1>6. QED BY <1>3, <1>4, <1>5, Zenon DEF CollectGarbage

\* The operator learns about the CR.  A change of the specification is an event,
\* and without one nothing changes that the objects depend on.
LEMMA SyncCRKept ==
    ASSUME OperatorInv, SyncCR
    PROVE  OperatorInv'
<1> USE DEF OperatorInv
<1>1. /\ crCache' = cr
      /\ UNCHANGED <<cr, objs, watch, lastUid, cache, pending, deployments, copies, queued, rec, left>>
      /\ crEvents' = crEvents \cup
            (IF cr = None \/ cr.deleting THEN {"gone"}
             ELSE IF crCache = None \/ crCache.spec # cr.spec THEN {"changed"} ELSE {})
      BY Zenon DEF SyncCR, apiVars
<1>2. TypeOK'
  <2>1. crEvents' \subseteq {"changed", "gone"} BY <1>1 DEF TypeOK
  <2>2. QED BY <1>1, <2>1, Zenon DEF TypeOK
<1>3. Live' => cr # None /\ ~cr.deleting BY <1>1 DEF Live
<1>4. Live' => "gone" \notin crEvents BY <1>3, Zenon DEF KnownInv, Live
<1>5. KnownInv'
  <2>1. Live' => "gone" \notin crEvents' BY <1>1, <1>3, <1>4, Zenon
  <2>2. QED BY <1>1, <2>1, Zenon DEF KnownInv
<1>6. LagInv' BY <1>1, Zenon DEF LagInv, Known
<1>7. Due => Due' BY <1>1, Zenon DEF Due
<1>8. Live' /\ ~Due' => Live /\ ~Due /\ crCache'.uid = crCache.uid /\ crCache'.spec = crCache.spec
  <2> SUFFICES ASSUME Live', ~Due'
               PROVE  Live /\ crCache'.uid = crCache.uid /\ crCache'.spec = crCache.spec
      BY <1>7, Zenon
  <2>1. crCache # None /\ crCache.spec = cr.spec BY <1>1, <1>3, Zenon DEF Due
  <2>2. QED BY <1>1, <1>3, <2>1, Zenon DEF KnownInv, Live
<1>9. SavedInv' BY <1>1, <1>8, Zenon DEF SavedInv
<1>10. ObjectInv'
  <2> SUFFICES ASSUME Live', ~Due', NEW o \in Handlers
               PROVE  (AsSeen(o, objs[o]) \/ Notified(o) \/ ToDo(o))'
      BY DEF ObjectInv, ToDo
  <2>1. crCache'.uid = crCache.uid /\ crCache'.spec = crCache.spec BY <1>8, Zenon
  <2>2. AsSeen(o, objs[o]) \/ Notified(o) \/ ToDo(o) BY <1>8, Zenon DEF ObjectInv
  <2>3. AsSeen(o, objs[o]) => AsSeen(o, objs[o])' BY <1>1, <2>1, Zenon DEF AsSeen, Own
  <2>4. Coming(o) => Coming(o)' BY <1>1, <2>1, Zenon DEF Coming, Known, Own
  <2>5. Notified(o) => Notified(o)' BY <1>1, <2>1, <2>4, Zenon DEF Notified, Fresh
  <2>6. ToDo(o) => ToDo(o)' BY <1>1, <1>7, Zenon DEF ToDo
  <2>7. QED BY <2>2, <2>3, <2>5, <2>6, Zenon
<1>11. ObsoleteInv' BY <1>1, <1>8, Zenon DEF ObsoleteInv, Own
<1>12. QED BY <1>2, <1>5, <1>6, <1>9, <1>10, <1>11

\* An operator that has just started knows everything and reconciles the CR.
LEMMA RestartKept ==
    ASSUME OperatorInv, Restart
    PROVE  OperatorInv'
<1>1. /\ UNCHANGED <<cr, objs, lastUid>> /\ left > 0 /\ left' = left - 1
      /\ crCache' = cr /\ cache' = [o \in Handlers |-> objs[o]]
      /\ watch' = [o \in Handlers |-> <<>>]
      /\ crEvents' = IF cr = None THEN {} ELSE {"changed"}
      /\ pending' = [o \in Handlers |-> {}]
      /\ copies' = [o \in Handlers |-> None]
      /\ deployments' = None /\ queued' = FALSE /\ rec' = None
      BY Zenon DEF Restart, Started
<1>2. TypeOK /\ left' \in 0 .. Disturbances BY <1>1, OneLeft, Zenon DEF OperatorInv
<1>3. TypeOK'
  <2>1. cache' \in [Handlers -> ObjectStates] /\ watch' \in [Handlers -> Seq(ObjectStates)]
        BY <1>1, <1>2 DEF TypeOK, Objects
  <2>2. pending' \in [Handlers -> SUBSET Uids] /\ copies' \in [Handlers -> SavedCRs \cup {None}]
        /\ queued' \in BOOLEAN
        BY <1>1, Zenon
  <2>3. QED BY <1>1, <1>2, <2>1, <2>2, Zenon DEF TypeOK
<1>4. Live' => Due' BY <1>1 DEF Live, Due
<1>5. KnownInv' BY <1>1 DEF KnownInv
<1>6. SavedInv' BY <1>1, <1>4 DEF SavedInv
<1>7. LagInv' BY <1>1 DEF LagInv, Known
<1>8. QED BY <1>3, <1>4, <1>5, <1>6, <1>7, Zenon DEF OperatorInv, ObjectInv, ObsoleteInv, ToDo

\* A new deployment, or one that an earlier release has left behind.
LEMMA OperatorInit ==
    ASSUME Init
    PROVE  OperatorInv
<1>1. /\ crCache = cr /\ cache = [o \in Handlers |-> objs[o]]
      /\ watch = [o \in Handlers |-> <<>>] /\ crEvents = {"changed"}
      /\ pending = [o \in Handlers |-> {}]
      /\ copies = [o \in Handlers |-> None]
      /\ deployments = None /\ queued = FALSE /\ rec = None
      /\ lastUid = 1 /\ left = Disturbances
      BY DEF Init
<1>2. 1 \in Uids
  <2>1. MaxUid \in Nat \ {0} BY OperatorAssumption, Zenon
  <2>2. QED BY <2>1 DEF Uids
<1>3. cr \in CRs
  <2>1. Unreported \in Components /\ Defaults \in Specs BY OperatorAssumption, Zenon DEF Unreported, Components
  <2>2. \E spec \in Specs : cr = NewCR(1, spec) BY <2>1, Zenon DEF Init
  <2>3. QED BY <1>2, <2>1, <2>2 DEF NewCR, CRs
<1>4. objs \in [Objects -> ObjectStates]
  <2>1. [owner |-> 1, content |-> <<"old">>, labels |-> {}, ready |-> TRUE] \in ObjectRecords
        BY <1>2 DEF ObjectRecords, Contents
  <2>2. QED BY <2>1, Zenon DEF Init, ObjectStates
<1>5. TypeOK
  <2>1. cache \in [Handlers -> ObjectStates] /\ watch \in [Handlers -> Seq(ObjectStates)]
        BY <1>1, <1>4 DEF Objects
  <2>2. pending \in [Handlers -> SUBSET Uids] /\ copies \in [Handlers -> SavedCRs \cup {None}]
        /\ queued \in BOOLEAN
        BY <1>1, Zenon
  <2>3. left \in 0 .. Disturbances
    <3>1. Disturbances \in Nat BY OperatorAssumption
    <3>2. QED BY <1>1, <3>1
  <2>4. QED BY <1>1, <1>2, <1>3, <1>4, <2>1, <2>2, <2>3 DEF TypeOK
<1>6. Due BY <1>1 DEF Due
<1>7. KnownInv /\ SavedInv BY <1>1, <1>6 DEF KnownInv, SavedInv
<1>8. LagInv BY <1>1 DEF LagInv, Known
<1>9. QED BY <1>5, <1>6, <1>7, <1>8, Zenon DEF OperatorInv, ObjectInv, ObsoleteInv, ToDo

\* Every step of the operator and of its environment.
LEMMA OperatorNext ==
    ASSUME OperatorInv, [Next]_vars
    PROVE  OperatorInv'
<1>1. CASE UNCHANGED vars
  <2>1. UNCHANGED <<cr, objs, watch, lastUid, crCache, cache, crEvents, pending, deployments, copies,
                    queued, rec, left>>
        BY <1>1, Zenon DEF vars, apiVars, informerVars
  <2>2. cr' \in CRs \cup {None} /\ lastUid' \in Uids /\ left' \in 0 .. Disturbances
        BY <2>1, Zenon DEF OperatorInv, TypeOK
  <2>3. /\ crCache # None /\ cr' # None => crCache.uid = cr'.uid /\ (crCache.deleting => cr'.deleting)
        /\ cr' # None /\ crCache = None => "gone" \notin crEvents
        BY <2>1 DEF OperatorInv, KnownInv
  <2>4. QED BY <2>1, <2>2, <2>3, CRFrame, Zenon
<1>2. CASE \E o \in Handlers :
              RedeployNext(o) \/ getDeploymentFor(o) \/ handleEvent(o) \/ Sync(o) \/ DisturbObject(o)
      BY <1>2, RedeployNextKept, GetDeploymentKept, HandleEventKept, SyncKept, DisturbObjectKept, Zenon
<1>3. CASE StartReconcile \/ deleteObsoleteObjects \/ FinishReconcile \/ HandleCREvent
      BY <1>3, StartKept, DeleteObsoleteKept, FinishKept, CREventKept, Zenon
<1>4. CASE SyncCR \/ CollectGarbage \/ DisturbCR \/ RecreateCR \/ Restart
      BY <1>4, SyncCRKept, CollectGarbageKept, DisturbCRKept, RecreateCRKept, RestartKept, Zenon
<1>5. QED BY <1>1, <1>2, <1>3, <1>4, Zenon DEF Next

\* Whatever is not as described by the CR is going to be noticed: the operator
\* reconciles, or it has or will get an event (deployment_controller.go:67-344).
THEOREM OperatorInvHolds == Spec => []OperatorInv
BY OperatorInit, OperatorNext, PTL DEF Spec

\* Types of all variables: what is saved, cached and on the way consists of CRs
\* and objects as redeploy and the API server produce them.
THEOREM OperatorTypeCorrect == Spec => []TypeOK
<1>1. OperatorInv => TypeOK BY DEF OperatorInv
<1>2. QED BY <1>1, OperatorInvHolds, PTL

\* When the operator rests, the objects of the CR are as described by it, for any
\* number of objects, specifications, restarts, failures and changes by others,
\* and however far the informers lag behind (deployment_controller.go:67-344,
\* controller_driver.go:165-350, 624-721).
THEOREM RestsWhenDeployedHolds == Spec => []RestsWhenDeployed
<1>1. OperatorInv => RestsWhenDeployed
  <2> SUFFICES ASSUME OperatorInv, Quiescent, cr # None, ~cr.deleting PROVE Deployed
      BY Zenon DEF RestsWhenDeployed
  <2>1. crCache = cr /\ Live /\ ~Due /\ rec = None BY Zenon DEF Quiescent, Live, Due
  <2>2. ASSUME NEW o \in Handlers PROVE AsDescribed(o)
    <3>1. pending[o] = {} /\ copies[o] = None /\ watch[o] = <<>> BY Zenon DEF Quiescent
    <3>2. ~Coming(o) BY <3>1 DEF Coming
    <3>3. AsSeen(o, objs[o]) BY <2>1, <3>1, <3>2, Zenon DEF OperatorInv, ObjectInv, Notified, Fresh, ToDo
    <3>4. QED BY <2>1, <3>3, Zenon DEF AsSeen, Own, AsDescribed
  <2>3. ASSUME NEW o \in Obsolete PROVE objs[o] = None \/ objs[o].owner # cr.uid
        BY <2>1 DEF OperatorInv, ObsoleteInv, Own
  <2>4. QED BY <2>2, <2>3 DEF Deployed
<1>2. QED BY <1>1, OperatorInvHolds, PTL

\* A UID is not the mark of objects that belong to others.
LEMMA UidNotForeign == ASSUME NEW u \in Uids PROVE u # Foreign
<1>1. MaxUid \in Nat /\ u \in 1 .. MaxUid BY OperatorAssumption, Zenon DEF Uids
<1>2. QED BY <1>1 DEF Foreign

\* Which step changes an object of somebody else.
LEMMA ForeignStep ==
    ASSUME OperatorInv, [Next]_vars, NEW o \in Handlers, objs[o] # None, objs[o].owner = Foreign,
           objs'[o] # objs[o], left' = left
    PROVE  cache[o] # None /\ cache[o].owner # Foreign
<1>1. TypeOK /\ LagInv /\ o \in Objects /\ left \in Nat BY DEF OperatorInv, TypeOK, Objects
<1>2. ASSUME NEW p \in Handlers, NEW obj, NEW seen, Publish(p, obj, seen)
      PROVE  p = o /\ obj # objs[o]
      BY <1>1, <1>2, Zenon DEF Publish, TypeOK, Objects
<1>3. ASSUME NEW p \in Handlers, RedeployNext(p)
      PROVE  cache[o] # None /\ cache[o].owner # Foreign
  <2>1. rec # None /\ \E res \in redeploy(rec, p) : Publish(p, res.obj, res.seen) BY <1>3, Zenon DEF RedeployNext
  <2>2. rec.uid \in Uids /\ rec.spec \in Specs BY <1>1, <2>1, Zenon DEF TypeOK, Reconciles
  <2>3. PICK res \in redeploy(rec, p) : Publish(p, res.obj, res.seen) BY <2>1, Zenon
  <2>4. p = o /\ res.obj # objs[o] BY <1>2, <2>3, Zenon
  <2>5. cache[o] # None /\ cache[o].owner = rec.uid BY <1>1, <2>2, <2>3, <2>4, Redeployed, Zenon
  <2>6. QED BY <2>2, <2>5, UidNotForeign
<1>4. ASSUME NEW p \in Handlers, handleEvent(p)
      PROVE  cache[o] # None /\ cache[o].owner # Foreign
  <2> DEFINE d == copies[p]
  <2>1. d # None /\ \E res \in redeploy(d, p) : Publish(p, res.obj, res.seen) BY <1>4, Zenon DEF handleEvent
  <2>2. d.uid \in Uids /\ d.spec \in Specs BY <1>1, <2>1, Zenon DEF TypeOK, SavedCRs
  <2> HIDE DEF d
  <2>3. PICK res \in redeploy(d, p) : Publish(p, res.obj, res.seen) BY <2>1, Zenon
  <2>4. p = o /\ res.obj # objs[o] BY <1>2, <2>3, Zenon
  <2>5. cache[o] # None /\ cache[o].owner = d.uid BY <1>1, <2>2, <2>3, <2>4, Redeployed, Zenon
  <2>6. QED BY <2>2, <2>5, UidNotForeign, Zenon
<1>5. ~CollectGarbage
  <2> SUFFICES ASSUME CollectGarbage PROVE FALSE
      BY Zenon
  <2>1. o \notin Garbage /\ o \notin Obsolete BY OperatorAssumption, Zenon DEF Garbage
  <2>2. ASSUME NEW p \in Garbage \cap Handlers, Publish(p, None, <<None>>) PROVE FALSE
        BY <1>2, <2>1, <2>2, Zenon
  <2>3. ASSUME NEW p \in Garbage \cap Obsolete, objs' = [objs EXCEPT ![p] = None] PROVE FALSE
        BY <1>1, <2>1, <2>3, Zenon DEF TypeOK
  <2>4. ~UNCHANGED objVars BY DEF objVars
  <2>5. QED BY <2>2, <2>3, <2>4, Zenon DEF CollectGarbage
<1>6. ~(DisturbCR \/ Restart) /\ \A p \in Handlers : ~DisturbObject(p)
      BY <1>1 DEF DisturbCR, Restart, DisturbObject
<1>7. ~deleteObsoleteObjects BY <1>1, Zenon DEF deleteObsoleteObjects
<1>8. ~(StartReconcile \/ FinishReconcile \/ HandleCREvent \/ SyncCR \/ RecreateCR \/ UNCHANGED vars)
      BY Zenon DEF StartReconcile, FinishReconcile, HandleCREvent, SyncCR, RecreateCR, vars,
                   apiVars, objVars
<1>9. \A p \in Handlers : ~(getDeploymentFor(p) \/ Sync(p)) BY Zenon DEF getDeploymentFor, Sync, apiVars
<1>10. QED BY <1>3, <1>4, <1>5, <1>6, <1>7, <1>8, <1>9, Zenon DEF Next

\* The operator changes an object of somebody else only while its informer still
\* knows one of its own in that place (controller_driver.go:237-350).
THEOREM OthersUntouchedHolds == Spec => OthersUntouched
<1>1. OperatorInv /\ [Next]_vars =>
        [\A o \in Handlers :
            objs[o] # None /\ objs[o].owner = Foreign /\ objs'[o] # objs[o] /\ left' = left
                => cache[o] # None /\ cache[o].owner # Foreign]_vars
      BY ForeignStep, Zenon
<1>2. QED BY <1>1, OperatorInvHolds, PTL DEF Spec, OthersUntouched

-----------------------------------------------------------------------------
\* The rescheduler never takes a PVC away from a node that is served, for any
\* number of nodes, instances and label changes.
CONSTANTS Nodes, Instances, MaxChanges
VARIABLES selected, bound, labels, running, csiNodes, claims, fresh, csiNodeLister,
          pc, might, creating, labelled, known, changes

R == INSTANCE Rescheduler WITH left <- changes

\* A new PVC: nobody works on it.
LEMMA InitHolds ==
    ASSUME MaxChanges \in Nat, R!Init
    PROVE  R!ChecksHold
<1>1. might \in [Instances -> BOOLEAN] /\ labelled \in BOOLEAN /\ known \in BOOLEAN
      BY Zenon DEF R!Init
<1>2. ~labelled /\ ~known /\ \A i \in Instances : ~might[i] BY DEF R!Init
<1>3. changes \in 0 .. MaxChanges BY DEF R!Init
<1>4. R!TypeOK BY <1>1, <1>3 DEF R!Init, R!TypeOK
<1>5. QED BY <1>2, <1>4, Zenon DEF R!Init, R!ChecksHold

\* ShouldProvision begins only when the driver was not seen, so known is false.
LEMMA ShouldProvisionKeeps ==
    ASSUME R!ChecksHold, NEW i \in Instances, R!ShouldProvision(i)
    PROVE  R!ChecksHold'
<1>1. ~known BY Zenon DEF R!ChecksHold, R!ShouldProvision, R!shouldReschedule, R!Seen
<1>2. R!TypeOK' BY Zenon DEF R!ChecksHold, R!TypeOK, R!ShouldProvision, R!nodeVars, R!history
<1>3. QED BY <1>1, <1>2, Zenon DEF R!ChecksHold, R!TypeOK, R!ShouldProvision, R!shouldReschedule, R!Seen, R!nodeVars, R!history

\* GetNode finds the labels if the node has had them ever since.
LEMMA GetNodeKeeps ==
    ASSUME R!ChecksHold, NEW i \in Instances, R!GetNode(i)
    PROVE  R!ChecksHold'
<1>1. (claims[i] \in labels) \in BOOLEAN OBVIOUS
<1>2. might' \in [Instances -> BOOLEAN] BY <1>1, Zenon DEF R!ChecksHold, R!TypeOK, R!GetNode
<1>3. R!TypeOK' BY <1>2, Zenon DEF R!ChecksHold, R!TypeOK, R!GetNode, R!pvcVars, R!nodeVars, R!history
<1>4. might'[i] = (claims[i] \in labels) /\ \A j \in Instances \ {i} : might'[j] = might[j]
      BY Zenon DEF R!ChecksHold, R!TypeOK, R!GetNode
<1>5. i \in fresh /\ ~might'[i] => ~labelled BY <1>4, Zenon DEF R!ChecksHold
<1>6. QED BY <1>3, <1>4, <1>5, Zenon DEF R!ChecksHold, R!TypeOK, R!GetNode, R!Seen, R!pvcVars, R!nodeVars, R!history

\* Provision decides for the node without labels only.
LEMMA ProvisionKeeps ==
    ASSUME R!ChecksHold, NEW i \in Instances, R!Provision(i)
    PROVE  R!ChecksHold'
BY ZenonT(30) DEF R!ChecksHold, R!TypeOK, R!Provision, R!Done, R!shouldReschedule, R!Seen, R!nodeVars,
             R!history

\* After Reschedule all copies of the PVC are outdated, or nothing was changed.
LEMMA RescheduleKeeps ==
    ASSUME R!ChecksHold, NEW i \in Instances, R!Reschedule(i)
    PROVE  R!ChecksHold'
<1>1. CASE i \in fresh
  <2>1. might' \in [Instances -> BOOLEAN] /\ \A j \in Instances : might[j] = FALSE => might'[j] = FALSE
        BY Zenon DEF R!ChecksHold, R!TypeOK, R!Reschedule, R!Done
  <2>2. labelled' = FALSE /\ known' = FALSE /\ fresh' = {} BY <1>1, Zenon DEF R!Reschedule
  <2>3. R!TypeOK' BY <1>1, <2>1, <2>2, Zenon DEF R!ChecksHold, R!TypeOK, R!Reschedule, R!Done, R!nodeVars
  <2>4. \A j \in Instances : pc'[j] = "reschedule" => ~might'[j]
        BY <2>1, Zenon DEF R!ChecksHold, R!TypeOK, R!Reschedule, R!Done
  <2>5. QED BY <2>2, <2>3, <2>4, Zenon DEF R!ChecksHold
<1>2. CASE i \notin fresh
  <2>1. /\ might' \in [Instances -> BOOLEAN] /\ might'[i] = FALSE
        /\ \A j \in Instances \ {i} : might'[j] = might[j]
        BY Zenon DEF R!ChecksHold, R!TypeOK, R!Reschedule, R!Done
  <2> UNCHANGED <<selected, bound, fresh, csiNodeLister, R!nodeVars, labelled, known>>
      BY <1>2, Zenon DEF R!Reschedule, R!history
  <2>2. R!TypeOK' BY <2>1, ZenonT(30) DEF R!ChecksHold, R!TypeOK, R!Reschedule, R!Done, R!nodeVars
  <2>3. \A j \in Instances : pc'[j] = "reschedule" => ~might'[j]
        BY <2>1, Zenon DEF R!ChecksHold, R!TypeOK, R!Reschedule, R!Done
  <2>4. \A j \in fresh : j # i /\ pc'[j] = pc[j] /\ claims'[j] = claims[j] /\ might'[j] = might[j]
        BY <1>2, <2>1, Zenon DEF R!ChecksHold, R!TypeOK, R!Reschedule, R!Done
  <2>5. QED BY <2>2, <2>3, <2>4, Zenon DEF R!ChecksHold, R!Seen, R!nodeVars
<1>3. QED BY <1>1, <1>2

\* The informer may see the driver come and go, known only becomes false.
LEMMA SyncCSINodesKeeps ==
    ASSUME R!ChecksHold, NEW i \in Instances, R!SyncCSINodes(i)
    PROVE  R!ChecksHold'
BY Zenon DEF R!ChecksHold, R!TypeOK, R!SyncCSINodes, R!Seen, R!pvcVars, R!nodeVars

\* A new selection makes all copies of the PVC outdated.
LEMMA SelectNodeKeeps ==
    ASSUME R!ChecksHold, NEW n \in Nodes, R!SelectNode(n)
    PROVE  R!ChecksHold'
<1>1. labelled' \in BOOLEAN /\ known' \in BOOLEAN BY DEF R!SelectNode, R!Seen
<1>2. R!TypeOK' BY <1>1, Zenon DEF R!ChecksHold, R!TypeOK, R!SelectNode, R!nodeVars, R!instanceVars
<1>3. QED BY <1>2, Zenon DEF R!ChecksHold, R!SelectNode, R!Seen, R!nodeVars, R!instanceVars

\* What happens on the nodes does not concern the rescheduler, except for the
\* labels, and labelled only becomes false.
LEMMA NodeStepKeeps ==
    ASSUME MaxChanges \in Nat, R!ChecksHold, NEW n \in Nodes,
           R!StartProvision(n) \/ R!SavePV(n) \/ R!Follow(n) \/ R!Relabel(n)
    PROVE  R!ChecksHold'
<1>1. CASE R!StartProvision(n)
      BY <1>1, Zenon DEF R!ChecksHold, R!TypeOK, R!StartProvision, R!Seen, R!pvcVars,
                         R!instanceVars, R!history
<1>2. CASE R!SavePV(n) BY <1>2, Zenon DEF R!ChecksHold, R!TypeOK, R!SavePV, R!Seen, R!instanceVars, R!history
<1>3. CASE R!Follow(n)
      BY <1>3, Zenon DEF R!ChecksHold, R!TypeOK, R!Follow, R!FollowLabels, R!Seen, R!pvcVars,
                         R!instanceVars, R!history
<1>4. CASE R!Relabel(n)
  <2>1. labelled' \in BOOLEAN /\ (labelled' => labelled /\ selected \in labels')
        BY <1>4, Zenon DEF R!Relabel
  <2>2. changes \in 0 .. MaxChanges /\ changes > 0 /\ changes' = changes - 1
        BY <1>4, Zenon DEF R!ChecksHold, R!TypeOK, R!Relabel
  <2> changes' \in 0 .. MaxChanges BY <2>2
  <2>3. R!TypeOK' BY <1>4, <2>1, Zenon DEF R!ChecksHold, R!TypeOK, R!Relabel, R!pvcVars, R!instanceVars
  <2>4. QED BY <1>4, <2>1, <2>3, Zenon DEF R!ChecksHold, R!Relabel, R!Seen, R!pvcVars, R!instanceVars
<1>5. QED BY <1>1, <1>2, <1>3, <1>4, Zenon

\* Every step keeps what the checks of shouldReschedule have established.
LEMMA StepHolds ==
    ASSUME MaxChanges \in Nat, R!ChecksHold, [R!Next]_(R!vars)
    PROVE  R!ChecksHold'
<1>1. CASE UNCHANGED R!vars
      BY <1>1, Zenon DEF R!ChecksHold, R!TypeOK, R!Seen, R!vars, R!pvcVars, R!nodeVars,
                         R!instanceVars, R!history
<1>2. CASE \E i \in Instances :
              \/ R!ShouldProvision(i) \/ R!GetNode(i) \/ R!Provision(i) \/ R!Reschedule(i)
              \/ R!SyncCSINodes(i)
      BY <1>2, ShouldProvisionKeeps, GetNodeKeeps, ProvisionKeeps, RescheduleKeeps,
         SyncCSINodesKeeps, Zenon
<1>3. CASE \E n \in Nodes :
              R!SelectNode(n) \/ R!StartProvision(n) \/ R!SavePV(n) \/ R!Follow(n) \/ R!Relabel(n)
      BY <1>3, SelectNodeKeeps, NodeStepKeeps
<1>4. QED BY <1>1, <1>2, <1>3, Zenon DEF R!Next

\* As long as the PVC does not change, what shouldReschedule has checked stays
\* true of every instance that works on it (rescheduler.go:152-214).
THEOREM ChecksAlwaysHold ==
    ASSUME MaxChanges \in Nat
    PROVE  R!Spec => []R!ChecksHold
BY InitHolds, StepHolds, PTL DEF R!Spec

\* The annotation is removed by Reschedule only, with a copy that is current.
LEMMA RemovedByReschedule ==
    ASSUME R!ChecksHold, [R!Next]_(R!vars), selected # None, selected' = None
    PROVE  \E i \in Instances : pc[i] = "reschedule" /\ i \in fresh
<1>1. ASSUME NEW n \in Nodes PROVE ~R!SelectNode(n)
      BY Zenon DEF R!SelectNode
<1>2. ASSUME NEW n \in Nodes
      PROVE  ~(R!StartProvision(n) \/ R!SavePV(n) \/ R!Follow(n) \/ R!Relabel(n))
      BY Zenon DEF R!StartProvision, R!SavePV, R!Follow, R!Relabel, R!pvcVars
<1>3. ASSUME NEW i \in Instances
      PROVE  ~(R!ShouldProvision(i) \/ R!GetNode(i) \/ R!Provision(i) \/ R!SyncCSINodes(i))
      BY Zenon DEF R!ShouldProvision, R!GetNode, R!Provision, R!SyncCSINodes, R!pvcVars
<1>4. ~UNCHANGED R!vars BY Zenon DEF R!vars, R!pvcVars
<1>5. PICK i \in Instances : R!Reschedule(i)
      BY <1>1, <1>2, <1>3, <1>4 DEF R!Next
<1>6. QED BY <1>5, Zenon DEF R!Reschedule

\* A node that has had the labels ever since it was selected, or on which the
\* driver was seen ever since, does not lose the PVC (rescheduler.go:169-172).
THEOREM ServedNodeAlwaysKept ==
    ASSUME MaxChanges \in Nat
    PROVE  R!Spec => R!ServedNodeKept
<1>1. R!ChecksHold /\ [R!Next]_(R!vars) => [selected # None /\ selected' = None => ~labelled /\ ~known]_(R!vars)
      BY RemovedByReschedule, Zenon DEF R!ChecksHold
<1>2. QED BY ChecksAlwaysHold, <1>1, PTL DEF R!Spec, R!ServedNodeKept
=============================================================================
