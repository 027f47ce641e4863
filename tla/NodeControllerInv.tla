-------------------------- MODULE NodeControllerInv --------------------------
(***************************************************************************)
(* The inductive invariants behind the safety properties of NodeController.*)
(***************************************************************************)
EXTENDS NodeController

\* Volume IDs are hashes of the names; they are taken to be free of collisions.
DistinctIDs == \A m, n \in Names : volumeID[m] = volumeID[n] => m = n

Active(w) == pc[w] \notin {"idle", "lock"}

HasLV(id) == \E vg \in VGs : lvs[id][vg] > 0

Backed(id) == entry[id] # None /\ devices[id] # 0 /\ lvs[id][devices[id]] > 0

\* Nothing runs unless the driver serves requests.
StoppedInv ==
    /\ ~Serving => \A w \in Workers : pc[w] = "idle"
    /\ ~up => cleanupList = {} /\ \A id \in Ids : pmemVolumes[id] = None
    /\ \A id \in cleanupList : pmemVolumes[id] = None

\* The mutex keeps two creates apart, and two deletes; the map of known
\* volumes keeps a create and a delete apart.
LockInv ==
    /\ \A w \in Workers : pc[w] \in CreateSteps =>
          req[w].op = "create" /\ pmemVolumes[Id(w)] = None
    /\ \A w \in Workers : pc[w] \in DeleteSteps =>
          req[w].op = "delete" /\ pmemVolumes[Id(w)] # None
    /\ \A v, w \in Workers : v # w /\ Active(v) /\ Active(w) => Key(v) # Key(w)

\* How far a handler has come tells what there is of its volume.
BackedInv ==
    /\ \A w \in Workers : pc[w] \in {"lvcreate", "clear"} => entry[Id(w)] # None
    /\ \A w \in Workers : pc[w] = "clear" => lvs[Id(w)][lv[w]] > 0
    /\ \A w \in Workers : pc[w] \in {"smUpdate", "register", "wipe", "lvremove"} => Backed(Id(w))
    /\ \A id \in Ids : pmemVolumes[id] # None =>
          \/ \E w \in Workers : pc[w] \in {"smDelete", "unregister"} /\ Id(w) = id
          \/ Backed(id)

\* An LV is the only one of its name, it has a durable state entry, and while
\* the driver is up it belongs to a known volume or to a create in progress.
LeakInv ==
    /\ NoLeak
    /\ \A w \in Workers : pc[w] = "lvcreate" => None \notin unsynced[Id(w)]
    /\ \A w \in Workers : pc[w] \in {"smDelete", "unregister"} => ~HasLV(Id(w))
    /\ \A id \in Ids, v, w \in VGs : lvs[id][v] > 0 /\ lvs[id][w] > 0 => v = w
    /\ \A id \in cleanupList : ~HasLV(id)
    /\ \A id \in Ids : up /\ HasLV(id) =>
          \/ pmemVolumes[id] # None
          \/ \E w \in Workers : pc[w] \in {"clear", "smUpdate", "register"} /\ Id(w) = id

\* A volume record is one of id, and claims no more than the LV of id has, if
\* there is one; sizes[vg] is the size of the LV of id in vg.
Fits(id, v, sizes) ==
    v # None => volumeID[v.name] = id /\ \A vg \in VGs : sizes[vg] > 0 => v.size <= sizes[vg]

\* The map, the state entries and what a power loss can bring back agree with
\* the LVs, as do the records that handlers are about to write.
SizeInv ==
    /\ \A id \in Ids : \A v \in {entry[id], pmemVolumes[id]} \cup unsynced[id] : Fits(id, v, lvs[id])
    /\ \A w \in Workers : pc[w] # "idle" => req[w].asked <= size[w]
    /\ \A w \in Workers : pc[w] = "lvcreate" => entry[Id(w)] = Vol(w) /\ unsynced[Id(w)] = {}
    /\ \A w \in Workers : pc[w] \in {"clear", "smUpdate", "register"} => Fits(Id(w), Vol(w), lvs[Id(w)])

\* A confirmed volume is not being deleted, has an LV that is large enough, and
\* is known to the driver.
PromiseInv ==
    \A id \in Ids : promised[id] > 0 =>
        /\ ~Deleting(id)
        /\ HasLV(id) /\ \A vg \in VGs : lvs[id][vg] > 0 => promised[id] <= lvs[id][vg]
        /\ up => pmemVolumes[id] # None

\* A create that is undone has failed.
UndoInv == \A w \in Workers : pc[w] = "undo" => status[w] \in {"Internal", "ResourceExhausted"}

\* The inductive invariant: what is true of the driver between any two steps,
\* and from which the safety properties follow.
IndInv ==
    /\ StoppedInv /\ LockInv /\ BackedInv /\ LeakInv
    /\ SizeInv /\ PromiseInv /\ UndoInv

=============================================================================
