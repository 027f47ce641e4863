---------------------------- MODULE Rescheduler -----------------------------
(***************************************************************************)
(* The rescheduler of the controller, pkg/pmem-csi-driver/rescheduler.go:  *)
(* it removes the "selected node" annotation from a PVC that is assigned   *)
(* to a node without PMEM-CSI, so that another node gets selected.  Every  *)
(* replica of the controller runs one, without leader election.            *)
(*                                                                         *)
(* External, as the code uses them: the scheduler, the DaemonSet of the    *)
(* node driver (one pod on each node that matches nodeSelector), kubelet,  *)
(* which registers the driver in CSINode, external-provisioner on each     *)
(* node, and the library that calls ShouldProvision and Provision.  Its    *)
(* update of a PVC fails when the PVC has changed since it was read, so    *)
(* with a copy that is outdated from the start it cannot achieve anything. *)
(***************************************************************************)
EXTENDS Naturals

CONSTANTS
    None,
    Nodes,
    Instances,      \* the replicas of the controller
    MaxChanges      \* how often node labels change

ASSUME ReschedulerAssumption == None \notin Nodes /\ MaxChanges \in Nat

VARIABLES
    selected,       \* the annotation of the PVC: a node, or None
    bound,          \* the node of the PV that the PVC is bound to, or None
    labels,         \* nodes with labels that nodeSelector matches
    running,        \* nodes with a node driver
    csiNodes,       \* nodes where CSINode lists the driver
    claims,         \* claims[i]: the annotation in the copy of the PVC that i works on
    fresh,          \* instances whose copy of the PVC is still the current one
    csiNodeLister,  \* csiNodeLister[i]: csiNodes as the informer of i has seen it
    pc,             \* what instance i is doing for the PVC
    might,          \* might[i]: the selected node that i has read had the labels
    creating,       \* nodes which create a volume for the PVC
    labelled,       \* history: the selected node has had the labels since it was selected
    known,          \* history: all informers have seen the driver there since then
    left            \* how many label changes are left

pvcVars == <<selected, bound, fresh>>
nodeVars == <<labels, running, csiNodes, creating, left>>
instanceVars == <<claims, csiNodeLister, pc, might>>
history == <<labelled, known>>
vars == <<pvcVars, nodeVars, instanceVars, history>>

\* The types of all variables.
TypeOK ==
    /\ {selected, bound} \subseteq Nodes \cup {None}
    /\ \A s \in {labels, running, csiNodes, creating} : s \subseteq Nodes
    /\ claims \in [Instances -> Nodes \cup {None}] /\ fresh \subseteq Instances
    /\ csiNodeLister \in [Instances -> SUBSET Nodes]
    /\ pc \in [Instances -> {"idle", "get node", "Provision", "reschedule"}]
    /\ might \in [Instances -> BOOLEAN]
    /\ labelled \in BOOLEAN /\ known \in BOOLEAN /\ left \in 0 .. MaxChanges

\* All informers have seen that the driver is running on node n.
Seen(n, lister) == \A i \in Instances : n \in lister[i]

\* The driver runs and is registered where it should.  The PVC is new.
Init ==
    /\ labels \in SUBSET Nodes /\ running = labels /\ csiNodes = labels
    /\ csiNodeLister = [i \in Instances |-> csiNodes]
    /\ selected = None /\ bound = None /\ claims = [i \in Instances |-> None]
    /\ fresh = {} /\ pc = [i \in Instances |-> "idle"]
    /\ might = [i \in Instances |-> FALSE]
    /\ creating = {} /\ labelled = FALSE /\ known = FALSE /\ left = MaxChanges

-----------------------------------------------------------------------------
\* Mutant: only CSINode is checked.
ShouldRescheduleRunning(i, n, haveNode) == n # None /\ n \notin csiNodeLister[i]

\* Mutant: a node without CSINode object is an error.
ShouldRescheduleFound(i, n, haveNode) == n # None /\ ~haveNode /\ n \notin csiNodeLister[i]

\* shouldReschedule for a PVC on node n, without and with the object of that node.
shouldReschedule(i, n, haveNode) ==
    LET driverIsRunning == n \in csiNodeLister[i]      \* hasDriver
        driverMightRun == might[i]
    IN  n # None /\ ~driverIsRunning /\ (haveNode => ~driverMightRun)

\* ShouldProvision, for a PVC that is pending.
ShouldProvision(i) ==
    /\ pc[i] = "idle" /\ bound = None
    /\ claims' = [claims EXCEPT ![i] = selected]
    /\ shouldReschedule(i, selected, FALSE)
    /\ pc' = [pc EXCEPT ![i] = "get node"]
    /\ fresh' = fresh \cup {i}
    /\ UNCHANGED <<selected, bound, nodeVars, csiNodeLister, might, history>>

\* The library reads the node that it passes to Provision.
GetNode(i) ==
    /\ pc[i] = "get node"
    /\ pc' = [pc EXCEPT ![i] = "Provision"]
    /\ might' = [might EXCEPT ![i] = claims[i] \in labels]     \* nodeSelector.MatchesLabels
    /\ UNCHANGED <<pvcVars, nodeVars, claims, csiNodeLister, history>>

\* Nothing is left to do for instance i.
Done(i) ==
    /\ pc' = [pc EXCEPT ![i] = "idle"]
    /\ claims' = [claims EXCEPT ![i] = None]
    /\ might' = [might EXCEPT ![i] = FALSE]

\* Provision: ProvisioningReschedule, or ProvisioningNoChange.
Provision(i) ==
    /\ pc[i] = "Provision"
    /\ IF shouldReschedule(i, claims[i], TRUE)
         THEN pc' = [pc EXCEPT ![i] = "reschedule"] /\ UNCHANGED <<claims, might, fresh>>
         ELSE Done(i) /\ fresh' = fresh \ {i}
    /\ UNCHANGED <<selected, bound, nodeVars, csiNodeLister, history>>

\* Mutant: the annotation is removed although the PVC has changed.
RescheduleForced(i) ==
    /\ pc[i] = "reschedule"
    /\ Done(i)
    /\ selected' = None /\ fresh' = {} /\ labelled' = FALSE /\ known' = FALSE
    /\ UNCHANGED <<bound, nodeVars, csiNodeLister>>

\* The library removes the annotation, unless the PVC has changed.
Reschedule(i) ==
    /\ pc[i] = "reschedule"
    /\ Done(i)
    /\ IF i \in fresh
         THEN selected' = None /\ fresh' = {} /\ labelled' = FALSE /\ known' = FALSE
         ELSE UNCHANGED <<selected, fresh, history>>
    /\ UNCHANGED <<bound, nodeVars, csiNodeLister>>

\* The informer for CSINode catches up.
SyncCSINodes(i) ==
    /\ csiNodeLister[i] # csiNodes
    /\ csiNodeLister' = [csiNodeLister EXCEPT ![i] = csiNodes]
    /\ known' = (known /\ Seen(selected, csiNodeLister'))
    /\ UNCHANGED <<pvcVars, nodeVars, claims, pc, might, labelled>>

-----------------------------------------------------------------------------
\* The scheduler picks a node, without knowing where the driver runs.
SelectNode(n) ==
    /\ selected = None /\ bound = None
    /\ selected' = n /\ fresh' = {}
    /\ labelled' = (n \in labels) /\ known' = Seen(n, csiNodeLister)
    /\ UNCHANGED <<bound, nodeVars, instanceVars>>

\* external-provisioner starts to create a volume, and saves the PV, which
\* binds the PVC.  It gets killed together with the driver.
StartProvision(n) ==
    /\ n \in running /\ selected = n /\ bound = None /\ n \notin creating
    /\ creating' = creating \cup {n}
    /\ UNCHANGED <<pvcVars, labels, running, csiNodes, left, instanceVars, history>>

SavePV(n) ==
    /\ n \in creating /\ bound = None
    /\ bound' = n /\ creating' = {} /\ fresh' = {}
    /\ UNCHANGED <<selected, labels, running, csiNodes, left, instanceVars, history>>

\* The DaemonSet controller and kubelet follow the labels.
FollowLabels(n) ==
    \/ /\ n \in labels \ running /\ running' = running \cup {n}
       /\ UNCHANGED <<csiNodes, creating>>
    \/ /\ n \in running \ labels /\ running' = running \ {n} /\ creating' = creating \ {n}
       /\ UNCHANGED csiNodes
    \/ /\ n \in running \ csiNodes /\ csiNodes' = csiNodes \cup {n}
       /\ UNCHANGED <<running, creating>>
    \/ /\ n \in csiNodes \ running /\ csiNodes' = csiNodes \ {n}
       /\ UNCHANGED <<running, creating>>

Follow(n) == FollowLabels(n) /\ UNCHANGED <<pvcVars, labels, left, instanceVars, history>>

\* The admin changes the labels of a node.
Relabel(n) ==
    /\ left > 0 /\ left' = left - 1
    /\ labels' = IF n \in labels THEN labels \ {n} ELSE labels \cup {n}
    /\ labelled' = (labelled /\ selected \in labels')
    /\ UNCHANGED <<pvcVars, running, csiNodes, creating, instanceVars, known>>

Next ==
    \/ \E i \in Instances :
          \/ ShouldProvision(i) \/ GetNode(i) \/ Provision(i) \/ Reschedule(i)
          \/ SyncCSINodes(i)
    \/ \E n \in Nodes : SelectNode(n) \/ StartProvision(n) \/ SavePV(n) \/ Follow(n) \/ Relabel(n)

Spec == Init /\ [][Next]_vars

\* The scheduler lands on each node again and again "by chance" (docs/design.md:
\* 303-304), everything else keeps going.
Fairness ==
    /\ \A i \in Instances :
          /\ WF_vars(ShouldProvision(i)) /\ WF_vars(GetNode(i)) /\ WF_vars(Provision(i))
          /\ WF_vars(Reschedule(i)) /\ WF_vars(SyncCSINodes(i))
    /\ \A n \in Nodes :
          /\ SF_vars(SelectNode(n)) /\ WF_vars(StartProvision(n)) /\ WF_vars(SavePV(n))
          /\ WF_vars(Follow(n))

FairSpec == Spec /\ Fairness

-----------------------------------------------------------------------------
\* What the checks of shouldReschedule are good for as long as the PVC does not
\* change: the driver was not seen when the work on the PVC began, and the
\* labels were missing later (rescheduler.go:192-213).
ChecksHold ==
    /\ TypeOK
    /\ labelled => selected \in labels
    /\ known => Seen(selected, csiNodeLister)
    /\ \A i \in fresh :
          /\ pc[i] # "idle" /\ selected # None /\ claims[i] = selected
          /\ ~known
          /\ pc[i] \in {"Provision", "reschedule"} /\ ~might[i] => ~labelled
    /\ \A i \in Instances : pc[i] = "reschedule" => ~might[i]

\* "We have to be absolutely certain that the PVC is not going to be handled on
\* the node" (rescheduler.go:169-172): a node which has had the labels ever
\* since it was selected, or on which all informers have seen the driver ever
\* since, does not lose the PVC, for any delay of the instances.
ServedNodeKept == [][selected # None /\ selected' = None => ~labelled /\ ~known]_vars

\* A PVC does not stay on a node that is not going to run the driver.
GivenUp == []<>(selected = None \/ bound # None \/ selected \in labels)

\* Instances without leader election do not disturb each other or the nodes
\* for ever: if a node keeps the labels, the PVC gets a volume in the end.
GetsVolume == (<>[](labels # {})) => <>(bound # None)

=============================================================================
