---------------------------- MODULE TikvStoreLabels ----------------------------
(***************************************************************************)
(* The label step of the TiKV member manager (setStoreLabelsForTiKV,       *)
(* getNodeLabels, storeLabelsEqualNodeLabels in pkg/manager/member): each  *)
(* Sync lists the stores from PD and, for each owned store in PD's order,   *)
(* resolves the location labels of the node its pod runs on and pushes     *)
(* them to PD when PD's labels differ.  A store whose pod the lister does   *)
(* not find ends the step; a node that cannot be read or has none of the   *)
(* labels, and a failed push, only skip that store.  Meanwhile nodes are   *)
(* relabelled and pods deleted, recreated and scheduled.                   *)
(*                                                                         *)
(* PD also lists stores of other clusters, whose address does not match    *)
(* this cluster's pattern: the step skips them.  It also skips a store PD  *)
(* lists without its Status (getTiKVStore returns nil); that skip is left  *)
(* out, since PD's order already lets any owned store be visited after     *)
(* the first missing pod or not at all (TLC reaches the same states with   *)
(* it).                                                                    *)
(*                                                                         *)
(* Abstractions.  An owned store is its pod's ordinal; labels are          *)
(* functions from keys to a value or Absent.  PD's store-label update      *)
(* sets the keys it is given and keeps the others (PD's behaviour, not     *)
(* code of this repository).                                               *)
(***************************************************************************)
EXTENDS Naturals, FiniteSets, SequencesExt

CONSTANTS
    Stores,          \* owned stores, by ordinal
    External,        \* stores PD lists whose address is another cluster's
    Nodes,           \* the nodes
    LocationKeys,    \* PD's replication.location-labels
    HostnameLabel,   \* corev1.LabelHostname
    Vals,            \* label values
    NoPod, Unscheduled,
    MaxChanges,      \* bound on relabelling and pod deletions
    MaxFaults        \* bound on failed PD calls

ASSUME LabelsAssumption ==
    /\ "host" \in LocationKeys /\ HostnameLabel \notin LocationKeys
    /\ Stores \cap External = {}
    /\ MaxChanges \in Nat /\ MaxFaults \in Nat

NodeKeys == LocationKeys \cup {HostnameLabel}
Absent == "Absent"
Labels(K) == [K -> Vals \cup {Absent}]

VARIABLES
    nodeLabels,  \* the labels of each node
    podNode,     \* the node of each store's pod, Unscheduled or NoPod
    pdLabels,    \* the location labels PD records for each store
    changes, faults

vars == <<nodeLabels, podNode, pdLabels, changes, faults>>

-----------------------------------------------------------------------------

\* getNodeLabels: the node's value of each location label; "host" falls
\* back to the node's hostname label.
GetNodeLabels(n) ==
    [k \in LocationKeys |->
       IF nodeLabels[n][k] # Absent THEN nodeLabels[n][k]
       ELSE IF k = "host" THEN nodeLabels[n][HostnameLabel]
       ELSE Absent]

\* Mutant of StoreLabelsEqualNodeLabels: only the "host" label compared.
StoreLabelsEqualHostOnly(st, nl) ==
    nl["host"] # Absent => st["host"] = nl["host"]

\* storeLabelsEqualNodeLabels: PD's labels restricted to the node label
\* keys are DeepEqual to the node labels.
StoreLabelsEqualNodeLabels(st, nl) ==
    \A k \in LocationKeys : nl[k] # Absent => st[k] = nl[k]

\* PD's SetStoreLabels: the given labels are set, the others kept.
SetStoreLabels(st, nl) ==
    [k \in LocationKeys |-> IF nl[k] # Absent THEN nl[k] ELSE st[k]]

\* The labels the step pushes for a store, or none: the pod's node must
\* be read (a pod not yet scheduled has no node) and have a label.
Resolved(s) ==
    IF podNode[s] \in Nodes THEN GetNodeLabels(podNode[s])
    ELSE [k \in LocationKeys |-> Absent]
NeedsPush(s) ==
    /\ \E k \in LocationKeys : Resolved(s)[k] # Absent
    /\ ~StoreLabelsEqualNodeLabels(pdLabels[s], Resolved(s))

\* setStoreLabelsForTiKV: GetStores or GetConfig fails; or the stores are
\* visited in PD's order, the external ones skipped, up to the first owned
\* store whose pod is not found; each visited store that needs it is
\* pushed, a failed push being skipped.
SetStoreLabelsForTiKV ==
    \/ /\ faults < MaxFaults
       /\ faults' = faults + 1
       /\ UNCHANGED <<nodeLabels, podNode, pdLabels, changes>>
    \/ \E order \in SetToSeqs(Stores \cup External), failed \in SUBSET Stores :
         LET visited == {i \in DOMAIN order : order[i] \in Stores}
             missing == {i \in visited : podNode[order[i]] = NoPod}
             stop == IF missing = {} THEN Len(order) + 1
                     ELSE CHOOSE i \in missing : \A j \in missing : i <= j
             pushed == {order[i] : i \in {j \in visited : j < stop}}
                          \cap {s \in Stores : NeedsPush(s)}
         IN  /\ failed \subseteq pushed
             /\ faults + Cardinality(failed) <= MaxFaults
             /\ faults' = faults + Cardinality(failed)
             /\ pdLabels' = [s \in Stores |->
                               IF s \in pushed \ failed
                               THEN SetStoreLabels(pdLabels[s], Resolved(s))
                               ELSE pdLabels[s]]
             /\ UNCHANGED <<nodeLabels, podNode, changes>>

\* The environment: a node label is set, changed or removed; a pod is
\* deleted; the StatefulSet controller recreates it and the scheduler puts
\* it on a node.
Relabel ==
    /\ changes < MaxChanges
    /\ \E n \in Nodes, k \in NodeKeys, v \in Vals \cup {Absent} :
          /\ v # nodeLabels[n][k]
          /\ nodeLabels' = [nodeLabels EXCEPT ![n][k] = v]
    /\ changes' = changes + 1
    /\ UNCHANGED <<podNode, pdLabels, faults>>

DeletePod(s) ==
    /\ changes < MaxChanges
    /\ podNode[s] # NoPod
    /\ podNode' = [podNode EXCEPT ![s] = NoPod]
    /\ changes' = changes + 1
    /\ UNCHANGED <<nodeLabels, pdLabels, faults>>

RecreatePod(s) ==
    /\ podNode[s] = NoPod
    /\ podNode' = [podNode EXCEPT ![s] = Unscheduled]
    /\ UNCHANGED <<nodeLabels, pdLabels, changes, faults>>

SchedulePod(s) ==
    /\ podNode[s] = Unscheduled
    /\ \E n \in Nodes : podNode' = [podNode EXCEPT ![s] = n]
    /\ UNCHANGED <<nodeLabels, pdLabels, changes, faults>>

\* Nodes carry a zone and a hostname, no "host" label; every pod runs and
\* PD has no labels yet.
Init ==
    /\ nodeLabels \in {l \in [Nodes -> Labels(NodeKeys)] :
                          \A n \in Nodes : /\ l[n]["host"] = Absent
                                           /\ \A k \in NodeKeys \ {"host"} :
                                                 l[n][k] # Absent}
    /\ podNode \in [Stores -> Nodes]
    /\ pdLabels = [s \in Stores |-> [k \in LocationKeys |-> Absent]]
    /\ changes = 0
    /\ faults = 0

Next ==
    \/ SetStoreLabelsForTiKV \/ Relabel
    \/ \E s \in Stores : DeletePod(s) \/ RecreatePod(s) \/ SchedulePod(s)

Spec == Init /\ [][Next]_vars

\* The work queue keeps requeueing the cluster; the StatefulSet controller
\* and the scheduler keep running.
Fairness ==
    /\ WF_vars(SetStoreLabelsForTiKV)
    /\ \A s \in Stores : WF_vars(RecreatePod(s)) /\ WF_vars(SchedulePod(s))

FairSpec == Spec /\ Fairness

-----------------------------------------------------------------------------

\* Once nodes and pods stop changing, PD ends up recording, for every store,
\* every location label its node has (the hostname standing in for a
\* missing "host"), although pods move, pushes fail and a store whose pod
\* is being recreated cuts a pass short.
LabelsEventuallyPropagated ==
    <>[](\A s \in Stores : \A k \in LocationKeys :
            Resolved(s)[k] # Absent => pdLabels[s][k] = Resolved(s)[k])

=============================================================================
