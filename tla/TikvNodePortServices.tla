------------------------- MODULE TikvNodePortServices -------------------------
(***************************************************************************)
(* The service part of tikvMemberManager.Sync (pkg/manager/member): for a  *)
(* NodePort external listener, one Service per TiKV pod returned by the    *)
(* pod lister, built by getNewNodeportServiceForTikvCluster from the pod's *)
(* index in that list, then the headless peer Service; each is upserted by *)
(* syncServiceForTikvCluster and the first failed write ends the Sync.     *)
(*                                                                         *)
(* Abstractions.  The Service for list index i is named and selects by i   *)
(* ("<tc>-tikv-<i>-<listener>", pod "basic-tikv-<i>", node port start+i):  *)
(* all of that is fixed by i, so a Service is represented by the one field *)
(* that depends on the pod, spec.externalIPs = [pod.Status.HostIP].  Host  *)
(* IPs are the nodes; a pod not yet scheduled has the empty HostIP, which  *)
(* the API server rejects in externalIPs.  The lister's order is left to   *)
(* nondeterminism: any enumeration of the pods.                            *)
(***************************************************************************)
EXTENDS Naturals, FiniteSets, Functions

CONSTANTS
    NumPods,      \* ordinals 0 .. NumPods-1 a TiKV pod can take
    Nodes,        \* host IPs of the nodes pods are scheduled on
    NodePort,     \* an external listener with access method NodePort
    MaxEnvSteps   \* bound on pod and spec changes

ASSUME NodePortAssumption ==
    /\ NumPods \in Nat \ {0}
    /\ Nodes # {}
    /\ NodePort \in BOOLEAN
    /\ MaxEnvSteps \in Nat

Ordinals == 0 .. NumPods - 1
NoPod == "NoPod"
NoHost == ""          \* pod.Status.HostIP of a pod not yet scheduled
NoSvc == "NoSvc"

VARIABLES
    pod,        \* per ordinal: the host IP of its pod, NoHost, or NoPod
    svc,        \* per list index: externalIPs of its NodePort Service, or NoSvc
    peer,       \* the headless peer Service exists
    paused,     \* tc.Spec.Paused
    stable,     \* the last Sync succeeded and nothing changed since
    envSteps    \* pod and spec changes so far

vars == <<pod, svc, peer, paused, stable, envSteps>>

Live == {o \in Ordinals : pod[o] # NoPod}

\* The orders in which podLister.List may return the pods: the Services are
\* built from positions 0 .. n-1 of that list.
ListOrders == Bijection(0 .. Cardinality(Live) - 1, Live)

-----------------------------------------------------------------------------

\* Mutant of NodeportServiceIP: the HostIP read from the pod whose ordinal
\* is the list index, present or not.
NodeportServiceIPByOrdinal(order, i) == pod[i]

\* getNewNodeportServiceForTikvCluster(tc, idx, listener, HostIP): the
\* Service of list index i carries the HostIP of the pod listed at i.
NodeportServiceIP(order, i) == pod[order[i]]

\* Mutant of ServiceNeedsWrite: ServiceEqual that ignores externalIPs.
ServiceNeedsWriteNoIPs(i, want) == ~paused /\ svc[i] = NoSvc

\* syncServiceForTikvCluster: nothing while paused; create when the lister
\* does not find the Service; update when ServiceEqual finds the spec
\* changed.
ServiceNeedsWrite(i, want) == ~paused /\ (svc[i] = NoSvc \/ svc[i] # want)

\* Sync after syncStatefulSetForTikvCluster: the NodePort Services, one per
\* listed pod with the list index as its id, then the peer Service; a write
\* carrying an empty HostIP is rejected and ends the Sync there, so only
\* the writes listed before every failing one are made.
SyncInOrder(order) ==
       LET n == IF NodePort THEN Cardinality(Live) ELSE 0
           want(i) == NodeportServiceIP(order, i)
           needs(i) == ServiceNeedsWrite(i, want(i))
           failing == {i \in 0 .. n - 1 : needs(i) /\ want(i) = NoHost}
           written == {i \in 0 .. n - 1 :
                          needs(i) /\ \A j \in failing : i < j}
           peerWrite == failing = {} /\ ~paused /\ ~peer
       IN  /\ svc' = [i \in Ordinals |-> IF i \in written THEN want(i)
                                         ELSE svc[i]]
           /\ peer' = (peer \/ peerWrite)
           /\ stable' = (failing = {})
           /\ UNCHANGED <<pod, paused, envSteps>>

\* The lister returns the pods in any order.
Sync == \E order \in ListOrders : SyncInOrder(order)

\* The environment: a pod is created unscheduled, scheduled on a node,
\* deleted (rescheduled elsewhere on recreation), or the user pauses or
\* resumes the cluster.
EnvStep(change) ==
    /\ envSteps < MaxEnvSteps
    /\ change
    /\ envSteps' = envSteps + 1
    /\ stable' = FALSE
    /\ UNCHANGED <<svc, peer>>

CreatePod(o) ==
    EnvStep(pod[o] = NoPod /\ pod' = [pod EXCEPT ![o] = NoHost]
            /\ UNCHANGED paused)
SchedulePod(o, h) ==
    EnvStep(pod[o] = NoHost /\ pod' = [pod EXCEPT ![o] = h]
            /\ UNCHANGED paused)
DeletePod(o) ==
    EnvStep(pod[o] # NoPod /\ pod' = [pod EXCEPT ![o] = NoPod]
            /\ UNCHANGED paused)
TogglePause ==
    EnvStep(paused' = ~paused /\ UNCHANGED pod)

Init ==
    /\ pod = [o \in Ordinals |-> NoPod]
    /\ svc = [i \in Ordinals |-> NoSvc]
    /\ peer = FALSE
    /\ paused = FALSE
    /\ stable = FALSE
    /\ envSteps = 0

Next ==
    \/ Sync
    \/ TogglePause
    \/ \E o \in Ordinals :
          \/ CreatePod(o) \/ DeletePod(o)
          \/ \E h \in Nodes : SchedulePod(o, h)

Spec == Init /\ [][Next]_vars

-----------------------------------------------------------------------------
(* Properties.                                                             *)

TypeOK ==
    /\ pod \in [Ordinals -> Nodes \cup {NoHost, NoPod}]
    /\ svc \in [Ordinals -> Nodes \cup {NoSvc}]
    /\ peer \in BOOLEAN
    /\ paused \in BOOLEAN
    /\ stable \in BOOLEAN
    /\ envSteps \in 0 .. MaxEnvSteps

\* After a Sync that succeeded, every listed pod has its NodePort Service
\* and each of them advertises the host of a pod that exists: the upsert
\* compares externalIPs and rewrites a Service left behind by a rescheduled
\* pod.
ServicesAdvertiseLiveHosts ==
    (stable /\ NodePort /\ ~paused) =>
       \A i \in 0 .. Cardinality(Live) - 1 :
          \E o \in Live : svc[i] = pod[o]

\* The NodePort Service of index i selects pod "basic-tikv-<i>"; after a
\* successful Sync it advertises the host IP of that same pod.
ExternalIPOfSelectedPod ==
    (stable /\ NodePort /\ ~paused) =>
       \A i \in Live : svc[i] = pod[i]
=============================================================================
