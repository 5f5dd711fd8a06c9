---------------------- MODULE TikvNodePortServicesProofs ----------------------
(***************************************************************************)
(* Proofs about the Services part of tikvMemberManager.Sync, for every     *)
(* number of pods, every set of nodes and every bound on the environment. *)
(*                                                                         *)
(* Both invariants rest on one fact about a Sync: the Service of list      *)
(* index i is written with the HostIP of the pod listed at i, and a write  *)
(* is only made below every rejected one, so it never carries the empty    *)
(* HostIP.  ServicesAdvertiseLiveHosts needs no strengthening beyond       *)
(* TypeOK: only a Sync in which no write failed sets stable, and that Sync *)
(* leaves every listed index either rewritten or already equal to what it *)
(* would have written.                                                     *)
(***************************************************************************)
EXTENDS TikvNodePortServices, FiniteSetTheorems, TLAPS

Inv == TypeOK /\ ServicesAdvertiseLiveHosts

\* The pods the lister returns are a finite set of at most NumPods.
LEMMA LiveBound ==
    ASSUME TypeOK
    PROVE  /\ IsFiniteSet(Live)
           /\ Cardinality(Live) \in 0 .. NumPods
<1>1. IsFiniteSet(Ordinals) /\ Cardinality(Ordinals) = NumPods
  BY NodePortAssumption, FS_Interval DEF Ordinals
<1>2. Live \subseteq Ordinals
  BY DEF Live
<1>. QED
  BY <1>1, <1>2, FS_Subset, FS_CardinalityType

\* The position i of a listing holds a live pod.
LEMMA ListedPodLive ==
    ASSUME NEW order \in ListOrders,
           NEW i \in 0 .. Cardinality(Live) - 1
    PROVE  order[i] \in Live
BY DEF ListOrders, Bijection, Injection

\* One Sync, in the order the lister returned, keeps both invariants.
LEMMA SyncInOrderInv ==
    ASSUME TypeOK, NEW order \in ListOrders, SyncInOrder(order)
    PROVE  Inv'
<1> DEFINE n == IF NodePort THEN Cardinality(Live) ELSE 0
           want(i) == NodeportServiceIP(order, i)
           needs(i) == ServiceNeedsWrite(i, want(i))
           failing == {i \in 0 .. n - 1 : needs(i) /\ want(i) = NoHost}
           written == {i \in 0 .. n - 1 :
                          needs(i) /\ \A j \in failing : i < j}
<1>1. /\ svc' = [i \in Ordinals |-> IF i \in written THEN want(i)
                                    ELSE svc[i]]
      /\ peer' \in BOOLEAN
      /\ stable' = (failing = {})
      /\ UNCHANGED <<pod, paused, envSteps>>
  BY DEF SyncInOrder, TypeOK
<1>2. n \in 0 .. NumPods /\ n <= Cardinality(Live)
  <2>1. Cardinality(Live) \in 0 .. NumPods
    BY LiveBound
  <2>. QED
    BY <2>1, NodePortAssumption
<1>3. \A i \in 0 .. n - 1 : order[i] \in Live /\ want(i) = pod[order[i]]
  BY <1>2, ListedPodLive DEF NodeportServiceIP
<1>4. \A i \in written : want(i) \in Nodes
  <2> SUFFICES ASSUME NEW i \in written PROVE want(i) \in Nodes
    OBVIOUS
  <2>1. i \in 0 .. n - 1 /\ needs(i) /\ i \notin failing
    OBVIOUS
  <2>2. pod[order[i]] \in Nodes \cup {NoHost}
    BY <1>3, <2>1 DEF TypeOK, Live, Ordinals
  <2>. QED
    BY <1>3, <2>1, <2>2
<1>5. TypeOK'
  BY <1>1, <1>2, <1>4 DEF TypeOK, Ordinals
<1>6. ServicesAdvertiseLiveHosts'
  <2> SUFFICES ASSUME stable', NodePort, ~paused',
                      NEW i \in 0 .. Cardinality(Live') - 1
               PROVE  \E o \in Live' : svc'[i] = pod'[o]
    BY DEF ServicesAdvertiseLiveHosts
  <2>1. Live' = Live /\ n = Cardinality(Live) /\ failing = {} /\ ~paused
    BY <1>1 DEF Live
  <2>2. i \in 0 .. n - 1
    BY <2>1
  <2>3. i \in Ordinals /\ order[i] \in Live /\ want(i) = pod[order[i]]
    <3>1. i \in Ordinals
      BY <1>2, <2>2, NodePortAssumption DEF Ordinals
    <3>2. order[i] \in Live /\ want(i) = pod[order[i]]
      BY <1>3, <2>2
    <3>. QED  BY <3>1, <3>2
  <2>4. svc'[i] = want(i)
    <3>1. CASE needs(i)
      BY <1>1, <2>1, <2>2, <2>3, <3>1
    <3>2. CASE ~needs(i)
      BY <1>1, <2>1, <2>3, <3>2 DEF ServiceNeedsWrite
    <3>. QED  BY <3>1, <3>2
  <2>. QED
    BY <1>1, <2>1, <2>3, <2>4
<1>. QED
  BY <1>5, <1>6 DEF Inv

LEMMA InitInv == Init => Inv
<1> SUFFICES ASSUME Init PROVE Inv
  OBVIOUS
<1>1. TypeOK
  <2>1. pod \in [Ordinals -> Nodes \cup {NoHost, NoPod}]
    BY DEF Init
  <2>2. svc \in [Ordinals -> Nodes \cup {NoSvc}]
    BY DEF Init
  <2>3. envSteps \in 0 .. MaxEnvSteps
    BY NodePortAssumption DEF Init
  <2>4. peer \in BOOLEAN /\ paused \in BOOLEAN /\ stable \in BOOLEAN
    BY DEF Init
  <2>. QED
    BY <2>1, <2>2, <2>3, <2>4 DEF TypeOK
<1>2. ServicesAdvertiseLiveHosts
  BY DEF Init, ServicesAdvertiseLiveHosts
<1>. QED
  BY <1>1, <1>2 DEF Inv

\* A pod or pause change spends one environment step and clears stable.
LEMMA EnvStepInv ==
    ASSUME TypeOK,
           envSteps < MaxEnvSteps, envSteps' = envSteps + 1,
           stable' = FALSE, UNCHANGED <<svc, peer>>,
           pod' \in [Ordinals -> Nodes \cup {NoHost, NoPod}],
           paused' \in BOOLEAN
    PROVE  Inv'
<1>1. envSteps' \in 0 .. MaxEnvSteps
  BY NodePortAssumption DEF TypeOK
<1>2. TypeOK'
  BY <1>1 DEF TypeOK
<1>3. ServicesAdvertiseLiveHosts'
  BY DEF ServicesAdvertiseLiveHosts
<1>. QED
  BY <1>2, <1>3 DEF Inv

LEMMA NextInv == Inv /\ [Next]_vars => Inv'
<1> SUFFICES ASSUME Inv, [Next]_vars PROVE Inv'
  OBVIOUS
<1>1. TypeOK
  BY DEF Inv
<1>2. CASE Sync
  BY <1>1, <1>2, SyncInOrderInv DEF Sync
<1>3. ASSUME NEW o \in Ordinals, DeletePod(o) PROVE Inv'
  <2>1. pod' \in [Ordinals -> Nodes \cup {NoHost, NoPod}] /\ paused' \in BOOLEAN
    BY <1>1, <1>3 DEF DeletePod, EnvStep, TypeOK
  <2>. QED
    BY <1>1, <1>3, <2>1, EnvStepInv DEF DeletePod, EnvStep
<1>4. CASE TogglePause
  <2>1. paused' \in BOOLEAN /\ pod' = pod
    BY <1>1, <1>4 DEF TogglePause, EnvStep, TypeOK
  <2>. QED
    BY <1>1, <1>4, <2>1, EnvStepInv DEF TogglePause, EnvStep, TypeOK
<1>5. ASSUME NEW o \in Ordinals, CreatePod(o) PROVE Inv'
  <2>1. pod' \in [Ordinals -> Nodes \cup {NoHost, NoPod}] /\ paused' \in BOOLEAN
    BY <1>1, <1>5 DEF CreatePod, EnvStep, TypeOK
  <2>. QED
    BY <1>1, <1>5, <2>1, EnvStepInv DEF CreatePod, EnvStep
<1>6. ASSUME NEW o \in Ordinals, NEW h \in Nodes, SchedulePod(o, h) PROVE Inv'
  <2>1. pod' \in [Ordinals -> Nodes \cup {NoHost, NoPod}] /\ paused' \in BOOLEAN
    BY <1>1, <1>6 DEF SchedulePod, EnvStep, TypeOK
  <2>. QED
    BY <1>1, <1>6, <2>1, EnvStepInv DEF SchedulePod, EnvStep
<1>7. CASE UNCHANGED vars
  BY <1>7 DEF vars, Inv, TypeOK, ServicesAdvertiseLiveHosts, Live
<1>. QED
  BY <1>2, <1>3, <1>4, <1>5, <1>6, <1>7 DEF Next

\* The NodePort model is typed: every Service written advertises a node,
\* never the empty HostIP of an unscheduled pod, which the API server
\* rejects (syncServiceForTikvCluster stops the Sync at that write).
THEOREM NodePortTypeCorrect == Spec => []TypeOK
<1>1. Spec => []Inv
  BY InitInv, NextInv, PTL DEF Spec
<1>. QED
  BY <1>1, PTL DEF Inv

\* After a Sync of the Services that succeeded, and until anything
\* changes, every NodePort Service advertises the host of a live TiKV pod:
\* the upsert rewrites a Service whose externalIPs ServiceEqual finds
\* changed.
THEOREM LiveHostsAdvertised == Spec => []ServicesAdvertiseLiveHosts
<1>1. Spec => []Inv
  BY InitInv, NextInv, PTL DEF Spec
<1>. QED
  BY <1>1, PTL DEF Inv
=============================================================================
