----------------------- MODULE TikvMemberManagerProofs -----------------------
(***************************************************************************)
(* Proofs about the TiKV member reconciliation loop, for every value of    *)
(* the constants allowed by ConstantsAssumption.                           *)
(*                                                                         *)
(* TypeOK is not inductive by itself: the desired replica count a Sync     *)
(* computes, tc.Spec.TiKV.Replicas plus one per failure record, stays      *)
(* within MaxReplicas only because the failover detection never lets the   *)
(* failure records exceed MaxFailoverCount (FailureBudget).               *)
(*                                                                         *)
(* The set read from the lister cache may trail the live set by any number *)
(* of writes, so nothing ties the snapshot of a Sync to the live set.  The *)
(* scaler still moves the live set by one ordinal at a time because         *)
(* updateStatefulSet is accepted only when the live set is the one the     *)
(* Sync read (StatefulSetWriteAccepted): the step from the snapshot is     *)
(* then a step from the live set.                                          *)
(***************************************************************************)
EXTENDS TikvMemberManager, FiniteSetTheorems, TLAPS

\* The failure records, persisted and in memory, stay within the budget.
FailureBudget ==
    /\ Cardinality(status.failure) <= MaxFailoverCount
    /\ Cardinality(tc.failure) <= MaxFailoverCount

IInv == TypeOK /\ FailureBudget

\* The steps ScaleOneAtATime constrains.
ScaleStep ==
    sts.exists =>
       /\ sts'.replicas <= sts.replicas + 1
       /\ sts.replicas <= sts'.replicas + 1

-----------------------------------------------------------------------------
(* Lemmas about the helpers of the model.                                  *)

LEMMA OrdinalsFinite == IsFiniteSet(Ordinals)
BY ConstantsAssumption, FS_Interval DEF Ordinals

\* A subset of a failure set within the budget is within the budget.
LEMMA FailureSubset ==
    ASSUME NEW S \in SUBSET Ordinals, NEW T \in SUBSET S,
           Cardinality(S) <= MaxFailoverCount
    PROVE  Cardinality(T) <= MaxFailoverCount
<1>1. IsFiniteSet(S)
  BY OrdinalsFinite, FS_Subset
<1>2. Cardinality(T) <= Cardinality(S) /\ Cardinality(T) \in Nat
  BY <1>1, FS_Subset, FS_CardinalityType
<1>3. Cardinality(S) \in Nat
  BY <1>1, FS_CardinalityType
<1>. QED  BY <1>2, <1>3, ConstantsAssumption

LEMMA SyncedStatusType ==
    ASSUME TypeOK, NEW set
    PROVE  /\ SyncedStatus(set) \in StatusType
           /\ SyncedStatus(set).failure = status.failure
BY DEF TypeOK, SyncedStatus, StatusType, ActiveListing, Phases,
       ActiveStates, StoreStates

LEMMA RecoverType ==
    ASSUME NEW t \in StatusType
    PROVE  /\ Recover(t) \in StatusType
           /\ Recover(t).failure \subseteq t.failure
BY DEF Recover, StatusType

\* The desired StatefulSet is typed as long as the failure records are
\* within the budget.
LEMMA NewSetTyped ==
    ASSUME TypeOK, NEW t \in StatusType,
           Cardinality(t.failure) <= MaxFailoverCount
    PROVE  GetNewTiKVSet(t) \in NewSetType
<1>1. Cardinality(t.failure) \in Nat
  BY OrdinalsFinite, FS_Subset, FS_CardinalityType DEF StatusType
<1>2. tcSpec.replicas + Cardinality(t.failure) \in 0 .. MaxReplicas
  <2>1. tcSpec.replicas \in SpecReplicas
    BY DEF TypeOK
  <2>2. tcSpec.replicas + MaxFailoverCount <= MaxReplicas
    BY <2>1, ConstantsAssumption, Zenon
  <2>3. tcSpec.replicas \in 1 .. MaxReplicas
    BY <2>1, ConstantsAssumption, Zenon
  <2>. QED  BY <1>1, <2>2, <2>3, ConstantsAssumption
<1>3. tcSpec.template \in Templates
  BY DEF TypeOK
<1>. QED  BY <1>2, <1>3 DEF GetNewTiKVSet, NewSetType, TiKVStsDesiredReplicas

LEMMA UpgradePartitionTyped ==
    ASSUME TypeOK, NEW t, NEW ns
    PROVE  UpgradePartition(t, ns) \in 0 .. MaxReplicas
BY ConstantsAssumption DEF TypeOK, UpgradePartition, StsType

\* The scaler moves replicas by at most one, within the type.
LEMMA ScaleReplicasTyped ==
    ASSUME TypeOK, NEW t, NEW ns \in NewSetType
    PROVE  /\ ScaleReplicas(t, ns) \in 0 .. MaxReplicas
           /\ ScaleReplicas(t, ns) <= oldSet.replicas + 1
           /\ oldSet.replicas <= ScaleReplicas(t, ns) + 1
BY ConstantsAssumption DEF TypeOK, ScaleReplicas, StsType, NewSetType

LEMMA FailoverChoicesTyped ==
    ASSUME NEW t \in StatusType, NEW f \in FailoverChoices(t)
    PROVE  /\ f \subseteq Ordinals
           /\ Cardinality(f) <= MaxFailoverCount
BY DEF FailoverChoices, StatusType

LEMMA EmptyTyped ==
    /\ NoSet \in StsType
    /\ NoNewSet \in NewSetType
    /\ EmptyStatus \in StatusType
<1>1. DefaultTemplate \in Templates
  BY ConstantsAssumption DEF DefaultTemplate
<1>. QED  BY <1>1, ConstantsAssumption
          DEF NoSet, StsType, NoNewSet, NewSetType, EmptyStatus, StatusType,
              Phases, ActiveStates

\* Ending a Sync with a typed status within the budget keeps the cycle
\* variables typed.
LEMMA EndCycleTyped ==
    ASSUME NEW t \in StatusType, Cardinality(t.failure) <= MaxFailoverCount,
           EndCycle(t)
    PROVE  /\ status' \in StatusType /\ tc' \in StatusType
           /\ oldSet' \in StsType /\ newSet' \in NewSetType
           /\ pc' \in Steps /\ pc' = "Idle"
           /\ FailureBudget'
BY EmptyTyped DEF EndCycle, FailureBudget, Steps

-----------------------------------------------------------------------------
(* The inductive invariant.                                                *)

LEMMA InitIInv == Init => IInv
<1> SUFFICES ASSUME Init PROVE IInv
  OBVIOUS
<1>1. TypeOK
  <2>1. tcSpec \in [replicas : SpecReplicas, template : Templates,
                    paused : BOOLEAN]
    BY DEF Init
  <2>2. pod \in [Ordinals -> Templates \cup {NoPod}]
        /\ store \in [Ordinals -> StoreStates \cup {NoStore}]
    BY DEF Init
  <2>3. edits \in 0 .. MaxEdits /\ faults \in 0 .. MaxFaults
    BY ConstantsAssumption DEF Init
  <2>. QED  BY <2>1, <2>2, <2>3, EmptyTyped DEF Init, TypeOK, Steps
<1>2. FailureBudget
  BY ConstantsAssumption, FS_EmptySet DEF Init, FailureBudget, EmptyStatus
<1>. QED  BY <1>1, <1>2 DEF IInv

\* The steps of the user, PD, the StatefulSet controller and the informer
\* touch neither the status nor the cycle's snapshot; the set's spec is
\* written only by the operator, its current revision by the controller.
LEMMA EnvironmentIInv == IInv /\ Environment => IInv'
<1> SUFFICES ASSUME IInv, Environment PROVE IInv'
  OBVIOUS
<1> USE ConstantsAssumption DEF IInv, TypeOK, FailureBudget, cycleVars, envVars
<1>1. CASE EditSpec
  <2>1. PICK r \in SpecReplicas, t \in Templates, p \in BOOLEAN :
               tcSpec' = [replicas |-> r, template |-> t, paused |-> p]
    BY <1>1 DEF EditSpec
  <2>2. tcSpec' \in [replicas : SpecReplicas, template : Templates,
                     paused : BOOLEAN]
    BY <2>1
  <2>3. edits' \in 0 .. MaxEdits
    BY <1>1 DEF EditSpec
  <2>. QED  BY <1>1, <2>2, <2>3 DEF EditSpec
<1>2. CASE PDFault
  <2>1. pdAvailable' \in BOOLEAN /\ pdUpgrading' \in BOOLEAN
    BY <1>2 DEF PDFault
  <2>. QED  BY <1>2, <2>1 DEF PDFault
<1>3. CASE PDHeal
  BY <1>3 DEF PDHeal
<1>4. CASE CompleteRollout
  BY <1>4 DEF CompleteRollout, StsType
<1>5. CASE CacheSync
  BY <1>5 DEF CacheSync
<1>6. ASSUME NEW o \in Ordinals, CreatePod(o) PROVE IInv'
  BY <1>6 DEF CreatePod, StsType
<1>7. ASSUME NEW o \in Ordinals, RollPod(o) PROVE IInv'
  BY <1>7 DEF RollPod
<1>8. ASSUME NEW o \in Ordinals, DeletePod(o) PROVE IInv'
  BY <1>8 DEF DeletePod, StoreStates
<1>9. ASSUME NEW o \in Ordinals, StoreUp(o) PROVE IInv'
  BY <1>9 DEF StoreUp, StoreStates, ActiveStates
<1>10. ASSUME NEW o \in Ordinals, StoreDown(o) PROVE IInv'
  <2>1. faults' \in 0 .. MaxFaults
    BY <1>10 DEF StoreDown, Fail
  <2>. QED  BY <1>10, <2>1 DEF StoreDown, StoreStates, ActiveStates
<1>11. ASSUME NEW o \in Ordinals, StoreDrained(o) PROVE IInv'
  BY <1>11 DEF StoreDrained, StoreStates
<1>. QED  BY <1>1, <1>2, <1>3, <1>4, <1>5, <1>6, <1>7, <1>8, <1>9, <1>10,
             <1>11 DEF Environment

\* A crash ends the Sync with the persisted status.
LEMMA CrashIInv == IInv /\ Crash => IInv'
<1> SUFFICES ASSUME IInv, Crash PROVE IInv'
  OBVIOUS
<1>1. status \in StatusType /\ Cardinality(status.failure) <= MaxFailoverCount
  BY DEF IInv, TypeOK, FailureBudget
<1>2. EndCycle(status) /\ faults' \in 0 .. MaxFaults
  BY ConstantsAssumption DEF Crash, Fail, IInv, TypeOK
<1>3. UNCHANGED <<envVars, setCache, edits>>
  BY DEF Crash
<1>. QED  BY <1>1, <1>2, <1>3, EndCycleTyped DEF IInv, TypeOK, envVars

\* The label step either ends the Sync with the in-memory status or moves
\* on without touching the snapshot.
LEMMA SetStoreLabelsIInv == IInv /\ SetStoreLabelsForTiKV => IInv'
<1> SUFFICES ASSUME IInv, SetStoreLabelsForTiKV PROVE IInv'
  OBVIOUS
<1>1. tc \in StatusType /\ Cardinality(tc.failure) <= MaxFailoverCount
  BY DEF IInv, TypeOK, FailureBudget
<1>2. UNCHANGED <<envVars, setCache, edits>> /\ pc = "Labels"
  BY DEF SetStoreLabelsForTiKV
<1>3. faults' \in 0 .. MaxFaults
  BY ConstantsAssumption DEF SetStoreLabelsForTiKV, Fail, IInv, TypeOK
<1>4. \/ EndCycle(tc)
      \/ pc' = "Apply" /\ UNCHANGED <<status, tc, oldSet, newSet>>
  BY DEF SetStoreLabelsForTiKV
<1>5. CASE EndCycle(tc)
  BY <1>1, <1>2, <1>3, <1>5, EndCycleTyped DEF IInv, TypeOK, envVars
<1>6. CASE pc' = "Apply" /\ UNCHANGED <<status, tc, oldSet, newSet>>
  BY <1>2, <1>3, <1>6 DEF IInv, TypeOK, FailureBudget, envVars, Steps
<1>. QED  BY <1>4, <1>5, <1>6

\* The first step of a Sync: the status listing, Recover and the desired
\* set, then an early end, the creation of the set, or the label step
\* with the cached set as the snapshot.
LEMMA SyncStatefulSetIInv == IInv /\ SyncStatefulSetForTikvCluster => IInv'
<1> SUFFICES ASSUME IInv, SyncStatefulSetForTikvCluster PROVE IInv'
  OBVIOUS
<1> DEFINE t0 == IF setCache.exists THEN SyncedStatus(setCache) ELSE status
           t1 == IF t0.failure # {} THEN Recover(t0) ELSE t0
           ns == GetNewTiKVSet(t1)
           tf == [status EXCEPT !.phase = t0.phase]
<1>1. t0 \in StatusType /\ t0.failure = status.failure
  BY SyncedStatusType DEF IInv, TypeOK
<1>2. t1 \in StatusType /\ t1.failure \subseteq status.failure
  BY <1>1, RecoverType
<1>3. /\ Cardinality(t0.failure) <= MaxFailoverCount
      /\ Cardinality(t1.failure) <= MaxFailoverCount
  BY <1>1, <1>2, FailureSubset DEF IInv, TypeOK, FailureBudget, StatusType
<1>4. ns \in NewSetType
  BY <1>2, <1>3, NewSetTyped DEF IInv
<1>5. tf \in StatusType /\ Cardinality(tf.failure) <= MaxFailoverCount
  BY <1>1 DEF IInv, TypeOK, FailureBudget, StatusType
<1>6. /\ UNCHANGED <<tcSpec, pdAvailable, pdUpgrading, pod, store, setCache,
                    edits>>
      /\ pc = "Idle"
  BY DEF SyncStatefulSetForTikvCluster
<1>7. Fail => faults' \in 0 .. MaxFaults
  BY ConstantsAssumption DEF Fail, IInv, TypeOK
<1> HIDE DEF t0, t1, ns, tf
<1>8. CASE setCache.exists /\ Fail /\ EndCycle(tf) /\ UNCHANGED sts
  BY <1>5, <1>6, <1>7, <1>8, EndCycleTyped DEF IInv, TypeOK
<1>9. CASE tcSpec.paused /\ EndCycle(t0) /\ UNCHANGED <<sts, faults>>
  BY <1>1, <1>3, <1>6, <1>9, EndCycleTyped DEF IInv, TypeOK
<1>10. CASE ~tcSpec.paused /\ Fail /\ EndCycle(t0) /\ UNCHANGED sts
  BY <1>1, <1>3, <1>6, <1>7, <1>10, EndCycleTyped DEF IInv, TypeOK
<1>11. CASE /\ ~tcSpec.paused
            /\ setCache.exists
            /\ tc' = t1
            /\ oldSet' = setCache
            /\ newSet' = ns
            /\ pc' = "Labels"
            /\ UNCHANGED <<status, sts, faults>>
  BY <1>2, <1>3, <1>4, <1>6, <1>11 DEF IInv, TypeOK, FailureBudget, Steps
<1>12. CASE /\ ~tcSpec.paused
            /\ ~setCache.exists
            /\ \/ Fail /\ UNCHANGED sts
               \/ sts.exists /\ UNCHANGED <<sts, faults>>
               \/ /\ ~sts.exists
                  /\ sts' = [exists |-> TRUE, replicas |-> ns.replicas,
                             partition |-> ns.partition,
                             template |-> ns.template,
                             current |-> ns.template]
                  /\ UNCHANGED faults
            /\ EndCycle(t1)
  <2>1. sts' \in StsType /\ faults' \in 0 .. MaxFaults
    <3>1. CASE UNCHANGED sts
      BY <1>7, <1>12, <3>1 DEF IInv, TypeOK
    <3>2. CASE sts' = [exists |-> TRUE, replicas |-> ns.replicas,
                       partition |-> ns.partition,
                       template |-> ns.template,
                       current |-> ns.template]
               /\ UNCHANGED faults
      BY <1>4, <3>2 DEF NewSetType, StsType, IInv, TypeOK
    <3>. QED  BY <1>12, <3>1, <3>2
  <2>. QED  BY <1>2, <1>3, <1>6, <1>12, <2>1, EndCycleTyped DEF IInv, TypeOK
<1>. QED
  BY <1>8, <1>9, <1>10, <1>11, <1>12
  DEF SyncStatefulSetForTikvCluster, t0, t1, ns, tf

\* The last step of a Sync: the sub-controllers and updateStatefulSet.
\* Whatever the snapshot, a write that is accepted starts from the live
\* set, so it moves the live replicas by one ordinal at most.
LEMMA SyncSubControllersIInv ==
    IInv /\ SyncSubControllersAndUpdate => IInv' /\ ScaleStep
<1> SUFFICES ASSUME IInv, SyncSubControllersAndUpdate
             PROVE  IInv' /\ ScaleStep
  OBVIOUS
<1> DEFINE upgrading == newSet.template # oldSet.template \/ tc.phase = "Upgrade"
           t1  == IF upgrading THEN [tc EXCEPT !.phase = "Upgrade"] ELSE tc
           ns1 == IF upgrading
                  THEN [newSet EXCEPT !.partition = UpgradePartition(tc, newSet)]
                  ELSE newSet
           ns2 == [ns1 EXCEPT !.replicas = ScaleReplicas(t1, ns1)]
           victim == oldSet.replicas - 1
           failover == AutoFailover /\ AllPodsStarted(ns1)
                       /\ ~AllStoresReady(t1, ns1)
           differs == \/ ns2.replicas # oldSet.replicas
                      \/ ns2.partition # oldSet.partition
                      \/ ns2.template # oldSet.template
<1>1. t1 \in StatusType /\ t1.failure = tc.failure
  BY DEF IInv, TypeOK, StatusType, Phases
<1>2. ns1 \in NewSetType
  BY UpgradePartitionTyped DEF IInv, TypeOK, NewSetType
<1>3. ns2 \in NewSetType
  BY <1>1, <1>2, ScaleReplicasTyped DEF IInv, NewSetType
<1>4. PICK deleteFails, updateFails \in BOOLEAN,
           f \in IF failover THEN FailoverChoices(t1) ELSE {t1.failure} :
             /\ deleteFails => ScaleDeletesStore(t1, ns1)
             /\ updateFails => differs
             /\ faults' = faults + (IF deleteFails THEN 1 ELSE 0)
                                 + (IF updateFails THEN 1 ELSE 0)
             /\ faults' <= MaxFaults
             /\ store' = IF ScaleDeletesStore(t1, ns1) /\ ~deleteFails
                         THEN [store EXCEPT ![victim] =
                                 IF @ \in {"Up", "Down"} THEN "Offline" ELSE @]
                         ELSE store
             /\ sts' = IF differs /\ ~updateFails /\ StatefulSetWriteAccepted
                       THEN [sts EXCEPT !.replicas = ns2.replicas,
                                        !.partition = ns2.partition,
                                        !.template = ns2.template]
                       ELSE sts
             /\ EndCycle([t1 EXCEPT !.failure = f])
  BY DEF SyncSubControllersAndUpdate
<1>5. /\ f \subseteq Ordinals
      /\ Cardinality(f) <= MaxFailoverCount
  <2>1. CASE failover
    BY <1>1, <1>4, <2>1, FailoverChoicesTyped
  <2>2. CASE ~failover
    BY <1>1, <1>4, <2>2 DEF IInv, TypeOK, FailureBudget, StatusType
  <2>. QED  BY <2>1, <2>2
<1>6. [t1 EXCEPT !.failure = f] \in StatusType
  BY <1>1, <1>5 DEF StatusType
<1>7. UNCHANGED <<tcSpec, pdAvailable, pdUpgrading, pod, setCache, edits>>
  BY DEF SyncSubControllersAndUpdate
<1>8. faults' \in 0 .. MaxFaults
  BY <1>4 DEF IInv, TypeOK
<1>9. store' \in [Ordinals -> StoreStates \cup {NoStore}]
  BY <1>4 DEF IInv, TypeOK, StoreStates, ActiveStates
<1>10. sts' \in StsType
  BY <1>3, <1>4 DEF IInv, TypeOK, StsType, NewSetType
<1>11. /\ status' \in StatusType /\ tc' \in StatusType
       /\ oldSet' \in StsType /\ newSet' \in NewSetType
       /\ pc' \in Steps /\ pc' = "Idle"
       /\ FailureBudget'
  <2>1. Cardinality([t1 EXCEPT !.failure = f].failure) <= MaxFailoverCount
    BY <1>5, <1>6 DEF StatusType
  <2>. HIDE DEF upgrading, t1, ns1, ns2, victim, failover, differs
  <2>. QED  BY <1>4, <1>6, <2>1, EndCycleTyped
<1>12. ScaleStep
  <2>1. /\ ScaleReplicas(t1, ns1) <= oldSet.replicas + 1
        /\ oldSet.replicas <= ScaleReplicas(t1, ns1) + 1
    BY <1>2, ScaleReplicasTyped DEF IInv
  <2>2. CASE differs /\ ~updateFails /\ StatefulSetWriteAccepted
    <3>1. sts = oldSet
      BY <2>2 DEF StatefulSetWriteAccepted
    <3>2. sts'.replicas = ScaleReplicas(t1, ns1)
      BY <1>4, <2>2 DEF IInv, TypeOK, StsType
    <3>. QED  BY <2>1, <3>1, <3>2 DEF ScaleStep, IInv, TypeOK, StsType
  <2>3. CASE ~(differs /\ ~updateFails /\ StatefulSetWriteAccepted)
    BY <1>4, <2>3 DEF ScaleStep, IInv, TypeOK, StsType
  <2>. QED  BY <2>2, <2>3
<1>. HIDE DEF upgrading, t1, ns1, ns2, victim, failover, differs
<1>. QED
  BY <1>7, <1>8, <1>9, <1>10, <1>11, <1>12 DEF IInv, TypeOK

LEMMA NextIInv == IInv /\ [Next]_vars => IInv'
<1> SUFFICES ASSUME IInv, [Next]_vars PROVE IInv'
  OBVIOUS
<1>1. CASE WaitForPD
  BY <1>1 DEF WaitForPD, vars, IInv, TypeOK, FailureBudget
<1>2. CASE UNCHANGED vars
  BY <1>2 DEF vars, IInv, TypeOK, FailureBudget
<1>. QED
  BY <1>1, <1>2, EnvironmentIInv, CrashIInv, SetStoreLabelsIInv,
     SyncStatefulSetIInv, SyncSubControllersIInv DEF Next, Operator

\* Only the last step of a Sync writes the replicas of an existing
\* StatefulSet.
LEMMA NextScaleStep == IInv /\ [Next]_vars => ScaleStep
<1> SUFFICES ASSUME IInv, [Next]_vars PROVE ScaleStep
  OBVIOUS
<1>1. CASE SyncSubControllersAndUpdate
  BY <1>1, SyncSubControllersIInv
<1>2. CASE ~SyncSubControllersAndUpdate
  <2>1. sts.exists => sts'.replicas = sts.replicas
    <3>1. CASE UNCHANGED vars \/ WaitForPD
      BY <3>1 DEF vars, WaitForPD
    <3>2. CASE SyncStatefulSetForTikvCluster
      BY <3>2 DEF SyncStatefulSetForTikvCluster
    <3>3. CASE SetStoreLabelsForTiKV \/ Crash
      BY <3>3 DEF SetStoreLabelsForTiKV, Crash, envVars
    <3>4. CASE EditSpec \/ PDFault \/ PDHeal \/ CacheSync
      BY <3>4 DEF EditSpec, PDFault, PDHeal, CacheSync, envVars
    <3>5. CASE CompleteRollout
      BY <3>5 DEF CompleteRollout, IInv, TypeOK, StsType
    <3>6. ASSUME NEW o \in Ordinals,
                 \/ CreatePod(o) \/ RollPod(o) \/ DeletePod(o)
                 \/ StoreUp(o) \/ StoreDown(o) \/ StoreDrained(o)
          PROVE  sts' = sts
      BY <3>6 DEF CreatePod, RollPod, DeletePod, StoreUp, StoreDown,
                  StoreDrained
    <3>. QED  BY <1>2, <3>1, <3>2, <3>3, <3>4, <3>5, <3>6
              DEF Next, Operator, Environment
  <2>. QED  BY <2>1, ConstantsAssumption DEF ScaleStep, IInv, TypeOK, StsType
<1>. QED  BY <1>1, <1>2

\* IInv holds in every reachable state.
THEOREM IInvInvariant == Spec => []IInv
BY InitIInv, NextIInv, PTL DEF Spec

\* Type correctness of the member manager: every variable of the model
\* (the StatefulSet the operator writes, its cached copy, the status it
\* persists, the desired set it computes) stays within its type, for every
\* number of ordinals, failover budget and bound on edits and faults.
THEOREM TypeCorrect == Spec => []TypeOK
BY IInvInvariant, PTL DEF IInv

\* Scaling moves one ordinal at a time (ScaleOneAtATime) although every
\* Sync decides from the lister cache, however far it trails the live
\* set: the scaler steps by one from the snapshot, and updateStatefulSet
\* is accepted only when the snapshot is still the live set.
THEOREM ScaleByOne == Spec => ScaleOneAtATime
BY IInvInvariant, NextScaleStep, PTL DEF Spec, ScaleOneAtATime, ScaleStep
=============================================================================
