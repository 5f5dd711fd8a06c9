-------------------------- MODULE TikvMemberManager --------------------------
(***************************************************************************)
(* The TiKV member reconciliation loop of tikv-operator                    *)
(* (pkg/manager/member, tikvMemberManager.syncStatefulSetForTikvCluster),  *)
(* run one step at a time against a cluster that keeps moving: the         *)
(* StatefulSet controller creates, rolls and deletes pods, and PD          *)
(* registers, loses, recovers and drains stores between the calls of one   *)
(* Sync.                                                                   *)
(*                                                                         *)
(* One Sync is the sequence of steps named by pc: Idle -> Labels -> Apply *)
(* (the status listing, the label push, the sub-controllers and update),  *)
(* and every step may end the cycle early (an error return, a pause, the   *)
(* first creation of the StatefulSet).  tc is the in-memory copy of        *)
(* tc.Status.TiKV the cycle mutates; it is written back to status when     *)
(* the cycle ends (the status update of the cluster controller, which      *)
(* persists the status whatever Sync returned) and lost when the operator  *)
(* crashes mid-cycle.                                                      *)
(*                                                                         *)
(* The StatefulSet is read from the set lister, an informer cache that    *)
(* trails the API server (setCache, refreshed by CacheSync); writes go to  *)
(* the live object, and a write based on a read the live set has moved on *)
(* from is rejected as a conflict.  Pods are read live.                    *)
(*                                                                         *)
(* Abstractions.  A store is identified by the ordinal of the pod it runs  *)
(* in (store IDs are stable per PVC, and a PVC per ordinal); a pod         *)
(* template is a model value standing for one controller revision; the     *)
(* ConfigMap synthesised each cycle is a function of the spec and is not   *)
(* a variable; the labels pushed to PD and the tombstone and synced      *)
(* fields of the status are read by no step and are left out (the label  *)
(* step keeps its control flow).  The upgrader, scaler and failover       *)
(* controllers are interfaces whose code is not in this repository: they   *)
(* are modelled from the spec (sections 4.2-4.4).                          *)
(***************************************************************************)
EXTENDS Naturals, FiniteSets

CONSTANTS
    MaxReplicas,      \* ordinals 0 .. MaxReplicas-1 a TiKV pod can take
    Templates,        \* pod templates; each stands for one controller revision
    SpecReplicas,     \* values the user may give tc.Spec.TiKV.Replicas
    MaxFailoverCount, \* tc.Spec.TiKV.MaxFailoverCount
    AutoFailover,     \* tikvMemberManager.autoFailover
    LocationLabels,   \* PD's replication.location-labels is configured
    MaxEdits,         \* bound on the user's edits of tc.Spec
    MaxFaults         \* bound on crashes, API errors and store failures

ASSUME ConstantsAssumption ==
    /\ MaxReplicas \in Nat \ {0}
    /\ Templates # {}
    /\ MaxFailoverCount \in Nat
    /\ SpecReplicas \subseteq 1 .. MaxReplicas
    /\ SpecReplicas # {}
    /\ \A r \in SpecReplicas : r + MaxFailoverCount <= MaxReplicas
    /\ AutoFailover \in BOOLEAN
    /\ LocationLabels \in BOOLEAN
    /\ MaxEdits \in Nat
    /\ MaxFaults \in Nat

Ordinals == 0 .. MaxReplicas - 1

\* Store states as PD reports them (StateName); GetStores returns the
\* active ones, GetTombStoneStores the tombstones.
ActiveStates == {"Up", "Down", "Offline"}
StoreStates == ActiveStates \cup {"Tombstone"}
NoStore == "None"
NoPod == "NoPod"

Phases == {"Normal", "Upgrade"}
Steps == {"Idle", "Labels", "Apply"}

DefaultTemplate == CHOOSE t \in Templates : TRUE

\* The StatefulSet as the API server holds it: spec.replicas,
\* spec.updateStrategy.rollingUpdate.partition, spec.template (the update
\* revision) and the template of status.currentRevision.
StsType == [exists : BOOLEAN, replicas : 0 .. MaxReplicas,
            partition : 0 .. MaxReplicas, template : Templates,
            current : Templates]
NoSet == [exists |-> FALSE, replicas |-> 0, partition |-> 0,
          template |-> DefaultTemplate, current |-> DefaultTemplate]

\* The desired StatefulSet a cycle builds and hands to the sub-controllers.
NewSetType == [replicas : 0 .. MaxReplicas, partition : 0 .. MaxReplicas,
               template : Templates, desired : 0 .. MaxReplicas]
NoNewSet == [replicas |-> 0, partition |-> 0, template |-> DefaultTemplate,
             desired |-> 0]

\* tc.Status.TiKV: Phase, Stores and FailureStores.
StatusType == [phase : Phases,
               stores : [Ordinals -> ActiveStates \cup {NoStore}],
               failure : SUBSET Ordinals]
EmptyStatus == [phase |-> "Normal",
                stores |-> [o \in Ordinals |-> NoStore],
                failure |-> {}]

VARIABLES
    tcSpec,       \* tc.Spec: TiKV replicas, pod template, Paused
    pdAvailable,  \* tc.PDIsAvailable()
    pdUpgrading,  \* tc.Status.PD.Phase = UpgradePhase
    sts,          \* the live TiKV StatefulSet
    setCache,     \* the TiKV StatefulSet in the set lister's cache
    pod,          \* pod per ordinal: its template (revision) or NoPod
    store,        \* PD's store per ordinal: its state or NoStore
    status,       \* persisted tc.Status.TiKV
    pc,           \* the step of the current Sync
    tc,           \* in-memory tc.Status.TiKV of the current Sync
    oldSet,       \* the StatefulSet read from the lister at the cycle start
    newSet,       \* the desired StatefulSet of the current Sync
    edits,        \* user edits so far
    faults        \* faults so far

vars == <<tcSpec, pdAvailable, pdUpgrading, sts, setCache, pod, store,
          status, pc, tc, oldSet, newSet, edits, faults>>
cycleVars == <<pc, tc, oldSet, newSet>>
envVars == <<tcSpec, pdAvailable, pdUpgrading, sts, pod, store>>

-----------------------------------------------------------------------------
(* Helpers translated from the code.                                       *)

\* tc.TiKVStsDesiredReplicas(): the spec's replicas plus one spare per
\* failure record.
TiKVStsDesiredReplicas(t) == tcSpec.replicas + Cardinality(t.failure)

\* tikvStatefulSetIsUpgrading: the set's current and update revisions
\* differ, or some TiKV pod is not on the update revision.
TikvStatefulSetIsUpgrading(set) ==
    \/ set.current # set.template
    \/ \E o \in Ordinals : pod[o] # NoPod /\ pod[o] # set.template

\* The owned stores GetStores returns, keyed by ordinal (getTiKVStore).
ActiveListing == [o \in Ordinals |->
                    IF store[o] \in ActiveStates THEN store[o] ELSE NoStore]

\* The status syncTikvClusterStatus computes from the set it is handed:
\* the phase (Upgrade while the set is upgrading, unless PD is upgrading)
\* and the store listing.
SyncedStatus(set) ==
    [status EXCEPT !.phase = IF TikvStatefulSetIsUpgrading(set) /\ ~pdUpgrading
                             THEN "Upgrade" ELSE "Normal",
                   !.stores = ActiveListing]

\* Failover.Recover: drop every failure record whose store is Up again.
Recover(t) == [t EXCEPT !.failure = {o \in @ : t.stores[o] # "Up"}]

\* getNewTiKVSetForTikvCluster: replicas and partition are both
\* TiKVStsDesiredReplicas, the template is the spec's.
GetNewTiKVSet(t) == [replicas |-> TiKVStsDesiredReplicas(t),
                     partition |-> TiKVStsDesiredReplicas(t),
                     template |-> tcSpec.template,
                     desired |-> TiKVStsDesiredReplicas(t)]

\* Upgrader.Upgrade: the partition p persisted in the StatefulSet moves
\* down one ordinal once the last updated ordinal runs the new template and
\* its store is Up; nothing is updated yet while p = replicas.
UpgradePartition(t, ns) ==
    LET p == IF oldSet.partition < oldSet.replicas
             THEN oldSet.partition ELSE oldSet.replicas
    IN  IF p = oldSet.replicas
           \/ (pod[p] = ns.template /\ t.stores[p] = "Up")
        THEN IF p > 0 THEN p - 1 ELSE 0
        ELSE p

\* Mutants of ScaleReplicas: an off-by-one in the grow test and a shrink
\* that never happens.
ScaleReplicasOffByOne(t, ns) ==
    LET cur == oldSet.replicas IN
    IF ns.replicas >= cur
    THEN IF (cur .. ns.replicas - 1) \cap t.failure = {} THEN cur + 1 ELSE cur
    ELSE IF t.stores[cur - 1] = NoStore THEN cur - 1 ELSE cur
ScaleReplicasNoShrink(t, ns) ==
    LET cur == oldSet.replicas IN
    IF ns.replicas > cur /\ (cur .. ns.replicas - 1) \cap t.failure = {}
    THEN cur + 1 ELSE cur

\* Scaler.Scale: grow one ordinal at a time unless a failure record sits
\* in the range being added; shrink the highest ordinal only once its
\* store is no longer among the active stores.
ScaleReplicas(t, ns) ==
    LET cur == oldSet.replicas IN
    IF ns.replicas > cur
    THEN IF (cur .. ns.replicas - 1) \cap t.failure = {} THEN cur + 1 ELSE cur
    ELSE IF ns.replicas < cur /\ t.stores[cur - 1] = NoStore
         THEN cur - 1 ELSE cur

\* Scaler.Scale asks PD to remove the store of the highest ordinal.
ScaleDeletesStore(t, ns) ==
    ns.replicas < oldSet.replicas /\ t.stores[oldSet.replicas - 1] \in {"Up", "Down"}

\* tc.TiKVAllPodsStarted and tc.TiKVAllStoresReady.
AllPodsStarted(ns) ==
    /\ oldSet.replicas = ns.desired
    /\ \A o \in 0 .. oldSet.replicas - 1 : pod[o] # NoPod
AllStoresReady(t, ns) ==
    /\ Cardinality({o \in Ordinals : t.stores[o] # NoStore}) = ns.desired
    /\ \A o \in Ordinals : t.stores[o] \in {NoStore, "Up"}

\* The failure-record sets Failover.Failover may produce: Down stores past
\* the grace period (left to nondeterminism) added within the budget.
FailoverChoices(t) ==
    {t.failure \cup s :
       s \in {x \in SUBSET ({o \in Ordinals : t.stores[o] = "Down"} \ t.failure) :
                Cardinality(t.failure \cup x) <= MaxFailoverCount}}

\* End the cycle: the in-memory status is persisted.
EndCycle(t) ==
    /\ status' = t
    /\ pc' = "Idle"
    /\ tc' = t
    /\ oldSet' = NoSet
    /\ newSet' = NoNewSet

\* Mutant of StatefulSetWriteAccepted: a conflicting write is retried on
\* the refreshed set, re-applying what was decided from the stale read.
StatefulSetWriteAcceptedOnRetry == TRUE

\* updateStatefulSet writes to the API server with the resourceVersion of
\* the set read from the lister: the write is rejected as a conflict, and
\* the Sync returns the error, when the live set has changed since.
StatefulSetWriteAccepted == sts = oldSet

\* A call to the API server or to PD that fails.
Fail == faults < MaxFaults /\ faults' = faults + 1

-----------------------------------------------------------------------------
(* The steps of one Sync.                                                  *)

\* Sync while PD is not available: a requeue error, nothing is changed.
WaitForPD ==
    /\ pc = "Idle"
    /\ ~pdAvailable
    /\ UNCHANGED vars

\* Sync up to the label step: the lister read of the StatefulSet (the
\* cached copy, which may trail the live set), syncTikvClusterStatus (GetStores or GetTombStoneStores may fail, which
\* ends the cycle with only the phase updated), the pause check,
\* syncTiKVConfigMap (whose write may fail), Recover when failure records
\* exist, getNewTiKVSetForTikvCluster and, when the StatefulSet does not
\* exist in the cache, its creation, which ends the cycle (and fails as
\* AlreadyExists when the live set exists already).
SyncStatefulSetForTikvCluster ==
    /\ pc = "Idle"
    /\ pdAvailable
    /\ LET t0 == IF setCache.exists THEN SyncedStatus(setCache) ELSE status
           t1 == IF t0.failure # {} THEN Recover(t0) ELSE t0
           ns == GetNewTiKVSet(t1)
       IN  \/ /\ setCache.exists
              /\ Fail
              /\ EndCycle([status EXCEPT !.phase = t0.phase])
              /\ UNCHANGED sts
           \/ /\ tcSpec.paused
              /\ EndCycle(t0)
              /\ UNCHANGED <<sts, faults>>
           \/ /\ ~tcSpec.paused
              /\ Fail
              /\ EndCycle(t0)
              /\ UNCHANGED sts
           \/ /\ ~tcSpec.paused
              /\ setCache.exists
              /\ tc' = t1
              /\ oldSet' = setCache
              /\ newSet' = ns
              /\ pc' = "Labels"
              /\ UNCHANGED <<status, sts, faults>>
           \/ /\ ~tcSpec.paused
              /\ ~setCache.exists
              /\ \/ /\ Fail
                    /\ UNCHANGED sts
                 \/ /\ sts.exists
                    /\ UNCHANGED <<sts, faults>>
                 \/ /\ ~sts.exists
                    /\ sts' = [exists |-> TRUE, replicas |-> ns.replicas,
                               partition |-> ns.partition,
                               template |-> ns.template,
                               current |-> ns.template]
                    /\ UNCHANGED faults
              /\ EndCycle(t1)
    /\ UNCHANGED <<tcSpec, pdAvailable, pdUpgrading, pod, store, setCache,
                   edits>>

\* setStoreLabelsForTiKV: GetStores and GetConfig may fail; with location
\* labels configured, an owned store whose pod the lister does not find
\* returns an error; a node without labels or a failed SetStoreLabels only
\* skips that store.
SetStoreLabelsForTiKV ==
    /\ pc = "Labels"
    /\ LET podMissing == /\ LocationLabels
                         /\ \E o \in Ordinals : store[o] \in ActiveStates
                                               /\ pod[o] = NoPod
       IN  \/ /\ Fail
              /\ EndCycle(tc)
           \/ /\ podMissing
              /\ EndCycle(tc)
              /\ UNCHANGED faults
           \/ /\ ~podMissing
              /\ pc' = "Apply"
              /\ UNCHANGED <<status, tc, oldSet, newSet, faults>>
    /\ UNCHANGED <<envVars, setCache, edits>>

\* The rest of syncStatefulSetForTikvCluster: the upgrader when the
\* template differs or the phase is Upgrade, the scaler (whose PD removal
\* request may fail and is then skipped), the failover detection when
\* auto-failover is on, all pods started and not all stores ready, and
\* updateStatefulSet, which applies replicas, partition and template when
\* they differ from the observed set, and fails on an API error or on a
\* conflict with a live set that moved on since the read.
SyncSubControllersAndUpdate ==
    /\ pc = "Apply"
    /\ LET upgrading == newSet.template # oldSet.template \/ tc.phase = "Upgrade"
           t1  == IF upgrading THEN [tc EXCEPT !.phase = "Upgrade"] ELSE tc
           ns1 == IF upgrading
                  THEN [newSet EXCEPT !.partition = UpgradePartition(tc, newSet)]
                  ELSE newSet
           ns2 == [ns1 EXCEPT !.replicas = ScaleReplicas(t1, ns1)]
           victim == oldSet.replicas - 1
           failover == AutoFailover /\ AllPodsStarted(ns1)
                       /\ ~AllStoresReady(t1, ns1)
           differs == \/ ns2.replicas # oldSet.replicas
                      \/ ns2.partition # oldSet.partition
                      \/ ns2.template # oldSet.template
       IN  \E deleteFails, updateFails \in BOOLEAN,
              f \in IF failover THEN FailoverChoices(t1) ELSE {t1.failure} :
             /\ deleteFails => ScaleDeletesStore(t1, ns1)
             /\ updateFails => differs
             /\ faults' = faults + (IF deleteFails THEN 1 ELSE 0)
                                 + (IF updateFails THEN 1 ELSE 0)
             /\ faults' <= MaxFaults
             /\ store' = IF ScaleDeletesStore(t1, ns1) /\ ~deleteFails
                         THEN [store EXCEPT ![victim] =
                                 IF @ \in {"Up", "Down"} THEN "Offline" ELSE @]
                         ELSE store
             /\ sts' = IF differs /\ ~updateFails /\ StatefulSetWriteAccepted
                       THEN [sts EXCEPT !.replicas = ns2.replicas,
                                        !.partition = ns2.partition,
                                        !.template = ns2.template]
                       ELSE sts
             /\ EndCycle([t1 EXCEPT !.failure = f])
    /\ UNCHANGED <<tcSpec, pdAvailable, pdUpgrading, pod, setCache, edits>>

\* The operator process dies mid-cycle: the in-memory status is lost.
Crash ==
    /\ pc # "Idle"
    /\ Fail
    /\ EndCycle(status)
    /\ UNCHANGED <<envVars, setCache, edits>>

-----------------------------------------------------------------------------
(* The environment: the user, PD, the StatefulSet controller and the set  *)
(* informer.                                                               *)

\* The informer's watch delivers the live StatefulSet to the lister cache.
CacheSync ==
    /\ setCache # sts
    /\ setCache' = sts
    /\ UNCHANGED <<envVars, status, cycleVars, edits, faults>>

\* The user edits tc.Spec: replicas, the pod template, or the pause flag.
EditSpec ==
    /\ edits < MaxEdits
    /\ edits' = edits + 1
    /\ \E r \in SpecReplicas, t \in Templates, p \in BOOLEAN :
          /\ tcSpec' = [replicas |-> r, template |-> t, paused |-> p]
          /\ tcSpec' # tcSpec
    /\ UNCHANGED <<pdAvailable, pdUpgrading, sts, pod, store,
                   status, setCache, cycleVars, faults>>

\* PD becomes unavailable, or starts an upgrade of its own members.
PDFault ==
    /\ faults < MaxFaults
    /\ faults' = faults + 1
    /\ \/ pdAvailable /\ pdAvailable' = FALSE /\ UNCHANGED pdUpgrading
       \/ ~pdUpgrading /\ pdUpgrading' = TRUE /\ UNCHANGED pdAvailable
    /\ UNCHANGED <<tcSpec, sts, pod, store, status, setCache, cycleVars, edits>>

\* PD is available again and its upgrade is over.
PDHeal ==
    /\ ~pdAvailable \/ pdUpgrading
    /\ pdAvailable' = TRUE
    /\ pdUpgrading' = FALSE
    /\ UNCHANGED <<tcSpec, sts, pod, store, status, setCache, cycleVars, edits, faults>>

\* The StatefulSet controller creates a missing pod below replicas, on the
\* update revision at or above the partition and on the current revision
\* below it; the new pod may sit on another node.
CreatePod(o) ==
    /\ sts.exists
    /\ o < sts.replicas
    /\ pod[o] = NoPod
    /\ pod' = [pod EXCEPT ![o] =
                 IF o >= sts.partition THEN sts.template ELSE sts.current]
    /\ UNCHANGED <<tcSpec, pdAvailable, pdUpgrading, sts, store, status,
                   setCache, cycleVars, edits, faults>>

\* The rolling update deletes a pod at or above the partition that is not
\* on the update revision, one pod at a time.
RollPod(o) ==
    /\ sts.exists
    /\ sts.partition <= o /\ o < sts.replicas
    /\ pod[o] \notin {NoPod, sts.template}
    /\ \A q \in 0 .. sts.replicas - 1 : pod[q] # NoPod
    /\ pod' = [pod EXCEPT ![o] = NoPod]
    /\ UNCHANGED <<tcSpec, pdAvailable, pdUpgrading, sts, store,
                   status, setCache, cycleVars, edits, faults>>

\* Scale-in: the pod of an ordinal at or above replicas is deleted with its
\* volume; a tombstoned store of that ordinal is forgotten.
DeletePod(o) ==
    /\ o >= sts.replicas
    /\ pod[o] # NoPod
    /\ pod' = [pod EXCEPT ![o] = NoPod]
    /\ store' = [store EXCEPT ![o] = IF @ = "Tombstone" THEN NoStore ELSE @]
    /\ UNCHANGED <<tcSpec, pdAvailable, pdUpgrading, sts, status,
                   setCache, cycleVars, edits, faults>>

\* Once every pod below replicas runs the update revision, it becomes the
\* current revision.
CompleteRollout ==
    /\ sts.exists
    /\ sts.current # sts.template
    /\ \A o \in 0 .. sts.replicas - 1 : pod[o] = sts.template
    /\ sts' = [sts EXCEPT !.current = sts.template]
    /\ UNCHANGED <<tcSpec, pdAvailable, pdUpgrading, pod, store,
                   status, setCache, cycleVars, edits, faults>>

\* PD: a running pod registers its store, or brings a Down store back Up.
StoreUp(o) ==
    /\ pod[o] # NoPod
    /\ store[o] \in {NoStore, "Down"}
    /\ store' = [store EXCEPT ![o] = "Up"]
    /\ UNCHANGED <<tcSpec, pdAvailable, pdUpgrading, sts, pod,
                   status, setCache, cycleVars, edits, faults>>

\* PD: an Up store stops heartbeating, because its pod is gone or as a
\* fault of its own.
StoreDown(o) ==
    /\ store[o] = "Up"
    /\ \/ pod[o] = NoPod /\ UNCHANGED faults
       \/ Fail
    /\ store' = [store EXCEPT ![o] = "Down"]
    /\ UNCHANGED <<tcSpec, pdAvailable, pdUpgrading, sts, pod,
                   status, setCache, cycleVars, edits>>

\* PD: an Offline store has moved its data away and becomes Tombstone.
StoreDrained(o) ==
    /\ store[o] = "Offline"
    /\ store' = [store EXCEPT ![o] = "Tombstone"]
    /\ UNCHANGED <<tcSpec, pdAvailable, pdUpgrading, sts, pod,
                   status, setCache, cycleVars, edits, faults>>

-----------------------------------------------------------------------------

Init ==
    /\ tcSpec \in [replicas : SpecReplicas, template : Templates,
                   paused : {FALSE}]
    /\ pdAvailable = TRUE
    /\ pdUpgrading = FALSE
    /\ sts = NoSet
    /\ setCache = NoSet
    /\ pod = [o \in Ordinals |-> NoPod]
    /\ store = [o \in Ordinals |-> NoStore]
    /\ status = EmptyStatus
    /\ pc = "Idle"
    /\ tc = EmptyStatus
    /\ oldSet = NoSet
    /\ newSet = NoNewSet
    /\ edits = 0
    /\ faults = 0

Operator ==
    \/ WaitForPD
    \/ SyncStatefulSetForTikvCluster
    \/ SetStoreLabelsForTiKV
    \/ SyncSubControllersAndUpdate
    \/ Crash

Environment ==
    \/ EditSpec
    \/ PDFault
    \/ PDHeal
    \/ CompleteRollout
    \/ CacheSync
    \/ \E o \in Ordinals :
          \/ CreatePod(o) \/ RollPod(o) \/ DeletePod(o)
          \/ StoreUp(o) \/ StoreDown(o) \/ StoreDrained(o)

Next == Operator \/ Environment

Spec == Init /\ [][Next]_vars

\* The work queue keeps requeueing the cluster (events, resync, backoff),
\* and the StatefulSet controller, the informer and PD keep running.
Fairness ==
    /\ WF_vars(Operator /\ ~Crash)
    /\ WF_vars(CacheSync)
    /\ WF_vars(CompleteRollout)
    /\ WF_vars(PDHeal)
    /\ \A o \in Ordinals :
          /\ WF_vars(CreatePod(o)) /\ WF_vars(RollPod(o))
          /\ WF_vars(DeletePod(o)) /\ WF_vars(StoreUp(o))
          /\ WF_vars(StoreDrained(o))
          /\ WF_vars(StoreDown(o) /\ pod[o] = NoPod)

FairSpec == Spec /\ Fairness

-----------------------------------------------------------------------------
(* Properties.                                                             *)

TypeOK ==
    /\ tcSpec \in [replicas : SpecReplicas, template : Templates,
                   paused : BOOLEAN]
    /\ pdAvailable \in BOOLEAN
    /\ pdUpgrading \in BOOLEAN
    /\ sts \in StsType
    /\ setCache \in StsType
    /\ pod \in [Ordinals -> Templates \cup {NoPod}]
    /\ store \in [Ordinals -> StoreStates \cup {NoStore}]
    /\ status \in StatusType
    /\ pc \in Steps
    /\ tc \in StatusType
    /\ oldSet \in StsType
    /\ newSet \in NewSetType
    /\ edits \in 0 .. MaxEdits
    /\ faults \in 0 .. MaxFaults

\* Drain before remove (spec, section 8): when the StatefulSet loses
\* ordinals, none of them still has an active store in PD; the scaler's
\* decision rests on the store listing taken at the start of the Sync.
DrainBeforeRemove ==
    [][sts'.replicas < sts.replicas =>
         \A o \in sts'.replicas .. sts.replicas - 1 :
            store[o] \notin ActiveStates]_<<sts, store>>

\* Scaling moves one ordinal at a time (spec, sections 4.3 and 8), even
\* though each Sync decides from the StatefulSet in the lister cache,
\* which may be several writes behind the live set: no step changes the
\* live set's replicas by more than one.  A decision taken from a stale
\* read (a shrink of the cached count after a grow the cache has not seen
\* yet, say) must never reach the API server.
ScaleOneAtATime ==
    [][sts.exists =>
         /\ sts'.replicas <= sts.replicas + 1
         /\ sts.replicas <= sts'.replicas + 1]_sts

\* Monotonic upgrade (spec, section 8): while the StatefulSet is
\* upgrading to an unchanged template, its partition never goes up.
MonotonicUpgrade ==
    [][/\ sts.exists
       /\ TikvStatefulSetIsUpgrading(sts)
       /\ sts'.template = sts.template
       => sts'.partition <= sts.partition]_<<sts, pod>>

\* The cluster the user asked for: the StatefulSet has the spec's replicas
\* and template, every pod runs it with its store Up, and no failure
\* record is left.
Converged ==
    /\ sts.exists
    /\ sts.replicas = tcSpec.replicas
    /\ sts.template = tcSpec.template
    /\ \A o \in Ordinals :
          IF o < sts.replicas
          THEN pod[o] = sts.template /\ store[o] = "Up"
          ELSE pod[o] = NoPod
    /\ status.failure = {}

\* Convergence: once the user stops editing and the faults are over, the
\* reconcile loop brings the cluster to the spec unless it stays paused.
Convergence == <>[](tcSpec.paused \/ Converged)
=============================================================================
