# Formal model of the tikv-operator TiKV member manager

This directory holds TLA+ models of tikv-operator, plus TLC configurations and TLAPS proofs. The models cover:

- the TiKV reconciliation code in `src/pkg/manager/member/tikv_nodeport_external_access.go` (the NodePort service builder followed by `tikvMemberManager`);
- the component accessor in `src/pkg/apis/tikv/v1alpha1/component.go`;
- the pd-discovery entry point in `src/cmd/pd-discovery/main.go`.

## The system and its parts

`tikvMemberManager.Sync` runs once per work-queue item for a `TikvCluster`. Each step below can end the Sync early:

1. **PD guard** (lines 182-188). Nothing happens until PD is available.
2. **StatefulSet sync** (`syncStatefulSetForTikvCluster`, called at line 190, body 276-347), in this order:
   - read the old set from the lister, that is, from the informer cache;
   - refresh the status from the set and from PD (`syncTikvClusterStatus`, 658-744);
   - return if paused;
   - write the ConfigMap;
   - call `Recover` when auto-failover is on;
   - build the desired set (`getNewTiKVSetForTikvCluster`, 405-597);
   - create the set if it is missing;
   - push node labels to PD (`setStoreLabelsForTiKV`, 764-827);
   - run the upgrader, the scaler and the failover controller;
   - write the set with `updateStatefulSet`, which the API server rejects as a conflict when the live set changed since the read.
3. **Services** (193-229), only when the StatefulSet sync returned no error. With a NodePort external listener, one Service is created per TiKV pod the lister returns, keyed by the pod's list index. After them the headless peer Service is created. Each is upserted by `syncServiceForTikvCluster` (234-274).
4. **Status persistence.** The in-memory `tc.Status.TiKV` is persisted by the cluster controller after Sync, whatever Sync returned.

The upgrader, scaler and failover controllers are interfaces. Their implementations are not in this repository, so they are modelled from the spec (sections 4.2-4.4). PROJECT.json marks them `spec_modelled`.

## Modules

| Module | Models |
|---|---|
| `TikvMemberManager` | The StatefulSet part of Sync as a small state machine, interleaved with the environment (see below). |
| `TikvNodePortServices` | The Services part of Sync. |
| `TikvStoreStatus` | `syncTikvClusterStatus` in full: the records, heartbeats, transition times and tombstones of the store status. |
| `TikvStoreStatusContract` | The abstract specification of the status sync: what readers of `tc.Status.TiKV` may see change. |
| `TikvStoreLabels` | The labels `setStoreLabelsForTiKV` pushes to PD. |
| `TikvComponentAccessor` | `ComponentAccessor` and the TiKV pod template and ConfigMap name built from it. |
| `TikvPdDiscovery` | Process supervision in pd-discovery's `main`. |
| `TikvMemberManagerProofs`, `TikvStoreStatusProofs`, `TikvNodePortServicesProofs` | TLAPS proofs. |
| `MC_*` | Instantiate the constants for TLC. |

### TikvMemberManager

`pc` tracks where the current Sync is: `Idle → Labels → Apply`.

- `tc` is the in-memory status. `oldSet` is the set read from the lister and `newSet` the desired one.
- `status` is the persisted status. `sts`, `pod` and `store` are the cluster.
- `setCache` is the set lister's cache. It trails `sts`: the environment step `CacheSync` copies the live set into it, at any time.

The Sync decides from `setCache`, as the code decides from the lister. Its final write is accepted only when `StatefulSetWriteAccepted` holds: the live set is still the set that was read (`sts = oldSet`). Otherwise the write is a conflict and the Sync fails. `updateStatefulSet` is not in this repository, so this condition is modelled from the spec (its paragraph on reconciliation: reads come from cached snapshots and writes go to the live API; its failure list: a conflict is an error and the cycle aborts). Creation can fail with AlreadyExists when the cache has not yet seen a set that exists. The lister returns no error other than NotFound, so that error return is not modelled.

The operator actions are:

| Action | Code |
|---|---|
| `WaitForPD` | lines 182-188 |
| `SyncStatefulSetForTikvCluster` | 276-322: lister read, status listing, pause, ConfigMap failure, `Recover`, creation |
| `SetStoreLabelsForTiKV` | 764-827, control flow only |
| `SyncSubControllersAndUpdate` | 324-346, with `UpgradePartition`, `ScaleReplicas`/`ScaleDeletesStore`, `FailoverChoices` and the conflict check |
| `Crash` | The operator crashes mid-cycle and the in-memory status is lost. |

Helper operators:

- `SyncedStatus` models the phase and store listing of 658-744. This includes line 668, which forces the phase to Normal while PD upgrades, and the GetStores error paths.
- `ActiveListing` models `getTiKVStore`.
- `TikvStatefulSetIsUpgrading` models 867-891.
- `GetNewTiKVSet` models the replicas (574) and partition (591) of the desired set.

The environment can:

- deliver the live set to the lister cache (`CacheSync`);
- edit the spec, make PD unavailable or start a PD upgrade, and heal PD;
- have the StatefulSet controller create, roll and delete pods and complete a rollout;
- have PD bring stores Up, mark them Down, and drain them to Tombstone.

Each environment action is bounded by `MaxEdits` or `MaxFaults`.

Abstractions:

- A store is identified by its pod's ordinal.
- A template stands for a controller revision.
- Labels, heartbeats, transition times and the tombstone map are omitted. No step reads them.

### TikvNodePortServices

The model keeps:

- the host IP per pod ordinal;
- the `externalIPs` of the Service per list index;
- the peer Service;
- `Paused`.

`Sync` picks any order of the lister (`ListOrders`, a bijection from list positions to live pods). It then writes each Service that `ServiceEqual` finds changed. A write carrying an empty HostIP (an unscheduled pod) is rejected, which ends the Sync. The peer Service is written only when nothing failed.

`SyncInOrder` states the loop's early return as a set: `failing` holds the indices whose write would be rejected, and a Service is written when it needs a write and its index lies below every failing one. That is the prefix of the loop before its first error, written without a CHOOSE of the least failing index, so that the proofs can reason about it. TLC reaches the same states as with the CHOOSE form.

### TikvStoreStatus

State:

- `pd` is the store map PD returns, with each store's state, heartbeat and whether its `Status` is set;
- `stores` and `tombs` are the committed status;
- `pending` holds the records computed from `GetStores`, with `pc` marking that the second call is still to come;
- `now` is a bounded clock.

`GetStores` drops stores outside the cluster's address pattern and stores without Status. For each store left, it carries a zero heartbeat forward from the previous record and keeps LastTransitionTime when the state has not changed. `GetTombStoneStores` then lists the tombstones and commits both maps. Either call can fail, and the operator can crash between them.

PD's environment can register stores, heartbeat them, flap them Down and Up, drain them to Tombstone, drop a heartbeat to zero, and hide or restore Status.

`TikvStoreStatusContract` is what the sync promises the scaler, the failover and the upgrader, which read `Stores` and `TombstoneStores`. It has the variables `now`, `stores`, `tombs` and `synced`, and three actions:

- `Fail` clears Synced and keeps both maps;
- `Update` replaces both maps and sets Synced. Every record names an owned store and is no later than the clock. No record's heartbeat or transition time goes back, and the transition time changes only with the state.
- `Tick` advances the clock.

PD, `pc`, `pending` and the crash window are hidden. `ImplementsStatusContract` instantiates the contract with the same-named variables. The mapping is the identity on the status fields.

### TikvStoreLabels

`SetStoreLabelsForTiKV` is one pass, in any order, over the stores PD lists. The constant `External` holds stores whose address belongs to another cluster. For each store it:

1. skips a store whose address does not match this cluster's pod pattern (the owner filter of lines 789-793);
2. returns at the first store whose pod is gone;
3. skips a pod that is not scheduled, and a node with no location label;
4. resolves `getNodeLabels`, where the key `host` falls back to `kubernetes.io/hostname`;
5. compares with `storeLabelsEqualNodeLabels` and pushes;
6. lets any subset of the pushes fail.

The code also skips a store listed without a Status (`getTiKVStore` returns nil). That skip is left out of the model. It reaches no state that a pass stopping earlier in PD's order does not already reach, and it made liveness checking three times slower.

The environment relabels nodes, deletes pods, recreates them and schedules them on any node.

### TikvComponentAccessor

`cluster` and `tikv` are the cluster-level and TiKV component-level settings. Each field is Nil or drawn from a small set. Each accessor is an operator with the code's precedence: the component value when it is set, otherwise the cluster's, otherwise the default.

`NodeSelector` and `Annotations` copy two Go maps in an order that the model leaves to nondeterminism, over every permutation of the keys. `TiKVPodTemplate` assembles what `getNewTiKVSetForTikvCluster` puts into the pod template:

- the `BuildPodSpec` fields;
- the DNS policy of a host-network pod;
- the sysctl init container and the cleared security context;
- the annotations, the pull policy and the env;
- the ConfigMap name from `syncTiKVConfigMap`.

`TiKVPodTemplate` is one record that copies the `BuildPodSpec` fields, and not a `@@` merge of two records. The value is the same, and the prover can expand it.

`MapOverride` is the reference definition of a merge in which the component's entry wins over the cluster's. `MergedMapsOverride` compares the template's node selector and annotations with it. `SysctlInitFollowsAnnotation` states where the requested sysctls go: to the init container, with the pod security context cleared, exactly when the merged `sysctl-init` annotation is "true" at either level; otherwise to the pod security context.

`Sync` rebuilds the template. `EditCluster`, `EditTiKV` and `EditConfig` change one field, up to `MaxEdits` times. `Init` is an empty early-version spec: no pull policy set and no config update strategy.

### TikvPdDiscovery

`proc` records whether the process is starting, running or has exited. `server` records whether the `wait.Forever` server is down, starting, serving, or waiting out its 5 s period.

`Main` fails fatally on a config error, or starts the server goroutine. The server can return. `DebugListenerFails` models the fatal `ListenAndServe(":6060")`. `Restart` is the kubelet restarting the container.

## Runs

Passing runs:

| Run | Cfg | Properties | What it shows |
|---|---|---|---|
| core_safety | `MC_TikvMemberManager.cfg` | `TypeOK`, `ScaleOneAtATime` | No step moves the live set's replicas by more than one, although the Sync decides from a lister cache that may trail the live set by several writes. The conflict check on the final write is what holds this: a write retried on the refreshed set breaks it. |
| convergence | `MC_converge.cfg` | `Convergence` | Without location labels and with one spec edit, the cluster always reaches the spec. |
| nodeport_services | `MC_TikvNodePortServices.cfg` | `TypeOK`, `ServicesAdvertiseLiveHosts` | After a successful Sync every Service advertises a live pod's host. |
| store_status | `MC_TikvStoreStatus.cfg` | `TypeOK`, `RecordNonRegression`, `StatusConverges`, `ImplementsStatusContract` | The sync implements the status contract. Under flaps, drains, lost heartbeats, hidden Status, failed calls and crashes, no committed record moves its heartbeat or transition time back. Once faults stop, the owned store's status mirrors PD, and the external store stays filtered out. |
| component_accessor | `MC_TikvComponentAccessor.cfg` | `TypeOK`, `MergedMapsOverride`, `SysctlInitFollowsAnnotation` | In every map order, the template's node selector and annotations let the component's entries win. The sysctls go to the init container exactly when the merged annotation asks for it, whichever level sets it. |
| store_labels | `MC_TikvStoreLabels.cfg` | `LabelsEventuallyPropagated` | Every resolved node label eventually reaches PD, despite failed pushes, missing pods and relabelling. |
| pd_discovery | `MC_pd_discovery.cfg` | `DiscoveryEventuallyServes` | After config errors, server returns and debug-listener failures, the discovery server ends up serving. |

Runs that find the code disagreeing with the spec or a comment (see `findings` in PROJECT.json):

| Run | What it finds |
|---|---|
| drain_race | A store that registers after the status listing is scaled away while Up (`DrainBeforeRemove`). |
| pd_upgrade_partition_reset | A PD upgrade forces the phase to Normal. `updateStatefulSet` then raises the partition in the middle of a TiKV rolling upgrade (`MonotonicUpgrade`). |
| label_step_stall | With location labels set, a Down store without a pod makes every Sync return at `setStoreLabelsForTiKV` (line 802). The upgrade never completes, although spec section 4.6 says label failures do not block. |
| cancelled_scale_in | A scale-in reverted mid-drain leaves a Tombstone store on a live pod forever. |
| nodeport_selected_pod | Service *i* selects pod *i* but advertises the IP of the *i*-th listed pod. |

Further disagreements appear in the `hazards` notes of PROJECT.json, with no run kept for them:

- after a scale-out by two, the partition exceeds replicas (line 591);
- a store that PD returns without Status for one cycle loses its carried heartbeat, which contradicts spec section 8 (line 696);
- an explicit empty TiKV toleration list does not override the cluster's (component.go:122);
- a location label removed from a node is never removed from PD, although spec section 4.6 says differences are pushed (line 858).

### Bounds

Member manager:

- Three ordinals (`MaxReplicas = 3`), with spec replicas in {1, 2} and a failover budget of one record. A failover record raises the desired replicas to 3, so a multi-step scale-out and a two-pod rolling upgrade are both possible.
- Two templates, so an upgrade can happen.
- One edit and one fault, which covers a crash, an API error, a PD outage or a store failure at any point of a Sync.
- The run delivers the live set to the lister cache only between two Syncs (`CacheDeliveredBetweenSyncs`, an action constraint of the MC module; the specification itself lets `CacheSync` happen at any time). This is a reduction and loses no behaviour of a read. The cache is read only when a Sync starts. A value the live set holds only in the middle of a Sync is either still live when the Sync ends, or is the `oldSet` the Sync has already read. The constraint cuts the run from 4.7 to 2.9 million states.

Larger bounds (two edits and two faults at three ordinals) take more than ten minutes and add no new kind of step. The convergence run uses two ordinals and no failover budget: checking liveness at three ordinals takes more than seven minutes.

NodePort: three pods on two nodes and six environment steps. That is enough for every reordering and for rescheduling.

Store status:

- one owned store beside one external store;
- a clock up to 2, one flap, one glitch (a lost heartbeat or hidden Status) and one failed call.

These bounds reach every carry-forward case: a zero heartbeat, a state change, a missing previous record, and a failure between the two calls.

Store labels: two stores, two nodes, the keys `zone` and `host`, two values, two environment changes and one failed pass.

Component accessor: two values per field and two map keys, one of them `sysctl-init`. Three edits are enough to set a field at both levels and then change one of them. Every permutation of the map keys is enumerated. The toleration lists are unset, explicitly empty or one toleration. No property states the toleration override, which the explicit empty list breaks at component.go:122 (see the hazards).

pd-discovery: three faults of each kind.

### Fairness

`Fairness` contains:

- weak fairness on every operator step except `Crash`, because the controller's work queue requeues the cluster on events, on resync and after an error;
- weak fairness on the StatefulSet controller's actions and on PD's store transitions;
- weak fairness on `CacheSync`, because the informer's watch delivers every change.

Faults and edits are bounded, so every fair behaviour ends in a period with no faults. `Convergence` is checked in that setting.

The same reasoning justifies the other fair specifications:

- the status sync and the label step run on every Sync (weak fairness);
- the kubelet restarts an exited container, and the StatefulSet controller recreates a deleted pod (weak fairness);
- `wait.Forever` reruns the server after its period (weak fairness).

## Proofs (checked by tlapm)

`TikvMemberManagerProofs` proves the following, for all constants that satisfy `ConstantsAssumption`:

- `IInvInvariant`: `Spec => []IInv`;
- `TypeCorrect`: `Spec => []TypeOK`;
- `ScaleByOne`: `Spec => ScaleOneAtATime`.

`IInv` is the inductive invariant behind them:

```
IInv == TypeOK /\ FailureBudget
```

- `FailureBudget` bounds the failure records by `MaxFailoverCount`. Without it, `TiKVStsDesiredReplicas` could exceed `MaxReplicas`, so the desired set would not be typed.
- `ScaleByOne` needs no relation between the cache and the live set. The scaler moves the replicas of `oldSet` by at most one (`ScaleStep`, from `ScaleReplicas`). The write is accepted only when `sts = oldSet`. So a step that changes `sts` either is the operator's write, at most one away from `oldSet = sts`, or is the StatefulSet controller's creation, which does not touch a set that exists.

The proof has one lemma per group of actions: the environment, crash, label step, StatefulSet sync, and sub-controllers with update. Typing lemmas cover the helpers (`NewSetTyped`, `ScaleReplicasTyped`, ...). The temporal steps are closed with PTL.

`TikvStoreStatusProofs` proves the following, for all constants that satisfy `StoreStatusAssumption`:

- `StoreTypeCorrect`: `Spec => []TypeOK`;
- `RecordsNeverRegress`: `Spec => RecordNonRegression`.

Both rest on `IInv == TypeOK /\ Clocked /\ BehindPD /\ PendingAhead`:

- `Clocked`: no recorded time is later than `now`;
- `BehindPD`: a recorded heartbeat is at most PD's current one, or PD's is zero;
- `PendingAhead`: the pending records do not regress from the committed ones.

`PendingAhead` is needed because the records are computed at `GetStores` and committed only at `GetTombStoneStores`. Between the two calls, PD may move on and the operator may crash.

- `StatusRefinement`: `Spec => ImplementsStatusContract`. It is proved step by step:
  - `Init` maps to the contract's `Init`;
  - a failed call maps to `Fail`;
  - a commit maps to `Update` (lemma `CommitIsUpdate`);
  - `Tick` maps to `Tick`;
  - every other step (a successful `GetStores`, a crash, any PD step) leaves the status fields and is a stutter.

  Besides `IInv`, the proof needs `PendingOwned`: the pending map records only owned stores, because the pattern filter runs before `getTiKVStore`. A commit then satisfies `Update` by `TypeOK`, `Clocked`, `PendingAhead` and `PendingOwned`.

`TikvNodePortServicesProofs` proves the following, for all constants that satisfy `NodePortAssumption`:

- `NodePortTypeCorrect`: `Spec => []TypeOK`. No Sync writes a Service with the empty HostIP of an unscheduled pod.
- `LiveHostsAdvertised`: `Spec => []ServicesAdvertiseLiveHosts`.

`TypeOK /\ ServicesAdvertiseLiveHosts` is inductive as it stands. Everything rests on one lemma about a Sync, `SyncInOrderInv`. The Service at list index i is written with the HostIP of the pod listed at i, and a write is made only below every rejected one, so it never carries the empty HostIP. `stable` is set only by a Sync in which nothing failed. After such a Sync, every listed index has either been rewritten or already held what the Sync would write. The cardinality facts come from `FiniteSetTheorems` (`FS_Interval`, `FS_Subset`).

Only TLC checks the following:

- the liveness properties (`Convergence`, `StatusConverges`, `LabelsEventuallyPropagated`, `DiscoveryEventuallyServes`), because the prover does not handle fairness or ENABLED;
- the accessor's properties (`MergedMapsOverride`, `SysctlInitFollowsAnnotation`, `TypeOK`). They are about what `CopyEntries`, a `FoldLeft` over the key order, computes for every order. That is induction over data: the library's induction theorems take an operator parameter, which the installed provers cannot instantiate.
- the store-label module, whose only property is liveness, and pd-discovery, likewise.

The library modules used here (`Functions`, `SequencesExt`, `Folds`, `FiniteSetTheorems`) declare no RECURSIVE operator; `Folds` uses a recursive function. So they may be used by the modules with proofs.

## Not modelled

- **ConfigMap contents.** The TOML rendering and the startup script are not modelled. The model covers only the write failure and the ConfigMap's name.
- **The caches of the other listers** (pods and Services). Only the StatefulSet lister's cache is modelled. Pods are read live; the pod listing is used only by the label step and the Services, which write nothing that a later Sync does not rewrite.
- **Pod template fields that no property tells apart** (volumes, ports, resources, probes). The store `Image` field is also left out.
- **pd-discovery's HTTP handlers** (`pkg/discovery`), which are not in this repository.
- **The Makefile and the Dockerfile**, which are build files.
