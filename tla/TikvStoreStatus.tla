---------------------------- MODULE TikvStoreStatus ----------------------------
(***************************************************************************)
(* The store part of tikvMemberManager.syncTikvClusterStatus               *)
(* (pkg/manager/member): GetStores, the owned-address filter,              *)
(* getTiKVStore, the LastHeartbeatTime carry-forward and the               *)
(* LastTransitionTime rule, then GetTombStoneStores and the commit of both *)
(* maps into tc.Status.TiKV.  PD keeps running between the two calls and   *)
(* between Syncs: stores register, flap Up and Down, are drained to        *)
(* Tombstone, heartbeat, and PD may report a zero heartbeat or an entry    *)
(* without its Status.                                                     *)
(*                                                                         *)
(* Abstractions.  A store is its ID; its address is reduced to whether it  *)
(* matches tikvStoreLimitPattern (OwnedIDs).  Times are naturals with 0    *)
(* for the zero time; metav1.Now() is the clock now.  Pod name, IP and    *)
(* leader count are copied from PD and read by nothing here.               *)
(***************************************************************************)
EXTENDS Naturals

CONSTANTS
    StoreIDs,     \* store IDs PD may hand out
    OwnedIDs,     \* the IDs whose address matches this cluster's pattern
    MaxTime,      \* bound on the clock
    MaxFlaps,     \* bound on Up/Down flaps
    MaxGlitches,  \* bound on zero heartbeats and entries without Status
    MaxFaults     \* bound on failed PD calls and operator crashes

ASSUME StoreStatusAssumption ==
    /\ OwnedIDs \subseteq StoreIDs
    /\ MaxTime \in Nat \ {0}
    /\ MaxFlaps \in Nat
    /\ MaxGlitches \in Nat
    /\ MaxFaults \in Nat

ActiveStates == {"Up", "Down", "Offline"}
NoStore == "None"
NoRecord == [state |-> NoStore, hb |-> 0, ltt |-> 0]

VARIABLES
    now,       \* the clock, metav1.Now()
    pd,        \* per ID: PD's store state, its last heartbeat, and whether
               \* GetStores returns it with its Status
    stores,    \* persisted tc.Status.TiKV.Stores: per ID a record or NoRecord
    tombs,     \* persisted tc.Status.TiKV.TombstoneStores (the IDs)
    synced,    \* persisted tc.Status.TiKV.Synced
    pc,        \* "Idle", or "Listed" between GetStores and GetTombStoneStores
    pending,   \* the stores map built from GetStores, not yet committed
    flaps, glitches, faults

vars == <<now, pd, stores, tombs, synced, pc, pending,
          flaps, glitches, faults>>

NoStatus == [id \in StoreIDs |-> NoRecord]

Recorded(m, id) == m[id].state # NoStore

-----------------------------------------------------------------------------
(* The computation of syncTikvClusterStatus.                               *)

\* Mutant of Listed: the state filter is lost, as with a PD whose store
\* listing also returns tombstones.
ListedAnyState(active) ==
    {id \in OwnedIDs : pd[id].complete /\ pd[id].state # NoStore}

\* Mutant of Listed: the tikvStoreLimitPattern address filter is skipped.
ListedUnowned(active) ==
    {id \in StoreIDs :
        /\ pd[id].complete
        /\ IF active THEN pd[id].state \in ActiveStates
                     ELSE pd[id].state = "Tombstone"}

\* The entries GetStores (active = TRUE) or GetTombStoneStores returns
\* that pass the owned-address filter and for which getTiKVStore yields a
\* status (Store and Status both present).
Listed(active) ==
    {id \in OwnedIDs :
        /\ pd[id].complete
        /\ IF active THEN pd[id].state \in ActiveStates
                     ELSE pd[id].state = "Tombstone"}

\* Mutant of StatusRecord: PD's heartbeat is taken as it is.
StatusRecordNoCarry(id, prev) ==
    [state |-> pd[id].state, hb |-> pd[id].hb,
     ltt |-> IF Recorded(prev, id) /\ prev[id].state = pd[id].state
             THEN prev[id].ltt ELSE now]

\* The record of one listed store: a zero heartbeat is replaced by the
\* previous record's; LastTransitionTime is now unless the previous
\* record has the same state.
StatusRecord(id, prev) ==
    [state |-> pd[id].state,
     hb |-> IF pd[id].hb = 0 /\ Recorded(prev, id) THEN prev[id].hb
            ELSE pd[id].hb,
     ltt |-> IF Recorded(prev, id) /\ prev[id].state = pd[id].state
             THEN prev[id].ltt ELSE now]

\* The map built from GetStores, keyed by store ID, from the previous
\* Stores of the status.
ActiveStatus(prev) ==
    [id \in StoreIDs |-> IF id \in Listed(TRUE) THEN StatusRecord(id, prev)
                         ELSE NoRecord]

Fault == faults < MaxFaults /\ faults' = faults + 1

\* GetStores: on error Synced is set to false and the Sync returns, the
\* status update persists it; otherwise the new map is built.
GetStores ==
    /\ pc = "Idle"
    /\ \/ /\ Fault
          /\ synced' = FALSE
          /\ UNCHANGED <<pc, pending>>
       \/ /\ pending' = ActiveStatus(stores)
          /\ pc' = "Listed"
          /\ UNCHANGED <<synced, faults>>
    /\ UNCHANGED <<now, pd, stores, tombs, flaps, glitches>>

\* Mutant of CommitStatus: the new map is merged into the old one instead
\* of replacing it.
CommitStatusMerged ==
    /\ stores' = [id \in StoreIDs |-> IF Recorded(pending, id) THEN pending[id]
                                      ELSE stores[id]]
    /\ tombs' = Listed(FALSE)

\* The end of syncTikvClusterStatus: Synced, Stores and TombstoneStores
\* are set together.
CommitStatus ==
    /\ stores' = pending
    /\ tombs' = Listed(FALSE)

\* GetTombStoneStores: on error Synced is set to false and the Sync
\* returns with Stores and TombstoneStores as they were; otherwise the
\* three fields are committed together.
GetTombStoneStores ==
    /\ pc = "Listed"
    /\ pc' = "Idle"
    /\ pending' = NoStatus
    /\ \/ /\ Fault
          /\ synced' = FALSE
          /\ UNCHANGED <<stores, tombs>>
       \/ /\ CommitStatus
          /\ synced' = TRUE
          /\ UNCHANGED faults
    /\ UNCHANGED <<now, pd, flaps, glitches>>

\* The operator dies between the two calls: the in-memory status is lost.
Crash ==
    /\ pc = "Listed"
    /\ Fault
    /\ pc' = "Idle"
    /\ pending' = NoStatus
    /\ UNCHANGED <<now, pd, stores, tombs, synced, flaps, glitches>>

-----------------------------------------------------------------------------
(* PD and the clock.                                                       *)

PDStep(id, st, hb) ==
    /\ pd' = [pd EXCEPT ![id] = [state |-> st, hb |-> hb, complete |-> @.complete]]
    /\ UNCHANGED <<now, stores, tombs, synced, pc, pending, faults>>

\* A TiKV process registers its store, which is Up with a heartbeat now.
Register(id) ==
    /\ pd[id].state = NoStore
    /\ PDStep(id, "Up", now)
    /\ UNCHANGED <<flaps, glitches>>

\* An Up or draining store heartbeats.
Heartbeat(id) ==
    /\ pd[id].state \in {"Up", "Offline"}
    /\ pd[id].hb # now
    /\ PDStep(id, pd[id].state, now)
    /\ UNCHANGED <<flaps, glitches>>

\* A store stops heartbeating and PD marks it Down, or it comes back Up.
Flap(id) ==
    /\ flaps < MaxFlaps
    /\ flaps' = flaps + 1
    /\ \/ pd[id].state = "Up" /\ PDStep(id, "Down", pd[id].hb)
       \/ pd[id].state = "Down" /\ PDStep(id, "Up", now)
    /\ UNCHANGED glitches

\* A removal request puts the store Offline; once drained it is Tombstone.
Drain(id) ==
    /\ \/ pd[id].state \in {"Up", "Down"} /\ PDStep(id, "Offline", pd[id].hb)
       \/ pd[id].state = "Offline" /\ PDStep(id, "Tombstone", pd[id].hb)
    /\ UNCHANGED <<flaps, glitches>>

\* PD reports a zero LastHeartbeatTS for a store it has heard from.
LoseHeartbeat(id) ==
    /\ glitches < MaxGlitches
    /\ pd[id].state # NoStore
    /\ pd[id].hb # 0
    /\ glitches' = glitches + 1
    /\ PDStep(id, pd[id].state, 0)
    /\ UNCHANGED flaps

\* PD returns the store's entry without its Status, or with it again.
ToggleStatus(id) ==
    /\ pd[id].state # NoStore
    /\ \/ /\ pd[id].complete
          /\ glitches < MaxGlitches
          /\ glitches' = glitches + 1
       \/ /\ ~pd[id].complete
          /\ UNCHANGED glitches
    /\ pd' = [pd EXCEPT ![id] = [state |-> @.state, hb |-> @.hb,
                                  complete |-> ~@.complete]]
    /\ UNCHANGED <<now, stores, tombs, synced, pc, pending, faults, flaps>>

Tick ==
    /\ now < MaxTime
    /\ now' = now + 1
    /\ UNCHANGED <<pd, stores, tombs, synced, pc, pending,
                   flaps, glitches, faults>>

Init ==
    /\ now = 1
    /\ pd = [id \in StoreIDs |-> [state |-> NoStore, hb |-> 0, complete |-> TRUE]]
    /\ stores = NoStatus
    /\ tombs = {}
    /\ synced = FALSE
    /\ pc = "Idle"
    /\ pending = NoStatus
    /\ flaps = 0
    /\ glitches = 0
    /\ faults = 0

Next ==
    \/ GetStores \/ GetTombStoneStores \/ Crash \/ Tick
    \/ \E id \in StoreIDs :
          \/ Register(id) \/ Heartbeat(id) \/ Flap(id) \/ Drain(id)
          \/ LoseHeartbeat(id) \/ ToggleStatus(id)

Spec == Init /\ [][Next]_vars

\* The cluster is requeued by the periodic resync, so a status sync keeps
\* being attempted; PD keeps serving entries with their Status.
Fairness ==
    /\ WF_vars(GetStores) /\ WF_vars(GetTombStoneStores)
    /\ \A id \in StoreIDs : WF_vars(ToggleStatus(id) /\ ~pd[id].complete)

FairSpec == Spec /\ Fairness

-----------------------------------------------------------------------------
(* Properties.                                                             *)

RecordType == [state : ActiveStates \cup {NoStore}, hb : 0 .. MaxTime,
               ltt : 0 .. MaxTime]

TypeOK ==
    /\ now \in 1 .. MaxTime
    /\ pd \in [StoreIDs -> [state : ActiveStates \cup {"Tombstone", NoStore},
                            hb : 0 .. MaxTime, complete : BOOLEAN]]
    /\ stores \in [StoreIDs -> RecordType]
    /\ pending \in [StoreIDs -> RecordType]
    /\ tombs \subseteq OwnedIDs
    /\ synced \in BOOLEAN
    /\ pc \in {"Idle", "Listed"}
    /\ flaps \in 0 .. MaxFlaps
    /\ glitches \in 0 .. MaxGlitches
    /\ faults \in 0 .. MaxFaults

\* The record of a store that stays in Stores across a status update never
\* goes back: its heartbeat does not decrease (the carry-forward of a zero
\* heartbeat) and its transition time neither decreases nor changes while
\* its state stays the same.
RecordNonRegression ==
    [][\A id \in StoreIDs :
         Recorded(stores, id) /\ Recorded(stores', id) =>
            /\ stores'[id].hb >= stores[id].hb
            /\ stores'[id].ltt >= stores[id].ltt
            /\ stores'[id].state = stores[id].state =>
                  stores'[id].ltt = stores[id].ltt]_vars

\* Once PD stops changing, the status comes to mirror it for good: every
\* owned store PD returns is recorded with PD's state, and the owned
\* tombstones are exactly TombstoneStores (a drained store leaves Stores).
Mirrors ==
    /\ \A id \in OwnedIDs :
          stores[id].state = IF pd[id].state \in ActiveStates
                             THEN pd[id].state ELSE NoStore
    /\ tombs = {id \in OwnedIDs : pd[id].state = "Tombstone"}
StatusConverges == <>[]Mirrors

StatusContract == INSTANCE TikvStoreStatusContract

\* The two-call sync, with PD moving and the operator crashing between the
\* calls, implements the status contract: tc.Status.TiKV changes only by
\* whole updates (both maps with Synced, or Synced cleared alone) whose
\* records are owned, clocked and never go back.
ImplementsStatusContract == StatusContract!Spec

=============================================================================
