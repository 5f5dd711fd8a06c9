------------------------ MODULE TikvStoreStatusContract ------------------------
(***************************************************************************)
(* What the store status sync promises the readers of tc.Status.TiKV (the  *)
(* scaler, the failover and the upgrader read Stores and TombstoneStores). *)
(* The status changes only by whole updates: a failed update clears Synced *)
(* and leaves both maps; an update that succeeds sets Synced and replaces  *)
(* both maps, with records of this cluster's stores only, none of them     *)
(* later than the clock, and none going back from the record it replaces.  *)
(* PD, the two calls of the sync and the operator's crashes are hidden.    *)
(***************************************************************************)
EXTENDS Naturals

CONSTANTS
    StoreIDs,  \* store IDs PD may hand out
    OwnedIDs,  \* the IDs whose address matches this cluster's pattern
    MaxTime    \* bound on the clock

ActiveStates == {"Up", "Down", "Offline"}
NoStore == "None"
NoRecord == [state |-> NoStore, hb |-> 0, ltt |-> 0]
RecordType == [state : ActiveStates \cup {NoStore}, hb : 0 .. MaxTime,
               ltt : 0 .. MaxTime]

VARIABLES
    now,     \* the clock
    stores,  \* tc.Status.TiKV.Stores: per ID a record or NoRecord
    tombs,   \* tc.Status.TiKV.TombstoneStores
    synced   \* tc.Status.TiKV.Synced

vars == <<now, stores, tombs, synced>>

Recorded(m, id) == m[id].state # NoStore

\* A PD call fails: Synced is cleared and the maps are kept.
Fail ==
    /\ synced' = FALSE
    /\ UNCHANGED <<now, stores, tombs>>

\* Both maps are replaced at once.  A record names an owned store, is not
\* later than the clock, and keeps the heartbeat and the transition time of
\* the record it replaces from going back; the transition time changes
\* only with the state.
Update ==
    /\ stores' \in [StoreIDs -> RecordType]
    /\ tombs' \subseteq OwnedIDs
    /\ \A id \in StoreIDs :
          /\ Recorded(stores', id) =>
                id \in OwnedIDs /\ stores'[id].hb <= now /\ stores'[id].ltt <= now
          /\ Recorded(stores, id) /\ Recorded(stores', id) =>
                /\ stores'[id].hb >= stores[id].hb
                /\ stores'[id].ltt >= stores[id].ltt
                /\ stores'[id].state = stores[id].state =>
                      stores'[id].ltt = stores[id].ltt
    /\ synced' = TRUE
    /\ UNCHANGED now

Tick ==
    /\ now < MaxTime
    /\ now' = now + 1
    /\ UNCHANGED <<stores, tombs, synced>>

Init ==
    /\ now = 1
    /\ stores = [id \in StoreIDs |-> NoRecord]
    /\ tombs = {}
    /\ synced = FALSE

Next == Fail \/ Update \/ Tick

Spec == Init /\ [][Next]_vars
=============================================================================
