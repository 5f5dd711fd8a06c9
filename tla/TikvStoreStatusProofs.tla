------------------------- MODULE TikvStoreStatusProofs -------------------------
(***************************************************************************)
(* Proofs about the store status sync, for every set of store IDs and      *)
(* every bound allowed by StoreStatusAssumption.                           *)
(*                                                                         *)
(* RecordNonRegression is a property of the commit at GetTombStoneStores,  *)
(* but the record committed there was computed at GetStores, from the      *)
(* Stores and the PD view of that earlier step.  It holds because of three *)
(* facts that link the status to PD and the clock:                         *)
(*   - no recorded time is later than now (Clocked);                       *)
(*   - a recorded heartbeat is never later than PD's, unless PD reports     *)
(*     zero (BehindPD): PD only ever moves a heartbeat to now or to zero;  *)
(*   - between the two calls, the pending map already relates to Stores as *)
(*     the commit will (PendingAhead), since only the commit writes Stores. *)
(***************************************************************************)
EXTENDS TikvStoreStatus, TLAPS

Clocked ==
    \A id \in StoreIDs :
       /\ pd[id].hb <= now
       /\ stores[id].hb <= now /\ stores[id].ltt <= now
       /\ pending[id].hb <= now /\ pending[id].ltt <= now

BehindPD ==
    \A id \in StoreIDs :
       pd[id].hb # 0 => stores[id].hb <= pd[id].hb /\ pending[id].hb <= pd[id].hb

\* The step RecordNonRegression constrains, for one store.
NonRegressing(id, m, m2) ==
    Recorded(m, id) /\ Recorded(m2, id) =>
       /\ m2[id].hb >= m[id].hb
       /\ m2[id].ltt >= m[id].ltt
       /\ m2[id].state = m[id].state => m2[id].ltt = m[id].ltt

PendingAhead ==
    pc = "Listed" => \A id \in StoreIDs : NonRegressing(id, stores, pending)

IInv == TypeOK /\ Clocked /\ BehindPD /\ PendingAhead

-----------------------------------------------------------------------------
(* The record of a listed store, and the map built by GetStores.           *)

\* StatusRecord is typed, no later than now, and does not go back from
\* the previous record of the same store.
LEMMA StatusRecordFacts ==
    ASSUME IInv, NEW id \in StoreIDs, pd[id].state \in ActiveStates
    PROVE  LET r == StatusRecord(id, stores)
           IN  /\ r \in RecordType
               /\ r.hb <= now /\ r.ltt <= now
               /\ pd[id].hb # 0 => r.hb <= pd[id].hb
               /\ r.state = pd[id].state
               /\ Recorded(stores, id) =>
                     /\ r.hb >= stores[id].hb
                     /\ r.ltt >= stores[id].ltt
                     /\ r.state = stores[id].state => r.ltt = stores[id].ltt
<1> USE StoreStatusAssumption
<1>1. stores[id] \in RecordType /\ pd[id].hb \in 0 .. MaxTime /\ now \in 1 .. MaxTime
  BY DEF IInv, TypeOK
<1>2. stores[id].hb <= now /\ stores[id].ltt <= now /\ pd[id].hb <= now
  BY DEF IInv, Clocked
<1>3. pd[id].hb # 0 => stores[id].hb <= pd[id].hb
  BY DEF IInv, BehindPD
<1>. QED
  BY <1>1, <1>2, <1>3 DEF StatusRecord, RecordType, Recorded, ActiveStates

LEMMA ActiveStatusFacts ==
    ASSUME IInv
    PROVE  LET m == ActiveStatus(stores)
           IN  /\ m \in [StoreIDs -> RecordType]
               /\ \A id \in StoreIDs :
                     /\ m[id].hb <= now /\ m[id].ltt <= now
                     /\ pd[id].hb # 0 => m[id].hb <= pd[id].hb
                     /\ NonRegressing(id, stores, m)
<1> USE StoreStatusAssumption
<1> DEFINE m == ActiveStatus(stores)
<1>1. NoRecord \in RecordType /\ NoRecord.hb = 0 /\ NoRecord.ltt = 0
  BY DEF NoRecord, RecordType
<1>2. ASSUME NEW id \in StoreIDs
      PROVE  /\ m[id] \in RecordType
             /\ m[id].hb <= now /\ m[id].ltt <= now
             /\ pd[id].hb # 0 => m[id].hb <= pd[id].hb
             /\ NonRegressing(id, stores, m)
  <2>1. CASE id \in Listed(TRUE)
    <3>1. pd[id].state \in ActiveStates
      BY <2>1 DEF Listed
    <3>2. m[id] = StatusRecord(id, stores)
      BY <2>1 DEF ActiveStatus
    <3>. QED
      BY <3>1, <3>2, StatusRecordFacts DEF NonRegressing, Recorded
  <2>2. CASE id \notin Listed(TRUE)
    <3>1. m[id] = NoRecord
      BY <2>2 DEF ActiveStatus
    <3>2. now \in Nat /\ pd[id].hb \in Nat
      BY DEF IInv, TypeOK
    <3>. QED
      BY <1>1, <3>1, <3>2 DEF NonRegressing, Recorded, NoRecord, NoStore
  <2>. QED  BY <2>1, <2>2
<1>3. m \in [StoreIDs -> RecordType]
  <2>1. m = [id \in StoreIDs |-> m[id]]
    BY DEF ActiveStatus
  <2>. QED  BY <1>2, <2>1
<1>. QED  BY <1>2, <1>3

-----------------------------------------------------------------------------
(* The inductive invariant.                                                *)

LEMMA InitIInv == Init => IInv
<1> SUFFICES ASSUME Init PROVE IInv
  OBVIOUS
<1> USE StoreStatusAssumption
<1>1. NoStatus \in [StoreIDs -> RecordType]
      /\ \A id \in StoreIDs : NoStatus[id].hb = 0 /\ NoStatus[id].ltt = 0
  BY DEF NoStatus, NoRecord, RecordType, ActiveStates, NoStore
<1>2. pd \in [StoreIDs -> [state : ActiveStates \cup {"Tombstone", NoStore},
                           hb : 0 .. MaxTime, complete : BOOLEAN]]
      /\ \A id \in StoreIDs : pd[id].hb = 0
  BY DEF Init
<1>3. TypeOK
  <2>1. synced \in BOOLEAN /\ pc \in {"Idle", "Listed"}
    BY DEF Init
  <2>2. tombs \subseteq OwnedIDs
    BY DEF Init
  <2>3. now \in 1 .. MaxTime /\ flaps \in 0 .. MaxFlaps
        /\ glitches \in 0 .. MaxGlitches /\ faults \in 0 .. MaxFaults
    BY DEF Init
  <2>4. stores \in [StoreIDs -> RecordType] /\ pending \in [StoreIDs -> RecordType]
    BY <1>1 DEF Init
  <2>. QED  BY <1>2, <2>1, <2>2, <2>3, <2>4 DEF TypeOK
<1>4. Clocked /\ BehindPD /\ PendingAhead
  BY <1>1, <1>2 DEF Init, Clocked, BehindPD, PendingAhead
<1>. QED  BY <1>3, <1>4 DEF IInv

\* The steps of PD and the clock leave Stores and the pending map alone
\* and move a heartbeat only to now or to zero.
LEMMA PDStepIInv ==
    ASSUME IInv, NEW id \in StoreIDs,
           NEW st \in ActiveStates \cup {"Tombstone", NoStore},
           NEW hb \in {now, pd[id].hb, 0},
           PDStep(id, st, hb),
           flaps' \in 0 .. MaxFlaps, glitches' \in 0 .. MaxGlitches
    PROVE  IInv'
<1> USE StoreStatusAssumption
<1>1. pd' = [pd EXCEPT ![id] = [state |-> st, hb |-> hb,
                                complete |-> pd[id].complete]]
      /\ UNCHANGED <<now, stores, tombs, synced, pc, pending, faults>>
  BY DEF PDStep
<1>2. hb \in 0 .. MaxTime /\ hb <= now
  BY DEF IInv, TypeOK, Clocked
<1>3. TypeOK'
  BY <1>1, <1>2 DEF IInv, TypeOK
<1>4. Clocked'
  BY <1>1, <1>2 DEF IInv, TypeOK, Clocked
<1>5. BehindPD'
  BY <1>1, <1>2 DEF IInv, TypeOK, Clocked, BehindPD
<1>6. PendingAhead'
  BY <1>1 DEF IInv, PendingAhead, NonRegressing, Recorded
<1>. QED  BY <1>3, <1>4, <1>5, <1>6 DEF IInv

LEMMA EnvironmentIInv ==
    ASSUME IInv,
           NEW id \in StoreIDs,
           \/ Register(id) \/ Heartbeat(id) \/ Flap(id) \/ Drain(id)
           \/ LoseHeartbeat(id)
    PROVE  IInv'
<1> USE StoreStatusAssumption
<1>1. /\ flaps \in 0 .. MaxFlaps /\ glitches \in 0 .. MaxGlitches
      /\ pd[id].state \in ActiveStates \cup {"Tombstone", NoStore}
  BY DEF IInv, TypeOK
<1>2. CASE Register(id)
  BY <1>1, <1>2, PDStepIInv DEF Register, ActiveStates
<1>3. CASE Heartbeat(id)
  BY <1>1, <1>3, PDStepIInv DEF Heartbeat, ActiveStates
<1>4. CASE Flap(id)
  <2>1. flaps' \in 0 .. MaxFlaps /\ glitches' = glitches
    BY <1>1, <1>4 DEF Flap
  <2>2. CASE pd[id].state = "Up" /\ PDStep(id, "Down", pd[id].hb)
    BY <1>1, <2>1, <2>2, PDStepIInv DEF ActiveStates
  <2>3. CASE pd[id].state = "Down" /\ PDStep(id, "Up", now)
    BY <1>1, <2>1, <2>3, PDStepIInv DEF ActiveStates
  <2>. QED  BY <1>4, <2>2, <2>3 DEF Flap
<1>5. CASE Drain(id)
  BY <1>1, <1>5, PDStepIInv DEF Drain, ActiveStates
<1>6. CASE LoseHeartbeat(id)
  BY <1>1, <1>6, PDStepIInv DEF LoseHeartbeat
<1>. QED  BY <1>2, <1>3, <1>4, <1>5, <1>6

LEMMA ToggleStatusIInv ==
    ASSUME IInv, NEW id \in StoreIDs, ToggleStatus(id)
    PROVE  IInv'
<1> USE StoreStatusAssumption
<1>1. glitches' \in 0 .. MaxGlitches
  BY DEF IInv, TypeOK, ToggleStatus
<1>2. pd' = [pd EXCEPT ![id] = [state |-> pd[id].state, hb |-> pd[id].hb,
                                complete |-> ~pd[id].complete]]
      /\ UNCHANGED <<now, stores, tombs, synced, pc, pending, faults, flaps>>
  BY DEF ToggleStatus
<1>3. TypeOK'
  BY <1>1, <1>2 DEF IInv, TypeOK
<1>. QED
  BY <1>2, <1>3 DEF IInv, Clocked, BehindPD, PendingAhead, NonRegressing, Recorded

LEMMA TickIInv ==
    ASSUME IInv, Tick
    PROVE  IInv'
<1> USE StoreStatusAssumption
<1>1. now' = now + 1 /\ now' \in 1 .. MaxTime /\ now \in Nat
  BY DEF Tick, IInv, TypeOK
<1>2. TypeOK'
  BY <1>1 DEF Tick, IInv, TypeOK
<1>3. Clocked' /\ BehindPD'
  <2>1. UNCHANGED <<pd, stores, pending>>
    BY DEF Tick
  <2>2. \A id \in StoreIDs :
           /\ pd[id].hb \in Nat
           /\ stores[id].hb \in Nat /\ stores[id].ltt \in Nat
           /\ pending[id].hb \in Nat /\ pending[id].ltt \in Nat
    BY DEF IInv, TypeOK, RecordType
  <2>3. Clocked'
    <3> SUFFICES ASSUME NEW id \in StoreIDs
                 PROVE  /\ pd'[id].hb <= now'
                        /\ stores'[id].hb <= now' /\ stores'[id].ltt <= now'
                        /\ pending'[id].hb <= now' /\ pending'[id].ltt <= now'
      BY DEF Clocked
    <3>1. /\ pd[id].hb <= now
          /\ stores[id].hb <= now /\ stores[id].ltt <= now
          /\ pending[id].hb <= now /\ pending[id].ltt <= now
      BY DEF IInv, Clocked
    <3>. QED  BY <1>1, <2>1, <2>2, <3>1
  <2>4. BehindPD'
    BY <2>1 DEF IInv, BehindPD
  <2>. QED  BY <2>3, <2>4
<1>4. PendingAhead'
  BY DEF Tick, IInv, PendingAhead, NonRegressing, Recorded
<1>. QED  BY <1>2, <1>3, <1>4 DEF IInv

LEMMA GetStoresIInv ==
    ASSUME IInv, GetStores
    PROVE  IInv'
<1> USE StoreStatusAssumption
<1>0. UNCHANGED <<now, pd, stores, tombs, flaps, glitches>>
      /\ pc = "Idle"
  BY DEF GetStores
<1>1. CASE pending' = ActiveStatus(stores) /\ pc' = "Listed"
      /\ UNCHANGED <<synced, faults>>
  <2>1. pending' \in [StoreIDs -> RecordType]
        /\ \A id \in StoreIDs :
              /\ pending'[id].hb <= now /\ pending'[id].ltt <= now
              /\ pd[id].hb # 0 => pending'[id].hb <= pd[id].hb
              /\ NonRegressing(id, stores, pending')
    BY <1>1, ActiveStatusFacts
  <2>2. TypeOK'
    BY <1>0, <1>1, <2>1 DEF IInv, TypeOK
  <2>3. Clocked' /\ BehindPD'
    BY <1>0, <2>1 DEF IInv, Clocked, BehindPD
  <2>4. PendingAhead'
    BY <1>0, <1>1, <2>1 DEF PendingAhead
  <2>. QED  BY <2>2, <2>3, <2>4 DEF IInv
<1>2. CASE Fault /\ synced' = FALSE /\ UNCHANGED <<pc, pending>>
  <2>1. TypeOK'
    <3>1. faults' \in 0 .. MaxFaults
      BY <1>2 DEF Fault, IInv, TypeOK
    <3>2. synced' \in BOOLEAN /\ pc' \in {"Idle", "Listed"}
      BY <1>0, <1>2
    <3>3. pending' \in [StoreIDs -> RecordType]
      BY <1>2 DEF IInv, TypeOK
    <3>. QED  BY <1>0, <3>1, <3>2, <3>3 DEF IInv, TypeOK
  <2>. QED
    BY <1>0, <1>2, <2>1 DEF IInv, Clocked, BehindPD, PendingAhead,
                            NonRegressing, Recorded
<1>. QED  BY <1>1, <1>2 DEF GetStores

LEMMA GetTombStoneStoresIInv ==
    ASSUME IInv, GetTombStoneStores \/ Crash
    PROVE  IInv'
<1> USE StoreStatusAssumption
<1>1. NoStatus \in [StoreIDs -> RecordType]
      /\ \A id \in StoreIDs : NoStatus[id].hb = 0 /\ NoStatus[id].ltt = 0
  BY DEF NoStatus, NoRecord, RecordType, ActiveStates, NoStore
<1>2. Listed(FALSE) \subseteq OwnedIDs
  BY DEF Listed
<1>3. now \in Nat /\ \A id \in StoreIDs : pd[id].hb \in Nat
  BY DEF IInv, TypeOK
<1>4. PendingAhead'
  BY DEF GetTombStoneStores, Crash, PendingAhead
<1>5. CASE Crash
  <2>1. TypeOK'
    BY <1>1, <1>5 DEF Crash, Fault, IInv, TypeOK
  <2>. QED
    BY <1>1, <1>3, <1>4, <1>5, <2>1 DEF Crash, IInv, Clocked, BehindPD
<1>6. CASE GetTombStoneStores
  <2>1. pc' = "Idle" /\ pending' = NoStatus /\ UNCHANGED <<now, pd>>
    BY <1>6 DEF GetTombStoneStores
  <2>2. CASE Fault /\ synced' = FALSE /\ UNCHANGED <<stores, tombs>>
    <3>1. TypeOK'
      <4>1. faults' \in 0 .. MaxFaults
        BY <2>2 DEF Fault, IInv, TypeOK
      <4>2. synced' \in BOOLEAN /\ pc' \in {"Idle", "Listed"}
        BY <2>1, <2>2
      <4>3. UNCHANGED <<flaps, glitches>>
        BY <1>6 DEF GetTombStoneStores
      <4>. QED  BY <1>1, <2>1, <2>2, <4>1, <4>2, <4>3 DEF IInv, TypeOK
    <3>. QED
      BY <1>1, <1>3, <1>4, <2>1, <2>2, <3>1 DEF IInv, Clocked, BehindPD
  <2>3. CASE CommitStatus /\ synced' = TRUE
                /\ UNCHANGED faults
    <3>1. stores' = pending /\ tombs' \subseteq OwnedIDs
      BY <1>2, <2>3 DEF CommitStatus
    <3>2. TypeOK'
      BY <1>1, <1>6, <2>1, <2>3, <3>1 DEF GetTombStoneStores, IInv, TypeOK
    <3>. QED
      BY <1>1, <1>3, <1>4, <2>1, <3>1, <3>2 DEF IInv, Clocked, BehindPD
  <2>. QED  BY <1>6, <2>2, <2>3 DEF GetTombStoneStores
<1>. QED  BY <1>5, <1>6

LEMMA NextIInv == IInv /\ [Next]_vars => IInv'
<1> SUFFICES ASSUME IInv, [Next]_vars PROVE IInv'
  OBVIOUS
<1>1. CASE UNCHANGED vars
  BY <1>1 DEF vars, IInv, TypeOK, Clocked, BehindPD, PendingAhead,
              NonRegressing, Recorded
<1>. QED
  BY <1>1, GetStoresIInv, GetTombStoneStoresIInv, TickIInv, ToggleStatusIInv,
     EnvironmentIInv DEF Next

\* Every step keeps each recorded store from going back: the commit
\* installs the pending map, which PendingAhead relates to Stores; every
\* other step leaves Stores as it is.
LEMMA NextNonRegressing ==
    IInv /\ [Next]_vars => \A id \in StoreIDs : NonRegressing(id, stores, stores')
<1> SUFFICES ASSUME IInv, [Next]_vars, NEW id \in StoreIDs
             PROVE  NonRegressing(id, stores, stores')
  OBVIOUS
<1>1. stores[id] \in RecordType
  BY DEF IInv, TypeOK
<1>2. CASE stores' = stores
  BY <1>1, <1>2 DEF NonRegressing, RecordType
<1>3. CASE stores' # stores
  <2>1. GetTombStoneStores /\ CommitStatus
    BY <1>3 DEF Next, vars, GetStores, GetTombStoneStores, Crash, Tick,
                Register, Heartbeat, Flap, Drain, LoseHeartbeat, ToggleStatus,
                PDStep
  <2>2. pc = "Listed" /\ stores' = pending
    BY <2>1 DEF GetTombStoneStores, CommitStatus
  <2>. QED  BY <2>2 DEF IInv, PendingAhead
<1>. QED  BY <1>2, <1>3

THEOREM StoreIInvInvariant == Spec => []IInv
BY InitIInv, NextIInv, PTL DEF Spec

\* Type correctness of the store status sync: the records committed to
\* Stores carry an active state and times within the clock, for every set
\* of store IDs and every bound.
THEOREM StoreTypeCorrect == Spec => []TypeOK
BY StoreIInvInvariant, PTL DEF IInv

\* No status update makes a recorded store go back: syncTikvClusterStatus
\* never lowers the LastHeartbeatTime of a store that stays in Stores
\* (a zero heartbeat from PD is replaced by the previous one), and moves its
\* LastTransitionTime only forward and only on a change of state, although
\* the record is built at GetStores and committed only after
\* GetTombStoneStores.
THEOREM RecordsNeverRegress == Spec => RecordNonRegression
<1>1. IInv /\ [Next]_vars =>
        [\A id \in StoreIDs :
            Recorded(stores, id) /\ Recorded(stores', id) =>
               /\ stores'[id].hb >= stores[id].hb
               /\ stores'[id].ltt >= stores[id].ltt
               /\ stores'[id].state = stores[id].state =>
                     stores'[id].ltt = stores[id].ltt]_vars
  BY NextNonRegressing DEF NonRegressing
<1>. QED  BY <1>1, StoreIInvInvariant, PTL DEF Spec, RecordNonRegression

-----------------------------------------------------------------------------
(* Refinement of the status contract.                                      *)

\* The map built by GetStores records owned stores only: the pattern
\* filter runs before getTiKVStore.
PendingOwned == \A id \in StoreIDs : Recorded(pending, id) => id \in OwnedIDs

LEMMA NextPendingOwned == PendingOwned /\ [Next]_vars => PendingOwned'
<1> SUFFICES ASSUME PendingOwned, [Next]_vars PROVE PendingOwned'
  OBVIOUS
<1>1. \A id \in StoreIDs : ~Recorded(NoStatus, id)
  BY DEF NoStatus, NoRecord, Recorded
<1>2. \A id \in StoreIDs : Recorded(ActiveStatus(stores), id) => id \in OwnedIDs
  BY DEF ActiveStatus, Listed, NoRecord, Recorded
<1>3. CASE GetStores
  BY <1>2, <1>3 DEF GetStores, PendingOwned
<1>4. CASE GetTombStoneStores \/ Crash
  BY <1>1, <1>4 DEF GetTombStoneStores, Crash, PendingOwned
<1>5. CASE ~GetStores /\ ~GetTombStoneStores /\ ~Crash
  BY <1>5 DEF Next, vars, Tick, Register, Heartbeat, Flap, Drain,
              LoseHeartbeat, ToggleStatus, PDStep, PendingOwned
<1>. QED  BY <1>3, <1>4, <1>5

LEMMA InitStatusContract == Init => StatusContract!Init
BY DEF Init, StatusContract!Init, NoStatus, NoRecord, StatusContract!NoRecord,
       NoStore, StatusContract!NoStore

\* A successful GetTombStoneStores installs the pending map: it is an
\* Update of the contract.
LEMMA CommitIsUpdate ==
    ASSUME IInv, PendingOwned, GetTombStoneStores, CommitStatus, synced' = TRUE
    PROVE  StatusContract!Update
<1> USE StoreStatusAssumption
<1>1. pc = "Listed" /\ stores' = pending /\ tombs' = Listed(FALSE)
      /\ now' = now
  BY DEF GetTombStoneStores, CommitStatus
<1>2. stores' \in [StoreIDs -> StatusContract!RecordType]
  BY <1>1 DEF IInv, TypeOK, RecordType, StatusContract!RecordType,
              ActiveStates, StatusContract!ActiveStates,
              NoStore, StatusContract!NoStore
<1>3. tombs' \subseteq OwnedIDs
  BY <1>1 DEF Listed
<1>4. ASSUME NEW id \in StoreIDs
      PROVE  /\ StatusContract!Recorded(stores', id) =>
                  id \in OwnedIDs /\ stores'[id].hb <= now
                  /\ stores'[id].ltt <= now
             /\ StatusContract!Recorded(stores, id)
                /\ StatusContract!Recorded(stores', id) =>
                  /\ stores'[id].hb >= stores[id].hb
                  /\ stores'[id].ltt >= stores[id].ltt
                  /\ stores'[id].state = stores[id].state =>
                        stores'[id].ltt = stores[id].ltt
  <2>1. StatusContract!Recorded(stores', id) => id \in OwnedIDs
    BY <1>1 DEF PendingOwned, Recorded, StatusContract!Recorded,
                NoStore, StatusContract!NoStore
  <2>2. stores'[id].hb <= now /\ stores'[id].ltt <= now
    BY <1>1 DEF IInv, Clocked
  <2>3. NonRegressing(id, stores, stores')
    BY <1>1 DEF IInv, PendingAhead
  <2>. QED
    BY <2>1, <2>2, <2>3 DEF NonRegressing, Recorded, StatusContract!Recorded,
                            NoStore, StatusContract!NoStore
<1>. QED
  BY <1>1, <1>2, <1>3, <1>4 DEF StatusContract!Update

LEMMA StepRefines ==
    IInv /\ PendingOwned /\ [Next]_vars
      => [StatusContract!Next]_StatusContract!vars
<1> SUFFICES ASSUME IInv, PendingOwned, [Next]_vars
             PROVE  [StatusContract!Next]_StatusContract!vars
  OBVIOUS
<1> DEFINE Stutter == UNCHANGED <<now, stores, tombs, synced>>
<1>1. Stutter => [StatusContract!Next]_StatusContract!vars
  BY DEF StatusContract!vars
<1>2. Fault /\ synced' = FALSE /\ UNCHANGED <<now, stores, tombs>>
        => [StatusContract!Next]_StatusContract!vars
  BY DEF StatusContract!Next, StatusContract!Fail
<1>3. CASE GetStores
  BY <1>1, <1>2, <1>3 DEF GetStores
<1>4. CASE GetTombStoneStores
  <2>1. CASE CommitStatus /\ synced' = TRUE
    BY <1>4, <2>1, CommitIsUpdate DEF StatusContract!Next
  <2>. QED
    BY <1>2, <1>4, <2>1 DEF GetTombStoneStores
<1>5. CASE Tick
  BY <1>5 DEF Tick, StatusContract!Next, StatusContract!Tick
<1>6. CASE Crash
  BY <1>1, <1>6 DEF Crash
<1>7. CASE \E id \in StoreIDs :
              \/ Register(id) \/ Heartbeat(id) \/ Flap(id) \/ Drain(id)
              \/ LoseHeartbeat(id) \/ ToggleStatus(id)
  BY <1>1, <1>7 DEF Register, Heartbeat, Flap, Drain, LoseHeartbeat,
                    ToggleStatus, PDStep
<1>8. CASE UNCHANGED vars
  BY <1>1, <1>8 DEF vars
<1>. QED  BY <1>3, <1>4, <1>5, <1>6, <1>7, <1>8 DEF Next

\* The status sync implements the status contract: with PD moving and the
\* operator crashing between GetStores and GetTombStoneStores, readers of
\* tc.Status.TiKV only ever see whole updates of owned, clocked records
\* that never go back, or Synced cleared with the maps kept.
THEOREM StatusRefinement == Spec => ImplementsStatusContract
<1>1. Spec => [](IInv /\ PendingOwned)
  <2>1. Init => PendingOwned
    BY DEF Init, PendingOwned, NoStatus, NoRecord, Recorded
  <2>. QED
    BY <2>1, InitIInv, NextIInv, NextPendingOwned, PTL DEF Spec
<1>. QED
  BY <1>1, InitStatusContract, StepRefines, PTL
     DEF Spec, ImplementsStatusContract, StatusContract!Spec
=============================================================================
