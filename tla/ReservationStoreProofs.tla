----------------------- MODULE ReservationStoreProofs -----------------------
(***************************************************************************)
(* Lemmas about ReservationStore, for every value of its constants.        *)
(*                                                                         *)
(* First the tables: Sound(d), the tables have their types and             *)
(* validate_store_integrity's table checks accept them, is kept by every   *)
(* write: the clock record, release_reserved, the three writes that        *)
(* concern one reservation and import_inventory_batch.                     *)
(*                                                                         *)
(* Then the operations, whatever calls them: each makes at most one of     *)
(* five writes (OneWrite), and each write undoes nothing (Forward) and     *)
(* keeps the audit log in step (Audited).  What they do to the limits on   *)
(* live quotes and to the input ledger is in ReservationBookProofs.        *)
(***************************************************************************)
EXTENDS ReservationStore, TLAPS

Sound(d) == d \in Store /\ TablesValid(d)

USE DEF Time, NoTime

\* What the lemmas need to know of numbers: a set of reservations has a number of
\* members.  The modules that use the lemmas prove it (CountingHolds).
Counting == \A S \in SUBSET Ids : Cardinality(S) \in Nat

\* Adding an entry to one of the logs keeps the logs typed.
LEMMA AuditAppended ==
  ASSUME NEW S, NEW T, NEW f \in [S -> Seq(T)], NEW id \in S, NEW x \in T
  PROVE  [f EXCEPT ![id] = Append(@, x)] \in [S -> Seq(T)]
  <1>1. Append(f[id], x) \in Seq(T)
    <2>1. f[id] \in Seq(T)
      BY Zenon
    <2>2. QED BY <2>1
  <1>2. QED BY <1>1, Zenon

\* The inputs of a reservation are outpoints.
LEMMA InputsOfOutpoints ==
  ASSUME NEW d \in Store, NEW id \in Ids
  PROVE  InputsOf(d.reservation[id]) \subseteq Outpoints
  BY DEF Store, Reservation, InputsOf, Items

\* A new database is sound.
LEMMA EmptySound == Sound(EmptyStore)
  <1>1. EmptyStore \in Store
    BY ConstantsAssumption
    DEF EmptyStore, Store, Available, AbsentReservation, Allocation, Reservation, Statuses
  <1>2. TablesValid(EmptyStore)
    BY DEF TablesValid, ReservationsValid, BindingsValid, AllocationsValid, AllocationValid,
           IndexesValid, EmptyStore, AbsentReservation, Available
  <1>3. QED BY <1>1, <1>2 DEF Sound

\* An allocation stays valid when it and its reservation are kept.
LEMMA SameAllocationValid ==
  ASSUME NEW d, NEW e, NEW u, AllocationValid(d, u),
         e.allocation[u] = d.allocation[u],
         e.reservation[d.allocation[u].id] = d.reservation[d.allocation[u].id],
         d.inventory \subseteq e.inventory
  PROVE  AllocationValid(e, u)
  <1> DEFINE a == d.allocation[u]
             r == d.reservation[a.id]
  <1>1. /\ \E item \in d.inventory : item[1] = u
        /\ a.id \in Ids
        /\ u \in InputsOf(r)
        /\ a.state = "Reserved" => r.status = "Reserved"
        /\ a.state = "Committed" => r.status \in {"Committed", "Signed"} /\ r.payload = a.payload
    BY Zenon DEF AllocationValid
  <1>2. e.allocation[u] = a /\ e.reservation[a.id] = r
    BY Zenon
  <1>3. \E item \in e.inventory : item[1] = u
    BY <1>1
  <1> HIDE DEF a, r
  <1>4. QED BY <1>1, <1>2, <1>3, Zenon DEF AllocationValid

\* A write that keeps the tables but for the time, and for items added to the
\* inventory, keeps them valid if the stored times are.
LEMMA SameTablesValid ==
  ASSUME NEW d, TablesValid(d), NEW e,
         e.reservation = d.reservation, e.allocation = d.allocation,
         e.binding = d.binding, d.inventory \subseteq e.inventory,
         e.expirations = d.expirations, e.live_quotes = d.live_quotes,
         \A id \in Ids : TimesValid(d.reservation[id], d.hwm) =>
                            TimesValid(e.reservation[id], e.hwm)
  PROVE  TablesValid(e)
  <1>1. ReservationsValid(e)
    <2> SUFFICES ASSUME NEW id \in Ids, e.reservation[id].status # "Absent"
                 PROVE  ReservationValid(e, id)
      BY DEF ReservationsValid
    <2>1. ReservationValid(d, id)
      BY DEF TablesValid, ReservationsValid
    <2>2. TimesValid(e.reservation[id], e.hwm)
      BY <2>1 DEF ReservationValid
    <2>3. RecordValid(e, id)
      BY <2>1 DEF ReservationValid, RecordValid
    <2>4. DeadlineIndexed(e, id)
      BY <2>1 DEF ReservationValid, DeadlineIndexed
    <2>5. InputsAgree(e, id)
      BY <2>1 DEF ReservationValid, InputsAgree
    <2>6. QED BY <2>2, <2>3, <2>4, <2>5 DEF ReservationValid
  <1>2. BindingsValid(e)
    BY DEF TablesValid, BindingsValid
  <1>3. AllocationsValid(e)
    <2> SUFFICES ASSUME NEW u \in Outpoints, e.allocation[u].state # "Available"
                 PROVE  AllocationValid(e, u)
      BY DEF AllocationsValid
    <2>1. AllocationValid(d, u)
      BY DEF TablesValid, AllocationsValid
    <2>2. QED BY <2>1, SameAllocationValid
  <1>4. IndexesValid(e)
    BY DEF TablesValid, IndexesValid
  <1>5. QED BY <1>1, <1>2, <1>3, <1>4 DEF TablesValid

\* Recording a clock reading keeps the tables sound.
LEMMA ObserveTimeSound ==
  ASSUME NEW d, Sound(d), NEW now \in Time, now >= d.hwm
  PROVE  /\ Sound(ObserveTime(d, now))
         /\ ObserveTime(d, now).hwm = now
  <1> DEFINE e == ObserveTime(d, now)
  <1>1. /\ e \in Store
        /\ e.hwm = now
        /\ e.reservation = d.reservation
        /\ e.allocation = d.allocation
        /\ e.binding = d.binding
        /\ e.inventory = d.inventory
        /\ e.expirations = d.expirations
        /\ e.live_quotes = d.live_quotes
    BY Zenon DEF Sound, Store, ObserveTime
  <1> HIDE DEF e
  <1>2. \A id \in Ids : d.reservation[id] \in Reservation
    BY DEF Sound, Store
  <1>3. ASSUME NEW id \in Ids, TimesValid(d.reservation[id], d.hwm)
        PROVE  TimesValid(e.reservation[id], e.hwm)
    <2>1. d.hwm \in Time \cup {NoTime}
      BY DEF Sound, Store
    <2>2. e.reservation[id] = d.reservation[id] /\ e.hwm = now
      BY <1>1
    <2>3. QED BY <1>2, <1>3, <2>1, <2>2 DEF TimesValid, Reservation
  <1>4. TablesValid(e)
    BY <1>1, <1>3, SameTablesValid DEF Sound
  <1>5. QED BY <1>1, <1>4 DEF Sound, e


\* Two sound reservations that still hold an outpoint are the same one.
LEMMA HolderUnique ==
  ASSUME NEW d, Sound(d), NEW a \in Ids, NEW b \in Ids, NEW u,
         d.reservation[a].status \in {"Reserved", "Committed", "Signed"},
         d.reservation[b].status \in {"Reserved", "Committed", "Signed"},
         u \in InputsOf(d.reservation[a]), u \in InputsOf(d.reservation[b])
  PROVE  a = b
  <1>1. ReservationValid(d, a) /\ ReservationValid(d, b)
    BY DEF Sound, TablesValid, ReservationsValid
  <1>2. d.allocation[u].id = a
    BY <1>1 DEF ReservationValid, InputsAgree, ReservedBy, CommittedTo
  <1>3. d.allocation[u].id = b
    BY <1>1 DEF ReservationValid, InputsAgree, ReservedBy, CommittedTo
  <1>4. QED BY <1>2, <1>3

\* The record updates of the writes keep the record's type.
LEMMA ReleasedType ==
  ASSUME NEW r \in Reservation, NEW reason \in Reasons, NEW now \in Time
  PROVE  Released(r, reason, now) \in Reservation
  <1>1. [r EXCEPT !.status = "Released"] \in Reservation
    BY DEF Reservation, Statuses
  <1>2. ASSUME NEW q \in Reservation PROVE [q EXCEPT !.reason = reason] \in Reservation
    BY DEF Reservation
  <1>3. ASSUME NEW q \in Reservation PROVE [q EXCEPT !.released_at = now] \in Reservation
    BY DEF Reservation
  <1>4. QED BY <1>1, <1>2, <1>3, ZenonT(30) DEF Released

\* What releasing changes in a reservation, and what it leaves.
LEMMA ReleasedFields ==
  ASSUME NEW r \in Reservation, NEW reason, NEW now
  PROVE  /\ Released(r, reason, now).status = "Released"
         /\ Released(r, reason, now).reason = reason
         /\ Released(r, reason, now).released_at = now
         /\ Released(r, reason, now).request = r.request
         /\ Released(r, reason, now).items = r.items
         /\ Released(r, reason, now).created_at = r.created_at
         /\ Released(r, reason, now).accept_before = r.accept_before
  BY DEF Reservation, Released

\* Store, field by field.
TableRecord(e) ==
    e = [inventory |-> e.inventory, allocation |-> e.allocation,
         reservation |-> e.reservation, binding |-> e.binding,
         expirations |-> e.expirations, live_quotes |-> e.live_quotes,
         revision |-> e.revision, hwm |-> e.hwm,
         item_audit |-> e.item_audit, audit |-> e.audit]

TablesTyped(e) ==
    /\ e.inventory \in SUBSET Items
    /\ \A x, y \in e.inventory : x[1] = y[1] => x = y
    /\ e.allocation \in [Outpoints -> Allocation]
    /\ e.reservation \in [Ids -> Reservation]
    /\ e.binding \in [Ids -> Requests \cup {Null}]
    /\ e.expirations \in SUBSET (Time \X Ids)
    /\ e.live_quotes \in SUBSET (Time \X Ids)
    /\ e.revision \in Nat
    /\ e.hwm \in Time \cup {NoTime}
    /\ e.item_audit \in [Outpoints -> Seq(AuditEntries)]
    /\ e.audit \in [Ids -> Seq(AuditEntries)]

\* A record of tables with their types is a store.
LEMMA StoreIntro ==
  ASSUME NEW e, TableRecord(e), TablesTyped(e)
  PROVE  e \in Store
  BY DEF Store, TableRecord, TablesTyped

\* A store is a record of tables with their types.
LEMMA StoreElim ==
  ASSUME NEW e \in Store
  PROVE  TableRecord(e) /\ TablesTyped(e)
  BY DEF Store, TableRecord, TablesTyped

\* The columns of a sound store that the proofs read most.
LEMMA SoundColumns ==
  ASSUME NEW d, Sound(d)
  PROVE  /\ d.hwm \in Int /\ d.reservation \in [Ids -> Reservation]
         /\ d.allocation \in [Outpoints -> Allocation]
         /\ d.item_audit \in [Outpoints -> Seq(AuditEntries)]
  <1>1. TablesTyped(d)
    BY StoreElim, Zenon DEF Sound
  <1>2. QED BY <1>1 DEF TablesTyped, Time, NoTime

\* Changing one table leaves a record of tables.
LEMMA TableRecordUpdate ==
  ASSUME NEW d, TableRecord(d), NEW x, NEW y
  PROVE  /\ TableRecord([d EXCEPT !.inventory = x])
         /\ TableRecord([d EXCEPT !.allocation = x])
         /\ TableRecord([d EXCEPT !.reservation[y] = x])
         /\ TableRecord([d EXCEPT !.binding[y] = x])
         /\ TableRecord([d EXCEPT !.expirations = x])
         /\ TableRecord([d EXCEPT !.live_quotes = x])
         /\ TableRecord([d EXCEPT !.revision = x])
         /\ TableRecord([d EXCEPT !.item_audit = x])
         /\ TableRecord([d EXCEPT !.audit[y] = x])
  <1>1. TableRecord([d EXCEPT !.inventory = x])
    BY DEF TableRecord
  <1>2. TableRecord([d EXCEPT !.allocation = x])
    BY DEF TableRecord
  <1>3. TableRecord([d EXCEPT !.reservation[y] = x])
    BY DEF TableRecord
  <1>4. TableRecord([d EXCEPT !.binding[y] = x])
    BY DEF TableRecord
  <1>5. TableRecord([d EXCEPT !.expirations = x])
    BY DEF TableRecord
  <1>6. TableRecord([d EXCEPT !.live_quotes = x])
    BY DEF TableRecord
  <1>7. TableRecord([d EXCEPT !.revision = x])
    BY DEF TableRecord
  <1>8. TableRecord([d EXCEPT !.item_audit = x])
    BY DEF TableRecord
  <1>9. TableRecord([d EXCEPT !.audit[y] = x])
    BY DEF TableRecord
  <1>10. QED BY <1>1, <1>2, <1>3, <1>4, <1>5, <1>6, <1>7, <1>8, <1>9

\* Releasing reserved quotes and their inputs keeps the tables sound.
LEMMA ReleaseReservedSound ==
  ASSUME Counting, NEW d, Sound(d), NEW S \in SUBSET Ids, NEW reason \in Reasons, d.hwm \in Time,
         \A id \in S : (reason = "Expired") <=> (d.hwm >= d.reservation[id].accept_before)
  PROVE  Sound(ReleaseReserved(d, S, reason, d.hwm))
  <1> DEFINE now == d.hwm
             e == ReleaseReserved(d, S, reason, now)
             r(id) == d.reservation[id]
  <1>1. CASE \E id \in S : ~HoldsItsInputs(d, id)
    BY <1>1 DEF ReleaseReserved
  <1>2. CASE \A id \in S : HoldsItsInputs(d, id)
    <2>1. Cardinality(S) \in Nat
      BY Zenon DEF Counting
    <2>2. /\ e.inventory = d.inventory
          /\ e.binding = d.binding
          /\ e.expirations = d.expirations \ DeadlineKeys(d, S)
          /\ e.live_quotes = d.live_quotes \ DeadlineKeys(d, S)
          /\ e.hwm = now
      BY <1>2 DEF ReleaseReserved, Sound, Store
    <2>a. e.allocation = [u \in Outpoints |->
                IF \E id \in S : u \in InputsOf(d.reservation[id])
                THEN Available ELSE d.allocation[u]]
      BY <1>2 DEF ReleaseReserved, Sound, Store
    <2>r. e.reservation = [id \in Ids |->
                IF id \in S
                THEN Released(d.reservation[id], reason, now)
                ELSE d.reservation[id]]
      BY <1>2 DEF ReleaseReserved, Sound, Store
    <2>3. e \in Store
      <3>1. \A id \in Ids : d.reservation[id] \in Reservation
        BY DEF Sound, Store
      <3>2. ASSUME NEW id \in Ids
            PROVE  Released(d.reservation[id], reason, now) \in Reservation
        BY <3>1, ReleasedType
      <3>3. [id \in Ids |->
                IF id \in S
                THEN Released(d.reservation[id], reason, now)
                ELSE d.reservation[id]] \in [Ids -> Reservation]
        BY <3>1, <3>2
      <3>4. Available \in Allocation
        BY DEF Allocation, Available
      <3>5. \A u \in Outpoints : d.allocation[u] \in Allocation
        BY DEF Sound, Store
      <3>6. [u \in Outpoints |->
                IF \E id \in S : u \in InputsOf(d.reservation[id])
                THEN Available ELSE d.allocation[u]] \in [Outpoints -> Allocation]
        BY <3>4, <3>5
      <3>7. d.audit \in [Ids -> Seq(AuditEntries)]
        BY DEF Sound, Store
      <3>8. AuditEntry(now, "ReservationReleased", {}, reason) \in AuditEntries
        BY DEF AuditEntry, AuditEntries, AuditEvents
      <3>9. [id \in Ids |-> IF id \in S
                THEN Append(d.audit[id], AuditEntry(now, "ReservationReleased", {}, reason))
                ELSE d.audit[id]] \in [Ids -> Seq(AuditEntries)]
        BY <3>7, <3>8
      <3>10. /\ e.audit \in [Ids -> Seq(AuditEntries)]
             /\ e.item_audit = d.item_audit
             /\ e.revision = d.revision + Cardinality(S)
        BY <1>2, <3>9 DEF ReleaseReserved, Sound, Store
      <3>11. TableRecord(e)
        BY <1>2, Zenon DEF ReleaseReserved, Sound, Store, TableRecord
      <3> HIDE DEF e
      <3>12. TablesTyped(d)
        BY StoreElim DEF Sound
      <3>13. /\ e.expirations \in SUBSET (Time \X Ids)
             /\ e.live_quotes \in SUBSET (Time \X Ids)
             /\ e.revision \in Nat
        BY <2>1, <2>2, <3>10, <3>12 DEF TablesTyped
      <3>14. /\ e.allocation \in [Outpoints -> Allocation]
             /\ e.reservation \in [Ids -> Reservation]
        BY <2>a, <2>r, <3>3, <3>6
      <3>15. /\ e.inventory = d.inventory
             /\ e.binding = d.binding
             /\ e.hwm = d.hwm
        BY <2>2
      <3>16. TablesTyped(e)
        BY <3>10, <3>12, <3>13, <3>14, <3>15 DEF TablesTyped
      <3>17. QED
        BY <3>11, <3>16, StoreIntro
    <2> HIDE DEF e
    <2>4. ASSUME NEW id \in Ids
          PROVE  /\ id \notin S => e.reservation[id] = d.reservation[id]
                 /\ id \in S =>
                      /\ d.reservation[id].status = "Reserved"
                      /\ e.reservation[id].status = "Released"
                      /\ e.reservation[id].reason = reason
                      /\ e.reservation[id].released_at = now
                      /\ e.reservation[id].created_at = d.reservation[id].created_at
                      /\ e.reservation[id].accept_before = d.reservation[id].accept_before
                      /\ e.reservation[id].items = d.reservation[id].items
                      /\ e.reservation[id].request = d.reservation[id].request
      <3>1. d.reservation[id] \in Reservation
        BY DEF Sound, Store
      <3>2. id \in S => e.reservation[id] = Released(d.reservation[id], reason, now)
        BY <2>r
      <3>3. id \notin S => e.reservation[id] = d.reservation[id]
        BY <2>r
      <3>4. id \in S => d.reservation[id].status = "Reserved"
        BY <1>2, ZenonT(30) DEF HoldsItsInputs
      <3>5. QED BY <3>1, <3>2, <3>3, <3>4, ReleasedFields
    <2>5. \A id \in Ids : InputsOf(e.reservation[id]) = InputsOf(d.reservation[id])
      BY <2>4 DEF InputsOf
    <2>6. \A u \in Outpoints :
             IF \E id \in S : u \in InputsOf(d.reservation[id])
             THEN e.allocation[u].state = "Available" /\ e.allocation[u].id = Null
             ELSE e.allocation[u] = d.allocation[u]
      BY <2>a DEF Available
    <2>7. ReservationsValid(e)
      <3> SUFFICES ASSUME NEW id \in Ids, e.reservation[id].status # "Absent"
                   PROVE  ReservationValid(e, id)
        BY DEF ReservationsValid
      <3>1. ReservationValid(d, id)
        BY <2>4 DEF Sound, TablesValid, ReservationsValid
      <3>2. InputsOf(d.reservation[id]) \subseteq Outpoints
        BY InputsOfOutpoints DEF Sound
      <3>3. CASE id \in S
        <4>1. TimesValid(d.reservation[id], d.hwm) /\ d.reservation[id] \in Reservation
          BY <3>1, Zenon DEF ReservationValid, Sound, Store
        <4>2. /\ now >= d.reservation[id].created_at
              /\ (reason = "Expired") <=> (now >= d.reservation[id].accept_before)
          BY <3>3, <4>1, Zenon DEF TimesValid
        <4>3. TimesValid(e.reservation[id], e.hwm)
          <5>1. /\ e.hwm = d.hwm
                /\ e.reservation[id].status = "Released"
                /\ e.reservation[id].reason = reason
                /\ e.reservation[id].released_at = now
                /\ e.reservation[id].created_at = d.reservation[id].created_at
                /\ e.reservation[id].accept_before = d.reservation[id].accept_before
            BY <2>2, <2>4, <3>3
          <5>2. QED BY <4>1, <4>2, <5>1 DEF TimesValid
        <4>4. <<d.reservation[id].accept_before, id>> \in DeadlineKeys(d, S)
          BY <3>3 DEF DeadlineKeys
        <4>5. \A u \in InputsOf(e.reservation[id]) : e.allocation[u].id # id
          BY <2>5, <2>6, <3>2, <3>3, NullAssumption, Zenon
        <4>6. RecordValid(e, id)
          BY <2>2, <2>4, <3>1, <3>3, Zenon DEF ReservationValid, RecordValid
        <4>7. DeadlineIndexed(e, id)
          BY <2>2, <2>4, <3>3, <4>4 DEF DeadlineIndexed
        <4>8. InputsAgree(e, id)
          BY <2>4, <3>3, <4>5 DEF InputsAgree
        <4>9. QED BY <4>3, <4>6, <4>7, <4>8, Zenon DEF ReservationValid
      <3>4. CASE id \notin S
        <4>1. <<d.reservation[id].accept_before, id>> \notin DeadlineKeys(d, S)
          BY <3>4 DEF DeadlineKeys
        <4>2. ASSUME NEW u \in InputsOf(d.reservation[id]),
                     d.reservation[id].status \in {"Reserved", "Committed", "Signed"}
              PROVE  e.allocation[u] = d.allocation[u]
          <5>1. \A x \in S : u \notin InputsOf(d.reservation[x])
            BY <2>4, <3>4, <4>2, HolderUnique
          <5>2. QED BY <2>6, <3>2, <5>1
        <4>3. ASSUME NEW u \in InputsOf(d.reservation[id]),
                     d.reservation[id].status = "Released"
              PROVE  e.allocation[u].id # id
          <5>1. d.allocation[u].id # id
            BY <3>1, <4>3 DEF ReservationValid, InputsAgree
          <5>2. QED BY <2>6, <3>2, <5>1, NullAssumption
        <4>4. e.reservation[id] = d.reservation[id]
          BY <2>4, <3>4
        <4>5. TimesValid(e.reservation[id], e.hwm)
          BY <2>2, <3>1, <4>4 DEF ReservationValid
        <4>6. RecordValid(e, id)
          BY <2>2, <3>1, <4>4 DEF ReservationValid, RecordValid
        <4>7. DeadlineIndexed(e, id)
          BY <2>2, <3>1, <4>1, <4>4 DEF ReservationValid, DeadlineIndexed
        <4>8. InputsAgree(e, id)
          BY <3>1, <4>2, <4>3, <4>4 DEF ReservationValid, InputsAgree
        <4>9. QED BY <4>5, <4>6, <4>7, <4>8 DEF ReservationValid
      <3>5. QED BY <3>3, <3>4
    <2>8. BindingsValid(e) /\ AllocationsValid(e)
      <3>1. BindingsValid(e)
        BY <2>2, <2>4, Zenon DEF BindingsValid, Sound, TablesValid
      <3>2. ASSUME NEW u \in Outpoints, e.allocation[u].state # "Available"
            PROVE  /\ e.allocation[u] = d.allocation[u]
                   /\ d.allocation[u].id \in Ids
                   /\ e.reservation[d.allocation[u].id] = d.reservation[d.allocation[u].id]
        <4>1. /\ e.allocation[u] = d.allocation[u]
              /\ \A id \in S : u \notin InputsOf(d.reservation[id])
          BY <2>6, <3>2, Zenon
        <4>2. /\ d.allocation[u].id \in Ids
              /\ u \in InputsOf(d.reservation[d.allocation[u].id])
          BY <3>2, <4>1 DEF Sound, TablesValid, AllocationsValid, AllocationValid
        <4>3. QED BY <2>4, <4>1, <4>2
      <3>3. ASSUME NEW u \in Outpoints, e.allocation[u].state # "Available"
            PROVE  AllocationValid(e, u)
        <4>1. AllocationValid(d, u)
          BY <3>2, <3>3 DEF Sound, TablesValid, AllocationsValid
        <4>2. /\ e.allocation[u] = d.allocation[u]
              /\ e.reservation[d.allocation[u].id] = d.reservation[d.allocation[u].id]
          BY <3>2, <3>3
        <4>3. e.inventory = d.inventory
          BY <2>2
        <4>4. QED BY <4>1, <4>2, <4>3, SameAllocationValid
      <3>4. QED BY <3>1, <3>3, Zenon DEF AllocationsValid
    <2>9. IndexesValid(e)
      <3> SUFFICES ASSUME NEW key \in e.expirations \cup e.live_quotes
                   PROVE  /\ e.reservation[key[2]].status = "Reserved"
                          /\ e.reservation[key[2]].accept_before = key[1]
        BY DEF IndexesValid
      <3>1. /\ key \in d.expirations \cup d.live_quotes
            /\ key \notin DeadlineKeys(d, S)
        BY <2>2, Zenon
      <3>2. key = <<key[1], key[2]>> /\ key[2] \in Ids
        BY <3>1 DEF Sound, Store
      <3>3. /\ d.reservation[key[2]].status = "Reserved"
            /\ d.reservation[key[2]].accept_before = key[1]
        BY <3>1 DEF Sound, TablesValid, IndexesValid
      <3>4. key[2] \notin S
        BY <3>1, <3>2, <3>3 DEF DeadlineKeys
      <3>5. QED BY <2>4, <3>2, <3>3, <3>4
    <2>10. QED
      BY <2>3, <2>7, <2>8, <2>9 DEF Sound, TablesValid, e
  <1>3. QED BY <1>1, <1>2

-----------------------------------------------------------------------------
(* The writes that concern one reservation, and the import. *)

\* What a write that concerns one reservation leaves as it is: the time, the
\* inventory and every other reservation with its binding.
OthersKept(d, e, id) ==
    /\ e.hwm = d.hwm
    /\ e.inventory = d.inventory
    /\ \A x \in Ids \ {id} : /\ e.reservation[x] = d.reservation[x]
                             /\ e.binding[x] = d.binding[x]

\* The indexes hold the deadline of reservation id only while it is reserved.
OwnDeadline(e, id) ==
    \A key \in e.expirations \cup e.live_quotes :
        key[2] = id => /\ e.reservation[id].status = "Reserved"
                       /\ e.reservation[id].accept_before = key[1]

\* The deadlines of the other reservations are kept.
DeadlinesKept(d, e, id) ==
    \A key : key[2] # id => /\ key \in e.expirations <=> key \in d.expirations
                            /\ key \in e.live_quotes <=> key \in d.live_quotes

\* An input the reservation does not name is left alone and is not its own.
OtherInputsKept(d, e, id) ==
    \A u \in Outpoints \ InputsOf(e.reservation[id]) :
        /\ e.allocation[u] = d.allocation[u]
        /\ e.allocation[u].state # "Available" => e.allocation[u].id # id

\* An input the reservation names was free, or its own already.
NoInputTaken(d, e, id) ==
    \A u \in InputsOf(e.reservation[id]) :
        d.allocation[u] = Available \/ d.allocation[u].id = id

\* A write that only concerns one reservation, which holds its inputs
\* afterwards and took none of them from another one, keeps the tables sound.
LEMMA OneReservationSound ==
  ASSUME NEW d, Sound(d), NEW e \in Store, NEW id \in Ids,
         e.binding[id] # Null,
         e.reservation[id].status \in {"Reserved", "Committed", "Signed"},
         ReservationValid(e, id),
         OthersKept(d, e, id), OwnDeadline(e, id), DeadlinesKept(d, e, id),
         OtherInputsKept(d, e, id), NoInputTaken(d, e, id)
  PROVE  Sound(e)
  <1>1. \A u \in InputsOf(e.reservation[id]) :
           /\ u \in Outpoints
           /\ e.allocation[u].id = id
           /\ e.allocation[u] = IF e.reservation[id].status = "Reserved" THEN ReservedBy(id)
                                ELSE CommittedTo(id, e.reservation[id].payload)
    BY InputsOfOutpoints DEF ReservationValid, InputsAgree, ReservedBy, CommittedTo
  <1>2. ReservationsValid(e)
    <2> SUFFICES ASSUME NEW x \in Ids, e.reservation[x].status # "Absent"
                 PROVE  ReservationValid(e, x)
      BY DEF ReservationsValid
    <2>1. CASE x = id
      BY <2>1, Zenon
    <2>2. CASE x # id
      <3>1. /\ e.reservation[x] = d.reservation[x]
            /\ e.binding[x] = d.binding[x]
            /\ e.hwm = d.hwm
            /\ e.inventory = d.inventory
        BY <2>2, Zenon DEF OthersKept
      <3>2. ReservationValid(d, x)
        BY <3>1 DEF Sound, TablesValid, ReservationsValid
      <3>3. \A t : /\ <<t, x>> \in e.expirations <=> <<t, x>> \in d.expirations
                   /\ <<t, x>> \in e.live_quotes <=> <<t, x>> \in d.live_quotes
        BY <2>2, Zenon DEF DeadlinesKept
      <3>4. ASSUME NEW u \in InputsOf(d.reservation[x])
            PROVE  /\ d.reservation[x].status \in {"Reserved", "Committed", "Signed"} =>
                          e.allocation[u] = d.allocation[u]
                   /\ d.reservation[x].status = "Released" => e.allocation[u].id # x
        <4>1. u \in Outpoints
          BY InputsOfOutpoints, Zenon DEF Sound
        <4>2. CASE u \in InputsOf(e.reservation[id])
          <5>1. e.allocation[u].id = id
            BY <1>1, <4>2, Zenon
          <5>2. d.allocation[u] = Available \/ d.allocation[u].id = id
            BY <4>2, Zenon DEF NoInputTaken
          <5>3. d.reservation[x].status \in {"Reserved", "Committed", "Signed"} =>
                  d.allocation[u] # Available /\ d.allocation[u].id = x
            BY <3>2, NullAssumption
            DEF ReservationValid, InputsAgree, ReservedBy, CommittedTo, Available
          <5>4. QED BY <2>2, <5>1, <5>2, <5>3, Zenon
        <4>3. CASE u \notin InputsOf(e.reservation[id])
          <5>1. e.allocation[u] = d.allocation[u]
            BY <4>1, <4>3, Zenon DEF OtherInputsKept
          <5>2. QED BY <3>2, <5>1, Zenon DEF ReservationValid, InputsAgree
        <4>4. QED BY <4>2, <4>3
      <3>5. TimesValid(e.reservation[x], e.hwm) /\ RecordValid(e, x)
        BY <3>1, <3>2, Zenon DEF ReservationValid, RecordValid
      <3>6. DeadlineIndexed(e, x)
        BY <3>1, <3>2, <3>3, Zenon DEF ReservationValid, DeadlineIndexed
      <3>7. InputsAgree(e, x)
        BY <3>1, <3>2, <3>4, ZenonT(30) DEF ReservationValid, InputsAgree
      <3>8. QED BY <3>5, <3>6, <3>7 DEF ReservationValid
    <2>3. QED BY <2>1, <2>2
  <1>3. BindingsValid(e)
    BY Zenon DEF OthersKept, BindingsValid, Sound, TablesValid
  <1>4. AllocationsValid(e)
    <2> SUFFICES ASSUME NEW u \in Outpoints, e.allocation[u].state # "Available"
                 PROVE  AllocationValid(e, u)
      BY Zenon DEF AllocationsValid
    <2>1. CASE u \in InputsOf(e.reservation[id])
      <3>1. \E item \in e.inventory : item[1] = u
        BY <2>1, Zenon DEF ReservationValid, RecordValid, InputsOf
      <3>2. QED BY <1>1, <2>1, <3>1 DEF ReservedBy, CommittedTo, AllocationValid
    <2>2. CASE u \notin InputsOf(e.reservation[id])
      <3>1. e.allocation[u] = d.allocation[u] /\ e.allocation[u].id # id
        BY <2>2, Zenon DEF OtherInputsKept
      <3>2. AllocationValid(d, u)
        BY <3>1, Zenon DEF Sound, TablesValid, AllocationsValid
      <3>3. d.allocation[u].id \in Ids \ {id}
        BY <3>1, <3>2, Zenon DEF AllocationValid
      <3>4. /\ e.reservation[d.allocation[u].id] = d.reservation[d.allocation[u].id]
            /\ e.inventory = d.inventory
        BY <3>3, Zenon DEF OthersKept
      <3>5. QED BY <3>1, <3>2, <3>4, SameAllocationValid, Zenon
    <2>3. QED BY <2>1, <2>2
  <1>5. IndexesValid(e)
    <2> SUFFICES ASSUME NEW key \in e.expirations \cup e.live_quotes
                 PROVE  /\ e.reservation[key[2]].status = "Reserved"
                        /\ e.reservation[key[2]].accept_before = key[1]
      BY Zenon DEF IndexesValid
    <2>1. CASE key[2] = id
      BY <2>1, Zenon DEF OwnDeadline
    <2>2. CASE key[2] # id
      <3>1. key[2] \in Ids
        BY Zenon DEF Store
      <3>2. key \in d.expirations \cup d.live_quotes
        BY <2>2, Zenon DEF DeadlinesKept
      <3>3. /\ d.reservation[key[2]].status = "Reserved"
            /\ d.reservation[key[2]].accept_before = key[1]
        BY <3>2, Zenon DEF Sound, TablesValid, IndexesValid
      <3>4. QED BY <2>2, <3>1, <3>3, Zenon DEF OthersKept
    <2>3. QED BY <2>1, <2>2, Zenon
  <1>6. QED BY <1>2, <1>3, <1>4, <1>5, Zenon DEF Sound, TablesValid


\* The fields of a new reservation.
LEMMA NewReservationFields ==
  ASSUME NEW request \in Requests, NEW items \in SUBSET Items,
         NEW now \in Time, NEW deadline \in Time, NEW r,
         r = NewReservation(request, items, now, deadline)
  PROVE  /\ r \in Reservation
         /\ r.status = "Reserved"
         /\ r.request = request
         /\ r.items = items
         /\ r.created_at = now
         /\ r.accept_before = deadline
  <1>1. r = [status |-> "Reserved", request |-> request, items |-> items,
             created_at |-> now, accept_before |-> deadline,
             reason |-> Null, released_at |-> NoTime,
             payload |-> Null, committed_at |-> NoTime,
             artifact |-> Null, signed_at |-> NoTime]
    BY Zenon DEF NewReservation, AbsentReservation
  <1>2. QED BY <1>1 DEF Reservation, Statuses

\* Writing a new reservation over free inputs keeps the tables sound.
LEMMA PersistNewReservationSound ==
  ASSUME NEW d, Sound(d), d.hwm \in Time, NEW id \in Ids, NEW request \in Requests,
         NEW items \in SUBSET Items, items # {}, items \subseteq d.inventory,
         \A item \in items : d.allocation[item[1]] = Available,
         d.reservation[id].status = "Absent",
         NEW deadline \in Time, d.hwm < deadline
  PROVE  Sound(PersistNewReservation(d, id, request, items, deadline, d.hwm))
  <1> DEFINE e == PersistNewReservation(d, id, request, items, deadline, d.hwm)
             r == NewReservation(request, items, d.hwm, deadline)
             entry == AuditEntry(d.hwm, "ReservationCreated", items, Null)
  <1>1. TablesTyped(d)
    BY StoreElim DEF Sound
  <1>2. /\ e.inventory = d.inventory
        /\ e.hwm = d.hwm
        /\ e.expirations = d.expirations \cup {<<deadline, id>>}
        /\ e.live_quotes = d.live_quotes \cup {<<deadline, id>>}
        /\ e.revision = d.revision + 1
        /\ e.item_audit = d.item_audit
    BY DEF PersistNewReservation, Sound, Store
  <1>3. e.binding = [d.binding EXCEPT ![id] = request]
    BY DEF PersistNewReservation, Sound, Store
  <1>4. e.reservation = [d.reservation EXCEPT ![id] = r]
    BY DEF PersistNewReservation, Sound, Store
  <1>5. e.allocation = [u \in Outpoints |->
            IF \E item \in items : item[1] = u THEN ReservedBy(id) ELSE d.allocation[u]]
    BY DEF PersistNewReservation, Sound, Store
  <1>6. e.audit = [d.audit EXCEPT ![id] = Append(@, entry)]
    BY DEF PersistNewReservation, Sound, Store
  <1>7. TableRecord(e)
    BY StoreElim, TableRecordUpdate, ZenonT(30) DEF PersistNewReservation, Sound
  <1>8. /\ r \in Reservation
        /\ r.status = "Reserved"
        /\ r.request = request
        /\ r.items = items
        /\ r.created_at = d.hwm
        /\ r.accept_before = deadline
    BY NewReservationFields
  <1> HIDE DEF e, r
  <1>9. e \in Store
    <2>1. entry \in AuditEntries
      BY Zenon DEF AuditEntry, AuditEntries, AuditEvents
    <2> HIDE DEF entry
    <2>2. e.audit \in [Ids -> Seq(AuditEntries)]
      <3>1. d.audit \in [Ids -> Seq(AuditEntries)]
        BY <1>1, Zenon DEF TablesTyped
      <3>2. [d.audit EXCEPT ![id] = Append(@, entry)] \in [Ids -> Seq(AuditEntries)]
        BY <2>1, <3>1, AuditAppended
      <3>3. QED BY <1>6, <3>2, Zenon
    <2>3. ReservedBy(id) \in Allocation
      BY Zenon DEF ReservedBy, Allocation
    <2>4. e.allocation \in [Outpoints -> Allocation]
      BY <1>1, <1>5, <2>3 DEF TablesTyped
    <2>5. e.binding \in [Ids -> Requests \cup {Null}]
      BY <1>1, <1>3, Zenon DEF TablesTyped
    <2>6. e.reservation \in [Ids -> Reservation]
      BY <1>1, <1>4, <1>8, Zenon DEF TablesTyped
    <2>7. TablesTyped(e)
      BY <1>1, <1>2, <2>2, <2>4, <2>5, <2>6 DEF TablesTyped
    <2>8. QED BY <1>7, <2>7, StoreIntro, Zenon
  <1>10. /\ e.reservation[id] = r
         /\ e.binding[id] = request
         /\ \A x \in Ids \ {id} : /\ e.reservation[x] = d.reservation[x]
                                  /\ e.binding[x] = d.binding[x]
    BY <1>1, <1>3, <1>4 DEF TablesTyped
  <1>11. InputsOf(r) = {item[1] : item \in items}
    BY <1>8 DEF InputsOf
  <1>12. \A u \in Outpoints : /\ u \in InputsOf(r) => e.allocation[u] = ReservedBy(id)
                              /\ u \notin InputsOf(r) => e.allocation[u] = d.allocation[u]
    BY <1>5, <1>11
  <1>13. InputsOf(r) \subseteq Outpoints
    BY <1>11, Zenon DEF Items
  <1>14. ReservationValid(e, id)
    <2>1. TimesValid(r, e.hwm)
      BY <1>2, <1>8 DEF TimesValid
    <2>2. QED
      BY <1>2, <1>8, <1>10, <1>12, <1>13, <2>1, NullAssumption
      DEF ReservationValid, RecordValid, DeadlineIndexed, InputsAgree
  <1>15. \A key \in e.expirations \cup e.live_quotes :
             key[2] = id => e.reservation[id].accept_before = key[1]
    <2>1. \A key \in d.expirations \cup d.live_quotes : key[2] # id
      BY DEF Sound, TablesValid, IndexesValid
    <2>2. QED BY <1>2, <1>8, <1>10, <2>1
  <1>16. \A key : key[2] # id => /\ key \in e.expirations <=> key \in d.expirations
                                 /\ key \in e.live_quotes <=> key \in d.live_quotes
    BY <1>2
  <1>17. \A u \in Outpoints : d.allocation[u].state # "Available" => d.allocation[u].id # id
    <2> SUFFICES ASSUME NEW u \in Outpoints, d.allocation[u].state # "Available"
                 PROVE  d.allocation[u].id # id
      BY Zenon
    <2>1. AllocationValid(d, u)
      BY Zenon DEF Sound, TablesValid, AllocationsValid
    <2>2. d.allocation[u] \in Allocation
      BY <1>1 DEF TablesTyped
    <2>3. QED BY <2>1, <2>2 DEF AllocationValid, Allocation
  <1>18. \A u \in InputsOf(r) : d.allocation[u] = Available
    BY <1>11, Zenon
  <1>19. OthersKept(d, e, id)
    BY <1>2, <1>10 DEF OthersKept
  <1>20. OwnDeadline(e, id)
    BY <1>8, <1>10, <1>15 DEF OwnDeadline
  <1>21. DeadlinesKept(d, e, id)
    BY <1>16, Zenon DEF DeadlinesKept
  <1>22. OtherInputsKept(d, e, id)
    BY <1>10, <1>12, <1>17 DEF OtherInputsKept
  <1>23. NoInputTaken(d, e, id)
    BY <1>10, <1>18 DEF NoInputTaken
  <1>24. e.binding[id] # Null /\ e.reservation[id].status = "Reserved"
    BY <1>8, <1>10, NullAssumption, Zenon
  <1>25. Sound(e)
    BY <1>9, <1>14, <1>19, <1>20, <1>21, <1>22, <1>23, <1>24, OneReservationSound
  <1>26. QED BY <1>25 DEF e


\* What committing changes in a reservation, and what it leaves.
LEMMA CommittedFields ==
  ASSUME NEW r \in Reservation, NEW payload \in Payloads, NEW now \in Time, NEW q,
         q = Committed(r, payload, now)
  PROVE  /\ q \in Reservation
         /\ q.status = "Committed"
         /\ q.payload = payload
         /\ q.committed_at = now
         /\ q.request = r.request
         /\ q.items = r.items
         /\ q.created_at = r.created_at
         /\ q.accept_before = r.accept_before
  <1>1. [r EXCEPT !.status = "Committed"] \in Reservation
    BY DEF Reservation, Statuses
  <1>2. ASSUME NEW x \in Reservation PROVE [x EXCEPT !.payload = payload] \in Reservation
    BY DEF Reservation
  <1>3. ASSUME NEW x \in Reservation PROVE [x EXCEPT !.committed_at = now] \in Reservation
    BY DEF Reservation
  <1>4. q \in Reservation
    BY <1>1, <1>2, <1>3, Zenon DEF Committed
  <1>5. QED BY <1>4 DEF Reservation, Committed

\* Committing a payload keeps the tables sound.
LEMMA CommitIntentSound ==
  ASSUME NEW d, Sound(d), d.hwm \in Time, NEW id \in Ids, NEW payload \in FeeAccepted,
         HoldsItsInputs(d, id), d.hwm < d.reservation[id].accept_before
  PROVE  Sound(CommitIntent(d, id, payload, d.hwm))
  <1> DEFINE e == CommitIntent(d, id, payload, d.hwm)
             r == d.reservation[id]
             q == Committed(r, payload, d.hwm)
             entry == AuditEntry(d.hwm, "SigningCommitted", {}, payload)
  <1>1. TablesTyped(d) /\ TableRecord(d)
    BY StoreElim DEF Sound
  <1>2. /\ e.inventory = d.inventory
        /\ e.binding = d.binding
        /\ e.hwm = d.hwm
        /\ e.expirations = d.expirations \ {<<r.accept_before, id>>}
        /\ e.live_quotes = d.live_quotes \ {<<r.accept_before, id>>}
        /\ e.revision = d.revision + 1
        /\ e.item_audit = d.item_audit
    BY DEF CommitIntent, Sound, Store
  <1>3. e.reservation = [d.reservation EXCEPT ![id] = q]
    BY DEF CommitIntent, Sound, Store
  <1>4. e.allocation = [u \in Outpoints |->
            IF u \in InputsOf(r) THEN CommittedTo(id, payload) ELSE d.allocation[u]]
    BY DEF CommitIntent, Sound, Store
  <1>5. e.audit = [d.audit EXCEPT ![id] = Append(@, entry)]
    BY DEF CommitIntent, Sound, Store
  <1>6. TableRecord(e)
    BY <1>1, TableRecordUpdate, ZenonT(30) DEF CommitIntent
  <1>7. payload \in Payloads /\ r \in Reservation
    BY <1>1, ConstantsAssumption, Zenon DEF TablesTyped
  <1>8. /\ q \in Reservation
        /\ q.status = "Committed"
        /\ q.payload = payload
        /\ q.committed_at = d.hwm
        /\ q.request = r.request
        /\ q.items = r.items
        /\ q.created_at = r.created_at
        /\ q.accept_before = r.accept_before
    BY <1>7, CommittedFields
  <1>9. r.status = "Reserved" /\ ReservationValid(d, id)
    BY Zenon DEF HoldsItsInputs, Sound, TablesValid, ReservationsValid
  <1> HIDE DEF e, q
  <1>10. e \in Store
    <2>1. entry \in AuditEntries
      BY <1>7, Zenon DEF AuditEntry, AuditEntries, AuditEvents
    <2> HIDE DEF entry
    <2>2. e.audit \in [Ids -> Seq(AuditEntries)]
      <3>1. d.audit \in [Ids -> Seq(AuditEntries)]
        BY <1>1, Zenon DEF TablesTyped
      <3>2. [d.audit EXCEPT ![id] = Append(@, entry)] \in [Ids -> Seq(AuditEntries)]
        BY <2>1, <3>1, AuditAppended
      <3>3. QED BY <1>5, <3>2, Zenon
    <2>3. CommittedTo(id, payload) \in Allocation
      BY <1>7, Zenon DEF CommittedTo, Allocation
    <2>4. e.allocation \in [Outpoints -> Allocation]
      BY <1>1, <1>4, <2>3 DEF TablesTyped
    <2>5. e.reservation \in [Ids -> Reservation]
      BY <1>1, <1>3, <1>8, Zenon DEF TablesTyped
    <2>6. TablesTyped(e)
      BY <1>1, <1>2, <2>2, <2>4, <2>5 DEF TablesTyped
    <2>7. QED BY <1>6, <2>6, StoreIntro
  <1>11. /\ e.reservation[id] = q
         /\ \A x \in Ids \ {id} : e.reservation[x] = d.reservation[x]
    BY <1>1, <1>3, Zenon DEF TablesTyped
  <1>12. InputsOf(q) = InputsOf(r) /\ InputsOf(r) \subseteq Outpoints
    BY <1>8, InputsOfOutpoints DEF InputsOf, Sound
  <1>13. \A u \in Outpoints :
             /\ u \in InputsOf(q) => e.allocation[u] = CommittedTo(id, payload)
             /\ u \notin InputsOf(q) => e.allocation[u] = d.allocation[u]
    BY <1>4, <1>12
  <1>14. ReservationValid(e, id)
    <2>1. TimesValid(r, d.hwm)
      BY <1>9, ZenonT(30) DEF ReservationValid
    <2>2. TimesValid(q, e.hwm)
      BY <1>2, <1>7, <1>8, <2>1 DEF TimesValid, Reservation
    <2>3. RecordValid(e, id)
      BY <1>2, <1>8, <1>9, <1>11, Zenon DEF ReservationValid, RecordValid
    <2>4. DeadlineIndexed(e, id)
      BY <1>2, <1>8, <1>11, Zenon DEF DeadlineIndexed
    <2>5. InputsAgree(e, id)
      BY <1>8, <1>11, <1>12, <1>13, Zenon DEF InputsAgree
    <2>6. QED BY <1>11, <2>2, <2>3, <2>4, <2>5 DEF ReservationValid
  <1>15. \A key \in e.expirations \cup e.live_quotes : key[2] # id
    <2>1. \A key \in d.expirations \cup d.live_quotes :
             key[2] = id => key = <<r.accept_before, id>>
      BY <1>1 DEF Sound, TablesValid, IndexesValid, TablesTyped
    <2>2. QED BY <1>2, <2>1, Zenon
  <1>16. \A key : key[2] # id => /\ key \in e.expirations <=> key \in d.expirations
                                 /\ key \in e.live_quotes <=> key \in d.live_quotes
    BY <1>2
  <1>17. \A u \in Outpoints \ InputsOf(q) :
             d.allocation[u].state # "Available" => d.allocation[u].id # id
    BY <1>12, ZenonT(20) DEF Sound, TablesValid, AllocationsValid, AllocationValid
  <1>18. \A u \in InputsOf(q) : d.allocation[u].id = id
    BY <1>12 DEF HoldsItsInputs, ReservedBy
  <1>19. e.binding[id] # Null
    BY <1>2, <1>9 DEF ReservationValid, RecordValid
  <1>20. OthersKept(d, e, id)
    BY <1>2, <1>11 DEF OthersKept
  <1>21. OwnDeadline(e, id)
    BY <1>15 DEF OwnDeadline
  <1>22. DeadlinesKept(d, e, id)
    BY <1>16, Zenon DEF DeadlinesKept
  <1>23. OtherInputsKept(d, e, id)
    BY <1>11, <1>13, <1>17 DEF OtherInputsKept
  <1>24. NoInputTaken(d, e, id)
    BY <1>11, <1>18 DEF NoInputTaken
  <1>25. e.reservation[id].status = "Committed"
    BY <1>8, <1>11, Zenon
  <1>26. Sound(e)
    BY <1>10, <1>14, <1>19, <1>20, <1>21, <1>22, <1>23, <1>24, <1>25, OneReservationSound
  <1>27. QED BY <1>26 DEF e


\* What signing changes in a reservation, and what it leaves.
LEMMA SignedFields ==
  ASSUME NEW r \in Reservation, NEW artifact \in Artifacts, NEW now \in Time, NEW q,
         q = Signed(r, artifact, now)
  PROVE  /\ q \in Reservation
         /\ q.status = "Signed"
         /\ q.artifact = artifact
         /\ q.signed_at = now
         /\ q.payload = r.payload
         /\ q.committed_at = r.committed_at
         /\ q.request = r.request
         /\ q.items = r.items
         /\ q.created_at = r.created_at
         /\ q.accept_before = r.accept_before
  <1>1. [r EXCEPT !.status = "Signed"] \in Reservation
    BY DEF Reservation, Statuses
  <1>2. ASSUME NEW x \in Reservation PROVE [x EXCEPT !.artifact = artifact] \in Reservation
    BY DEF Reservation
  <1>3. ASSUME NEW x \in Reservation PROVE [x EXCEPT !.signed_at = now] \in Reservation
    BY DEF Reservation
  <1>4. q \in Reservation
    BY <1>1, <1>2, <1>3, Zenon DEF Signed
  <1>5. QED BY <1>4 DEF Reservation, Signed

\* Storing a signed artifact keeps the tables sound.
LEMMA RecordSignedSound ==
  ASSUME NEW d, Sound(d), d.hwm \in Time, NEW id \in Ids, NEW payload,
         NEW artifact \in Artifacts
  PROVE  Sound(RecordSigned(d, id, payload, artifact, d.hwm))
  <1> DEFINE e == RecordSigned(d, id, payload, artifact, d.hwm)
             r == d.reservation[id]
             q == Signed(r, artifact, d.hwm)
             entry == AuditEntry(d.hwm, "SignedArtifactStored", {}, artifact)
             accepted == /\ r.status = "Committed"
                         /\ r.payload = payload
                         /\ CommittedAllocations(d, id)
  <1>1. CASE ~accepted
    BY <1>1 DEF RecordSigned
  <1>2. CASE accepted
    <2>1. TablesTyped(d) /\ TableRecord(d)
      BY StoreElim DEF Sound
    <2>2. /\ e.inventory = d.inventory
          /\ e.allocation = d.allocation
          /\ e.binding = d.binding
          /\ e.hwm = d.hwm
          /\ e.expirations = d.expirations
          /\ e.live_quotes = d.live_quotes
          /\ e.revision = d.revision
          /\ e.item_audit = d.item_audit
      BY <1>2 DEF RecordSigned, Sound, Store
    <2>3. e.reservation = [d.reservation EXCEPT ![id] = q]
      BY <1>2 DEF RecordSigned, Sound, Store
    <2>4. e.audit = [d.audit EXCEPT ![id] = Append(@, entry)]
      BY <1>2 DEF RecordSigned, Sound, Store
    <2>5. TableRecord(e)
      BY <1>2, <2>1, TableRecordUpdate, ZenonT(30) DEF RecordSigned
    <2>6. r \in Reservation
      BY <2>1, Zenon DEF TablesTyped
    <2>7. /\ q \in Reservation
          /\ q.status = "Signed"
          /\ q.artifact = artifact
          /\ q.signed_at = d.hwm
          /\ q.payload = r.payload
          /\ q.committed_at = r.committed_at
          /\ q.request = r.request
          /\ q.items = r.items
          /\ q.created_at = r.created_at
          /\ q.accept_before = r.accept_before
      BY <2>6, SignedFields
    <2>8. r.status = "Committed" /\ ReservationValid(d, id)
      BY <1>2 DEF Sound, TablesValid, ReservationsValid
    <2> HIDE DEF e, q
    <2>9. e \in Store
      <3>1. entry \in AuditEntries
        BY ZenonT(30) DEF AuditEntry, AuditEntries, AuditEvents
      <3> HIDE DEF entry
      <3>2. e.audit \in [Ids -> Seq(AuditEntries)]
        <4>1. d.audit \in [Ids -> Seq(AuditEntries)]
          BY <2>1, Zenon DEF TablesTyped
        <4>2. [d.audit EXCEPT ![id] = Append(@, entry)] \in [Ids -> Seq(AuditEntries)]
          BY <3>1, <4>1, AuditAppended
        <4>3. QED BY <2>4, <4>2, Zenon
      <3>3. e.reservation \in [Ids -> Reservation]
        BY <2>1, <2>3, <2>7, Zenon DEF TablesTyped
      <3>4. TablesTyped(e)
        BY <2>1, <2>2, <3>2, <3>3, Zenon DEF TablesTyped
      <3>5. QED BY <2>5, <3>4, StoreIntro, Zenon
    <2>10. /\ e.reservation[id] = q
           /\ \A x \in Ids \ {id} : e.reservation[x] = d.reservation[x]
      BY <2>1, <2>3, Zenon DEF TablesTyped
    <2>11. InputsOf(q) = InputsOf(r)
      BY <2>7, Zenon DEF InputsOf
    <2>12. ReservationValid(e, id)
      <3>1. TimesValid(r, d.hwm)
        BY <2>8, Zenon DEF ReservationValid
      <3>2. TimesValid(q, e.hwm)
        <4>1. /\ r.created_at \in Int /\ r.accept_before \in Int /\ d.hwm \in Int
              /\ r.committed_at \in Int
          BY <2>6, <2>1 DEF TablesTyped, Reservation, Time, NoTime
        <4>2. QED BY <2>2, <2>7, <2>8, <3>1, <4>1 DEF TimesValid
      <3>3. QED
        <4>1. RecordValid(e, id)
          BY <2>2, <2>7, <2>8, <2>10, NullAssumption, Zenon DEF ReservationValid, RecordValid
        <4>2. DeadlineIndexed(e, id)
          BY <2>2, <2>7, <2>8, <2>10, Zenon DEF ReservationValid, DeadlineIndexed
        <4>3. InputsAgree(e, id)
          BY <2>2, <2>7, <2>8, <2>10, <2>11, ZenonT(30) DEF ReservationValid, InputsAgree
        <4>4. QED BY <2>10, <3>2, <4>1, <4>2, <4>3, Zenon DEF ReservationValid
    <2>13. \A key \in e.expirations \cup e.live_quotes : key[2] # id
      BY <2>2, <2>8, Zenon DEF Sound, TablesValid, IndexesValid
    <2>14. \A u \in Outpoints \ InputsOf(q) :
               d.allocation[u].state # "Available" => d.allocation[u].id # id
      BY <2>11, Zenon DEF Sound, TablesValid, AllocationsValid, AllocationValid
    <2>15. \A u \in InputsOf(q) : d.allocation[u].id = id
      BY <2>8, <2>11 DEF ReservationValid, InputsAgree, CommittedTo
    <2>16. e.binding[id] # Null
      BY <2>2, <2>8, Zenon DEF ReservationValid, RecordValid
    <2>17. OthersKept(d, e, id)
      BY <2>2, <2>10 DEF OthersKept
    <2>18. OwnDeadline(e, id) /\ DeadlinesKept(d, e, id)
      BY <2>2, <2>13, Zenon DEF OwnDeadline, DeadlinesKept
    <2>19. OtherInputsKept(d, e, id) /\ NoInputTaken(d, e, id)
      BY <2>2, <2>10, <2>14, <2>15, ZenonT(30) DEF OtherInputsKept, NoInputTaken
    <2>20. e.reservation[id].status = "Signed"
      BY <2>7, <2>10, Zenon
    <2>21. Sound(e)
      BY <2>9, <2>12, <2>16, <2>17, <2>18, <2>19, <2>20, OneReservationSound
    <2>22. QED BY <2>21 DEF e
  <1>3. QED BY <1>1, <1>2

\* Importing a scan of the inventory keeps the tables sound.
LEMMA ImportInventorySound ==
  ASSUME NEW d, Sound(d), d.hwm \in Time, NEW items \in SUBSET Items,
         \A x, y \in items : x[1] = y[1] => x = y
  PROVE  Sound(ImportInventory(d, items, d.hwm))
  <1> DEFINE e == ImportInventory(d, items, d.hwm)
             fresh(u) == {item \in items \ d.inventory : item[1] = u}
             entry(u) == AuditEntry(d.hwm, "InventoryImported", fresh(u), Null)
  <1>1. CASE ConflictsWith(d, items)
    BY <1>1 DEF ImportInventory
  <1>2. CASE ~ConflictsWith(d, items)
    <2>1. TablesTyped(d) /\ TableRecord(d)
      BY StoreElim DEF Sound
    <2>2. /\ e.inventory = d.inventory \cup items
          /\ e.allocation = d.allocation
          /\ e.reservation = d.reservation
          /\ e.binding = d.binding
          /\ e.hwm = d.hwm
          /\ e.expirations = d.expirations
          /\ e.live_quotes = d.live_quotes
          /\ e.revision = d.revision
          /\ e.audit = d.audit
      BY <1>2 DEF ImportInventory, Sound, Store
    <2>3. e.item_audit = [u \in Outpoints |->
              IF fresh(u) # {} THEN Append(d.item_audit[u], entry(u)) ELSE d.item_audit[u]]
      BY <1>2 DEF ImportInventory, Sound, Store
    <2>4. TableRecord(e)
      BY <1>2, <2>1, TableRecordUpdate, ZenonT(30) DEF ImportInventory
    <2> HIDE DEF e
    <2>5. e \in Store
      <3>1. \A u \in Outpoints : entry(u) \in AuditEntries
        BY Zenon DEF AuditEntry, AuditEntries, AuditEvents
      <3> HIDE DEF entry, fresh
      <3>2. e.item_audit \in [Outpoints -> Seq(AuditEntries)]
        BY <2>1, <2>3, <3>1 DEF TablesTyped
      <3>3. \A x, y \in e.inventory : x[1] = y[1] => x = y
        BY <1>2, <2>1, <2>2, Zenon DEF ConflictsWith, TablesTyped
      <3>4. TablesTyped(e)
        BY <2>1, <2>2, <3>2, <3>3, Zenon DEF TablesTyped
      <3>5. QED BY <2>4, <3>4, StoreIntro, Zenon
    <2>6. TablesValid(e)
      BY <2>2, SameTablesValid, Zenon DEF Sound
    <2>7. QED BY <2>5, <2>6 DEF Sound, e
  <1>3. QED BY <1>1, <1>2

-----------------------------------------------------------------------------
(* No write undoes what was committed, bound or recorded. *)

\* What every write respects.
Forward(d, e) ==
    /\ Irrevocable(d, e)
    /\ KeyUsedOnce(d, e)
    /\ ClockKept(d, e)
    /\ e.hwm \in Int

\* A step that changes nothing goes forward.
LEMMA ForwardReflexive ==
  ASSUME NEW d, Sound(d)
  PROVE  Forward(d, d)
  BY DEF Forward, Irrevocable, KeyUsedOnce, ClockKept, Sound, Store

\* A write made after the clock reading was recorded.
LEMMA ForwardAfterObserve ==
  ASSUME NEW d, Sound(d), NEW now \in Time, now >= d.hwm,
         NEW e, Forward(ObserveTime(d, now), e)
  PROVE  Forward(d, e)
  <1>1. /\ ObserveTime(d, now).hwm = now
        /\ ObserveTime(d, now).reservation = d.reservation
        /\ ObserveTime(d, now).allocation = d.allocation
        /\ ObserveTime(d, now).binding = d.binding
    BY DEF ObserveTime, Sound, Store
  <1>2. e.hwm >= d.hwm
    <2>1. d.hwm \in Int /\ now \in Int /\ e.hwm \in Int
      BY SoundColumns DEF Forward, Time
    <2>2. e.hwm >= now
      BY <1>1, Zenon DEF Forward, ClockKept
    <2>3. QED BY <2>1, <2>2
  <1>3. QED BY <1>1, <1>2 DEF Forward, Irrevocable, KeyUsedOnce, ClockKept

\* Releasing reserved quotes and their inputs undoes nothing and keeps the clock.
LEMMA ReleaseReservedForward ==
  ASSUME NEW d, Sound(d), NEW S \in SUBSET Ids, NEW reason
  PROVE  Forward(d, ReleaseReserved(d, S, reason, d.hwm))
  <1> DEFINE e == ReleaseReserved(d, S, reason, d.hwm)
  <1>1. CASE \E id \in S : ~HoldsItsInputs(d, id)
    BY <1>1, ForwardReflexive, Zenon DEF ReleaseReserved
  <1>2. CASE \A id \in S : HoldsItsInputs(d, id)
    <2>1. e.binding = d.binding /\ e.hwm = d.hwm /\ d.hwm \in Int
      BY <1>2 DEF ReleaseReserved, Sound, Store
    <2>2. e.allocation = [u \in Outpoints |->
                IF \E id \in S : u \in InputsOf(d.reservation[id])
                THEN Available ELSE d.allocation[u]]
      BY <1>2 DEF ReleaseReserved, Sound, Store
    <2>3. e.reservation = [id \in Ids |->
                IF id \in S THEN Released(d.reservation[id], reason, d.hwm)
                ELSE d.reservation[id]]
      BY <1>2, Zenon DEF ReleaseReserved, Sound, Store
    <2> HIDE DEF e
    <2>4. ASSUME NEW id \in Ids
          PROVE  /\ id \notin S => e.reservation[id] = d.reservation[id]
                 /\ id \in S =>
                      /\ d.reservation[id].status = "Reserved"
                      /\ e.reservation[id].status = "Released"
                      /\ e.reservation[id].released_at = d.hwm
                      /\ e.reservation[id].items = d.reservation[id].items
                      /\ e.reservation[id].accept_before = d.reservation[id].accept_before
      <3>1. d.reservation[id] \in Reservation
        BY DEF Sound, Store
      <3>2. id \in S => d.reservation[id].status = "Reserved"
        BY <1>2, ZenonT(30) DEF HoldsItsInputs
      <3>3. QED BY <2>3, <3>1, <3>2, ReleasedFields
    <2>5. ASSUME NEW u \in Outpoints, d.allocation[u].state = "Committed"
          PROVE  e.allocation[u] = d.allocation[u]
      <3>1. ASSUME NEW id \in S, NEW v \in InputsOf(d.reservation[id])
            PROVE  d.allocation[v].state = "Reserved"
        <4>1. HoldsItsInputs(d, id)
          BY <1>2
        <4>2. d.allocation[v] = ReservedBy(id)
          BY <4>1 DEF HoldsItsInputs
        <4>3. QED BY <4>2 DEF ReservedBy
      <3>2. \A id \in S : u \notin InputsOf(d.reservation[id])
        BY <2>5, <3>1, Zenon
      <3>3. QED BY <2>2, <3>2, Zenon
    <2>6. Irrevocable(d, e)
      BY <2>4, <2>5, Zenon DEF Irrevocable
    <2>7. KeyUsedOnce(d, e)
      BY <2>1, <2>4 DEF KeyUsedOnce
    <2>8. ClockKept(d, e)
      BY <2>1, <2>4 DEF ClockKept, StatusSince
    <2>9. QED BY <2>1, <2>6, <2>7, <2>8 DEF Forward, e
  <1>3. QED BY <1>1, <1>2

\* A write that only concerns one reservation is forward when it moves that
\* reservation along its lifecycle and takes over no committed outpoint.
LEMMA OneReservationForward ==
  ASSUME NEW d, Sound(d), NEW e, NEW id \in Ids, e.hwm = d.hwm,
         \A x \in Ids \ {id} : /\ e.reservation[x] = d.reservation[x]
                               /\ e.binding[x] = d.binding[x],
         \A u \in Outpoints :
             d.allocation[u].state = "Committed" => e.allocation[u] = d.allocation[u],
         d.reservation[id].status \notin {"Released", "Signed"},
         d.reservation[id].status = "Committed" =>
             /\ e.reservation[id].status = "Signed"
             /\ e.reservation[id].payload = d.reservation[id].payload,
         d.binding[id] # Null =>
             /\ e.binding[id] = d.binding[id]
             /\ e.reservation[id].items = d.reservation[id].items
             /\ e.reservation[id].accept_before = d.reservation[id].accept_before,
         StatusSince(e.reservation[id]) = d.hwm
  PROVE  Forward(d, e)
  <1>1. d.hwm \in Int
    BY DEF Sound, Store
  <1>2. Irrevocable(d, e)
    BY Zenon DEF Irrevocable
  <1>3. KeyUsedOnce(d, e)
    BY Zenon DEF KeyUsedOnce
  <1>4. ClockKept(d, e)
    BY <1>1 DEF ClockKept
  <1>5. QED BY <1>1, <1>2, <1>3, <1>4, Zenon DEF Forward

\* Writing a new reservation over free inputs undoes nothing and keeps the clock.
LEMMA PersistNewReservationForward ==
  ASSUME NEW d, Sound(d), d.hwm \in Time, NEW id \in Ids, NEW request \in Requests,
         NEW items \in SUBSET Items, NEW deadline \in Time,
         \A item \in items : d.allocation[item[1]] = Available,
         d.reservation[id].status = "Absent"
  PROVE  Forward(d, PersistNewReservation(d, id, request, items, deadline, d.hwm))
  <1> DEFINE e == PersistNewReservation(d, id, request, items, deadline, d.hwm)
             r == NewReservation(request, items, d.hwm, deadline)
  <1>1. TablesTyped(d)
    BY StoreElim DEF Sound
  <1>2. e.hwm = d.hwm /\ e.binding = [d.binding EXCEPT ![id] = request]
    BY DEF PersistNewReservation, Sound, Store
  <1>3. e.reservation = [d.reservation EXCEPT ![id] = r]
    BY DEF PersistNewReservation, Sound, Store
  <1>4. e.allocation = [u \in Outpoints |->
            IF \E item \in items : item[1] = u THEN ReservedBy(id) ELSE d.allocation[u]]
    BY Zenon DEF PersistNewReservation, Sound, Store
  <1>5. r.status = "Reserved" /\ r.created_at = d.hwm
    BY NewReservationFields
  <1> HIDE DEF e, r
  <1>6. /\ e.reservation[id] = r
        /\ \A x \in Ids \ {id} : /\ e.reservation[x] = d.reservation[x]
                                 /\ e.binding[x] = d.binding[x]
    BY <1>1, <1>2, <1>3 DEF TablesTyped
  <1>7. \A u \in Outpoints :
            d.allocation[u].state = "Committed" => e.allocation[u] = d.allocation[u]
    <2>1. ASSUME NEW u \in Outpoints, d.allocation[u].state = "Committed"
          PROVE  e.allocation[u] = d.allocation[u]
      <3>1. d.allocation[u] # Available
        BY <2>1 DEF Available
      <3>2. ~\E item \in items : item[1] = u
        BY <3>1, Zenon
      <3>3. QED BY <1>4, <3>2, Zenon
    <2>2. QED BY <2>1
  <1>8. d.binding[id] = Null
    BY DEF Sound, TablesValid, BindingsValid
  <1>9. StatusSince(e.reservation[id]) = d.hwm
    BY <1>5, <1>6 DEF StatusSince
  <1>10. e.hwm = d.hwm /\ d.reservation[id].status \notin {"Committed", "Released", "Signed"}
    BY <1>2, Zenon
  <1>11. Forward(d, e)
    BY <1>6, <1>7, <1>8, <1>9, <1>10, OneReservationForward
  <1>12. QED BY <1>11, Zenon DEF e

\* Committing a payload undoes nothing and keeps the clock.
LEMMA CommitIntentForward ==
  ASSUME NEW d, Sound(d), d.hwm \in Time, NEW id \in Ids, NEW payload \in Payloads,
         HoldsItsInputs(d, id)
  PROVE  Forward(d, CommitIntent(d, id, payload, d.hwm))
  <1> DEFINE e == CommitIntent(d, id, payload, d.hwm)
             r == d.reservation[id]
             q == Committed(r, payload, d.hwm)
  <1>1. TablesTyped(d)
    BY StoreElim DEF Sound
  <1>2. e.hwm = d.hwm /\ e.binding = d.binding
    BY DEF CommitIntent, Sound, Store
  <1>3. e.reservation = [d.reservation EXCEPT ![id] = q]
    BY DEF CommitIntent, Sound, Store
  <1>4. e.allocation = [u \in Outpoints |->
            IF u \in InputsOf(r) THEN CommittedTo(id, payload) ELSE d.allocation[u]]
    BY Zenon DEF CommitIntent, Sound, Store
  <1>5. /\ q.status = "Committed"
        /\ q.committed_at = d.hwm
        /\ q.items = r.items
        /\ q.accept_before = r.accept_before
    BY <1>1, CommittedFields DEF TablesTyped
  <1> HIDE DEF e, q
  <1>6. /\ e.reservation[id] = q
        /\ \A x \in Ids \ {id} : e.reservation[x] = d.reservation[x]
    <2>1. d.reservation \in [Ids -> Reservation]
      BY <1>1, Zenon DEF TablesTyped
    <2>2. QED BY <1>3, <2>1
  <1>7. \A u \in Outpoints :
            d.allocation[u].state = "Committed" => e.allocation[u] = d.allocation[u]
    <2>1. \A u \in InputsOf(r) : d.allocation[u].state = "Reserved"
      BY DEF HoldsItsInputs, ReservedBy
    <2>2. QED BY <1>4, <2>1, Zenon
  <1>8. r.status = "Reserved"
    BY DEF HoldsItsInputs
  <1>9. StatusSince(e.reservation[id]) = d.hwm
    BY <1>5, <1>6, Zenon DEF StatusSince
  <1>10. Forward(d, e)
    BY <1>2, <1>5, <1>6, <1>7, <1>8, <1>9, OneReservationForward
  <1>11. QED BY <1>10 DEF e

\* Storing a signed artifact undoes nothing and keeps the clock.
LEMMA RecordSignedForward ==
  ASSUME NEW d, Sound(d), d.hwm \in Time, NEW id \in Ids, NEW payload,
         NEW artifact \in Artifacts
  PROVE  Forward(d, RecordSigned(d, id, payload, artifact, d.hwm))
  <1> DEFINE e == RecordSigned(d, id, payload, artifact, d.hwm)
             r == d.reservation[id]
             q == Signed(r, artifact, d.hwm)
             accepted == /\ r.status = "Committed"
                         /\ r.payload = payload
                         /\ CommittedAllocations(d, id)
  <1>1. CASE ~accepted
    BY <1>1, ForwardReflexive DEF RecordSigned
  <1>2. CASE accepted
    <2>1. TablesTyped(d)
      BY StoreElim DEF Sound
    <2>2. e.hwm = d.hwm /\ e.binding = d.binding /\ e.allocation = d.allocation
      BY <1>2, Zenon DEF RecordSigned, Sound, Store
    <2>3. e.reservation = [d.reservation EXCEPT ![id] = q]
      BY <1>2 DEF RecordSigned, Sound, Store
    <2>4. /\ q.status = "Signed"
          /\ q.signed_at = d.hwm
          /\ q.payload = r.payload
          /\ q.items = r.items
          /\ q.accept_before = r.accept_before
      BY <2>1, SignedFields DEF TablesTyped
    <2> HIDE DEF e, q
    <2>5. /\ e.reservation[id] = q
          /\ \A x \in Ids \ {id} : e.reservation[x] = d.reservation[x]
      BY <2>1, <2>3 DEF TablesTyped
    <2>6. StatusSince(e.reservation[id]) = d.hwm
      BY <2>4, <2>5, Zenon DEF StatusSince
    <2>7. Forward(d, e)
      BY <1>2, <2>2, <2>4, <2>5, <2>6, OneReservationForward
    <2>8. QED BY <2>7 DEF e
  <1>3. QED BY <1>1, <1>2

\* Importing a scan of the inventory undoes nothing and keeps the clock.
LEMMA ImportInventoryForward ==
  ASSUME NEW d, Sound(d), NEW items
  PROVE  Forward(d, ImportInventory(d, items, d.hwm))
  <1> DEFINE e == ImportInventory(d, items, d.hwm)
  <1>1. /\ e.hwm = d.hwm
        /\ e.reservation = d.reservation
        /\ e.allocation = d.allocation
        /\ e.binding = d.binding
    BY DEF ImportInventory, Sound, Store
  <1>2. Forward(d, d)
    BY ForwardReflexive
  <1> HIDE DEF e
  <1>3. Forward(d, e)
    BY <1>1, <1>2, Zenon DEF Forward, Irrevocable, KeyUsedOnce, ClockKept
  <1>4. QED BY <1>3 DEF e

-----------------------------------------------------------------------------
(* Every write appends exactly the audit entries its change calls for. *)

\* The tables are sound and the audit log is the one they call for.
Audited(d) == Sound(d) /\ AuditValid(d)

\* The history of a reservation grows by one entry per change of status.
LEMMA ShapeGrows ==
  ASSUME NEW r, NEW q, q.created_at = r.created_at, q.items = r.items
  PROVE  /\ r.status = "Reserved" /\ q.status = "Released" =>
              AuditShape(q) = Append(AuditShape(r),
                  AuditEntry(q.released_at, "ReservationReleased", {}, q.reason))
         /\ r.status = "Reserved" /\ q.status = "Committed" =>
              AuditShape(q) = Append(AuditShape(r),
                  AuditEntry(q.committed_at, "SigningCommitted", {}, q.payload))
         /\ ( /\ r.status = "Committed" /\ q.status = "Signed"
              /\ q.committed_at = r.committed_at /\ q.payload = r.payload ) =>
              AuditShape(q) = Append(AuditShape(r),
                  AuditEntry(q.signed_at, "SignedArtifactStored", {}, q.artifact))
  <1> DEFINE c == AuditEntry(r.created_at, "ReservationCreated", r.items, Null)
  <1> HIDE DEF c
  <1>1. ASSUME r.status = "Reserved" PROVE AuditShape(r) = <<c>>
    BY <1>1 DEF AuditShape, c
  <1>2. ASSUME r.status = "Reserved", q.status = "Released"
        PROVE  AuditShape(q) = Append(<<c>>,
                  AuditEntry(q.released_at, "ReservationReleased", {}, q.reason))
    BY <1>2 DEF AuditShape, c
  <1>3. ASSUME r.status = "Reserved", q.status = "Committed"
        PROVE  AuditShape(q) = Append(<<c>>,
                  AuditEntry(q.committed_at, "SigningCommitted", {}, q.payload))
    BY <1>3 DEF AuditShape, c
  <1>4. ASSUME r.status = "Committed", q.status = "Signed",
               q.committed_at = r.committed_at, q.payload = r.payload
        PROVE  AuditShape(q) = Append(AuditShape(r),
                  AuditEntry(q.signed_at, "SignedArtifactStored", {}, q.artifact))
    BY <1>4 DEF AuditShape
  <1>5. QED BY <1>1, <1>2, <1>3, <1>4, Zenon

\* Recording a clock reading keeps the audit log in step with the tables.
LEMMA ObserveTimeAudited ==
  ASSUME NEW d, Audited(d), NEW now \in Time, now >= d.hwm
  PROVE  Audited(ObserveTime(d, now))
  <1> DEFINE e == ObserveTime(d, now)
  <1>1. Sound(e) /\ Sound(d)
    BY ObserveTimeSound DEF Audited
  <1>2. /\ e.hwm = now
        /\ e.reservation = d.reservation
        /\ e.inventory = d.inventory
        /\ e.audit = d.audit
        /\ e.item_audit = d.item_audit
    BY <1>1 DEF Sound, Store, ObserveTime
  <1> HIDE DEF e
  <1>3. ASSUME NEW u \in Outpoints, NEW i \in DOMAIN d.item_audit[u]
        PROVE  d.item_audit[u][i].at <= now
    <2>1. d.item_audit[u] \in Seq(AuditEntries)
      BY <1>1, SoundColumns
    <2>2. d.item_audit[u][i] \in AuditEntries
      BY <2>1
    <2>3. d.item_audit[u][i].at \in Int /\ d.hwm \in Int
      BY <1>1, <2>2, SoundColumns DEF AuditEntries, Time
    <2>4. d.item_audit[u][i].at <= d.hwm
      BY Zenon DEF Audited, AuditValid
    <2>5. QED BY <2>3, <2>4
  <1>4. AuditValid(e)
    BY <1>2, <1>3, Zenon DEF Audited, AuditValid
  <1>5. QED BY <1>1, <1>4 DEF Audited, e

\* Releasing reserved quotes and their inputs keeps the audit log in step with the tables.
LEMMA ReleaseReservedAudited ==
  ASSUME Counting, NEW d, Audited(d), NEW S \in SUBSET Ids, NEW reason \in Reasons, d.hwm \in Time,
         \A id \in S : (reason = "Expired") <=> (d.hwm >= d.reservation[id].accept_before)
  PROVE  Audited(ReleaseReserved(d, S, reason, d.hwm))
  <1> DEFINE e == ReleaseReserved(d, S, reason, d.hwm)
             entry == AuditEntry(d.hwm, "ReservationReleased", {}, reason)
  <1>1. Sound(d) /\ Sound(e)
    BY ReleaseReservedSound, Zenon DEF Audited
  <1>2. CASE \E id \in S : ~HoldsItsInputs(d, id)
    BY <1>2, Zenon DEF ReleaseReserved
  <1>3. CASE \A id \in S : HoldsItsInputs(d, id)
    <2>1. e.hwm = d.hwm /\ e.inventory = d.inventory /\ e.item_audit = d.item_audit
      BY <1>1, <1>3, ZenonT(30) DEF ReleaseReserved, Sound, Store
    <2>2. e.reservation = [id \in Ids |->
                IF id \in S THEN Released(d.reservation[id], reason, d.hwm)
                ELSE d.reservation[id]]
      BY <1>1, <1>3, ZenonT(30) DEF ReleaseReserved, Sound, Store
    <2>3. e.audit = [id \in Ids |->
                IF id \in S THEN Append(d.audit[id], entry) ELSE d.audit[id]]
      BY <1>1, <1>3, ZenonT(30) DEF ReleaseReserved, Sound, Store
    <2> HIDE DEF e
    <2>4. ASSUME NEW id \in Ids PROVE e.audit[id] = AuditShape(e.reservation[id])
      <3>1. d.audit[id] = AuditShape(d.reservation[id])
        BY Zenon DEF Audited, AuditValid
      <3>2. CASE id \notin S
        BY <2>2, <2>3, <3>1, <3>2, Zenon
      <3>3. CASE id \in S
        <4> DEFINE q == e.reservation[id]
        <4>1. d.reservation[id] \in Reservation /\ d.reservation[id].status = "Reserved"
          BY <1>1, <1>3, <3>3, Zenon DEF HoldsItsInputs, Sound, Store
        <4>2. q = Released(d.reservation[id], reason, d.hwm)
          BY <2>2, <3>3, Zenon
        <4>3. /\ q.status = "Released" /\ q.reason = reason /\ q.released_at = d.hwm
              /\ q.items = d.reservation[id].items
              /\ q.created_at = d.reservation[id].created_at
          BY <4>1, <4>2, ReleasedFields
        <4> HIDE DEF q
        <4>4. AuditShape(q) = Append(AuditShape(d.reservation[id]), entry)
          BY <4>1, <4>3, ShapeGrows, Zenon
        <4>5. QED BY <2>3, <3>1, <3>3, <4>4 DEF q
      <3>4. QED BY <3>2, <3>3, Zenon
    <2>5. AuditValid(e)
      BY <2>1, <2>4, Zenon DEF Audited, AuditValid
    <2>6. QED BY <1>1, <2>5 DEF Audited, e
  <1>4. QED BY <1>2, <1>3

\* A write that only concerns one reservation, and appends one entry for it.
LEMMA OneReservationAudited ==
  ASSUME NEW d, Audited(d), NEW e, Sound(e), NEW id \in Ids, NEW r, NEW entry,
         e.hwm = d.hwm, e.inventory = d.inventory, e.item_audit = d.item_audit,
         e.reservation = [d.reservation EXCEPT ![id] = r],
         e.audit = [d.audit EXCEPT ![id] = Append(@, entry)],
         AuditShape(r) = Append(AuditShape(d.reservation[id]), entry)
  PROVE  Audited(e)
  <1>1. /\ d.reservation \in [Ids -> Reservation]
        /\ d.audit \in [Ids -> Seq(AuditEntries)]
    BY Zenon DEF Audited, Sound, Store
  <1>2. \A x \in Ids : d.audit[x] = AuditShape(d.reservation[x])
    BY Zenon DEF Audited, AuditValid
  <1>3. ASSUME NEW x \in Ids PROVE e.audit[x] = AuditShape(e.reservation[x])
    <2>1. CASE x = id
      BY <1>1, <1>2, <2>1, ZenonT(30)
    <2>2. CASE x # id
      BY <1>1, <1>2, <2>2, Zenon
    <2>3. QED BY <2>1, <2>2
  <1>4. AuditValid(e)
    BY <1>3, Zenon DEF Audited, AuditValid
  <1>5. QED BY <1>4, Zenon DEF Audited

\* Writing a new reservation over free inputs keeps the audit log in step with the tables.
LEMMA PersistNewReservationAudited ==
  ASSUME NEW d, Audited(d), d.hwm \in Time, NEW id \in Ids, NEW request \in Requests,
         NEW items \in SUBSET Items, items # {}, items \subseteq d.inventory,
         \A item \in items : d.allocation[item[1]] = Available,
         d.reservation[id].status = "Absent",
         NEW deadline \in Time, d.hwm < deadline
  PROVE  Audited(PersistNewReservation(d, id, request, items, deadline, d.hwm))
  <1> DEFINE e == PersistNewReservation(d, id, request, items, deadline, d.hwm)
             r == NewReservation(request, items, d.hwm, deadline)
             entry == AuditEntry(d.hwm, "ReservationCreated", items, Null)
  <1>1. Sound(d) /\ Sound(e)
    BY PersistNewReservationSound DEF Audited
  <1>2. e.hwm = d.hwm /\ e.inventory = d.inventory /\ e.item_audit = d.item_audit
    BY <1>1, ZenonT(30) DEF PersistNewReservation, Sound, Store
  <1>3. e.reservation = [d.reservation EXCEPT ![id] = r]
    BY <1>1, ZenonT(30) DEF PersistNewReservation, Sound, Store
  <1>4. e.audit = [d.audit EXCEPT ![id] = Append(@, entry)]
    BY <1>1, ZenonT(30) DEF PersistNewReservation, Sound, Store
  <1>5. r.status = "Reserved" /\ r.items = items /\ r.created_at = d.hwm
    BY NewReservationFields
  <1> HIDE DEF e, r
  <1>6. AuditShape(r) = Append(AuditShape(d.reservation[id]), entry)
    BY <1>5 DEF AuditShape
  <1>7. Audited(e)
    BY <1>1, <1>2, <1>3, <1>4, <1>6, OneReservationAudited
  <1>8. QED BY <1>7 DEF e

\* Committing a payload keeps the audit log in step with the tables.
LEMMA CommitIntentAudited ==
  ASSUME NEW d, Audited(d), d.hwm \in Time, NEW id \in Ids, NEW payload \in FeeAccepted,
         HoldsItsInputs(d, id), d.hwm < d.reservation[id].accept_before
  PROVE  Audited(CommitIntent(d, id, payload, d.hwm))
  <1> DEFINE e == CommitIntent(d, id, payload, d.hwm)
             r == d.reservation[id]
             q == Committed(r, payload, d.hwm)
             entry == AuditEntry(d.hwm, "SigningCommitted", {}, payload)
  <1>1. Sound(d) /\ Sound(e)
    BY CommitIntentSound DEF Audited
  <1>2. e.hwm = d.hwm /\ e.inventory = d.inventory /\ e.item_audit = d.item_audit
    BY <1>1, ZenonT(30) DEF CommitIntent, Sound, Store
  <1>3. e.reservation = [d.reservation EXCEPT ![id] = q]
    BY <1>1, ZenonT(30) DEF CommitIntent, Sound, Store
  <1>4. e.audit = [d.audit EXCEPT ![id] = Append(@, entry)]
    BY <1>1, ZenonT(30) DEF CommitIntent, Sound, Store
  <1>5. payload \in Payloads /\ r \in Reservation /\ r.status = "Reserved"
    <2>1. d.reservation \in [Ids -> Reservation]
      BY <1>1, SoundColumns, Zenon
    <2>2. QED BY <2>1, ConstantsAssumption, Zenon DEF HoldsItsInputs
  <1>6. /\ q.status = "Committed" /\ q.payload = payload /\ q.committed_at = d.hwm
        /\ q.items = r.items /\ q.created_at = r.created_at
    BY <1>5, CommittedFields
  <1> HIDE DEF e, q
  <1>7. AuditShape(q) = Append(AuditShape(r), entry)
    BY <1>5, <1>6, ShapeGrows, SMTT(20)
  <1>8. Audited(e)
    BY <1>1, <1>2, <1>3, <1>4, <1>7, OneReservationAudited
  <1>9. QED BY <1>8 DEF e

\* Storing a signed artifact keeps the audit log in step with the tables.
LEMMA RecordSignedAudited ==
  ASSUME NEW d, Audited(d), d.hwm \in Time, NEW id \in Ids, NEW payload,
         NEW artifact \in Artifacts
  PROVE  Audited(RecordSigned(d, id, payload, artifact, d.hwm))
  <1> DEFINE e == RecordSigned(d, id, payload, artifact, d.hwm)
             r == d.reservation[id]
             q == Signed(r, artifact, d.hwm)
             entry == AuditEntry(d.hwm, "SignedArtifactStored", {}, artifact)
             accepted == /\ r.status = "Committed"
                         /\ r.payload = payload
                         /\ CommittedAllocations(d, id)
  <1>1. CASE ~accepted
    BY <1>1 DEF RecordSigned
  <1>2. CASE accepted
    <2>1. Sound(d) /\ Sound(e)
      BY RecordSignedSound DEF Audited
    <2>2. e.hwm = d.hwm /\ e.inventory = d.inventory /\ e.item_audit = d.item_audit
      BY <1>2, <2>1 DEF RecordSigned, Sound, Store
    <2>3. e.reservation = [d.reservation EXCEPT ![id] = q]
      BY <1>2, <2>1 DEF RecordSigned, Sound, Store
    <2>4. e.audit = [d.audit EXCEPT ![id] = Append(@, entry)]
      BY <1>2, <2>1 DEF RecordSigned, Sound, Store
    <2>5. r \in Reservation
      <3>1. d.reservation \in [Ids -> Reservation]
        BY <2>1, SoundColumns, Zenon
      <3>2. QED BY <3>1, Zenon
    <2>6. /\ q.status = "Signed" /\ q.artifact = artifact /\ q.signed_at = d.hwm
          /\ q.payload = r.payload /\ q.committed_at = r.committed_at
          /\ q.items = r.items /\ q.created_at = r.created_at
      BY <2>5, SignedFields
    <2> HIDE DEF e, q
    <2>7. AuditShape(q) = Append(AuditShape(r), entry)
      BY <1>2, <2>6, ShapeGrows, ZenonT(30)
    <2>8. Audited(e)
      BY <2>1, <2>2, <2>3, <2>4, <2>7, OneReservationAudited
    <2>9. QED BY <2>8 DEF e
  <1>3. QED BY <1>1, <1>2

\* Importing a scan of the inventory keeps the audit log in step with the tables.
LEMMA ImportInventoryAudited ==
  ASSUME NEW d, Audited(d), d.hwm \in Time, NEW items \in SUBSET Items,
         \A x, y \in items : x[1] = y[1] => x = y
  PROVE  Audited(ImportInventory(d, items, d.hwm))
  <1> DEFINE e == ImportInventory(d, items, d.hwm)
             fresh(u) == {item \in items \ d.inventory : item[1] = u}
             entry(u) == AuditEntry(d.hwm, "InventoryImported", fresh(u), Null)
             known(u) == \E item \in d.inventory : item[1] = u
  <1>1. CASE ConflictsWith(d, items)
    BY <1>1 DEF ImportInventory
  <1>2. CASE ~ConflictsWith(d, items)
    <2>1. Sound(d) /\ Sound(e)
      BY ImportInventorySound DEF Audited
    <2>2. /\ e.inventory = d.inventory \cup items
          /\ e.reservation = d.reservation
          /\ e.hwm = d.hwm
          /\ e.audit = d.audit
      BY <1>2, <2>1, ZenonT(30) DEF ImportInventory, Sound, Store
    <2>3. e.item_audit = [u \in Outpoints |->
              IF fresh(u) # {} THEN Append(d.item_audit[u], entry(u)) ELSE d.item_audit[u]]
      BY <1>2, <2>1, ZenonT(30) DEF ImportInventory, Sound, Store
    <2> HIDE DEF e
    <2>4. ASSUME NEW u \in Outpoints
          PROVE  /\ Len(e.item_audit[u]) = IF \E item \in e.inventory : item[1] = u THEN 1 ELSE 0
                 /\ \A i \in DOMAIN e.item_audit[u] : e.item_audit[u][i].at <= e.hwm
      <3>1. /\ d.item_audit[u] \in Seq(AuditEntries)
            /\ Len(d.item_audit[u]) = IF known(u) THEN 1 ELSE 0
            /\ \A i \in DOMAIN d.item_audit[u] : d.item_audit[u][i].at <= d.hwm
        BY Zenon DEF Audited, AuditValid, Sound, Store
      <3>2. CASE fresh(u) # {}
        <4>1. ~known(u) /\ \E item \in e.inventory : item[1] = u
          <5>1. PICK new \in items \ d.inventory : new[1] = u
            BY <3>2
          <5>2. ASSUME NEW old \in d.inventory PROVE old[1] # u
            BY <1>2, <5>1, Zenon DEF ConflictsWith
          <5>3. QED BY <2>2, <5>1, <5>2
        <4>2. d.item_audit[u] = << >>
          <5>1. Len(d.item_audit[u]) = 0
            BY <3>1, <4>1, Zenon
          <5>2. QED BY <3>1, <5>1
        <4>3. entry(u).at = d.hwm
          BY Zenon DEF AuditEntry
        <4> HIDE DEF entry, fresh
        <4>4. e.item_audit[u] = Append(d.item_audit[u], entry(u))
          BY <2>3, <3>2
        <4>5. e.item_audit[u] = << entry(u) >>
          BY <4>2, <4>4
        <4>6. QED BY <2>2, <4>1, <4>3, <4>5
      <3>3. CASE fresh(u) = {}
        <4>1. e.item_audit[u] = d.item_audit[u]
          BY <2>3, <3>3, Zenon
        <4>2. (\E item \in e.inventory : item[1] = u) <=> known(u)
          BY <2>2, <3>3, Zenon
        <4>3. QED BY <2>2, <3>1, <4>1, <4>2, Zenon
      <3>4. QED BY <3>2, <3>3, Zenon
    <2>5. AuditValid(e)
      BY <2>2, <2>4 DEF Audited, AuditValid
    <2>6. QED BY <2>1, <2>5 DEF Audited, e
  <1>3. QED BY <1>1, <1>2

\* A new database has the audit log its tables call for.
LEMMA EmptyAudited == Audited(EmptyStore)
  <1>1. AuditValid(EmptyStore)
    BY DEF AuditValid, EmptyStore, AuditShape, AbsentReservation
  <1>2. QED BY <1>1, EmptySound DEF Audited

-----------------------------------------------------------------------------
(* The operations make one write each. *)

\* Releases some quotes, for a reason that their deadlines bear out.
Releases(d, e) ==
    \E S \in SUBSET Ids, reason \in Reasons :
        /\ \A id \in S : (reason = "Expired") <=> (d.hwm >= d.reservation[id].accept_before)
        /\ e = ReleaseReserved(d, S, reason, d.hwm)

\* Writes one new reservation over free inputs, within the limits.
Reserves(d, e) ==
    \E id \in Ids, request \in Requests, items \in (SUBSET Items) \ {{}}, deadline \in Time :
        /\ d.reservation[id].status = "Absent"
        /\ InputsFree(d, items)
        /\ QuotaAllows(d, id[1], d.hwm)
        /\ d.hwm < deadline
        /\ e = PersistNewReservation(d, id, request, items, deadline, d.hwm)

\* Commits one reservation to a payload before its deadline.
Commits(d, e) ==
    \E id \in Ids, payload \in FeeAccepted :
        /\ HoldsItsInputs(d, id)
        /\ d.hwm < d.reservation[id].accept_before
        /\ e = CommitIntent(d, id, payload, d.hwm)

\* Records an artifact, or refuses to.
Records(d, e) ==
    \E id \in Ids, payload \in Payloads, artifact \in Artifacts :
        e = RecordSigned(d, id, payload, artifact, d.hwm)

\* Imports a scan, or refuses to.
Imports(d, e) ==
    \E items \in SUBSET Items :
        /\ \A x, y \in items : x[1] = y[1] => x = y
        /\ e = ImportInventory(d, items, d.hwm)

\* What one operation may write once its clock reading is recorded.
OneWrite(d, e) ==
    e = d \/ Releases(d, e) \/ Reserves(d, e) \/ Commits(d, e) \/ Records(d, e) \/ Imports(d, e)

\* What a timed operation may leave on disk, whichever of its commits happened.
StoreStep(d, e) ==
    e = d \/ \E now \in Time : now >= d.hwm /\ OneWrite(ObserveTime(d, now), e)

\* What a sweep finds due is reserved and past its deadline.
LEMMA DueReserved ==
  ASSUME NEW d, Sound(d), NEW now, NEW id \in Due(d, now)
  PROVE  /\ d.reservation[id].status = "Reserved"
         /\ d.reservation[id].accept_before <= now
  <1>1. PICK t \in Time : t <= now /\ <<t, id>> \in d.expirations
    BY DEF Due
  <1>2. QED BY <1>1 DEF Sound, TablesValid, IndexesValid

\* Releasing one quote is a release.
LEMMA ReleaseOneWrites ==
  ASSUME NEW d, NEW id \in Ids, NEW reason \in Reasons,
         (reason = "Expired") <=> DeadlineElapsed(d.reservation[id], d.hwm)
  PROVE  Releases(d, ReleaseReserved(d, {id}, reason, d.hwm))
  BY Zenon DEF Releases, DeadlineElapsed

\* A sweep of due quotes is a release.
LEMMA ExpireDueInWriteWrites ==
  ASSUME NEW d, Sound(d), d.hwm \in Time, NEW S \in SUBSET Ids, S \subseteq Due(d, d.hwm)
  PROVE  Releases(d, ExpireDueInWrite(d, S, d.hwm))
  <1>1. ASSUME NEW id \in S PROVE d.hwm >= d.reservation[id].accept_before
    <2>1. d.reservation[id].accept_before \in Int
      BY DEF Sound, Store, Reservation
    <2>2. QED BY <2>1, DueReserved, Zenon
  <1>2. "Expired" \in Reasons
    BY Zenon DEF Reasons
  <1>3. QED BY <1>1, <1>2, Zenon DEF ExpireDueInWrite, Releases

\* Answering a key that is already bound releases at most its own quote.
LEMMA ReplayFirmQuoteWrites ==
  ASSUME NEW d, NEW id \in Ids, NEW request, NEW e,
         e \in {ReplayBinding(d, id, d.hwm), ReplayFirmQuote(d, id, request, d.hwm)}
  PROVE  e = d \/ Releases(d, e)
  BY ReleaseOneWrites DEF ReplayFirmQuote, ReplayBinding, Reasons

\* The preflight of firm_quote makes at most a release.
LEMMA PreflightFirmQuoteWrites ==
  ASSUME NEW d, Sound(d), d.hwm \in Time, NEW id \in Ids, NEW request,
         NEW S \in SUBSET Ids, S \subseteq Due(d, d.hwm), NEW e,
         e = PreflightFirmQuote(d, id, request, S, d.hwm)
  PROVE  e = d \/ Releases(d, e)
  BY ReplayFirmQuoteWrites, ExpireDueInWriteWrites, Zenon DEF PreflightFirmQuote

\* reserve_firm_quote answers, reserves or refuses.
LEMMA ReserveFirmQuoteWrites ==
  ASSUME NEW d, d.hwm \in Time, NEW id \in Ids, NEW request \in Requests,
         NEW draft, draft.items \in (SUBSET Items) \ {{}},
         NEW lifetime \in Nat \ {0}, NEW maximum_age, NEW e,
         e = ReserveFirmQuote(d, id, request, draft, lifetime, maximum_age, d.hwm)
  PROVE  e = d \/ Releases(d, e) \/ Reserves(d, e)
  <1>1. CASE d.binding[id] # Null
    BY <1>1, ReplayFirmQuoteWrites DEF ReserveFirmQuote
  <1>2. CASE d.binding[id] = Null /\ MayReserve(d, id, draft, lifetime, maximum_age, d.hwm)
    <2>1. d.hwm + lifetime \in Time /\ d.hwm < d.hwm + lifetime
      BY <1>2, ConstantsAssumption DEF MayReserve, DeadlineFits
    <2>2. /\ d.reservation[id].status = "Absent"
          /\ InputsFree(d, draft.items)
          /\ QuotaAllows(d, id[1], d.hwm)
      BY <1>2, Zenon DEF MayReserve
    <2>3. e = PersistNewReservation(d, id, request, draft.items, d.hwm + lifetime, d.hwm)
      BY <1>2, Zenon DEF ReserveFirmQuote
    <2>4. QED BY <2>1, <2>2, <2>3, Zenon DEF Reserves
  <1>3. CASE d.binding[id] = Null /\ ~MayReserve(d, id, draft, lifetime, maximum_age, d.hwm)
    BY <1>3 DEF ReserveFirmQuote
  <1>4. QED BY <1>1, <1>2, <1>3, Zenon

\* cancel and reject_uncommitted make at most a release.
LEMMA ReleaseBeforeCommitWrites ==
  ASSUME NEW d, NEW id \in Ids, NEW owner, NEW e,
         e \in {Cancel(d, owner, id, d.hwm), RejectUncommitted(d, id, d.hwm)}
  PROVE  e = d \/ Releases(d, e)
  <1>1. ASSUME NEW reason \in {"ClientCancelled", "ProviderRejected"}, NEW f,
               f = ReleaseBeforeCommit(d, id, reason, d.hwm)
        PROVE  f = d \/ Releases(d, f)
    <2>1. PICK cause : cause = IF DeadlineElapsed(d.reservation[id], d.hwm) THEN "Expired" ELSE reason
      BY Zenon
    <2>2. cause \in Reasons /\ ((cause = "Expired") <=> DeadlineElapsed(d.reservation[id], d.hwm))
      BY <1>1, <2>1 DEF Reasons
    <2>3. f = d \/ f = ReleaseReserved(d, {id}, cause, d.hwm)
      BY <1>1, <2>1, Zenon DEF ReleaseBeforeCommit
    <2>4. QED BY <2>2, <2>3, ReleaseOneWrites, Zenon
  <1>2. QED BY <1>1 DEF Cancel, RejectUncommitted

\* commit_before_sign releases what is due, commits or refuses.
LEMMA CommitBeforeSignWrites ==
  ASSUME NEW d, Sound(d), d.hwm \in Time, NEW owner, NEW id \in Ids, NEW payload, NEW e,
         e = CommitBeforeSign(d, owner, id, payload, d.hwm)
  PROVE  e = d \/ Releases(d, e) \/ Commits(d, e)
  <1> DEFINE r == d.reservation[id]
  <1>1. CASE id[1] # owner \/ r.status # "Reserved"
    BY <1>1, Zenon DEF CommitBeforeSign
  <1>2. CASE id[1] = owner /\ r.status = "Reserved" /\ DeadlineElapsed(r, d.hwm)
    BY <1>2, ReleaseOneWrites, Zenon DEF CommitBeforeSign, Reasons
  <1>3. CASE /\ id[1] = owner /\ r.status = "Reserved" /\ ~DeadlineElapsed(r, d.hwm)
             /\ payload \in FeeAccepted /\ HoldsItsInputs(d, id)
    <2>1. r.accept_before \in Int
      BY Zenon DEF Sound, Store, Reservation
    <2>2. d.hwm < r.accept_before
      BY <1>3, <2>1 DEF DeadlineElapsed
    <2>3. e = CommitIntent(d, id, payload, d.hwm)
      BY <1>3, Zenon DEF CommitBeforeSign
    <2>4. QED BY <1>3, <2>2, <2>3, Zenon DEF Commits
  <1>4. CASE /\ id[1] = owner /\ r.status = "Reserved" /\ ~DeadlineElapsed(r, d.hwm)
             /\ ~(payload \in FeeAccepted /\ HoldsItsInputs(d, id))
    BY <1>4, Zenon DEF CommitBeforeSign
  <1>5. QED BY <1>1, <1>2, <1>3, <1>4, Zenon

-----------------------------------------------------------------------------
(* What each write keeps, every operation keeps. *)

\* One write keeps the tables sound.
LEMMA OneWriteSound ==
  ASSUME Counting, NEW d, Sound(d), d.hwm \in Time, NEW e, OneWrite(d, e)
  PROVE  Sound(e)
  <1>1. ASSUME Releases(d, e) PROVE Sound(e)
    BY <1>1, ReleaseReservedSound, Zenon DEF Releases
  <1>2. ASSUME Reserves(d, e) PROVE Sound(e)
    BY <1>2, PersistNewReservationSound, Zenon DEF Reserves, InputsFree
  <1>3. ASSUME Commits(d, e) PROVE Sound(e)
    BY <1>3, CommitIntentSound, Zenon DEF Commits
  <1>4. ASSUME Records(d, e) PROVE Sound(e)
    BY <1>4, RecordSignedSound, Zenon DEF Records
  <1>5. ASSUME Imports(d, e) PROVE Sound(e)
    BY <1>5, ImportInventorySound, Zenon DEF Imports
  <1>6. QED BY <1>1, <1>2, <1>3, <1>4, <1>5 DEF OneWrite

\* One write undoes nothing.
LEMMA OneWriteForward ==
  ASSUME NEW d, Sound(d), d.hwm \in Time, NEW e, OneWrite(d, e)
  PROVE  Forward(d, e)
  <1>1. ASSUME Releases(d, e) PROVE Forward(d, e)
    BY <1>1, ReleaseReservedForward, Zenon DEF Releases
  <1>2. ASSUME Reserves(d, e) PROVE Forward(d, e)
    BY <1>2, PersistNewReservationForward, Zenon DEF Reserves, InputsFree
  <1>3. ASSUME Commits(d, e) PROVE Forward(d, e)
    <2>1. FeeAccepted \subseteq Payloads BY ConstantsAssumption
    <2>2. QED BY <1>3, <2>1, CommitIntentForward, Zenon DEF Commits
  <1>4. ASSUME Records(d, e) PROVE Forward(d, e)
    BY <1>4, RecordSignedForward, Zenon DEF Records
  <1>5. ASSUME Imports(d, e) PROVE Forward(d, e)
    BY <1>5, ImportInventoryForward, Zenon DEF Imports
  <1>6. QED BY <1>1, <1>2, <1>3, <1>4, <1>5, ForwardReflexive DEF OneWrite

\* One write keeps the audit log in step with the tables.
LEMMA OneWriteAudited ==
  ASSUME Counting, NEW d, Audited(d), d.hwm \in Time, NEW e, OneWrite(d, e)
  PROVE  Audited(e)
  <1>1. ASSUME Releases(d, e) PROVE Audited(e)
    BY <1>1, ReleaseReservedAudited, Zenon DEF Releases
  <1>2. ASSUME Reserves(d, e) PROVE Audited(e)
    BY <1>2, PersistNewReservationAudited, Zenon DEF Reserves, InputsFree
  <1>3. ASSUME Commits(d, e) PROVE Audited(e)
    BY <1>3, CommitIntentAudited, Zenon DEF Commits
  <1>4. ASSUME Records(d, e) PROVE Audited(e)
    BY <1>4, RecordSignedAudited, Zenon DEF Records
  <1>5. ASSUME Imports(d, e) PROVE Audited(e)
    BY <1>5, ImportInventoryAudited, Zenon DEF Imports
  <1>6. QED BY <1>1, <1>2, <1>3, <1>4, <1>5 DEF OneWrite

\* Whatever a timed operation leaves on disk is sound and undoes nothing.
LEMMA StoreStepSound ==
  ASSUME Counting, NEW d, Sound(d), NEW e, StoreStep(d, e)
  PROVE  Sound(e) /\ Forward(d, e)
  <1>1. CASE e = d
    BY <1>1, ForwardReflexive
  <1>2. CASE e # d
    <2>1. PICK now \in Time : now >= d.hwm /\ OneWrite(ObserveTime(d, now), e)
      BY <1>2, Zenon DEF StoreStep
    <2>2. Sound(ObserveTime(d, now)) /\ ObserveTime(d, now).hwm = now
      BY <2>1, ObserveTimeSound
    <2>3. Sound(e) /\ Forward(ObserveTime(d, now), e)
      BY <2>1, <2>2, OneWriteSound, OneWriteForward
    <2>4. QED BY <2>1, <2>3, ForwardAfterObserve
  <1>3. QED BY <1>1, <1>2

\* Whatever a timed operation leaves on disk has the audit log it calls for.
LEMMA StoreStepAudited ==
  ASSUME Counting, NEW d, Audited(d), NEW e, StoreStep(d, e)
  PROVE  Audited(e)
  <1>1. ASSUME NEW now \in Time, now >= d.hwm, OneWrite(ObserveTime(d, now), e)
        PROVE  Audited(e)
    <2>1. Audited(ObserveTime(d, now)) /\ ObserveTime(d, now).hwm = now
      BY <1>1, ObserveTimeAudited, ObserveTimeSound DEF Audited
    <2>2. QED BY <1>1, <2>1, OneWriteAudited, Zenon
  <1>2. QED BY <1>1, Zenon DEF StoreStep

-----------------------------------------------------------------------------
(* The columns each write changes. *)

ReleaseChanges(d, e, S, reason) ==
    /\ \A id \in S : HoldsItsInputs(d, id)
    /\ e.hwm = d.hwm
    /\ e.allocation = [u \in Outpoints |->
            IF \E id \in S : u \in InputsOf(d.reservation[id])
            THEN Available ELSE d.allocation[u]]
    /\ e.reservation = [id \in Ids |->
            IF id \in S THEN Released(d.reservation[id], reason, d.hwm)
            ELSE d.reservation[id]]

\* What a release changes.
LEMMA ReleaseEffect ==
  ASSUME NEW d, Sound(d), NEW e, Releases(d, e), e # d
  PROVE  \E S \in SUBSET Ids, reason \in Reasons : ReleaseChanges(d, e, S, reason)
  <1>1. PICK S \in SUBSET Ids, reason \in Reasons : e = ReleaseReserved(d, S, reason, d.hwm)
    BY Zenon DEF Releases
  <1>2. \A id \in S : HoldsItsInputs(d, id)
    BY <1>1, Zenon DEF ReleaseReserved
  <1>3. TableRecord(d)
    BY StoreElim DEF Sound
  <1>4. ReleaseChanges(d, e, S, reason)
    BY <1>1, <1>2, <1>3, ZenonT(30) DEF ReleaseReserved, TableRecord, ReleaseChanges
  <1>5. QED BY <1>4

ReserveChanges(d, e, id, request, items, deadline) ==
    /\ d.reservation[id].status = "Absent"
    /\ InputsFree(d, items)
    /\ QuotaAllows(d, id[1], d.hwm)
    /\ d.hwm < deadline
    /\ e.hwm = d.hwm
    /\ e.allocation = [u \in Outpoints |->
            IF \E item \in items : item[1] = u THEN ReservedBy(id) ELSE d.allocation[u]]
    /\ e.reservation = [d.reservation EXCEPT ![id] =
            NewReservation(request, items, d.hwm, deadline)]
    /\ e.binding = [d.binding EXCEPT ![id] = request]

\* What a new reservation changes.
LEMMA ReserveEffect ==
  ASSUME NEW d, Sound(d), NEW e, Reserves(d, e)
  PROVE  \E id \in Ids, request \in Requests, items \in (SUBSET Items) \ {{}}, deadline \in Time :
             ReserveChanges(d, e, id, request, items, deadline)
  <1>1. PICK id \in Ids, request \in Requests, items \in (SUBSET Items) \ {{}}, deadline \in Time :
            /\ d.reservation[id].status = "Absent"
            /\ InputsFree(d, items)
            /\ QuotaAllows(d, id[1], d.hwm)
            /\ d.hwm < deadline
            /\ e = PersistNewReservation(d, id, request, items, deadline, d.hwm)
    BY Zenon DEF Reserves
  <1>2. TableRecord(d)
    BY StoreElim DEF Sound
  <1>3. ReserveChanges(d, e, id, request, items, deadline)
    BY <1>1, <1>2, ZenonT(30) DEF PersistNewReservation, TableRecord, ReserveChanges
  <1>4. QED BY <1>3

CommitChanges(d, e, id, payload) ==
    /\ HoldsItsInputs(d, id)
    /\ e.hwm = d.hwm
    /\ e.allocation = [u \in Outpoints |->
            IF u \in InputsOf(d.reservation[id]) THEN CommittedTo(id, payload)
            ELSE d.allocation[u]]
    /\ e.reservation = [d.reservation EXCEPT ![id] =
            Committed(d.reservation[id], payload, d.hwm)]

\* What a commitment changes.
LEMMA CommitEffect ==
  ASSUME NEW d, Sound(d), NEW e, Commits(d, e)
  PROVE  \E id \in Ids, payload \in Payloads : CommitChanges(d, e, id, payload)
  <1>1. PICK id \in Ids, payload \in FeeAccepted :
            HoldsItsInputs(d, id) /\ e = CommitIntent(d, id, payload, d.hwm)
    BY Zenon DEF Commits
  <1>2. TableRecord(d)
    BY StoreElim DEF Sound
  <1>3. CommitChanges(d, e, id, payload)
    BY <1>1, <1>2, ZenonT(30) DEF CommitIntent, TableRecord, CommitChanges
  <1>4. payload \in Payloads
    BY ConstantsAssumption
  <1>5. QED BY <1>3, <1>4

RecordChanges(d, e, id, artifact) ==
    /\ d.reservation[id].status = "Committed"
    /\ e.hwm = d.hwm
    /\ e.allocation = d.allocation
    /\ e.reservation = [d.reservation EXCEPT ![id] =
            Signed(d.reservation[id], artifact, d.hwm)]

\* What an artifact changes.
LEMMA RecordEffect ==
  ASSUME NEW d, Sound(d), NEW e, Records(d, e), e # d
  PROVE  \E id \in Ids, artifact \in Artifacts : RecordChanges(d, e, id, artifact)
  <1>1. PICK id \in Ids, payload \in Payloads, artifact \in Artifacts :
            e = RecordSigned(d, id, payload, artifact, d.hwm)
    BY Zenon DEF Records
  <1>2. TableRecord(d)
    BY StoreElim DEF Sound
  <1>3. RecordChanges(d, e, id, artifact)
    BY <1>1, <1>2, ZenonT(30) DEF RecordSigned, TableRecord, RecordChanges
  <1>4. QED BY <1>3

\* A scan changes no reservation, and neither does the clock.
LEMMA ImportEffect ==
  ASSUME NEW d, Sound(d), NEW e, Imports(d, e) \/ \E now : e = ObserveTime(d, now)
  PROVE  e.allocation = d.allocation /\ e.reservation = d.reservation
  <1>1. TableRecord(d)
    BY StoreElim DEF Sound
  <1>2. ASSUME NEW items, e = ImportInventory(d, items, d.hwm)
        PROVE  e.allocation = d.allocation /\ e.reservation = d.reservation
    BY <1>1, <1>2, ZenonT(30) DEF ImportInventory, TableRecord
  <1>3. ASSUME NEW now, e = ObserveTime(d, now)
        PROVE  e.allocation = d.allocation /\ e.reservation = d.reservation
    BY <1>1, <1>3, ZenonT(30) DEF ObserveTime, TableRecord
  <1>4. QED BY <1>2, <1>3, Zenon DEF Imports

-----------------------------------------------------------------------------
(* Only a new reservation makes a quote live, and only a record signs one. *)

NoneReserved(d, e) ==
    \A id \in Ids : e.reservation[id].status = "Reserved" =>
                        e.reservation[id] = d.reservation[id]

NoneSigned(d, e) ==
    \A id \in Ids : e.reservation[id].status = "Signed" =>
                        e.reservation[id] = d.reservation[id]

\* A release neither reserves nor signs.
LEMMA ReleasesQuiet ==
  ASSUME NEW d, Sound(d), NEW e, e = d \/ Releases(d, e)
  PROVE  NoneReserved(d, e) /\ NoneSigned(d, e)
  <1>1. CASE e = d
    BY <1>1, Zenon DEF NoneReserved, NoneSigned
  <1>2. CASE Releases(d, e) /\ e # d
    <2>1. PICK S \in SUBSET Ids, reason \in Reasons : ReleaseChanges(d, e, S, reason)
      BY <1>2, ReleaseEffect, Zenon
    <2>2. ASSUME NEW id \in Ids, e.reservation[id].status # "Released"
          PROVE  e.reservation[id] = d.reservation[id]
      <3>1. d.reservation[id] \in Reservation
        BY ZenonT(30) DEF Sound, Store
      <3>2. QED BY <2>1, <2>2, <3>1, ReleasedFields DEF ReleaseChanges
    <2>3. QED BY <2>2 DEF NoneReserved, NoneSigned
  <1>3. QED BY <1>1, <1>2

\* A new reservation signs nothing.
LEMMA ReservesSignsNothing ==
  ASSUME NEW d, Sound(d), d.hwm \in Time, NEW e, Reserves(d, e)
  PROVE  NoneSigned(d, e)
  <1>1. PICK id \in Ids, request \in Requests, items \in (SUBSET Items) \ {{}}, deadline \in Time :
            ReserveChanges(d, e, id, request, items, deadline)
    BY ReserveEffect, Zenon
  <1>2. NewReservation(request, items, d.hwm, deadline).status = "Reserved"
    BY NewReservationFields
  <1>3. d.reservation \in [Ids -> Reservation]
    BY Zenon DEF Sound, Store
  <1>4. QED BY <1>1, <1>2, <1>3 DEF ReserveChanges, NoneSigned

\* A commitment neither reserves nor signs.
LEMMA CommitsQuiet ==
  ASSUME NEW d, Sound(d), d.hwm \in Time, NEW e, Commits(d, e)
  PROVE  NoneReserved(d, e) /\ NoneSigned(d, e)
  <1>1. PICK id \in Ids, payload \in Payloads : CommitChanges(d, e, id, payload)
    BY CommitEffect
  <1>2. d.reservation \in [Ids -> Reservation]
    BY Zenon DEF Sound, Store
  <1>3. Committed(d.reservation[id], payload, d.hwm).status = "Committed"
    BY <1>2, CommittedFields
  <1>4. QED BY <1>1, <1>2, <1>3 DEF CommitChanges, NoneReserved, NoneSigned

\* A record reserves nothing.
LEMMA RecordsReservesNothing ==
  ASSUME NEW d, Sound(d), d.hwm \in Time, NEW e, e = d \/ Records(d, e)
  PROVE  NoneReserved(d, e)
  <1>1. CASE e = d
    BY <1>1, Zenon DEF NoneReserved
  <1>2. CASE Records(d, e) /\ e # d
    <2>1. PICK id \in Ids, artifact \in Artifacts : RecordChanges(d, e, id, artifact)
      BY <1>2, RecordEffect
    <2>2. d.reservation \in [Ids -> Reservation]
      BY Zenon DEF Sound, Store
    <2>3. Signed(d.reservation[id], artifact, d.hwm).status = "Signed"
      BY <2>2, SignedFields
    <2>4. QED BY <2>1, <2>2, <2>3 DEF RecordChanges, NoneReserved
  <1>3. QED BY <1>1, <1>2

\* A scan and a clock reading neither reserve nor sign.
LEMMA ImportsQuiet ==
  ASSUME NEW d, Sound(d), NEW e, Imports(d, e) \/ \E now : e = ObserveTime(d, now)
  PROVE  NoneReserved(d, e) /\ NoneSigned(d, e)
  BY ImportEffect DEF NoneReserved, NoneSigned

=============================================================================
