----------------------- MODULE ReservationBookProofs ------------------------
(***************************************************************************)
(* Proofs about ReservationBook for every value of its constants.          *)
(*                                                                         *)
(* Every step of the book is a StoreStep, whatever its commits leave on    *)
(* disk, so each theorem follows from what ReservationStoreProofs shows of *)
(* such steps.  The inductive invariant of the safety theorems is          *)
(* Sound(db), with Audited(db) for the audit log, WithinLimits(db) for the *)
(* limits and Clean(db) for the refinement of the input ledger.            *)
(***************************************************************************)
EXTENDS ReservationLedger, ReservationStoreProofs

USE DEF Time, NoTime

-----------------------------------------------------------------------------
(* The steps. *)

\* A timed write leaves on disk what a timed operation may leave.
LEMMA TimedWriteSteps ==
  ASSUME Sound(db), NEW now \in Time, NEW after, TimedWrite(now, after),
         now >= db.hwm => OneWrite(ObserveTime(db, now), after)
  PROVE  StoreStep(db, db')
  <1>1. now >= db.hwm /\ db' \in {db, ObserveTime(db, now), after}
    BY DEF TimedWrite, CommitWrite
  <1>2. OneWrite(ObserveTime(db, now), ObserveTime(db, now))
    BY DEF OneWrite
  <1>3. QED BY <1>1, <1>2, Zenon DEF StoreStep

\* Every step of the book is a step of its store.
LEMMA NextSteps ==
  ASSUME Sound(db), [Next]_vars
  PROVE  StoreStep(db, db')
  <1> DEFINE d(now) == ObserveTime(db, now)
  <1>1. ASSUME NEW now \in Time, now >= db.hwm
        PROVE  Sound(d(now)) /\ d(now).hwm = now /\ d(now).hwm \in Time
    BY <1>1, ObserveTimeSound
  <1>2. ASSUME NEW now \in Time, now >= db.hwm, NEW S, NEW limit, OldestDue(db, now, limit, S)
        PROVE  S \in SUBSET Ids /\ S \subseteq Due(d(now), now)
    <2>1. d(now).expirations = db.expirations
      BY DEF Sound, Store, ObserveTime
    <2>2. QED BY <1>2, <2>1, Zenon DEF OldestDue, Due
  <1> HIDE DEF d
  <1>3. ASSUME NEW now \in Time, NEW items \in SUBSET Items, DoImportInventory(items, now)
        PROVE  StoreStep(db, db')
    <2>1. now >= db.hwm => OneWrite(d(now), ImportInventory(d(now), items, now))
      BY <1>1, <1>3, Zenon DEF DoImportInventory, OneWrite, Imports
    <2>2. QED BY <1>3, <2>1, TimedWriteSteps DEF DoImportInventory, d
  <1>4. ASSUME NEW now \in Time, NEW id \in Ids, NEW request \in Requests,
               DoPreflightFirmQuote(id, request, now)
        PROVE  StoreStep(db, db')
    <2>1. PICK S \in SUBSET Ids :
             /\ OldestDue(db, now, MaxExpirationBatch, S)
             /\ TimedWrite(now, PreflightFirmQuote(d(now), id, request, S, now))
      BY <1>4 DEF DoPreflightFirmQuote, d
    <2>2. now >= db.hwm => OneWrite(d(now), PreflightFirmQuote(d(now), id, request, S, now))
      BY <1>1, <1>2, <2>1, PreflightFirmQuoteWrites, Zenon DEF OneWrite
    <2>3. QED BY <2>1, <2>2, TimedWriteSteps DEF d
  <1>5. ASSUME NEW now \in Time, NEW id \in Ids, NEW request \in Requests,
               DoReplayFirmQuote(id, request, now)
        PROVE  StoreStep(db, db')
    <2>1. now >= db.hwm => OneWrite(d(now), ReplayFirmQuote(d(now), id, request, now))
      BY <1>1, ReplayFirmQuoteWrites DEF OneWrite
    <2>2. QED BY <1>5, <2>1, TimedWriteSteps DEF DoReplayFirmQuote, d
  <1>6. ASSUME NEW now \in Time, NEW id \in Ids, NEW request \in Requests,
               NEW draft \in Drafts(now), NEW lifetime \in Lifetimes,
               DoReserveFirmQuote(id, request, draft, lifetime, now)
        PROVE  StoreStep(db, db')
    <2>1. draft.items \in (SUBSET Items) \ {{}} /\ lifetime \in Nat \ {0}
      BY BookAssumption DEF Drafts
    <2>2. now >= db.hwm =>
            OneWrite(d(now), ReserveFirmQuote(d(now), id, request, draft, lifetime,
                                              MaxSnapshotAge, now))
      BY <1>1, <2>1, ReserveFirmQuoteWrites, Zenon DEF OneWrite
    <2>3. QED BY <1>6, <2>2, TimedWriteSteps DEF DoReserveFirmQuote, d
  <1>7. ASSUME NEW now \in Time, NEW id \in Ids, NEW owner, NEW after,
               after \in {Cancel(d(now), owner, id, now), RejectUncommitted(d(now), id, now)},
               TimedWrite(now, after)
        PROVE  StoreStep(db, db')
    <2>1. now >= db.hwm => OneWrite(d(now), after)
      BY <1>1, <1>7, ReleaseBeforeCommitWrites DEF OneWrite
    <2>2. QED BY <1>7, <2>1, TimedWriteSteps DEF d
  <1>8. ASSUME NEW now \in Time, NEW id \in Ids, NEW owner,
               DoCancel(owner, id, now) \/ DoRejectUncommitted(id, now)
        PROVE  StoreStep(db, db')
    BY <1>7, <1>8, Zenon DEF DoCancel, DoRejectUncommitted, d
  <1>9. ASSUME NEW now \in Time, NEW limit, DoExpireDue(limit, now)
        PROVE  StoreStep(db, db')
    <2>1. PICK S \in SUBSET Ids :
             /\ OldestDue(db, now, limit, S)
             /\ TimedWrite(now, ExpireDueInWrite(d(now), S, now))
      BY <1>9 DEF DoExpireDue, d
    <2>2. now >= db.hwm => OneWrite(d(now), ExpireDueInWrite(d(now), S, now))
      BY <1>1, <1>2, <2>1, ExpireDueInWriteWrites DEF OneWrite
    <2>3. QED BY <2>1, <2>2, TimedWriteSteps DEF d
  <1>10. ASSUME NEW now \in Time, NEW id \in Ids, NEW owner, NEW payload,
                DoCommitBeforeSign(owner, id, payload, now)
         PROVE  StoreStep(db, db')
    <2>1. now >= db.hwm => OneWrite(d(now), CommitBeforeSign(d(now), owner, id, payload, now))
      BY <1>1, CommitBeforeSignWrites, Zenon DEF OneWrite
    <2>2. QED BY <1>10, <2>1, TimedWriteSteps DEF DoCommitBeforeSign, d
  <1>11. ASSUME NEW now \in Time, NEW id \in Ids, NEW payload \in Payloads,
                NEW artifact \in Artifacts, DoRecordFinalizedPset(id, payload, artifact, now)
         PROVE  StoreStep(db, db')
    <2>1. now >= db.hwm => OneWrite(d(now), RecordSigned(d(now), id, payload, artifact, now))
      BY <1>1, Zenon DEF OneWrite, Records
    <2>2. QED BY <1>11, <2>1, TimedWriteSteps DEF DoRecordFinalizedPset, d
  <1>12. ASSUME Open \/ UNCHANGED vars PROVE StoreStep(db, db')
    BY <1>12 DEF Open, vars, StoreStep
  <1>13. QED
    BY <1>3, <1>4, <1>5, <1>6, <1>8, <1>9, <1>10, <1>11, <1>12 DEF Next

-----------------------------------------------------------------------------
(* The limits on live quotes. *)

LiveIds(d) == {id \in Ids : /\ d.reservation[id].status = "Reserved"
                            /\ d.reservation[id].accept_before > d.hwm}

WithinLimits(d) ==
    /\ Cardinality(LiveIds(d)) <= GlobalLimit
    /\ \A owner \in Owners : Cardinality({id \in LiveIds(d) : id[1] = owner}) <= OwnerLimit

\* What the limits need to know of numbers besides Counting.
IndexCounting ==
    /\ Cardinality({}) = 0
    /\ \A S \in SUBSET Ids, T \in SUBSET Ids : T \subseteq S => Cardinality(T) <= Cardinality(S)
    /\ \A S \in SUBSET Ids, id \in Ids : Cardinality(S \cup {id}) <= Cardinality(S) + 1
    /\ \A S \in SUBSET Ids, K \in SUBSET (Time \X Ids) :
          (\A id \in S : \E t \in Time : <<t, id>> \in K) =>
             Cardinality(K) \in Nat /\ Cardinality(S) <= Cardinality(K)

\* A part of a set within a limit is within the limit.
LEMMA PartWithin ==
  ASSUME Counting, IndexCounting, NEW S \in SUBSET Ids, NEW T \in SUBSET S, NEW n \in Nat,
         Cardinality(S) <= n
  PROVE  Cardinality(T) <= n
  <1>1. T \in SUBSET Ids /\ T \subseteq S
    OBVIOUS
  <1>2. /\ Cardinality(S) \in Nat /\ Cardinality(T) \in Nat
        /\ Cardinality(T) <= Cardinality(S)
    BY <1>1, Zenon DEF Counting, IndexCounting
  <1>3. QED BY <1>2

\* Fewer live quotes stay within the limits.
LEMMA FewerLive ==
  ASSUME Counting, IndexCounting, NEW d, WithinLimits(d), NEW e, LiveIds(e) \subseteq LiveIds(d)
  PROVE  WithinLimits(e)
  <1>1. GlobalLimit \in Nat /\ OwnerLimit \in Nat
    BY ConstantsAssumption
  <1>2. LiveIds(d) \in SUBSET Ids
    BY DEF LiveIds
  <1>3. Cardinality(LiveIds(e)) <= GlobalLimit
    BY <1>1, <1>2, PartWithin DEF WithinLimits
  <1>4. ASSUME NEW owner \in Owners
        PROVE  Cardinality({id \in LiveIds(e) : id[1] = owner}) <= OwnerLimit
    <2> DEFINE S == {id \in LiveIds(d) : id[1] = owner}
               T == {id \in LiveIds(e) : id[1] = owner}
    <2>1. S \in SUBSET Ids /\ T \in SUBSET S
      BY <1>2
    <2>2. Cardinality(S) <= OwnerLimit
      BY DEF WithinLimits
    <2> HIDE DEF S, T
    <2>3. Cardinality(T) <= OwnerLimit
      BY <1>1, <2>1, <2>2, PartWithin
    <2>4. QED BY <2>3 DEF T
  <1>5. QED BY <1>3, <1>4, Zenon DEF WithinLimits

\* Every live quote is counted by the index that enforce_live_quote_limits reads.
LEMMA LiveAreIndexed ==
  ASSUME NEW d, Sound(d), NEW id \in LiveIds(d)
  PROVE  /\ <<d.reservation[id].accept_before, id>> \in Live(d, d.hwm)
         /\ <<d.reservation[id].accept_before, id>> \in LiveOf(d, id[1], d.hwm)
  <1>1. ReservationValid(d, id) /\ d.reservation[id].status = "Reserved"
    BY DEF LiveIds, Sound, TablesValid, ReservationsValid
  <1>2. <<d.reservation[id].accept_before, id>> \in d.live_quotes
    BY <1>1 DEF ReservationValid, DeadlineIndexed
  <1>3. QED BY <1>2 DEF LiveIds, Live, LiveOf

\* Reservations are no more than the index keys they have.
LEMMA CountedByIndex ==
  ASSUME IndexCounting, NEW d, Sound(d), NEW T \in SUBSET Ids, NEW K \in SUBSET d.live_quotes,
         \A id \in T : <<d.reservation[id].accept_before, id>> \in K
  PROVE  Cardinality(K) \in Nat /\ Cardinality(T) <= Cardinality(K)
  <1>1. d.live_quotes \in SUBSET (Time \X Ids)
    BY StoreElim, Zenon DEF Sound, TablesTyped
  <1>2. K \in SUBSET (Time \X Ids)
    BY <1>1, Zenon
  <1>3. ASSUME NEW id \in T PROVE d.reservation[id].accept_before \in Time
    <2>1. <<d.reservation[id].accept_before, id>> \in Time \X Ids
      BY <1>2, Zenon
    <2>2. QED BY <2>1
  <1>4. QED BY <1>2, <1>3, Zenon DEF IndexCounting

\* One more live quote stays within a limit its index is below.
LEMMA OneMoreLive ==
  ASSUME Counting, IndexCounting, NEW d, Sound(d), NEW T \in SUBSET Ids,
         NEW K \in SUBSET d.live_quotes,
         \A id \in T : <<d.reservation[id].accept_before, id>> \in K,
         NEW limit \in Nat, Cardinality(K) < limit, NEW id \in Ids,
         NEW U \in SUBSET (T \cup {id})
  PROVE  Cardinality(U) <= limit
  <1>1. Cardinality(K) \in Nat /\ Cardinality(T) <= Cardinality(K)
    BY CountedByIndex, Zenon
  <1>2. T \cup {id} \in SUBSET Ids /\ U \in SUBSET Ids /\ U \subseteq T \cup {id}
    OBVIOUS
  <1>3. /\ Cardinality(T) \in Nat /\ Cardinality(U) \in Nat /\ Cardinality(T \cup {id}) \in Nat
        /\ Cardinality(U) <= Cardinality(T \cup {id})
        /\ Cardinality(T \cup {id}) <= Cardinality(T) + 1
    BY <1>2, Zenon DEF Counting, IndexCounting
  <1>4. QED BY <1>1, <1>3

\* A new reservation stays within the limits.
LEMMA ReservesWithinLimits ==
  ASSUME Counting, IndexCounting, NEW d, Sound(d), d.hwm \in Time, WithinLimits(d),
         NEW e, Reserves(d, e)
  PROVE  WithinLimits(e)
  <1>1. PICK id \in Ids, request \in Requests, items \in (SUBSET Items) \ {{}}, deadline \in Time :
            ReserveChanges(d, e, id, request, items, deadline)
    BY ReserveEffect
  <1> DEFINE Of(x, owner) == {i \in LiveIds(x) : i[1] = owner}
  <1>2. d.reservation \in [Ids -> Reservation] /\ GlobalLimit \in Nat /\ OwnerLimit \in Nat
    BY SoundColumns, ConstantsAssumption
  <1>3. e.hwm = d.hwm /\ \A x \in Ids \ {id} : e.reservation[x] = d.reservation[x]
    BY <1>1, <1>2 DEF ReserveChanges
  <1>4. LiveIds(e) \in SUBSET (LiveIds(d) \cup {id}) /\ LiveIds(d) \in SUBSET Ids
    BY <1>3 DEF LiveIds
  <1>5. /\ Live(d, d.hwm) \in SUBSET d.live_quotes
        /\ \A owner : LiveOf(d, owner, d.hwm) \in SUBSET d.live_quotes
    BY DEF Live, LiveOf
  <1>6. /\ Cardinality(Live(d, d.hwm)) < GlobalLimit
        /\ Cardinality(LiveOf(d, id[1], d.hwm)) < OwnerLimit
    BY <1>1, Zenon DEF ReserveChanges, QuotaAllows
  <1>7. Cardinality(LiveIds(e)) <= GlobalLimit
    <2>1. \A i \in LiveIds(d) : <<d.reservation[i].accept_before, i>> \in Live(d, d.hwm)
      BY LiveAreIndexed
    <2>2. QED BY <1>2, <1>4, <1>5, <1>6, <2>1, OneMoreLive, Zenon
  <1>8. ASSUME NEW owner \in Owners, owner = id[1] PROVE Cardinality(Of(e, owner)) <= OwnerLimit
    <2>1. \A i \in Of(d, owner) :
              <<d.reservation[i].accept_before, i>> \in LiveOf(d, owner, d.hwm)
      BY LiveAreIndexed
    <2>2. Of(e, owner) \in SUBSET (Of(d, owner) \cup {id}) /\ Of(d, owner) \in SUBSET Ids
      BY <1>4
    <2> HIDE DEF Of
    <2>3. QED BY <1>2, <1>5, <1>6, <1>8, <2>1, <2>2, OneMoreLive
  <1>9. ASSUME NEW owner \in Owners, owner # id[1] PROVE Cardinality(Of(e, owner)) <= OwnerLimit
    <2>1. Of(e, owner) \in SUBSET Of(d, owner) /\ Of(d, owner) \in SUBSET Ids
      BY <1>4, <1>9
    <2>2. Cardinality(Of(d, owner)) <= OwnerLimit
      BY DEF WithinLimits
    <2> HIDE DEF Of
    <2>3. QED BY <1>2, <2>1, <2>2, PartWithin
  <1>10. QED BY <1>7, <1>8, <1>9 DEF WithinLimits

\* Every other write makes no quote live.
LEMMA StoreStepWithinLimits ==
  ASSUME Counting, IndexCounting, NEW d, Sound(d), WithinLimits(d), NEW e, StoreStep(d, e)
  PROVE  WithinLimits(e)
  <1>1. ASSUME NEW x, Sound(x), WithinLimits(x), NEW y, NoneReserved(x, y), Forward(x, y), Sound(y)
        PROVE  WithinLimits(y)
    <2>1. x.hwm \in Int /\ y.hwm \in Int /\ y.hwm >= x.hwm
      <3>1. x.hwm \in Int /\ y.hwm \in Int
        BY <1>1, SoundColumns
      <3>2. QED BY <1>1, <3>1, Zenon DEF Forward, ClockKept
    <2>2. \A id \in Ids : y.reservation[id].accept_before \in Int
      <3>1. y.reservation \in [Ids -> Reservation]
        BY <1>1, SoundColumns
      <3>2. QED BY <3>1 DEF Reservation, Time, NoTime
    <2>3. LiveIds(y) \subseteq LiveIds(x)
      <3>1. ASSUME NEW id \in LiveIds(y) PROVE id \in LiveIds(x)
        <4>1. /\ id \in Ids /\ y.reservation[id].status = "Reserved"
              /\ y.reservation[id].accept_before > y.hwm
          BY <3>1 DEF LiveIds
        <4>2. y.reservation[id] = x.reservation[id]
          BY <1>1, <4>1, Zenon DEF NoneReserved
        <4>3. y.reservation[id].accept_before > x.hwm
          BY <2>1, <2>2, <4>1
        <4>4. QED BY <4>1, <4>2, <4>3, Zenon DEF LiveIds
      <3>2. QED BY <3>1, Zenon
    <2>4. QED BY <1>1, <2>3, FewerLive
  <1>2. ASSUME NEW now \in Time, now >= d.hwm, OneWrite(ObserveTime(d, now), e)
        PROVE  WithinLimits(e)
    <2> DEFINE x == ObserveTime(d, now)
    <2>1. Sound(x) /\ x.hwm \in Time
      BY <1>2, ObserveTimeSound
    <2>2. Forward(d, x)
      BY <1>2, <2>1, ForwardReflexive, ForwardAfterObserve
    <2>3. WithinLimits(x)
      BY <1>1, <2>1, <2>2, ImportsQuiet
    <2>4. Sound(e) /\ Forward(x, e)
      BY <1>2, <2>1, OneWriteSound, OneWriteForward
    <2> HIDE DEF x
    <2>5. Reserves(x, e) \/ NoneReserved(x, e)
      BY <1>2, <2>1, ReleasesQuiet, CommitsQuiet, RecordsReservesNothing, ImportsQuiet, Zenon
      DEF OneWrite, x
    <2>6. QED BY <1>1, <2>1, <2>3, <2>4, <2>5, ReservesWithinLimits
  <1>3. QED BY <1>2, Zenon DEF StoreStep

-----------------------------------------------------------------------------
(* The steps of the input ledger. *)

\* A missing row leaves nothing behind.
Clean(d) ==
    /\ \A u \in Outpoints : d.allocation[u].state = "Available" => d.allocation[u] = Available
    /\ \A id \in Ids : d.reservation[id].status = "Absent" =>
                           d.reservation[id] = AbsentReservation

\* What a quote that is known to the store holds is what it was given.
LEMMA HeldAreInputs ==
  ASSUME NEW d, Sound(d), Clean(d), NEW u \in Outpoints, NEW id \in Ids, d.allocation[u].id = id
  PROVE  /\ u \in InputsOf(d.reservation[id])
         /\ d.reservation[id].status \in {"Reserved", "Committed", "Signed"}
  <1>1. d.allocation[u] \in Allocation
    BY DEF Sound, Store
  <1>2. d.allocation[u].state # "Available"
    BY NullAssumption DEF Clean, Available
  <1>3. AllocationValid(d, u)
    BY <1>2 DEF Sound, TablesValid, AllocationsValid
  <1>4. QED BY <1>1, <1>2, <1>3 DEF AllocationValid, Allocation

\* Every step leaves missing rows empty.
LEMMA StoreStepClean ==
  ASSUME NEW d, Sound(d), Clean(d), NEW e, StoreStep(d, e)
  PROVE  Clean(e)
  <1>1. ASSUME NEW x, Sound(x), x.hwm \in Time, Clean(x), NEW y, OneWrite(x, y), y # x
        PROVE  Clean(y)
    <2>1. x.reservation \in [Ids -> Reservation] /\ x.allocation \in [Outpoints -> Allocation]
      BY <1>1, SoundColumns
    <2>2. ASSUME Releases(x, y) PROVE Clean(y)
      <3>1. PICK S \in SUBSET Ids, reason \in Reasons : ReleaseChanges(x, y, S, reason)
        BY <1>1, <2>2, ReleaseEffect
      <3>2. ASSUME NEW u \in Outpoints, y.allocation[u].state = "Available"
            PROVE  y.allocation[u] = Available
        <4>1. y.allocation[u] = Available \/ y.allocation[u] = x.allocation[u]
          BY <3>1 DEF ReleaseChanges
        <4>2. QED BY <1>1, <3>2, <4>1, Zenon DEF Clean
      <3>3. ASSUME NEW id \in Ids, y.reservation[id].status = "Absent"
            PROVE  y.reservation[id] = AbsentReservation
        <4>1. \/ y.reservation[id] = Released(x.reservation[id], reason, x.hwm)
              \/ y.reservation[id] = x.reservation[id]
          BY <3>1 DEF ReleaseChanges
        <4>2. Released(x.reservation[id], reason, x.hwm).status = "Released"
          BY <2>1, ReleasedFields
        <4>3. y.reservation[id] = x.reservation[id]
          BY <3>3, <4>1, <4>2
        <4>4. QED BY <1>1, <3>3, <4>3, Zenon DEF Clean
      <3>4. QED BY <3>2, <3>3, Zenon DEF Clean
    <2>3. ASSUME Reserves(x, y) PROVE Clean(y)
      <3>1. PICK id \in Ids, request \in Requests, items \in (SUBSET Items) \ {{}},
                 deadline \in Time : ReserveChanges(x, y, id, request, items, deadline)
        BY <1>1, <2>3, ReserveEffect
      <3>2. NewReservation(request, items, x.hwm, deadline).status = "Reserved"
        BY <1>1, NewReservationFields
      <3>3. ReservedBy(id).state = "Reserved"
        BY DEF ReservedBy
      <3>4. ASSUME NEW u \in Outpoints, y.allocation[u].state = "Available"
            PROVE  y.allocation[u] = Available
        <4>1. y.allocation[u].state = "Reserved" \/ y.allocation[u] = x.allocation[u]
          BY <3>1, <3>3 DEF ReserveChanges
        <4>2. QED BY <1>1, <3>4, <4>1 DEF Clean
      <3>5. ASSUME NEW i \in Ids, y.reservation[i].status = "Absent"
            PROVE  y.reservation[i] = AbsentReservation
        <4>1. y.reservation[i].status = "Reserved" \/ y.reservation[i] = x.reservation[i]
          BY <2>1, <3>1, <3>2 DEF ReserveChanges
        <4>2. QED BY <1>1, <3>5, <4>1 DEF Clean
      <3>6. QED BY <3>4, <3>5, Zenon DEF Clean
    <2>4. ASSUME Commits(x, y) PROVE Clean(y)
      <3>1. PICK id \in Ids, payload \in Payloads : CommitChanges(x, y, id, payload)
        BY <1>1, <2>4, CommitEffect
      <3>2. Committed(x.reservation[id], payload, x.hwm).status = "Committed"
        BY <1>1, <2>1, CommittedFields
      <3>3. CommittedTo(id, payload).state = "Committed"
        BY DEF CommittedTo
      <3>4. ASSUME NEW u \in Outpoints, y.allocation[u].state = "Available"
            PROVE  y.allocation[u] = Available
        <4>1. y.allocation[u].state = "Committed" \/ y.allocation[u] = x.allocation[u]
          BY <3>1, <3>3 DEF CommitChanges
        <4>2. QED BY <1>1, <3>4, <4>1 DEF Clean
      <3>5. ASSUME NEW i \in Ids, y.reservation[i].status = "Absent"
            PROVE  y.reservation[i] = AbsentReservation
        <4>1. y.reservation[i].status = "Committed" \/ y.reservation[i] = x.reservation[i]
          BY <2>1, <3>1, <3>2 DEF CommitChanges
        <4>2. QED BY <1>1, <3>5, <4>1 DEF Clean
      <3>6. QED BY <3>4, <3>5, Zenon DEF Clean
    <2>5. ASSUME Records(x, y) PROVE Clean(y)
      <3>1. PICK id \in Ids, artifact \in Artifacts : RecordChanges(x, y, id, artifact)
        BY <1>1, <2>5, RecordEffect, Zenon
      <3>2. Signed(x.reservation[id], artifact, x.hwm).status = "Signed"
        BY <1>1, <2>1, SignedFields
      <3>3. QED BY <1>1, <2>1, <3>1, <3>2 DEF RecordChanges, Clean
    <2>6. ASSUME Imports(x, y) PROVE Clean(y)
      BY <1>1, <2>6, ImportEffect DEF Clean
    <2>7. QED BY <1>1, <2>2, <2>3, <2>4, <2>5, <2>6 DEF OneWrite
  <1>2. ASSUME NEW now \in Time, now >= d.hwm, OneWrite(ObserveTime(d, now), e)
        PROVE  Clean(e)
    <2>1. Sound(ObserveTime(d, now)) /\ ObserveTime(d, now).hwm \in Time
      BY <1>2, ObserveTimeSound
    <2>2. Clean(ObserveTime(d, now))
      BY ImportEffect DEF Clean
    <2>3. QED BY <1>1, <1>2, <2>1, <2>2
  <1>3. QED BY <1>2, Zenon DEF StoreStep

\* The steps of the ledger, quote by quote, between two databases.
SameJobs(d, e) ==
    \A i \in Ids : /\ e.reservation[i].payload = d.reservation[i].payload
                   /\ e.reservation[i].artifact = d.reservation[i].artifact

StandsStill(d, e) ==
    /\ SameJobs(d, e)
    /\ \A i \in Ids : /\ PhaseOf(e.reservation[i]) = PhaseOf(d.reservation[i])
                      /\ HeldBy(e, i) = HeldBy(d, i)

Holds(d, e, id, U) ==
    /\ SameJobs(d, e)
    /\ PhaseOf(d.reservation[id]) = "Unused"
    /\ \A i \in Ids :
          /\ HeldBy(d, i) \cap U = {}
          /\ PhaseOf(e.reservation[i]) = IF i = id THEN "Held" ELSE PhaseOf(d.reservation[i])
          /\ HeldBy(e, i) = IF i = id THEN U ELSE HeldBy(d, i)

Frees(d, e, S) ==
    /\ SameJobs(d, e)
    /\ \A i \in S : PhaseOf(d.reservation[i]) = "Held"
    /\ \A i \in Ids :
          /\ PhaseOf(e.reservation[i]) = IF i \in S THEN "Freed" ELSE PhaseOf(d.reservation[i])
          /\ HeldBy(e, i) = IF i \in S THEN {} ELSE HeldBy(d, i)

Promises(d, e, id, p) ==
    /\ PhaseOf(d.reservation[id]) = "Held"
    /\ \A i \in Ids :
          /\ PhaseOf(e.reservation[i]) =
                IF i = id THEN "Promised" ELSE PhaseOf(d.reservation[i])
          /\ e.reservation[i].payload = IF i = id THEN p ELSE d.reservation[i].payload
          /\ e.reservation[i].artifact = d.reservation[i].artifact
          /\ HeldBy(e, i) = HeldBy(d, i)

Delivers(d, e, id, a) ==
    /\ PhaseOf(d.reservation[id]) = "Promised"
    /\ \A i \in Ids :
          /\ PhaseOf(e.reservation[i]) =
                IF i = id THEN "Delivered" ELSE PhaseOf(d.reservation[i])
          /\ e.reservation[i].artifact = IF i = id THEN a ELSE d.reservation[i].artifact
          /\ e.reservation[i].payload = d.reservation[i].payload
          /\ HeldBy(e, i) = HeldBy(d, i)

\* The phase of each status.
LEMMA Phases ==
  ASSUME NEW r
  PROVE  /\ r.status = "Absent" => PhaseOf(r) = "Unused"
         /\ r.status = "Reserved" => PhaseOf(r) = "Held"
         /\ r.status = "Committed" => PhaseOf(r) = "Promised"
         /\ r.status = "Signed" => PhaseOf(r) = "Delivered"
  BY DEF PhaseOf

\* A release frees what its quotes held, all of it.
LEMMA ReleaseFrees ==
  ASSUME NEW d, Sound(d), Clean(d), NEW e, Releases(d, e), e # d
  PROVE  \E S \in SUBSET Ids : Frees(d, e, S)
  <1>1. PICK S \in SUBSET Ids, reason \in Reasons : ReleaseChanges(d, e, S, reason)
    BY ReleaseEffect
  <1>2. \A i \in Ids : d.reservation[i] \in Reservation
    BY DEF Sound, Store
  <1>3. \A i \in S : d.reservation[i].status = "Reserved"
    BY <1>1, Zenon DEF ReleaseChanges, HoldsItsInputs
  <1>4. ASSUME NEW i \in Ids
        PROVE  /\ PhaseOf(e.reservation[i]) = IF i \in S THEN "Freed" ELSE PhaseOf(d.reservation[i])
               /\ e.reservation[i].payload = d.reservation[i].payload
               /\ e.reservation[i].artifact = d.reservation[i].artifact
    <2>1. CASE i \in S
      <3>1. e.reservation[i] = Released(d.reservation[i], reason, d.hwm)
        BY <1>1, <2>1 DEF ReleaseChanges
      <3>2. /\ Released(d.reservation[i], reason, d.hwm).payload = d.reservation[i].payload
            /\ Released(d.reservation[i], reason, d.hwm).artifact = d.reservation[i].artifact
        BY <1>2 DEF Released, Reservation
      <3>3. e.reservation[i].status = "Released"
        BY <1>2, <3>1, ReleasedFields
      <3>4. QED BY <2>1, <3>1, <3>2, <3>3 DEF PhaseOf
    <2>2. CASE i \notin S
      BY <1>1, <2>2 DEF ReleaseChanges
    <2>3. QED BY <2>1, <2>2
  <1>5. ASSUME NEW i \in Ids PROVE HeldBy(e, i) = IF i \in S THEN {} ELSE HeldBy(d, i)
    <2>1. ASSUME NEW u \in Outpoints, NEW j \in S, u \in InputsOf(d.reservation[j])
          PROVE  d.allocation[u].id = j
      <3>1. HoldsItsInputs(d, j)
        BY <1>1, Zenon DEF ReleaseChanges
      <3>2. d.allocation[u] = ReservedBy(j)
        BY <2>1, <3>1, Zenon DEF HoldsItsInputs
      <3>3. QED BY <3>2 DEF ReservedBy
    <2>2. ASSUME NEW u \in Outpoints
          PROVE  (e.allocation[u].id = i) <=> (i \notin S /\ d.allocation[u].id = i)
      <3>1. CASE \E j \in S : u \in InputsOf(d.reservation[j])
        <4>1. PICK j \in S : u \in InputsOf(d.reservation[j])
          BY <3>1
        <4>2. e.allocation[u] = Available
          BY <1>1, <3>1 DEF ReleaseChanges
        <4>3. e.allocation[u].id # i
          BY <4>2, NullAssumption DEF Available
        <4>4. d.allocation[u].id = j
          BY <2>1, <4>1
        <4>5. QED BY <4>1, <4>3, <4>4
      <3>2. CASE \A j \in S : u \notin InputsOf(d.reservation[j])
        <4>1. e.allocation[u] = d.allocation[u]
          BY <1>1, <3>2 DEF ReleaseChanges
        <4>2. QED BY <3>2, <4>1, HeldAreInputs
      <3>3. QED BY <3>1, <3>2
    <2>3. QED BY <2>2 DEF HeldBy
  <1>6. \A i \in S : PhaseOf(d.reservation[i]) = "Held"
    BY <1>3 DEF PhaseOf
  <1>7. Frees(d, e, S)
    BY <1>4, <1>5, <1>6 DEF Frees, SameJobs
  <1>8. QED BY <1>7

\* A new reservation takes inputs that nobody holds.
LEMMA ReserveHolds ==
  ASSUME NEW d, Sound(d), d.hwm \in Time, Clean(d), NEW e, Reserves(d, e)
  PROVE  \E id \in Ids, U \in (SUBSET Outpoints) \ {{}} : Holds(d, e, id, U)
  <1>1. PICK id \in Ids, request \in Requests, items \in (SUBSET Items) \ {{}}, deadline \in Time :
            ReserveChanges(d, e, id, request, items, deadline)
    BY ReserveEffect
  <1> DEFINE U == {item[1] : item \in items}
             r == NewReservation(request, items, d.hwm, deadline)
  <1>2. U \in (SUBSET Outpoints) \ {{}}
    BY DEF Items
  <1>3. d.reservation \in [Ids -> Reservation] /\ d.allocation \in [Outpoints -> Allocation]
    BY Zenon DEF Sound, Store
  <1>4. r.status = "Reserved" /\ r.payload = Null /\ r.artifact = Null
    BY DEF NewReservation, AbsentReservation
  <1> HIDE DEF r
  <1>5. /\ e.reservation[id] = r
        /\ \A i \in Ids \ {id} : e.reservation[i] = d.reservation[i]
    BY <1>1, <1>3, Zenon DEF ReserveChanges, r
  <1>6. d.reservation[id] = AbsentReservation
    BY <1>1 DEF ReserveChanges, Clean
  <1>7. /\ d.reservation[id].status = "Absent"
        /\ d.reservation[id].payload = Null /\ d.reservation[id].artifact = Null
    BY <1>6 DEF AbsentReservation
  <1>8. SameJobs(d, e)
    BY <1>4, <1>5, <1>7 DEF SameJobs
  <1>9. ASSUME NEW u \in U, NEW i \in Ids PROVE d.allocation[u].id # i
    <2>1. d.allocation[u] = Available
      BY <1>1 DEF ReserveChanges, InputsFree
    <2>2. QED BY <2>1, NullAssumption DEF Available
  <1>10. ASSUME NEW u \in Outpoints PROVE d.allocation[u].id # id
    BY <1>7, HeldAreInputs
  <1>11. ASSUME NEW u \in Outpoints
         PROVE  /\ u \in U => e.allocation[u].id = id
                /\ u \notin U => e.allocation[u] = d.allocation[u]
    BY <1>1 DEF ReserveChanges, ReservedBy
  <1> HIDE DEF U
  <1>12. \A i \in Ids : HeldBy(d, i) \cap U = {}
    BY <1>9 DEF HeldBy
  <1>13. \A i \in Ids : HeldBy(e, i) = IF i = id THEN U ELSE HeldBy(d, i)
    BY <1>2, <1>9, <1>10, <1>11 DEF HeldBy
  <1>14. /\ PhaseOf(d.reservation[id]) = "Unused"
         /\ \A i \in Ids :
               PhaseOf(e.reservation[i]) = IF i = id THEN "Held" ELSE PhaseOf(d.reservation[i])
    BY <1>4, <1>5, <1>7, Phases
  <1>15. Holds(d, e, id, U)
    BY <1>8, <1>12, <1>13, <1>14 DEF Holds
  <1>16. QED BY <1>2, <1>15

\* A commitment promises what its quote holds.
LEMMA CommitPromises ==
  ASSUME NEW d, Sound(d), d.hwm \in Time, NEW e, Commits(d, e)
  PROVE  \E id \in Ids, p \in Payloads : Promises(d, e, id, p)
  <1>1. PICK id \in Ids, p \in Payloads : CommitChanges(d, e, id, p)
    BY CommitEffect
  <1> DEFINE r == d.reservation[id]
             q == Committed(r, p, d.hwm)
  <1>2. d.reservation \in [Ids -> Reservation] /\ d.allocation \in [Outpoints -> Allocation]
    BY Zenon DEF Sound, Store
  <1>3. q.status = "Committed" /\ q.payload = p /\ q.artifact = r.artifact
    BY <1>2 DEF Committed, Reservation
  <1> HIDE DEF q
  <1>4. /\ e.reservation[id] = q
        /\ \A i \in Ids \ {id} : e.reservation[i] = d.reservation[i]
    BY <1>1, <1>2, Zenon DEF CommitChanges, q
  <1>5. HoldsItsInputs(d, id)
    BY <1>1 DEF CommitChanges
  <1>6. ASSUME NEW u \in Outpoints PROVE e.allocation[u].id = d.allocation[u].id
    <2>1. CASE u \in InputsOf(r)
      <3>1. d.allocation[u] = ReservedBy(id)
        BY <1>5, <2>1, Zenon DEF HoldsItsInputs
      <3>2. e.allocation[u] = CommittedTo(id, p)
        BY <1>1, <2>1 DEF CommitChanges
      <3>3. QED BY <3>1, <3>2 DEF ReservedBy, CommittedTo
    <2>2. CASE u \notin InputsOf(r)
      BY <1>1, <2>2 DEF CommitChanges
    <2>3. QED BY <2>1, <2>2
  <1>7. \A i \in Ids : HeldBy(e, i) = HeldBy(d, i)
    BY <1>6, Zenon DEF HeldBy
  <1>8. r.status = "Reserved"
    BY <1>5 DEF HoldsItsInputs
  <1>9. /\ PhaseOf(r) = "Held"
        /\ \A i \in Ids :
              PhaseOf(e.reservation[i]) = IF i = id THEN "Promised" ELSE PhaseOf(d.reservation[i])
    BY <1>3, <1>4, <1>8, Phases
  <1>10. Promises(d, e, id, p)
    BY <1>3, <1>4, <1>7, <1>9 DEF Promises
  <1>11. QED BY <1>10

\* A record delivers what was promised.
LEMMA RecordDelivers ==
  ASSUME NEW d, Sound(d), d.hwm \in Time, NEW e, Records(d, e), e # d
  PROVE  \E id \in Ids, a \in Artifacts : Delivers(d, e, id, a)
  <1>1. PICK id \in Ids, a \in Artifacts : RecordChanges(d, e, id, a)
    BY RecordEffect
  <1> DEFINE r == d.reservation[id]
             q == Signed(r, a, d.hwm)
  <1>2. d.reservation \in [Ids -> Reservation]
    BY Zenon DEF Sound, Store
  <1>3. q.status = "Signed" /\ q.payload = r.payload /\ q.artifact = a
    BY <1>2 DEF Signed, Reservation
  <1> HIDE DEF q
  <1>4. /\ e.reservation[id] = q
        /\ \A i \in Ids \ {id} : e.reservation[i] = d.reservation[i]
    BY <1>1, <1>2, Zenon DEF RecordChanges, q
  <1>5. \A i \in Ids : HeldBy(e, i) = HeldBy(d, i)
    BY <1>1 DEF HeldBy, RecordChanges
  <1>6. /\ PhaseOf(r) = "Promised"
        /\ \A i \in Ids :
              PhaseOf(e.reservation[i]) = IF i = id THEN "Delivered" ELSE PhaseOf(d.reservation[i])
    <2>1. r.status = "Committed"
      BY <1>1, Zenon DEF RecordChanges
    <2>2. PhaseOf(r) = "Promised" /\ PhaseOf(q) = "Delivered"
      BY <1>3, <2>1, Phases, Zenon
    <2>3. QED BY <1>4, <2>2, Zenon
  <1>7. Delivers(d, e, id, a)
    BY <1>3, <1>4, <1>5, <1>6 DEF Delivers
  <1>8. QED BY <1>7

\* A write of the store is one step of the ledger or none.
LEMMA OneWriteMoves ==
  ASSUME NEW d, Sound(d), d.hwm \in Time, Clean(d), NEW e, OneWrite(d, e)
  PROVE  \/ StandsStill(d, e)
         \/ \E id \in Ids, U \in (SUBSET Outpoints) \ {{}} : Holds(d, e, id, U)
         \/ \E S \in SUBSET Ids : Frees(d, e, S)
         \/ \E id \in Ids, p \in Payloads : Promises(d, e, id, p)
         \/ \E id \in Ids, a \in Artifacts : Delivers(d, e, id, a)
  <1>1. CASE e = d
    BY <1>1 DEF StandsStill, SameJobs
  <1>2. CASE Imports(d, e)
    BY <1>2, ImportEffect DEF StandsStill, SameJobs, HeldBy
  <1>3. CASE e # d /\ ~Imports(d, e)
    BY <1>3, ReserveHolds, ReleaseFrees, CommitPromises, RecordDelivers, Zenon DEF OneWrite
  <1>4. QED BY <1>1, <1>2, <1>3

\* Every step of the book is one step of the ledger or none.
LEMMA NextMoves ==
  ASSUME Sound(db), Clean(db), [Next]_vars
  PROVE  [Ledger!Next]_(Ledger!vars)
  <1> DEFINE Moves(d, e) ==
                 \/ StandsStill(d, e)
                 \/ \E id \in Ids, U \in (SUBSET Outpoints) \ {{}} : Holds(d, e, id, U)
                 \/ \E S \in SUBSET Ids : Frees(d, e, S)
                 \/ \E id \in Ids, p \in Payloads : Promises(d, e, id, p)
                 \/ \E id \in Ids, a \in Artifacts : Delivers(d, e, id, a)
  <1>1. Moves(db, db')
    <2>1. CASE db' = db
      BY <2>1 DEF StandsStill, SameJobs
    <2>2. CASE db' # db
      <3>1. PICK now \in Time : now >= db.hwm /\ OneWrite(ObserveTime(db, now), db')
        BY <2>2, NextSteps, Zenon DEF StoreStep
      <3> DEFINE d == ObserveTime(db, now)
      <3>2. Sound(d) /\ d.hwm \in Time
        BY <3>1, ObserveTimeSound
      <3>3. d.allocation = db.allocation /\ d.reservation = db.reservation
        BY ImportEffect
      <3> HIDE DEF d
      <3>4. Clean(d)
        BY <3>3 DEF Clean
      <3>5. Moves(d, db')
        BY <3>1, <3>2, <3>4, OneWriteMoves DEF d
      <3>6. \A i : HeldBy(d, i) = HeldBy(db, i)
        BY <3>3 DEF HeldBy
      <3>7. ASSUME StandsStill(d, db') PROVE StandsStill(db, db')
        BY <3>3, <3>6, <3>7, Zenon DEF StandsStill, SameJobs
      <3>8. ASSUME NEW id \in Ids, NEW U \in (SUBSET Outpoints) \ {{}}, Holds(d, db', id, U)
            PROVE  Holds(db, db', id, U)
        BY <3>3, <3>6, <3>8 DEF Holds, SameJobs
      <3>9. ASSUME NEW S \in SUBSET Ids, Frees(d, db', S) PROVE Frees(db, db', S)
        BY <3>3, <3>6, <3>9, Zenon DEF Frees, SameJobs
      <3>10. ASSUME NEW id \in Ids, NEW p \in Payloads, Promises(d, db', id, p)
             PROVE  Promises(db, db', id, p)
        BY <3>3, <3>6, <3>10 DEF Promises, SameJobs
      <3>11. ASSUME NEW id \in Ids, NEW a \in Artifacts, Delivers(d, db', id, a)
             PROVE  Delivers(db, db', id, a)
        BY <3>3, <3>6, <3>11 DEF Delivers, SameJobs
      <3>12. QED BY <3>5, <3>7, <3>8, <3>9, <3>10, <3>11, Zenon
    <2>3. QED BY <2>1, <2>2
  <1>2. ASSUME StandsStill(db, db') PROVE UNCHANGED Ledger!vars
    BY <1>2 DEF StandsStill, SameJobs, Ledger!vars
  <1>3. ASSUME NEW id \in Ids, NEW U \in (SUBSET Outpoints) \ {{}}, Holds(db, db', id, U)
        PROVE  Ledger!Hold(id, U)
    BY <1>3, Zenon DEF Holds, SameJobs, Ledger!Hold
  <1>4. ASSUME NEW S \in SUBSET Ids, Frees(db, db', S), S # {}
        PROVE  Ledger!Free(S)
    BY <1>4 DEF Frees, SameJobs, Ledger!Free
  <1>5. ASSUME Frees(db, db', {}) PROVE StandsStill(db, db')
    BY <1>5 DEF Frees, StandsStill
  <1>6. ASSUME NEW id \in Ids, NEW p \in Payloads, Promises(db, db', id, p)
        PROVE  Ledger!Promise(id, p)
    BY <1>6, Zenon DEF Promises, Ledger!Promise
  <1>7. ASSUME NEW id \in Ids, NEW a \in Artifacts, Delivers(db, db', id, a)
        PROVE  Ledger!Deliver(id, a)
    BY <1>7, Zenon DEF Delivers, Ledger!Deliver
  <1>8. QED BY <1>1, <1>2, <1>3, <1>4, <1>5, <1>6, <1>7, Zenon DEF Ledger!Next

-----------------------------------------------------------------------------
(* Counting. *)

Sets == INSTANCE FiniteSetTheorems

\* The library counts as FiniteSets does.
LEMMA SameSets ==
  \A S : (IsFiniteSet(S) <=> Sets!IsFiniteSet(S)) /\ Cardinality(S) = Sets!Cardinality(S)
  BY Zenon DEF IsFiniteSet, Sets!IsFiniteSet, Cardinality, Sets!Cardinality

\* There are finitely many reservations.
LEMMA IdsFinite == Sets!IsFiniteSet(Ids)
  <1>1. Sets!IsFiniteSet(Owners) /\ Sets!IsFiniteSet(Keys)
    BY ConstantsAssumption, SameSets
  <1>2. QED BY <1>1, Sets!FS_Product, Zenon DEF Ids

LEMMA CountingHolds == Counting
  <1>1. \A S \in SUBSET Ids : Sets!Cardinality(S) \in Nat
    BY IdsFinite, Sets!FS_Subset, Sets!FS_CardinalityType
  <1>2. QED BY <1>1, SameSets, Zenon DEF Counting

LEMMA IndexCountingHolds == IndexCounting
  <1>1. Sets!Cardinality({}) = 0
    BY Sets!FS_EmptySet
  <1>2. ASSUME NEW S \in SUBSET Ids PROVE Sets!IsFiniteSet(S)
    BY IdsFinite, Sets!FS_Subset, Zenon
  <1>3. ASSUME NEW S \in SUBSET Ids, NEW T \in SUBSET S
        PROVE  Sets!Cardinality(T) <= Sets!Cardinality(S)
    BY <1>2, Sets!FS_Subset, Zenon
  <1>4. ASSUME NEW S \in SUBSET Ids, NEW id \in Ids
        PROVE  Sets!Cardinality(S \cup {id}) <= Sets!Cardinality(S) + 1
    BY <1>2, Sets!FS_AddElement, Sets!FS_CardinalityType
  <1>5. ASSUME NEW S \in SUBSET Ids, NEW K \in SUBSET (Time \X Ids),
               \A id \in S : \E t \in Time : <<t, id>> \in K
        PROVE  Sets!Cardinality(K) \in Nat /\ Sets!Cardinality(S) <= Sets!Cardinality(K)
    <2> DEFINE f == [id \in S |-> CHOOSE k \in K : k[2] = id]
    <2>1. Sets!IsFiniteSet(K)
      <3>1. Sets!IsFiniteSet(0 .. MaxTime)
        BY ConstantsAssumption, Sets!FS_Interval
      <3>2. Sets!IsFiniteSet(Time \X Ids)
        BY <3>1, IdsFinite, Sets!FS_Product, Zenon
      <3>3. QED BY <3>2, Sets!FS_Subset, Zenon
    <2>2. \A id \in S : f[id] \in K /\ f[id][2] = id
      <3>1. ASSUME NEW id \in S PROVE \E k \in K : k[2] = id
        <4>1. PICK t \in Time : <<t, id>> \in K
          BY <1>5, Zenon
        <4>2. <<t, id>>[2] = id
          OBVIOUS
        <4>3. QED BY <4>1, <4>2, Zenon
      <3>2. QED BY <3>1, Zenon
    <2>3. f \in Sets!Injection(S, K)
      BY <2>2, Zenon DEF Sets!Injection, Sets!IsInjective
    <2>4. QED BY <2>1, <2>3, Sets!FS_Injection, Sets!FS_CardinalityType, Zenon
  <1>6. QED BY <1>1, <1>3, <1>4, <1>5, SameSets, Zenon DEF IndexCounting

-----------------------------------------------------------------------------
(* The invariants. *)

\* Whatever the interleaving of operations, crashes and ambiguous commits, the
\* tables on disk are well typed and pass every table check of
\* validate_store_integrity.
THEOREM TablesAlwaysSound == Spec => []Sound(db)
  <1>1. Init => Sound(db)
    BY EmptySound DEF Init
  <1>2. Sound(db) /\ [Next]_vars => Sound(db)'
    BY NextSteps, StoreStepSound, CountingHolds
  <1>3. QED BY <1>1, <1>2, PTL DEF Spec

\* Every table keeps its type in every state: timestamps stay within u64 and
\* no outpoint ever has two inventory rows.
THEOREM TypeCorrect == Spec => []TypeOK
  <1>1. Init => poisoned \in BOOLEAN
    BY Zenon DEF Init
  <1>2. poisoned \in BOOLEAN /\ [Next]_vars => (poisoned \in BOOLEAN)'
    <2>1. ASSUME NEW now, NEW after, TimedWrite(now, after)
          PROVE  (poisoned \in BOOLEAN)'
      BY <2>1, Zenon DEF TimedWrite, CommitWrite
    <2>2. ASSUME Open PROVE (poisoned \in BOOLEAN)'
      BY <2>2, Zenon DEF Open
    <2>3. ASSUME UNCHANGED vars, poisoned \in BOOLEAN PROVE (poisoned \in BOOLEAN)'
      BY <2>3 DEF vars
    <2>4. QED
      BY <2>1, <2>2, <2>3, Zenon
      DEF Next, DoImportInventory, DoPreflightFirmQuote, DoReplayFirmQuote,
          DoReserveFirmQuote, DoCancel, DoRejectUncommitted, DoExpireDue,
          DoCommitBeforeSign, DoRecordFinalizedPset
  <1>3. Sound(db) /\ poisoned \in BOOLEAN => TypeOK
    BY DEF Sound, TypeOK
  <1>4. QED BY <1>1, <1>2, <1>3, TablesAlwaysSound, PTL DEF Spec

\* The allocation table serialises every admission: no two reservations that
\* are reserved, committed or signed ever share an input, for any number of
\* owners, keys and outpoints.
THEOREM InputsExclusive == Spec => []ExclusiveInputs
  <1>1. Sound(db) => ExclusiveInputs
    BY HolderUnique DEF ExclusiveInputs, Holders
  <1>2. QED BY <1>1, TablesAlwaysSound, PTL

\* After every operation, crash and ambiguous commit the file on disk passes the
\* whole of validate_store_integrity, the audit comparison included, so that
\* ReservationBook::open accepts every database the book itself wrote.
THEOREM AlwaysReopens == Spec => []StoreIntegrity
  <1>1. Init => Audited(db)
    BY EmptyAudited DEF Init
  <1>2. Audited(db) /\ [Next]_vars => Audited(db)'
    BY NextSteps, StoreStepAudited, CountingHolds DEF Audited
  <1>3. Audited(db) => StoreIntegrity
    BY DEF Audited, Sound, StoreIntegrity, ValidateStoreIntegrity
  <1>4. QED BY <1>1, <1>2, <1>3, PTL DEF Spec

\* The quotes that can still be accepted never exceed the global limit nor an
\* owner's limit, although enforce_live_quote_limits counts them in an index
\* that releases, commitments and expirations maintain.
THEOREM LimitsHold == Spec => []LiveQuoteLimits
  <1>1. Init => WithinLimits(db)
    <2>1. LiveIds(EmptyStore) = {}
      BY DEF LiveIds, EmptyStore, AbsentReservation
    <2>2. \A owner : {id \in LiveIds(EmptyStore) : id[1] = owner} = {}
      BY <2>1
    <2>3. WithinLimits(EmptyStore)
      BY <2>1, <2>2, IndexCountingHolds, ConstantsAssumption DEF WithinLimits, IndexCounting
    <2>4. QED BY <2>3 DEF Init
  <1>2. Sound(db) /\ WithinLimits(db) /\ [Next]_vars => WithinLimits(db)'
    BY NextSteps, StoreStepWithinLimits, CountingHolds, IndexCountingHolds
  <1>3. WithinLimits(db) => LiveQuoteLimits
    BY DEF WithinLimits, LiveIds, LiveQuoteLimits, LiveReservations
  <1>4. QED BY <1>1, <1>2, <1>3, TablesAlwaysSound, PTL DEF Spec

-----------------------------------------------------------------------------
(* What a step may never do. *)

\* Once commit_before_sign has stored a payload, no operation, retry, crash or
\* ambiguous commit frees its inputs, changes the payload or replaces a stored
\* artifact.
THEOREM CommitIsIrrevocable == Spec => PointOfNoReturn
  <1>1. Sound(db) /\ [Next]_vars => [Irrevocable(db, db')]_vars
    BY NextSteps, StoreStepSound, CountingHolds DEF Forward
  <1>2. QED BY <1>1, TablesAlwaysSound, PTL DEF Spec, PointOfNoReturn

\* A request that was bound to an idempotency key keeps its terms for ever, and
\* a released reservation is never revived.
THEOREM KeysAreUsedOnce == Spec => NoResurrection
  <1>1. Sound(db) /\ [Next]_vars => [KeyUsedOnce(db, db')]_vars
    BY NextSteps, StoreStepSound, CountingHolds DEF Forward
  <1>2. QED BY <1>1, TablesAlwaysSound, PTL DEF Spec, NoResurrection

\* The clock high-water mark never decreases and is never behind a change of a
\* reservation, whichever of the two commits of an operation survive.
THEOREM ClockIsKept == Spec => TimeNeverRunsBackwards
  <1>1. Sound(db) /\ [Next]_vars => [ClockKept(db, db')]_vars
    BY NextSteps, StoreStepSound, CountingHolds DEF Forward
  <1>2. QED BY <1>1, TablesAlwaysSound, PTL DEF Spec, TimeNeverRunsBackwards

-----------------------------------------------------------------------------
(* The reservation book implements the input ledger. *)

\* The book implements the input ledger, for any number of quotes and inputs:
\* an input is held by one quote at a time, given back as a whole and only
\* before it is promised, and a promise yields at most one artifact.
THEOREM BookImplementsLedger == Spec => ImplementsLedger
  <1>1. Init => Ledger!Init
    BY NullAssumption
    DEF Init, Ledger!Init, EmptyStore, AbsentReservation, Available, PhaseOf, HeldBy
  <1>2. Init => Clean(db)
    BY DEF Init, Clean, EmptyStore
  <1>3. Sound(db) /\ Clean(db) /\ [Next]_vars => Clean(db)'
    BY NextSteps, StoreStepClean
  <1>4. Sound(db) /\ Clean(db) /\ [Next]_vars => [Ledger!Next]_(Ledger!vars)
    BY NextMoves
  <1>5. QED BY <1>1, <1>2, <1>3, <1>4, TablesAlwaysSound, PTL
            DEF Spec, ImplementsLedger, Ledger!Spec

=============================================================================
