------------------------ MODULE QuoteAdmissionProofs ------------------------
(***************************************************************************)
(* Proofs about QuoteAdmission for any number of concurrent firm_quote     *)
(* calls, keys, outputs, refreshes and restarts.                           *)
(*                                                                         *)
(* The invariant says what a call may rely on between its steps, while     *)
(* every other operation of the book interleaves: the drained backlog      *)
(* stays drained, a draft stays a part of the snapshot it names, and from  *)
(* the check of the view to the reservation that snapshot stays the        *)
(* current one because the call holds the coordinator's lock.              *)
(***************************************************************************)
EXTENDS QuoteAdmission, ReservationStoreProofs

USE DEF Time, NoTime

CallOf(step, id, request, drained_at, draft) ==
    [step |-> step, id |-> id, request |-> request, drained_at |-> drained_at, draft |-> draft]

\* No quote that was due at t still holds its inputs in d.
NothingDue(d, t) ==
    \A id \in Ids : d.reservation[id].status = "Reserved" => d.reservation[id].accept_before > t

\* A draft is a nonempty part of the snapshot it names.
Drafted(f) ==
    /\ f.token # Null
    /\ f.items \in (SUBSET Items) \ {{}}
    /\ f.items \subseteq f.token.outputs

\* What the call x of caller c relies on, given the book d, the current snapshot
\* and the holder of the coordinator's lock.
CallOK(x, c, d, current, holder) ==
    /\ x = CallOf(x.step, x.id, x.request, x.drained_at, x.draft)
    /\ x.step # "idle" => x.id \in Ids /\ x.request \in Requests
    /\ x.step = "drained" =>
           x.drained_at \in Int /\ x.drained_at <= d.hwm /\ NothingDue(d, x.drained_at)
    /\ x.step \in {"drafted", "checking", "reserving"} => Drafted(x.draft)
    /\ x.step \in {"checking", "reserving"} => holder = c
    /\ x.step = "reserving" => x.draft.token = current

\* An answer repeats the terms stored under its key, which is bound for good.
AnswersOK(d, H) ==
    \A a \in H : /\ a.id \in Ids
                 /\ d.binding[a.id] # Null
                 /\ a.items = d.reservation[a.id].items
                 /\ a.accept_before = d.reservation[a.id].accept_before

\* A published snapshot lists inventory and was not refused since.
LatestOK == latest # Null => ~refused /\ latest.outputs \subseteq Items

Inv ==
    /\ Sound(db)
    /\ AnswersOK(db, answers)
    /\ LatestOK
    /\ call = [c \in Callers |-> call[c]]
    /\ \A c \in Callers : CallOK(call[c], c, db, latest, lock)

-----------------------------------------------------------------------------
(* What a step of the book leaves of it. *)

\* A step of the book that makes no new quote.
Quiet(d, e) == StoreStep(d, e) /\ NoneReserved(d, e)

\* Recording a clock reading keeps the tables.
LEMMA Observed ==
  ASSUME NEW d, Sound(d), NEW now \in Time, now >= d.hwm
  PROVE  /\ Sound(ObserveTime(d, now))
         /\ ObserveTime(d, now).hwm = now
         /\ ObserveTime(d, now).reservation = d.reservation
         /\ ObserveTime(d, now).binding = d.binding
         /\ ObserveTime(d, now).expirations = d.expirations
  <1>1. TableRecord(d)
    BY StoreElim DEF Sound
  <1>2. /\ ObserveTime(d, now).reservation = d.reservation
        /\ ObserveTime(d, now).binding = d.binding
        /\ ObserveTime(d, now).expirations = d.expirations
    BY <1>1, ZenonT(30) DEF ObserveTime, TableRecord
  <1>3. QED BY <1>2, ObserveTimeSound

\* Every write but a new reservation is quiet.
LEMMA ObservedQuiet ==
  ASSUME NEW d, Sound(d), NEW now \in Time, now >= d.hwm, NEW o, o = ObserveTime(d, now),
         NEW e, e = o \/ Releases(o, e) \/ Commits(o, e) \/ Imports(o, e)
  PROVE  Quiet(d, e)
  <1>1. Sound(o) /\ o.hwm \in Time /\ o.reservation = d.reservation
    BY Observed
  <1>2. OneWrite(o, e)
    BY DEF OneWrite
  <1>3. NoneReserved(o, e)
    BY <1>1, ReleasesQuiet, CommitsQuiet, ImportsQuiet
  <1>4. StoreStep(d, e)
    BY <1>2 DEF StoreStep
  <1>5. QED BY <1>1, <1>3, <1>4 DEF Quiet, NoneReserved

\* A quote that is new after a write is not due yet.
LEMMA NewIsNotDue ==
  ASSUME NEW d, Sound(d), d.hwm \in Time, NEW e, OneWrite(d, e), NEW id \in Ids,
         e.reservation[id].status = "Reserved", e.reservation[id] # d.reservation[id]
  PROVE  e.reservation[id].accept_before > d.hwm
  <1>1. Reserves(d, e)
    BY ReleasesQuiet, CommitsQuiet, RecordsReservesNothing, ImportsQuiet
    DEF OneWrite, NoneReserved
  <1>2. PICK i \in Ids, request \in Requests, items \in (SUBSET Items) \ {{}}, deadline \in Time :
            ReserveChanges(d, e, i, request, items, deadline)
    BY <1>1, ReserveEffect
  <1>3. d.reservation \in [Ids -> Reservation]
    BY DEF Sound, Store
  <1>4. PICK r : r = e.reservation[id] /\ r = NewReservation(request, items, d.hwm, deadline)
    BY <1>2, <1>3 DEF ReserveChanges
  <1>5. r.accept_before = deadline
    BY <1>4, NewReservationFields
  <1>6. QED BY <1>2, <1>4, <1>5 DEF ReserveChanges

\* What was drained stays drained.
LEMMA DrainedStays ==
  ASSUME Counting, NEW d, Sound(d), NEW e, StoreStep(d, e), NEW t \in Int, t <= d.hwm, NothingDue(d, t)
  PROVE  t <= e.hwm /\ NothingDue(e, t)
  <1>1. Sound(e) /\ e.hwm >= d.hwm /\ e.hwm \in Int /\ d.hwm \in Int
    <2>1. Sound(e) /\ Forward(d, e)
      BY StoreStepSound
    <2>2. d.hwm \in Int
      BY ConstantsAssumption DEF Sound, Store
    <2>3. QED BY <2>1, <2>2 DEF Forward, ClockKept
  <1>2. ASSUME NEW id \in Ids, e.reservation[id].status = "Reserved"
        PROVE  e.reservation[id].accept_before > t
    <2>1. CASE e.reservation[id] = d.reservation[id]
      BY <1>2, <2>1 DEF NothingDue
    <2>2. CASE e.reservation[id] # d.reservation[id]
      <3>1. PICK now \in Time : now >= d.hwm /\ OneWrite(ObserveTime(d, now), e)
        BY <2>2, Zenon DEF StoreStep
      <3>2. PICK o : o = ObserveTime(d, now) /\ OneWrite(o, e)
        BY <3>1, Zenon
      <3>3. Sound(o) /\ o.hwm = now /\ o.reservation = d.reservation
        BY <3>1, <3>2, Observed
      <3>4. e.reservation[id].accept_before > now
        BY <1>2, <2>2, <3>2, <3>3, NewIsNotDue, Zenon
      <3>5. e.reservation[id].accept_before \in Int
        BY <1>1 DEF Sound, Store, Reservation
      <3>6. QED BY <1>1, <3>1, <3>4, <3>5, ConstantsAssumption
    <2>3. QED BY <2>1, <2>2
  <1>3. QED BY <1>1, <1>2 DEF NothingDue

\* What a call relies on is kept by every step of the book.
LEMMA CallKept ==
  ASSUME Counting, NEW d, Sound(d), NEW e, StoreStep(d, e), NEW c, NEW x, NEW current, NEW holder,
         CallOK(x, c, d, current, holder)
  PROVE  CallOK(x, c, e, current, holder)
  BY DrainedStays, Zenon DEF CallOK

\* So is what was answered.
LEMMA AnswersKept ==
  ASSUME Counting, NEW d, Sound(d), NEW e, StoreStep(d, e), NEW H, AnswersOK(d, H)
  PROVE  AnswersOK(e, H)
  <1>1. KeyUsedOnce(d, e)
    BY StoreStepSound DEF Forward
  <1>2. QED BY <1>1 DEF AnswersOK, KeyUsedOnce

\* The answer of a bound key repeats its terms.
LEMMA AnswerOK ==
  ASSUME NEW d, NEW H, AnswersOK(d, H), NEW id \in Ids, d.binding[id] # Null
  PROVE  AnswersOK(d, H \cup {Answer(id, d.reservation[id])})
  <1>1. PICK a : a = Answer(id, d.reservation[id])
    BY Zenon
  <1>2. /\ a.id = id /\ a.items = d.reservation[id].items
        /\ a.accept_before = d.reservation[id].accept_before
    BY <1>1 DEF Answer
  <1>3. AnswersOK(d, H \cup {a})
    BY <1>2 DEF AnswersOK
  <1>4. QED BY <1>1, <1>3

\* A key that is bound stays bound.
LEMMA StaysBound ==
  ASSUME Counting, NEW d, Sound(d), NEW e, StoreStep(d, e), NEW id \in Ids,
         d.binding[id] \in Requests
  PROVE  e.binding[id] # Null
  <1>1. KeyUsedOnce(d, e)
    BY StoreStepSound, Zenon DEF Forward
  <1>2. d.binding[id] # Null
    BY NullAssumption
  <1>3. QED BY <1>1, <1>2, Zenon DEF KeyUsedOnce

\* A call that returns the answer of a bound key.
LEMMA AnswerReturned ==
  ASSUME NEW c, NEW d, AnswersOK(d, answers), NEW id \in Ids, d.binding[id] # Null,
         Return(c, {Answer(id, d.reservation[id])})
  PROVE  AnswersOK(d, answers') /\ Become(c, NoCall)
  BY AnswerOK, Zenon DEF Return

-----------------------------------------------------------------------------
(* Steps of one call, and steps of none. *)

\* One call goes on, perhaps taking the free lock or releasing its own.
LEMMA CallSteps ==
  ASSUME Counting, Inv, NEW c \in Callers, NEW x, Become(c, x), StoreStep(db, db'),
         CallOK(x, c, db', latest, lock'),
         lock' = lock \/ lock = Null \/ lock = c,
         AnswersOK(db', answers'), UNCHANGED <<latest, refused>>
  PROVE  Inv'
  <1>1. Sound(db')
    BY StoreStepSound DEF Inv
  <1>2. call' = [v \in Callers |-> IF v = c THEN x ELSE call[v]]
    <2>1. call' = [call EXCEPT ![c] = x] /\ call = [v \in Callers |-> call[v]]
      BY DEF Become, Inv
    <2>2. QED BY <2>1, Zenon
  <1>3. call' = [v \in Callers |-> call'[v]]
    BY <1>2, Zenon
  <1>4. ASSUME NEW v \in Callers PROVE CallOK(call'[v], v, db', latest', lock')
    <2>1. CASE v = c
      BY <1>2, <2>1
    <2>2. CASE v # c
      <3>1. CallOK(call[v], v, db', latest, lock)
        BY CallKept DEF Inv
      <3>2. call[v].step \in {"checking", "reserving"} => lock' = v
        BY <2>2, <3>1, AdmissionAssumption DEF CallOK
      <3>3. CallOK(call[v], v, db', latest, lock')
        BY <3>1, <3>2, Zenon DEF CallOK
      <3>4. QED BY <1>2, <2>2, <3>3
    <2>3. QED BY <2>1, <2>2
  <1>5. LatestOK'
    BY DEF Inv, LatestOK
  <1>6. QED BY <1>1, <1>3, <1>4, <1>5 DEF Inv

\* The book goes on, or a snapshot is replaced while nobody holds the lock.
LEMMA OtherSteps ==
  ASSUME Counting, Inv, StoreStep(db, db'), UNCHANGED <<lock, call, answers>>, LatestOK',
         latest' = latest \/ lock = Null
  PROVE  Inv'
  <1>1. Sound(db') /\ AnswersOK(db', answers')
    BY StoreStepSound, AnswersKept DEF Inv
  <1>2. ASSUME NEW v \in Callers PROVE CallOK(call[v], v, db', latest', lock)
    <2>1. CallOK(call[v], v, db', latest, lock)
      BY CallKept DEF Inv
    <2>2. call[v].step = "reserving" => latest' = latest
      BY <2>1, AdmissionAssumption DEF CallOK
    <2>3. QED BY <2>1, <2>2, Zenon DEF CallOK
  <1>3. QED BY <1>1, <1>2 DEF Inv

\* A caller without a call relies on nothing.
LEMMA NoCallOK == \A c, d, current, holder : CallOK(NoCall, c, d, current, holder)
  BY DEF NoCall, CallOK, CallOf

-----------------------------------------------------------------------------
(* What a call's steps change of it. *)

WithStep(x, step) == [x EXCEPT !.step = step]
WithId(x, id) == [x EXCEPT !.id = id]
WithRequest(x, request) == [x EXCEPT !.request = request]
WithDrainedAt(x, now) == [x EXCEPT !.drained_at = now]
WithDraft(x, draft) == [x EXCEPT !.draft = draft]

\* Each of them changes its own field.
LEMMA CallChange ==
  ASSUME NEW a, NEW b, NEW c, NEW d, NEW e, NEW v
  PROVE  /\ WithStep(CallOf(a, b, c, d, e), v) = CallOf(v, b, c, d, e)
         /\ WithId(CallOf(a, b, c, d, e), v) = CallOf(a, v, c, d, e)
         /\ WithRequest(CallOf(a, b, c, d, e), v) = CallOf(a, b, v, d, e)
         /\ WithDrainedAt(CallOf(a, b, c, d, e), v) = CallOf(a, b, c, v, e)
         /\ WithDraft(CallOf(a, b, c, d, e), v) = CallOf(a, b, c, d, v)
  <1>1. WithStep(CallOf(a, b, c, d, e), v) = CallOf(v, b, c, d, e)
    BY DEF CallOf, WithStep
  <1>2. WithDrainedAt(CallOf(a, b, c, d, e), v) = CallOf(a, b, c, v, e)
    BY DEF CallOf, WithDrainedAt
  <1>3. WithDraft(CallOf(a, b, c, d, e), v) = CallOf(a, b, c, d, v)
    BY DEF CallOf, WithDraft
  <1>4. WithId(CallOf(a, b, c, d, e), v) = CallOf(a, v, c, d, e)
    BY DEF CallOf, WithId
  <1>5. WithRequest(CallOf(a, b, c, d, e), v) = CallOf(a, b, v, d, e)
    BY DEF CallOf, WithRequest
  <1>6. QED BY <1>1, <1>2, <1>3, <1>4, <1>5

\* The fields of a call.
LEMMA CallFields ==
  ASSUME NEW a, NEW b, NEW c, NEW d, NEW e, NEW x, x = CallOf(a, b, c, d, e)
  PROVE  x.step = a /\ x.id = b /\ x.request = c /\ x.drained_at = d /\ x.draft = e
  BY DEF CallOf

-----------------------------------------------------------------------------
(* The operations. *)

\* The preflight releases at most, and answers from the book.
LEMMA PreflightInv ==
  ASSUME Counting, Inv, NEW c \in Callers, NEW id \in Ids, NEW request \in Requests, NEW now \in Time,
         Preflight(c, id, request, now)
  PROVE  Inv' /\ Quiet(db, db')
  <1>1. PICK S, o :
           /\ S \in SUBSET Ids
           /\ o = ObserveTime(db, now)
           /\ OldestDue(o, now, MaxExpirationBatch, S)
           /\ Write(now, PreflightFirmQuote(o, id, request, S, now))
           /\ \/ /\ o.binding[id] = request
                 /\ Return(c, {Answer(id, PreflightFirmQuote(o, id, request, S, now).reservation[id])})
              \/ /\ Become(c, [NoCall EXCEPT !.step = "draining", !.id = id, !.request = request])
                 /\ UNCHANGED answers
              \/ Return(c, {})
           /\ UNCHANGED <<latest, lock, refused>>
    BY Zenon DEF Preflight
  <1>2. PICK e : e = db' /\ e = PreflightFirmQuote(o, id, request, S, now) /\ now >= db.hwm
    BY <1>1, Zenon DEF Write
  <1>3. /\ Sound(o) /\ o.hwm = now /\ o.hwm \in Time /\ o.binding = db.binding
        /\ o.reservation = db.reservation
    BY <1>1, <1>2, Observed, Zenon DEF Inv
  <1>4. e = o \/ Releases(o, e)
    <2>1. S \subseteq Due(o, o.hwm) /\ e = PreflightFirmQuote(o, id, request, S, o.hwm)
      BY <1>1, <1>2, <1>3, Zenon DEF OldestDue
    <2>2. S \in SUBSET Ids
      BY <1>1
    <2>3. QED BY <1>3, <2>1, <2>2, PreflightFirmQuoteWrites
  <1>5. Quiet(db, e)
    BY <1>1, <1>2, <1>4, ObservedQuiet DEF Inv
  <1>6. StoreStep(db, db') /\ AnswersOK(db', answers)
    BY <1>2, <1>5, AnswersKept DEF Quiet, Inv
  <1>7. CASE Return(c, {})
    <2>1. AnswersOK(db', answers') /\ Become(c, NoCall)
      BY <1>6, <1>7, Zenon DEF Return
    <2>2. QED BY <1>1, <1>2, <1>5, <1>6, <2>1, NoCallOK, CallSteps
  <1>8. CASE o.binding[id] = request /\ Return(c, {Answer(id, e.reservation[id])})
    <2>1. db'.binding[id] # Null
      <3>1. Sound(db) /\ db.binding[id] \in Requests
        BY <1>3, <1>8, Zenon DEF Inv
      <3>2. QED BY <1>6, <3>1, StaysBound, Zenon
    <2>2. AnswersOK(db', answers') /\ Become(c, NoCall)
      BY <1>2, <1>6, <1>8, <2>1, AnswerReturned, Zenon
    <2>3. QED BY <1>1, <1>2, <1>5, <1>6, <2>2, NoCallOK, CallSteps
  <1>9. CASE /\ Become(c, [NoCall EXCEPT !.step = "draining", !.id = id, !.request = request])
             /\ answers' = answers
    <2>1. PICK x : x = CallOf("draining", id, request, NoTime, NoDraft) /\ Become(c, x)
      <3>1. Become(c, WithRequest(WithId(WithStep(NoCall, "draining"), id), request))
        BY <1>9, Zenon DEF WithRequest, WithId, WithStep
      <3>2. NoCall = CallOf("idle", Null, Null, NoTime, NoDraft)
        BY Zenon DEF NoCall, CallOf
      <3>3. WithStep(NoCall, "draining") = CallOf("draining", Null, Null, NoTime, NoDraft)
        BY <3>2, CallChange
      <3>4. WithId(WithStep(NoCall, "draining"), id) = CallOf("draining", id, Null, NoTime, NoDraft)
        BY <3>3, CallChange
      <3>5. QED BY <3>1, <3>4, CallChange
    <2>2. x.step = "draining" /\ x.id = id /\ x.request = request /\ x.drained_at = NoTime
          /\ x.draft = NoDraft
      BY <2>1, CallFields
    <2>3. CallOK(x, c, db', latest, lock')
      BY <2>1, <2>2, Zenon DEF CallOK
    <2>4. QED BY <1>1, <1>2, <1>5, <1>6, <1>9, <2>1, <2>3, CallSteps, ZenonT(30)
  <1>10. QED BY <1>1, <1>2, <1>7, <1>8, <1>9, Zenon

\* Releasing everything that is due leaves nothing due.
LEMMA DrainedAll ==
  ASSUME NEW o, Sound(o), o.hwm \in Time, NEW e, e = ExpireDueInWrite(o, Due(o, o.hwm), o.hwm)
  PROVE  o.hwm <= e.hwm /\ NothingDue(e, o.hwm)
  <1> DEFINE S == Due(o, o.hwm)
  <1>1. o.reservation \in [Ids -> Reservation] /\ S \in SUBSET Ids
    BY Zenon DEF Sound, Store, Due
  <1>2. ASSUME NEW id \in S PROVE HoldsItsInputs(o, id)
    <2>1. o.reservation[id].status = "Reserved"
      BY DueReserved
    <2>2. ReservationValid(o, id)
      BY <1>1, <2>1 DEF Sound, TablesValid, ReservationsValid
    <2>3. QED BY <2>1, <2>2, Zenon DEF ReservationValid, InputsAgree, DeadlineIndexed, HoldsItsInputs
  <1>3. TableRecord(o)
    BY StoreElim DEF Sound
  <1>4. ReleaseChanges(o, e, S, "Expired")
    BY <1>2, <1>3, ZenonT(30) DEF ExpireDueInWrite, ReleaseReserved, TableRecord, ReleaseChanges
  <1>5. ASSUME NEW id \in Ids, e.reservation[id].status = "Reserved"
        PROVE  e.reservation[id].accept_before > o.hwm
    <2>1. CASE id \in S
      <3>1. e.reservation[id] = Released(o.reservation[id], "Expired", o.hwm)
        BY <1>4, <2>1 DEF ReleaseChanges
      <3>2. o.reservation[id] \in Reservation
        BY <1>1, Zenon
      <3>3. Released(o.reservation[id], "Expired", o.hwm).status = "Released"
        BY <3>2, ReleasedFields DEF Reasons
      <3>4. QED BY <1>5, <3>1, <3>3, Zenon
    <2>2. CASE id \notin S
      <3>1. e.reservation[id] = o.reservation[id]
        BY <1>4, <2>2, Zenon DEF ReleaseChanges
      <3>2. /\ <<o.reservation[id].accept_before, id>> \in o.expirations
            /\ o.reservation[id].created_at \in Time
            /\ o.reservation[id].created_at < o.reservation[id].accept_before
        BY <1>5, <3>1, Zenon
        DEF Sound, TablesValid, ReservationsValid, ReservationValid, DeadlineIndexed, TimesValid
      <3>3. o.reservation[id].accept_before \in Int
        BY <1>1, Zenon DEF Reservation
      <3>4. o.reservation[id].accept_before <= o.hwm => o.reservation[id].accept_before \in Time
        BY <3>2, <3>3, ConstantsAssumption
      <3>5. ~(o.reservation[id].accept_before <= o.hwm)
        BY <2>2, <3>2, <3>4 DEF Due
      <3>6. QED BY <3>1, <3>3, <3>5, ConstantsAssumption
    <2>3. QED BY <2>1, <2>2
  <1>6. e.hwm = o.hwm
    BY <1>4 DEF ReleaseChanges
  <1>7. QED BY <1>5, <1>6, ConstantsAssumption DEF NothingDue

\* A turn of the drain loop releases due quotes; the last turn leaves none.
LEMMA DrainInv ==
  ASSUME Counting, Inv, NEW c \in Callers, NEW now \in Time, Drain(c, now)
  PROVE  Inv' /\ Quiet(db, db')
  <1>1. PICK S, o, x :
           /\ S \in SUBSET Ids
           /\ o = ObserveTime(db, now)
           /\ x = call[c]
           /\ x.step = "draining"
           /\ OldestDue(db, now, MaxExpirationBatch, S)
           /\ Write(now, ExpireDueInWrite(o, S, now))
           /\ Become(c, IF Cardinality(S) < MaxExpirationBatch
                        THEN WithDrainedAt(WithStep(x, "drained"), now) ELSE x)
           /\ UNCHANGED <<latest, lock, refused, answers>>
    BY Zenon DEF Drain, WithDrainedAt, WithStep
  <1>2. PICK e : e = db' /\ e = ExpireDueInWrite(o, S, now) /\ now >= db.hwm
    BY <1>1, Zenon DEF Write
  <1>3. /\ Sound(o) /\ o.hwm = now /\ o.hwm \in Time
        /\ o.reservation = db.reservation /\ o.expirations = db.expirations
    BY <1>1, <1>2, Observed DEF Inv
  <1>4. Due(o, now) = Due(db, now)
    BY <1>3, Zenon DEF Due
  <1>5. Releases(o, e)
    BY <1>1, <1>2, <1>3, <1>4, ExpireDueInWriteWrites DEF OldestDue
  <1>6. Quiet(db, e)
    BY <1>1, <1>2, <1>5, ObservedQuiet DEF Inv
  <1>7. StoreStep(db, db') /\ AnswersOK(db', answers')
    BY <1>1, <1>2, <1>6, AnswersKept DEF Quiet, Inv
  <1>8. CallOK(x, c, db', latest, lock')
    BY <1>1, <1>7, CallKept, Zenon DEF Inv
  <1>9. CASE Cardinality(S) < MaxExpirationBatch
    <2>1. S = Due(o, now)
      BY <1>1, <1>4, <1>9, Zenon DEF OldestDue
    <2>2. now <= db'.hwm /\ NothingDue(db', now)
      BY <1>2, <1>3, <2>1, DrainedAll
    <2>3. x = CallOf(x.step, x.id, x.request, x.drained_at, x.draft)
      BY <1>8, Zenon DEF CallOK
    <2>4. WithStep(x, "drained") = CallOf("drained", x.id, x.request, x.drained_at, x.draft)
      BY <2>3, CallChange
    <2>5. PICK y : y = CallOf("drained", x.id, x.request, now, x.draft) /\ Become(c, y)
      BY <1>1, <1>9, <2>4, CallChange
    <2>6. /\ y.step = "drained" /\ y.id = x.id /\ y.request = x.request /\ y.drained_at = now
          /\ y.draft = x.draft
      BY <2>5, CallFields
    <2>7. CallOK(y, c, db', latest, lock')
      <3>1. y = CallOf(y.step, y.id, y.request, y.drained_at, y.draft)
        BY <2>5, <2>6
      <3>2. x.id \in Ids /\ x.request \in Requests
        BY <1>1, <1>8, Zenon DEF CallOK
      <3>3. now \in Int
        BY DEF Time
      <3>4. QED BY <2>2, <2>6, <3>1, <3>2, <3>3, Zenon DEF CallOK
    <2>8. QED BY <1>1, <1>2, <1>6, <1>7, <2>5, <2>7, CallSteps, Zenon
  <1>10. CASE ~(Cardinality(S) < MaxExpirationBatch)
    <2>1. Become(c, x)
      BY <1>1, <1>10
    <2>2. QED BY <1>1, <1>2, <1>6, <1>7, <1>8, <2>1, CallSteps, Zenon
  <1>11. QED BY <1>9, <1>10

\* A step that leaves the book alone.
LEMMA SameBook ==
  ASSUME Inv, db' = db
  PROVE  Quiet(db, db') /\ StoreStep(db, db') /\ AnswersOK(db', answers)
  BY Zenon DEF Quiet, StoreStep, NoneReserved, Inv

\* A call that returns with nothing to tell.
LEMMA ReturnsNothing ==
  ASSUME Counting, Inv, NEW c \in Callers, Return(c, {}), StoreStep(db, db'), AnswersOK(db', answers),
         lock' = lock \/ lock = Null \/ lock = c, UNCHANGED <<latest, refused>>
  PROVE  Inv'
  <1>1. Become(c, NoCall) /\ AnswersOK(db', answers')
    BY DEF Return
  <1>2. QED BY <1>1, NoCallOK, CallSteps

\* Inputs are selected from the current snapshot.
LEMMA SelectInv ==
  ASSUME Counting, Inv, NEW c \in Callers, NEW now \in Time, Select(c, now)
  PROVE  Inv' /\ Quiet(db, db')
  <1> DEFINE draft(items) == [items |-> items, eligible |-> Eligible,
                              revision |-> db.revision, token |-> latest]
             x == call[c]
  <1>1. /\ x.step = "drained" /\ UNCHANGED <<db, latest, lock, refused>>
        /\ \/ /\ RequireFresh(now)
              /\ \E items \in (SUBSET Eligible) \ {{}} :
                    Become(c, WithDraft(WithStep(x, "drafted"), draft(items)))
              /\ UNCHANGED answers
           \/ Return(c, {})
    BY Zenon DEF Select, WithDraft, WithStep
  <1>2. Quiet(db, db') /\ StoreStep(db, db') /\ AnswersOK(db', answers)
    BY <1>1, SameBook, Zenon
  <1>3. CASE Return(c, {})
    BY <1>1, <1>2, <1>3, ReturnsNothing, ZenonT(30)
  <1>4. CASE ~Return(c, {})
    <2>1. PICK items \in (SUBSET Eligible) \ {{}} :
             Become(c, WithDraft(WithStep(x, "drafted"), draft(items)))
      BY <1>1, <1>4, Zenon
    <2>2. latest # Null /\ answers' = answers
      BY <1>1, <1>4 DEF RequireFresh
    <2>3. CallOK(x, c, db, latest, lock)
      BY DEF Inv
    <2>4. x = CallOf(x.step, x.id, x.request, x.drained_at, x.draft)
      BY <2>3, Zenon DEF CallOK
    <2>5. Eligible \subseteq latest.outputs /\ latest.outputs \subseteq Items
      BY <2>2, Zenon DEF Eligible, Inv, LatestOK
    <2>6. Drafted(draft(items))
      BY <2>2, <2>5 DEF Drafted
    <2>7. PICK f : f = draft(items) /\ Drafted(f) /\ Become(c, WithDraft(WithStep(x, "drafted"), f))
      BY <2>1, <2>6, Zenon
    <2> HIDE DEF draft
    <2>8. WithStep(x, "drafted") = CallOf("drafted", x.id, x.request, x.drained_at, x.draft)
      BY <2>4, CallChange
    <2>9. PICK y : y = CallOf("drafted", x.id, x.request, x.drained_at, f) /\ Become(c, y)
      BY <2>7, <2>8, CallChange
    <2>10. /\ y.step = "drafted" /\ y.id = x.id /\ y.request = x.request
           /\ y.drained_at = x.drained_at /\ y.draft = f
      BY <2>9, CallFields
    <2>11. CallOK(y, c, db', latest, lock')
      BY <1>1, <2>3, <2>7, <2>9, <2>10, Zenon DEF CallOK
    <2>12. QED BY <1>1, <1>2, <2>2, <2>9, <2>11, CallSteps
  <1>5. QED BY <1>3, <1>4

\* Under the lock a bound key is answered from the book.
LEMMA ReplayUnderLockInv ==
  ASSUME Counting, Inv, NEW c \in Callers, NEW now \in Time, ReplayUnderLock(c, now)
  PROVE  Inv' /\ Quiet(db, db')
  <1>1. PICK x, o :
           /\ x = call[c] /\ x.step = "drafted" /\ lock = Null
           /\ o = ObserveTime(db, now)
           /\ Write(now, ReplayFirmQuote(o, x.id, x.request, now))
           /\ \/ /\ lock' = c
                 /\ Become(c, WithStep(x, "checking"))
                 /\ UNCHANGED answers
              \/ /\ o.binding[x.id] = x.request
                 /\ Return(c, {Answer(x.id,
                         ReplayFirmQuote(o, x.id, x.request, now).reservation[x.id])})
              \/ Return(c, {})
           /\ UNCHANGED <<latest, refused>>
    BY Zenon DEF ReplayUnderLock, WithStep
  <1>2. PICK e : /\ e = db' /\ e = ReplayFirmQuote(o, x.id, x.request, now) /\ now >= db.hwm
                 /\ lock = Null /\ UNCHANGED <<latest, refused>>
    BY <1>1, Zenon DEF Write
  <1>3. /\ Sound(o) /\ o.hwm = now /\ o.binding = db.binding
    BY <1>1, <1>2, Observed, Zenon DEF Inv
  <1>4. CallOK(x, c, db, latest, lock) /\ x.id \in Ids /\ x.request \in Requests
    BY <1>1 DEF Inv, CallOK
  <1>5. e = o \/ Releases(o, e)
    BY <1>2, <1>3, <1>4, ReplayFirmQuoteWrites, Zenon
  <1>6. Quiet(db, e)
    BY <1>1, <1>2, <1>5, ObservedQuiet DEF Inv
  <1>7. StoreStep(db, db') /\ AnswersOK(db', answers)
    BY <1>2, <1>6, AnswersKept DEF Quiet, Inv
  <1>8. CASE Return(c, {})
    BY <1>2, <1>6, <1>7, <1>8, ReturnsNothing, Zenon
  <1>9. CASE /\ o.binding[x.id] = x.request
             /\ Return(c, {Answer(x.id, e.reservation[x.id])})
    <2>1. Sound(db) /\ db.binding[x.id] \in Requests
      BY <1>3, <1>4, <1>9, Zenon DEF Inv
    <2>2. db'.binding[x.id] # Null
      BY <1>4, <1>7, <2>1, StaysBound, Zenon
    <2>3. AnswersOK(db', answers') /\ Become(c, NoCall)
      BY <1>2, <1>4, <1>7, <1>9, <2>2, AnswerReturned, Zenon
    <2>4. QED BY <1>2, <1>6, <1>7, <2>3, NoCallOK, CallSteps, Zenon
  <1>10. CASE lock' = c /\ Become(c, WithStep(x, "checking")) /\ answers' = answers
    <2>1. x = CallOf(x.step, x.id, x.request, x.drained_at, x.draft)
      BY <1>4, Zenon DEF CallOK
    <2>2. PICK y : y = CallOf("checking", x.id, x.request, x.drained_at, x.draft) /\ Become(c, y)
      BY <1>10, <2>1, CallChange
    <2>3. /\ y.step = "checking" /\ y.id = x.id /\ y.request = x.request
          /\ y.drained_at = x.drained_at /\ y.draft = x.draft
      BY <2>2, CallFields
    <2>4. CallOK(y, c, db', latest, lock')
      BY <1>1, <1>4, <1>10, <2>2, <2>3, Zenon DEF CallOK
    <2>5. QED BY <1>2, <1>6, <1>7, <1>10, <2>2, <2>4, CallSteps, Zenon
  <1>11. QED BY <1>1, <1>2, <1>8, <1>9, <1>10, Zenon

\* The view is checked under the lock.
LEMMA CheckViewInv ==
  ASSUME Counting, Inv, NEW c \in Callers, NEW now \in Time, CheckView(c, now)
  PROVE  Inv' /\ Quiet(db, db')
  <1>1. PICK x :
           /\ x = call[c] /\ x.step = "checking" /\ UNCHANGED <<db, latest, refused>>
           /\ \/ /\ ViewUnchanged(x.draft)
                 /\ Become(c, WithStep(x, "reserving"))
                 /\ UNCHANGED <<lock, answers>>
              \/ lock' = Null /\ Return(c, {})
    BY Zenon DEF CheckView, WithStep
  <1>2. Quiet(db, db') /\ StoreStep(db, db') /\ AnswersOK(db', answers)
    BY <1>1, SameBook, Zenon
  <1>3. CallOK(x, c, db, latest, lock) /\ lock = c /\ UNCHANGED <<latest, refused>>
    BY <1>1, Zenon DEF Inv, CallOK
  <1>4. CASE lock' = Null /\ Return(c, {})
    BY <1>2, <1>3, <1>4, ReturnsNothing, ZenonT(30)
  <1>5. CASE /\ ViewUnchanged(x.draft)
             /\ Become(c, WithStep(x, "reserving"))
             /\ UNCHANGED <<lock, answers>>
    <2>1. x = CallOf(x.step, x.id, x.request, x.drained_at, x.draft)
      BY <1>3, Zenon DEF CallOK
    <2>2. PICK y : y = CallOf("reserving", x.id, x.request, x.drained_at, x.draft) /\ Become(c, y)
      BY <1>5, <2>1, CallChange
    <2>3. /\ y.step = "reserving" /\ y.id = x.id /\ y.request = x.request
          /\ y.drained_at = x.drained_at /\ y.draft = x.draft
      BY <2>2, CallFields
    <2>4. CallOK(y, c, db', latest, lock')
      BY <1>1, <1>3, <1>5, <2>2, <2>3, Zenon DEF CallOK, ViewUnchanged
    <2>5. QED BY <1>1, <1>2, <1>5, <2>2, <2>4, CallSteps
  <1>6. QED BY <1>1, <1>4, <1>5, Zenon

\* The new quotes of a step from d to e are made of the current snapshot.
FromLatest(d, e) ==
    \A id \in Ids :
        d.reservation[id].status = "Absent" /\ e.reservation[id].status = "Reserved" =>
            /\ latest # Null /\ ~refused
            /\ e.reservation[id].items \subseteq latest.outputs
            /\ e.reservation[id].created_at - latest.observed_at < MaxSnapshotAge

\* A quiet step makes none.
LEMMA QuietMakesNone ==
  ASSUME Quiet(db, db')
  PROVE  FromLatest(db, db')
  BY Zenon DEF Quiet, NoneReserved, FromLatest

\* The book reserves what it was asked to, if it reserves at all.
LEMMA ReserveRow ==
  ASSUME NEW o, Sound(o), o.hwm \in Time, NEW id \in Ids, NEW request \in Requests,
         NEW draft, draft.items \in (SUBSET Items) \ {{}}, NEW e,
         e = ReserveFirmQuote(o, id, request, draft, Lifetime, MaxSnapshotAge, o.hwm)
  PROVE  \/ NoneReserved(o, e)
         \/ /\ \A i \in Ids \ {id} : e.reservation[i] = o.reservation[i]
            /\ e.reservation[id].items = draft.items
            /\ e.reservation[id].created_at = o.hwm
            /\ o.hwm - draft.observed_at < MaxSnapshotAge
  <1>1. CASE o.binding[id] # Null
    <2>1. e = o \/ Releases(o, e)
      BY <1>1, ReplayFirmQuoteWrites, Zenon DEF ReserveFirmQuote
    <2>2. QED BY <2>1, ReleasesQuiet, Zenon
  <1>2. CASE o.binding[id] = Null /\ ~MayReserve(o, id, draft, Lifetime, MaxSnapshotAge, o.hwm)
    BY <1>2, ZenonT(30) DEF ReserveFirmQuote, NoneReserved
  <1>3. CASE o.binding[id] = Null /\ MayReserve(o, id, draft, Lifetime, MaxSnapshotAge, o.hwm)
    <2>1. PICK deadline : deadline = o.hwm + Lifetime
      BY Zenon
    <2>2. deadline \in Time /\ o.hwm - draft.observed_at < MaxSnapshotAge
      BY <1>3, <2>1, AdmissionAssumption, ConstantsAssumption DEF MayReserve, DeadlineFits
    <2>3. e = PersistNewReservation(o, id, request, draft.items, deadline, o.hwm)
      BY <1>3, <2>1, Zenon DEF ReserveFirmQuote
    <2>4. PICK r : r = NewReservation(request, draft.items, o.hwm, deadline)
      BY Zenon
    <2>5. TableRecord(o) /\ o.reservation \in [Ids -> Reservation]
      BY StoreElim, Zenon DEF Sound, Store
    <2>6. e.reservation = [o.reservation EXCEPT ![id] = r]
      BY <2>3, <2>4, <2>5, ZenonT(30) DEF PersistNewReservation, TableRecord
    <2>7. r.items = draft.items /\ r.created_at = o.hwm
      BY <2>2, <2>4, NewReservationFields
    <2>8. QED BY <2>2, <2>5, <2>6, <2>7
  <1>4. QED BY <1>1, <1>2, <1>3, Zenon

\* The lock's holder reserves from the snapshot it checked.
LEMMA ReserveDraftInv ==
  ASSUME Counting, Inv, NEW c \in Callers, NEW now \in Time, ReserveDraft(c, now)
  PROVE  Inv' /\ FromLatest(db, db')
  <1>1. PICK x, o, draft :
           /\ x = call[c] /\ x.step = "reserving"
           /\ o = ObserveTime(db, now)
           /\ draft = [items |-> x.draft.items, revision |-> x.draft.revision,
                       observed_at |-> latest.observed_at]
           /\ Write(now, ReserveFirmQuote(o, x.id, x.request, draft, Lifetime, MaxSnapshotAge, now))
           /\ lock' = Null
           /\ UNCHANGED <<latest, refused>>
           /\ LET e == ReserveFirmQuote(o, x.id, x.request, draft, Lifetime, MaxSnapshotAge, now)
              IN  Return(c, IF e.binding[x.id] = x.request
                            THEN {Answer(x.id, e.reservation[x.id])} ELSE {})
    BY Zenon DEF ReserveDraft
  <1>2. PICK e : /\ e = db' /\ now >= db.hwm
                 /\ e = ReserveFirmQuote(o, x.id, x.request, draft, Lifetime, MaxSnapshotAge, now)
    BY <1>1, Zenon DEF Write
  <1>3. Return(c, IF e.binding[x.id] = x.request THEN {Answer(x.id, e.reservation[x.id])} ELSE {})
    BY <1>1, <1>2, Zenon
  <1>4. draft.items = x.draft.items /\ draft.observed_at = latest.observed_at
    BY <1>1, Zenon
  <1>5. Sound(o) /\ o.hwm = now /\ o.hwm \in Time /\ o.reservation = db.reservation
    <2>1. Sound(db)
      BY DEF Inv
    <2>2. o = ObserveTime(db, now) /\ now >= db.hwm
      BY <1>1, <1>2, Zenon
    <2>3. QED BY <2>1, <2>2, Observed
  <1>6. /\ x.id \in Ids /\ x.request \in Requests /\ lock = c
        /\ Drafted(x.draft) /\ x.draft.token = latest
    BY <1>1, Zenon DEF Inv, CallOK
  <1>7. /\ latest # Null /\ ~refused /\ draft.items \in (SUBSET Items) \ {{}}
        /\ draft.items \subseteq latest.outputs
    BY <1>4, <1>6 DEF Drafted, Inv, LatestOK
  <1>8. StoreStep(db, db')
    <2>1. e = o \/ Releases(o, e) \/ Reserves(o, e)
      BY <1>2, <1>5, <1>6, <1>7, AdmissionAssumption, ReserveFirmQuoteWrites, Zenon
    <2>2. QED BY <1>1, <1>2, <2>1, Zenon DEF StoreStep, OneWrite
  <1>9. FromLatest(db, db')
    <2>1. \/ NoneReserved(o, e)
          \/ /\ \A i \in Ids \ {x.id} : e.reservation[i] = o.reservation[i]
             /\ e.reservation[x.id].items = draft.items
             /\ e.reservation[x.id].created_at = o.hwm
             /\ o.hwm - draft.observed_at < MaxSnapshotAge
      BY <1>2, <1>5, <1>6, <1>7, ReserveRow
    <2>2. CASE NoneReserved(o, e)
      BY <1>2, <1>5, <2>2, Zenon DEF FromLatest, NoneReserved
    <2>3. CASE ~NoneReserved(o, e)
      <3>1. ASSUME NEW id \in Ids, db.reservation[id].status = "Absent",
                   e.reservation[id].status = "Reserved"
            PROVE  id = x.id
        BY <1>5, <2>1, <2>3, <3>1, Zenon
      <3>2. /\ e.reservation[x.id].items \subseteq latest.outputs
            /\ e.reservation[x.id].created_at - latest.observed_at < MaxSnapshotAge
        BY <1>4, <1>7, <2>1, <2>3, Zenon
      <3>3. QED BY <1>2, <1>7, <3>1, <3>2, Zenon DEF FromLatest
    <2>4. QED BY <2>2, <2>3
  <1>10. AnswersOK(db', answers') /\ Become(c, NoCall)
    <2>1. AnswersOK(db', answers)
      BY <1>8, AnswersKept, Zenon DEF Inv
    <2>2. CASE e.binding[x.id] = x.request
      <3>1. Return(c, {Answer(x.id, e.reservation[x.id])})
        BY <1>3, <2>2, Zenon
      <3>2. e.binding[x.id] # Null
        BY <1>6, <2>2, NullAssumption
      <3>3. QED BY <1>2, <1>6, <2>1, <3>1, <3>2, AnswerReturned, Zenon
    <2>3. CASE e.binding[x.id] # x.request
      <3>1. Return(c, {})
        BY <1>3, <2>3, Zenon
      <3>2. answers' = answers /\ Become(c, NoCall)
        BY <3>1 DEF Return
      <3>3. QED BY <2>1, <3>2, Zenon
    <2>4. QED BY <2>2, <2>3
  <1>11. QED BY <1>1, <1>6, <1>8, <1>9, <1>10, NoCallOK, CallSteps, Zenon

\* A refused answer withdraws the snapshot while nobody relies on it.
LEMMA RefreshRejectedInv ==
  ASSUME Counting, Inv, NEW now \in Time, RefreshRejected(now)
  PROVE  Inv' /\ Quiet(db, db')
  <1>1. /\ lock = Null /\ latest' = Null /\ UNCHANGED <<lock, call, answers>>
        /\ db' = db \/ (now >= db.hwm /\ db' = ObserveTime(db, now))
    BY Zenon DEF RefreshRejected, Write
  <1>2. Quiet(db, db') /\ StoreStep(db, db')
    BY <1>1, SameBook, ObservedQuiet DEF Inv, Quiet
  <1>3. LatestOK'
    BY <1>1, Zenon DEF LatestOK
  <1>4. QED BY <1>1, <1>2, <1>3, OtherSteps

\* So does a newer answer.
LEMMA RefreshPublishedInv ==
  ASSUME Counting, Inv, NEW now \in Time, NEW outputs \in SUBSET Items, RefreshPublished(outputs, now)
  PROVE  Inv' /\ Quiet(db, db')
  <1>1. PICK o :
        /\ lock = Null /\ refused' = FALSE /\ UNCHANGED <<lock, call, answers>>
        /\ latest' = [generation |-> generation + 1, outputs |-> outputs, observed_at |-> now]
        /\ now >= db.hwm /\ o = ObserveTime(db, now) /\ db' = ImportInventory(o, outputs, now)
        /\ \A x, y \in outputs : x[1] = y[1] => x = y
    BY Zenon DEF RefreshPublished, Write
  <1>2. PICK e : e = db' /\ e = ImportInventory(o, outputs, now)
    BY <1>1, Zenon
  <1>3. o.hwm = now
    BY <1>1, Observed, Zenon DEF Inv
  <1>4. Imports(o, e)
    BY <1>1, <1>2, <1>3, Zenon DEF Imports
  <1>5. Quiet(db, db') /\ StoreStep(db, db')
    BY <1>1, <1>2, <1>4, ObservedQuiet, Zenon DEF Inv, Quiet
  <1>6. LatestOK'
    BY <1>1 DEF LatestOK
  <1>7. QED BY <1>1, <1>5, <1>6, OtherSteps

\* The book's other clients make no quotes.
LEMMA ElsewhereInv ==
  ASSUME Counting, Inv, NEW now \in Time, NEW id \in Ids, Elsewhere(id, now)
  PROVE  Inv' /\ Quiet(db, db')
  <1>1. PICK o, e, owner, payload :
        /\ UNCHANGED <<latest, lock, call, refused, answers>>
        /\ now >= db.hwm /\ o = ObserveTime(db, now) /\ e = db' /\ owner = id[1]
        /\ \/ e = Cancel(o, owner, id, now)
           \/ e = CommitBeforeSign(o, owner, id, payload, now)
    BY Zenon DEF Elsewhere, Write
  <1>2. Sound(o) /\ o.hwm = now /\ o.hwm \in Time
    BY <1>1, Observed DEF Inv
  <1>3. e = o \/ Releases(o, e) \/ Commits(o, e)
    BY <1>1, <1>2, ReleaseBeforeCommitWrites, CommitBeforeSignWrites, Zenon
  <1>4. Quiet(db, db') /\ StoreStep(db, db')
    BY <1>1, <1>3, ObservedQuiet DEF Inv, Quiet
  <1>5. LatestOK'
    BY <1>1 DEF Inv, LatestOK
  <1>6. QED BY <1>1, <1>4, <1>5, OtherSteps

\* A new process relies on nothing.
LEMMA RestartInv ==
  ASSUME Inv, Restart
  PROVE  Inv' /\ Quiet(db, db')
  <1>1. db' = db /\ latest' = Null /\ call' = [c \in Callers |-> NoCall] /\ answers' = answers
    BY DEF Restart
  <1>2. Quiet(db, db') /\ AnswersOK(db', answers') /\ Sound(db')
    BY <1>1, SameBook, Zenon DEF Inv
  <1>3. LatestOK'
    BY <1>1, Zenon DEF LatestOK
  <1>4. QED BY <1>1, <1>2, <1>3, NoCallOK DEF Inv

-----------------------------------------------------------------------------
(* Every step. *)

\* The first process starts with an empty book.
LEMMA InitInv == Init => Inv
  BY EmptySound, NoCallOK DEF Init, Inv, AnswersOK, LatestOK

\* Every step keeps the invariant and makes quotes from the current snapshot only.
LEMMA NextInv ==
  ASSUME Counting, Inv, [Next]_vars
  PROVE  Inv' /\ FromLatest(db, db')
  <1>1. ASSUME NEW now \in Time, RefreshRejected(now) PROVE Inv' /\ FromLatest(db, db')
    BY <1>1, RefreshRejectedInv, QuietMakesNone
  <1>2. ASSUME NEW now \in Time, NEW outputs \in SUBSET Items, RefreshPublished(outputs, now)
        PROVE  Inv' /\ FromLatest(db, db')
    BY <1>2, RefreshPublishedInv, QuietMakesNone
  <1>3. ASSUME NEW now \in Time, NEW c \in Callers, NEW id \in Ids, NEW request \in Requests,
               Preflight(c, id, request, now)
        PROVE  Inv' /\ FromLatest(db, db')
    BY <1>3, PreflightInv, QuietMakesNone
  <1>4. ASSUME NEW now \in Time, NEW c \in Callers, CallStep(c, now)
        PROVE  Inv' /\ FromLatest(db, db')
    <2>1. CASE Drain(c, now)
      BY <2>1, DrainInv, QuietMakesNone
    <2>2. CASE Select(c, now)
      BY <2>2, SelectInv, QuietMakesNone
    <2>3. CASE ReplayUnderLock(c, now)
      BY <2>3, ReplayUnderLockInv, QuietMakesNone
    <2>4. CASE CheckView(c, now)
      BY <2>4, CheckViewInv, QuietMakesNone
    <2>5. CASE ReserveDraft(c, now)
      BY <2>5, ReserveDraftInv
    <2>6. QED BY <1>4, <2>1, <2>2, <2>3, <2>4, <2>5 DEF CallStep
  <1>5. ASSUME NEW now \in Time, NEW id \in Ids, Elsewhere(id, now)
        PROVE  Inv' /\ FromLatest(db, db')
    BY <1>5, ElsewhereInv, QuietMakesNone
  <1>6. ASSUME Restart PROVE Inv' /\ FromLatest(db, db')
    BY <1>6, RestartInv, QuietMakesNone
  <1>7. ASSUME UNCHANGED vars PROVE Inv' /\ FromLatest(db, db')
    <2>1. UNCHANGED <<db, latest, lock, call, refused, answers>>
      BY <1>7 DEF vars
    <2>2. LatestOK'
      BY <2>1 DEF Inv, LatestOK
    <2>3. Quiet(db, db') /\ StoreStep(db, db')
      BY <2>1, SameBook
    <2>4. QED BY <2>1, <2>2, <2>3, OtherSteps, QuietMakesNone
  <1>8. QED BY <1>1, <1>2, <1>3, <1>4, <1>5, <1>6, <1>7, Zenon DEF Next

-----------------------------------------------------------------------------
(* The theorems. *)

Sets == INSTANCE FiniteSetTheorems

\* A set of reservations has a number of members.
LEMMA CountingHolds == Counting
  <1>1. \A S : (IsFiniteSet(S) <=> Sets!IsFiniteSet(S)) /\ Cardinality(S) = Sets!Cardinality(S)
    BY Zenon DEF IsFiniteSet, Sets!IsFiniteSet, Cardinality, Sets!Cardinality
  <1>2. Sets!IsFiniteSet(Owners) /\ Sets!IsFiniteSet(Keys)
    BY <1>1, ConstantsAssumption, Zenon
  <1>3. Sets!IsFiniteSet(Ids)
    BY <1>2, Sets!FS_Product, Zenon DEF Ids
  <1>4. \A S \in SUBSET Ids : Sets!Cardinality(S) \in Nat
    BY <1>3, Sets!FS_Subset, Sets!FS_CardinalityType, Zenon
  <1>5. QED BY <1>1, <1>4, Zenon DEF Counting

\* A call that goes on to select inputs has left no quote that was due at its
\* last clock reading, and nobody has made one since.
THEOREM BacklogIsDrained == Spec => []NothingDueAfterDrain
  <1>1. Inv => NothingDueAfterDrain
    BY DEF Inv, CallOK, NothingDue, NothingDueAfterDrain
  <1>2. Inv /\ [Next]_vars => Inv'
    BY CountingHolds, NextInv, Zenon
  <1>3. QED BY <1>1, <1>2, InitInv, PTL DEF Spec

\* Whichever of its racing retries reserved it, a key is answered with the terms
\* the book stores for it.
THEOREM AnswersAreDurable == Spec => []OneAnswerPerKey
  <1>1. Inv => OneAnswerPerKey
    BY DEF Inv, AnswersOK, OneAnswerPerKey
  <1>2. Inv /\ [Next]_vars => Inv'
    BY CountingHolds, NextInv
  <1>3. QED BY <1>1, <1>2, InitInv, PTL DEF Spec

\* Inputs are reserved from the source's latest complete answer only, while it is
\* fresh (InventoryCoordinator::reserve_firm_quote).
THEOREM QuotesComeFromTheLatestScan == Spec => ReservesFromLatestScan
  <1>1. Inv /\ [Next]_vars => Inv'
    BY CountingHolds, NextInv
  <1>2. Inv /\ [Next]_vars =>
           [\A id \in NewlyReserved :
               /\ latest # Null /\ ~refused
               /\ db'.reservation[id].items \subseteq latest.outputs
               /\ db'.reservation[id].created_at - latest.observed_at < MaxSnapshotAge]_vars
    BY CountingHolds, NextInv DEF FromLatest, NewlyReserved
  <1>3. QED BY <1>1, <1>2, InitInv, PTL DEF Spec, ReservesFromLatestScan

=============================================================================
