--------------------------- MODULE QuoteAdmission ---------------------------
(***************************************************************************)
(* QuoteEngine::firm_quote (quote.rs) over InventoryCoordinator            *)
(* (inventory.rs) and one reservation book.                                *)
(*                                                                         *)
(* A call is preflighted, drains the expired reservations, selects inputs  *)
(* from the eligible view and reserves them.  Only the last part runs      *)
(* under the coordinator's lock, and even there other operations of the    *)
(* book interleave.  Each clock reading is arbitrary but not below the     *)
(* book's high-water mark: a lower one is an error that writes nothing.    *)
(*                                                                         *)
(* Pricing and coin selection are a choice: any nonempty part of the       *)
(* eligible view, or a refusal.  A snapshot commitment is the set of       *)
(* outputs it commits to.                                                  *)
(***************************************************************************)
EXTENDS ReservationStore

CONSTANTS
    Callers,            \* concurrent firm_quote calls
    Lifetime,           \* policy.quote_lifetime_millis
    MaxSnapshotAge,     \* max_snapshot_age_millis
    MaxExpirationBatch, \* MAX_EXPIRATION_BATCH
    MaxGeneration,      \* bound on published scans
    MaxRestarts         \* bound on restarts of the process

ASSUME AdmissionAssumption ==
    /\ Lifetime \in Nat \ {0}
    /\ MaxSnapshotAge \in Nat \ {0}
    /\ MaxExpirationBatch \in Nat \ {0}
    /\ MaxGeneration \in Nat
    /\ MaxRestarts \in Nat
    /\ Null \notin Callers

VARIABLES
    db,         \* the reservation book on disk
    generation, \* CoordinatorState.generation
    latest,     \* CoordinatorState.latest
    lock,       \* who holds the coordinator's mutex
    call,       \* each caller's firm_quote call
    restarts,
    refused,    \* the source's most recent complete answer was refused
    answers     \* every quote returned to a caller

vars == <<db, generation, latest, lock, call, restarts, refused, answers>>

NoDraft == [items |-> {}, eligible |-> {}, revision |-> 0, token |-> Null]

NoCall == [step |-> "idle", id |-> Null, request |-> Null, drained_at |-> NoTime,
           draft |-> NoDraft]

Answer(id, r) == [id |-> id, items |-> r.items, accept_before |-> r.accept_before]

Init ==
    /\ db = EmptyStore
    /\ generation = 0
    /\ latest = Null
    /\ lock = Null
    /\ call = [c \in Callers |-> NoCall]
    /\ restarts = 0
    /\ refused = FALSE
    /\ answers = {}

\* begin_timed_write and commit_write around a write that leaves "after".
Write(now, after) ==
    /\ now >= db.hwm
    /\ db' = after

Become(c, state) == call' = [call EXCEPT ![c] = state]

Return(c, some) ==
    /\ Become(c, NoCall)
    /\ answers' = answers \cup some

-----------------------------------------------------------------------------
(* The inventory coordinator. *)

\* A faulty variant of RefreshRejected: the previous snapshot stays current.
RefreshRejectedKeeping(now) ==
    /\ lock = Null
    /\ refused' = TRUE
    /\ Write(now, ObserveTime(db, now))
    /\ UNCHANGED <<generation, latest, lock, call, restarts, answers>>

\* refresh, when the source's complete answer is refused: a wrong identity, too
\* many outputs, a repeated outpoint, or metadata that contradicts the book.
RefreshRejected(now) ==
    /\ lock = Null
    /\ refused' = TRUE
    /\ latest' = Null
    /\ \/ UNCHANGED db
       \/ Write(now, ObserveTime(db, now))
    /\ UNCHANGED <<generation, lock, call, restarts, answers>>

\* refresh, when the answer repeats no outpoint, is imported and published.
RefreshPublished(outputs, now) ==
    /\ lock = Null
    /\ generation < MaxGeneration
    /\ \A x, y \in outputs : x[1] = y[1] => x = y
    /\ ~ConflictsWith(db, outputs)
    /\ Write(now, ImportInventory(ObserveTime(db, now), outputs, now))
    /\ generation' = generation + 1
    /\ latest' = [generation |-> generation + 1, outputs |-> outputs, observed_at |-> now]
    /\ refused' = FALSE
    /\ UNCHANGED <<lock, call, restarts, answers>>

\* require_fresh
RequireFresh(now) ==
    /\ now >= db.hwm
    /\ latest # Null
    /\ now >= latest.observed_at
    /\ now - latest.observed_at < MaxSnapshotAge

\* eligible_from_snapshot: the published outputs that are available on disk.
Eligible == {item \in latest.outputs : db.allocation[item[1]] = Available}

-----------------------------------------------------------------------------
(* firm_quote. *)

\* preflight_firm_quote: replay, refuse or go on.
Preflight(c, id, request, now) ==
    \E S \in SUBSET Ids :
        LET d == ObserveTime(db, now)
            after == PreflightFirmQuote(d, id, request, S, now)
        IN
        /\ call[c].step = "idle"
        /\ OldestDue(d, now, MaxExpirationBatch, S)
        /\ Write(now, after)
        /\ \/ /\ d.binding[id] = request
              /\ Return(c, {Answer(id, after.reservation[id])})
           \/ /\ d.binding[id] = Null /\ QuotaAllows(after, id[1], now)
              /\ Become(c, [NoCall EXCEPT !.step = "draining", !.id = id, !.request = request])
              /\ UNCHANGED answers
           \/ /\ d.binding[id] # request
              /\ d.binding[id] = Null => ~QuotaAllows(after, id[1], now)
              /\ Return(c, {})
        /\ UNCHANGED <<generation, latest, lock, restarts, refused>>

\* A faulty variant of Drain: one batch is taken to be all that is due.
DrainOnce(c, now) ==
    /\ call[c].step = "draining"
    /\ \E S \in SUBSET Ids :
          /\ OldestDue(db, now, MaxExpirationBatch, S)
          /\ Write(now, ExpireDueInWrite(ObserveTime(db, now), S, now))
    /\ Become(c, [call[c] EXCEPT !.step = "drained", !.drained_at = now])
    /\ UNCHANGED <<generation, latest, lock, restarts, refused, answers>>

\* One turn of the expire_due loop.
Drain(c, now) ==
    \E S \in SUBSET Ids :
        /\ call[c].step = "draining"
        /\ OldestDue(db, now, MaxExpirationBatch, S)
        /\ Write(now, ExpireDueInWrite(ObserveTime(db, now), S, now))
        /\ Become(c, IF Cardinality(S) < MaxExpirationBatch
                     THEN [call[c] EXCEPT !.step = "drained", !.drained_at = now]
                     ELSE call[c])
        /\ UNCHANGED <<generation, latest, lock, restarts, refused, answers>>

\* eligible, price, calculate_execution, select_inventory and the destinations.
Select(c, now) ==
    /\ call[c].step = "drained"
    /\ lock = Null
    /\ \/ /\ RequireFresh(now)
          /\ \E items \in (SUBSET Eligible) \ {{}} :
                Become(c, [call[c] EXCEPT
                    !.step = "drafted",
                    !.draft = [items |-> items, eligible |-> Eligible,
                               revision |-> db.revision, token |-> latest]])
          /\ UNCHANGED answers
       \/ Return(c, {})
    /\ UNCHANGED <<db, generation, latest, lock, restarts, refused>>

\* reserve_firm_quote takes the lock and replays a request that won meanwhile.
ReplayUnderLock(c, now) ==
    LET id == call[c].id
        d == ObserveTime(db, now)
        after == ReplayFirmQuote(d, id, call[c].request, now)
    IN
    /\ call[c].step = "drafted"
    /\ lock = Null
    /\ Write(now, after)
    /\ \/ /\ d.binding[id] = Null
          /\ lock' = c
          /\ Become(c, [call[c] EXCEPT !.step = "checking"])
          /\ UNCHANGED answers
       \/ /\ d.binding[id] = call[c].request
          /\ Return(c, {Answer(id, after.reservation[id])})
          /\ UNCHANGED lock
       \/ /\ d.binding[id] \notin {Null, call[c].request}
          /\ Return(c, {})
          /\ UNCHANGED lock
    /\ UNCHANGED <<generation, latest, restarts, refused>>

\* The draft still describes the current view.
ViewUnchanged(draft) ==
    /\ draft.token = latest
    /\ draft.revision = db.revision
    /\ draft.eligible = Eligible

\* A faulty variant of CheckView: an early return that keeps the lock.
CheckViewForgetful(c, now) ==
    /\ call[c].step = "checking"
    /\ IF RequireFresh(now) /\ ViewUnchanged(call[c].draft)
       THEN Become(c, [call[c] EXCEPT !.step = "reserving"]) /\ UNCHANGED answers
       ELSE Return(c, {})
    /\ UNCHANGED <<db, generation, latest, lock, restarts, refused>>

\* require_fresh and the comparisons of reserve_firm_quote; every mismatch is an
\* error that releases the lock.
CheckView(c, now) ==
    /\ call[c].step = "checking"
    /\ \/ /\ RequireFresh(now) /\ ViewUnchanged(call[c].draft)
          /\ Become(c, [call[c] EXCEPT !.step = "reserving"])
          /\ UNCHANGED <<lock, answers>>
       \/ /\ ~(RequireFresh(now) /\ ViewUnchanged(call[c].draft))
          /\ lock' = Null
          /\ Return(c, {})
    /\ UNCHANGED <<db, generation, latest, restarts, refused>>

\* A faulty variant of ReserveDraft: the draft is answered whatever the book did.
ReserveDraftEcho(c, now) ==
    LET d == call[c].draft IN
    /\ call[c].step = "reserving"
    /\ Write(now, ReserveFirmQuote(ObserveTime(db, now), call[c].id, call[c].request,
                     [items |-> d.items, revision |-> d.revision,
                      observed_at |-> latest.observed_at], Lifetime, MaxSnapshotAge, now))
    /\ lock' = Null
    /\ Return(c, {[id |-> call[c].id, items |-> d.items, accept_before |-> now + Lifetime]})
    /\ UNCHANGED <<generation, latest, restarts, refused>>

\* reserve_firm_quote_from_snapshot, with a clock reading of its own.
ReserveDraft(c, now) ==
    LET id == call[c].id
        request == call[c].request
        draft == [items |-> call[c].draft.items, revision |-> call[c].draft.revision,
                  observed_at |-> latest.observed_at]
        after == ReserveFirmQuote(ObserveTime(db, now), id, request, draft,
                                  Lifetime, MaxSnapshotAge, now)
    IN
    /\ call[c].step = "reserving"
    /\ Write(now, after)
    /\ lock' = Null
    /\ Return(c, IF after.binding[id] = request
                 THEN {Answer(id, after.reservation[id])} ELSE {})
    /\ UNCHANGED <<generation, latest, restarts, refused>>

-----------------------------------------------------------------------------
(* Everything else that writes to the book. *)

\* cancel and commit_before_sign of a quote, which need no coordinator lock.
Elsewhere(id, now) ==
    /\ \/ Write(now, Cancel(ObserveTime(db, now), id[1], id, now))
       \/ \E payload \in Payloads :
             Write(now, CommitBeforeSign(ObserveTime(db, now), id[1], id, payload, now))
    /\ UNCHANGED <<generation, latest, lock, call, restarts, refused, answers>>

\* A new process reopens the book with no snapshot and no calls.
Restart ==
    /\ restarts < MaxRestarts
    /\ ValidateStoreIntegrity(db)
    /\ restarts' = restarts + 1
    /\ generation' = 0
    /\ latest' = Null
    /\ lock' = Null
    /\ call' = [c \in Callers |-> NoCall]
    /\ UNCHANGED <<db, refused, answers>>

CallStep(c, now) ==
    \/ Drain(c, now)
    \/ Select(c, now)
    \/ ReplayUnderLock(c, now)
    \/ CheckView(c, now)
    \/ ReserveDraft(c, now)

Next ==
    \/ \E now \in Time :
          \/ RefreshRejected(now)
          \/ \E outputs \in SUBSET Items : RefreshPublished(outputs, now)
          \/ \E c \in Callers :
                \/ \E id \in Ids, request \in Requests : Preflight(c, id, request, now)
                \/ CallStep(c, now)
          \/ \E id \in Ids : Elsewhere(id, now)
    \/ Restart

\* A call that has started keeps running, and a call that waits for the lock
\* while it is released again and again obtains it.
Fairness == \A c \in Callers : SF_vars(\E now \in Time : CallStep(c, now))

Spec == Init /\ [][Next]_vars /\ Fairness

-----------------------------------------------------------------------------
(* Properties *)

NewlyReserved ==
    {id \in Ids : /\ db.reservation[id].status = "Absent"
                  /\ db'.reservation[id].status = "Reserved"}

\* Inputs are only ever reserved from the wallet source's most recent complete
\* answer, and while it is fresh: a refused answer, a newer scan that dropped
\* an output or a restart between selection and reservation all stop the quote.
ReservesFromLatestScan ==
    [][\A id \in NewlyReserved :
          /\ latest # Null /\ ~refused
          /\ db'.reservation[id].items \subseteq latest.outputs
          /\ db'.reservation[id].created_at - latest.observed_at < MaxSnapshotAge]_vars

\* When a call goes on to select inputs, nothing that was due at its last clock
\* reading still holds any, however long the backlog was and whoever reserved
\* meanwhile.
NothingDueAfterDrain ==
    \A c \in Callers :
        call[c].step = "drained" =>
            \A id \in Ids :
                db.reservation[id].status = "Reserved" =>
                    db.reservation[id].accept_before > call[c].drained_at

\* An idempotency key is answered with one quote, the durable one, whichever
\* of its racing retries reserved it.
OneAnswerPerKey ==
    \A a \in answers :
        /\ a.items = db.reservation[a.id].items
        /\ a.accept_before = db.reservation[a.id].accept_before

\* Every call returns: neither the drain loop nor the coordinator's lock can
\* keep it for ever.
CallsReturn == \A c \in Callers : (call[c].step # "idle") ~> (call[c].step = "idle")

=============================================================================
