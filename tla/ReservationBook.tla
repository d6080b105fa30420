--------------------------- MODULE ReservationBook ---------------------------
(***************************************************************************)
(* ReservationBook (deadcat-rfq-provider/src/store.rs) as a state machine. *)
(*                                                                         *)
(* Every public operation takes the operation lock, commits its clock      *)
(* reading, and then commits or drops its own write transaction, so one    *)
(* operation is one action here.  Its caller may be any thread: the        *)
(* arguments are unconstrained.  The clock reading is arbitrary but not    *)
(* below the stored high-water mark, a lower one being refused before      *)
(* anything is written (ClockRegression).                                  *)
(*                                                                         *)
(* A commit that reports an error may or may not have reached the disk,    *)
(* and a crash may fall between the two commits.  Either way the handle is *)
(* unusable until the database is reopened, which validates every table.   *)
(***************************************************************************)
EXTENDS ReservationStore

CONSTANTS
    Lifetimes,          \* quote lifetimes of the configured policies
    MaxSnapshotAge,     \* freshness policy of the inventory coordinator
    MaxExpirationBatch  \* MAX_EXPIRATION_BATCH

ASSUME BookAssumption ==
    /\ Lifetimes \subseteq Nat \ {0}
    /\ MaxSnapshotAge \in Nat \ {0}
    /\ MaxExpirationBatch \in Nat \ {0}

VARIABLES
    db,         \* what is on disk
    poisoned    \* ReservationBook.poisoned, or no open handle after a crash

vars == <<db, poisoned>>

Init ==
    /\ db = EmptyStore
    /\ poisoned = FALSE

\* commit_write for the two commits of a timed operation.
CommitWrite(before, observed, after) ==
    \/ /\ db' = after
       /\ poisoned' = FALSE
    \/ /\ db' \in {before, observed, after}
       /\ poisoned' = TRUE

\* begin_timed_write_locked around a write that would leave "after".
TimedWrite(now, after) ==
    /\ ~poisoned
    /\ now >= db.hwm
    /\ CommitWrite(db, ObserveTime(db, now), after)

\* import_inventory_batch refuses a repeated outpoint before reading the clock.
DoImportInventory(items, now) ==
    /\ \A x, y \in items : x[1] = y[1] => x = y
    /\ TimedWrite(now, ImportInventory(ObserveTime(db, now), items, now))

DoPreflightFirmQuote(id, request, now) ==
    \E S \in SUBSET Ids :
        /\ OldestDue(db, now, MaxExpirationBatch, S)
        /\ TimedWrite(now, PreflightFirmQuote(ObserveTime(db, now), id, request, S, now))

DoReplayFirmQuote(id, request, now) ==
    TimedWrite(now, ReplayFirmQuote(ObserveTime(db, now), id, request, now))

DoReserveFirmQuote(id, request, draft, lifetime, now) ==
    TimedWrite(now, ReserveFirmQuote(ObserveTime(db, now), id, request, draft,
                                     lifetime, MaxSnapshotAge, now))

DoCancel(owner, id, now) ==
    TimedWrite(now, Cancel(ObserveTime(db, now), owner, id, now))

DoRejectUncommitted(id, now) ==
    TimedWrite(now, RejectUncommitted(ObserveTime(db, now), id, now))

\* expire_due with a positive limit.
DoExpireDue(limit, now) ==
    \E S \in SUBSET Ids :
        /\ OldestDue(db, now, limit, S)
        /\ TimedWrite(now, ExpireDueInWrite(ObserveTime(db, now), S, now))

DoCommitBeforeSign(owner, id, payload, now) ==
    TimedWrite(now, CommitBeforeSign(ObserveTime(db, now), owner, id, payload, now))

\* record_finalized_pset: an artifact already stored is replayed before the
\* clock is read, so only a committed job is written.
DoRecordFinalizedPset(id, payload, artifact, now) ==
    /\ db.reservation[id].status = "Committed"
    /\ TimedWrite(now, RecordSigned(ObserveTime(db, now), id, payload, artifact, now))

\* ReservationBook::open on the existing file.
Open ==
    /\ poisoned
    /\ ValidateStoreIntegrity(db)
    /\ poisoned' = FALSE
    /\ UNCHANGED db

\* The snapshot a draft was selected from is current or superseded, and just
\* observed or exactly too old: the cases MayReserve tells apart.
Drafts(now) ==
    [items: (SUBSET Items) \ {{}},
     revision: {db.revision, db.revision + 1},
     observed_at: {now, now - MaxSnapshotAge}]

Next ==
    \/ \E now \in Time :
          \/ \E items \in SUBSET Items : DoImportInventory(items, now)
          \/ \E id \in Ids, request \in Requests :
                \/ DoPreflightFirmQuote(id, request, now)
                \/ DoReplayFirmQuote(id, request, now)
                \/ \E draft \in Drafts(now), lifetime \in Lifetimes :
                      DoReserveFirmQuote(id, request, draft, lifetime, now)
          \/ \E id \in Ids :
                \/ \E owner \in Owners : DoCancel(owner, id, now)
                \/ DoRejectUncommitted(id, now)
                \/ \E owner \in Owners, payload \in Payloads :
                      DoCommitBeforeSign(owner, id, payload, now)
                \/ \E payload \in Payloads, artifact \in Artifacts :
                      DoRecordFinalizedPset(id, payload, artifact, now)
          \/ \E limit \in 1 .. MaxExpirationBatch : DoExpireDue(limit, now)
    \/ Open

Spec == Init /\ [][Next]_vars

-----------------------------------------------------------------------------
(* Properties *)

\* Every table keeps its type, timestamps stay within u64, and no outpoint has
\* two inventory rows.
TypeOK ==
    /\ db \in Store
    /\ poisoned \in BOOLEAN

\* validate_store_integrity accepts whatever is on disk, after every operation
\* and after every crash or ambiguous commit: a provider can always reopen.
StoreIntegrity == ValidateStoreIntegrity(db)

\* The reservations that hold an outpoint.
Holders(u) ==
    {id \in Ids : /\ db.reservation[id].status \in {"Reserved", "Committed", "Signed"}
                  /\ u \in InputsOf(db.reservation[id])}

\* No two reservations that are reserved, committed or signed share an input:
\* the allocation table serialises every admission.
ExclusiveInputs ==
    \A u \in Outpoints : \A a, b \in Holders(u) : a = b

LiveReservations == {id \in Ids : /\ db.reservation[id].status = "Reserved"
                                  /\ db.reservation[id].accept_before > db.hwm}

\* The reservations still acceptable at the latest observed time respect the
\* global and the per-owner limit, although admission counts them in an index
\* that other operations maintain.
LiveQuoteLimits ==
    /\ Cardinality(LiveReservations) <= GlobalLimit
    /\ \A owner \in Owners :
           Cardinality({id \in LiveReservations : id[1] = owner}) <= OwnerLimit

\* Past the point of no return nothing is undone: a committed outpoint keeps
\* its reservation and payload (ALLOCATIONS and RESERVATIONS agree for ever),
\* and a stored artifact is never replaced.
PointOfNoReturn == [][Irrevocable(db, db')]_vars

\* An idempotency key is used once: its terms never change, and a released
\* reservation never becomes live again, however often the request is retried.
NoResurrection == [][KeyUsedOnce(db, db')]_vars

\* A clock reading that was acted upon is never forgotten: the high-water mark
\* never decreases, even when a crash separates the two commits of an
\* operation, and no change of a reservation is on disk without its time.
TimeNeverRunsBackwards == [][ClockKept(db, db')]_vars

=============================================================================
