-------------------------- MODULE ReservationStore --------------------------
(***************************************************************************)
(* The durable tables of the RFQ provider's reservation book               *)
(* (deadcat-rfq-provider/src/store.rs) and the write transactions over     *)
(* them, as operators from a database value to a database value.           *)
(*                                                                         *)
(* A write that returns an error drops its transaction: the operator then  *)
(* returns the database it was given.  All operators receive a database    *)
(* whose clock high-water mark already is "now", as begin_timed_write      *)
(* guarantees.                                                             *)
(*                                                                         *)
(* Abstractions.  Hashes are injective: a reservation id is the pair       *)
(* (owner, idempotency key) it is derived from, a signing commitment is    *)
(* the payload it commits to.  An inventory item is an outpoint and a      *)
(* binding, the binding standing for all its immutable metadata (asset,    *)
(* amount, script, locator).  The audit log is kept per subject: the       *)
(* entries of each outpoint and of each reservation in the order of the    *)
(* global log.                                                             *)
(***************************************************************************)
EXTENDS Integers, Sequences, FiniteSets

CONSTANTS
    Owners,         \* authenticated takers
    Keys,           \* idempotency keys
    Requests,       \* semantic request digests
    Outpoints,      \* wallet outputs
    Bindings,       \* immutable inventory metadata
    Payloads,       \* complete pre-sign payloads (with their fee)
    Artifacts,      \* signed artifacts, one per valid signature encoding
    MaxTime,        \* the largest timestamp (u64::MAX in the code)
    OwnerLimit,     \* policy.maximum_live_quotes_per_owner
    GlobalLimit,    \* policy.maximum_live_quotes_global
    FeeAccepted,    \* the payloads whose fee the stored fee policy accepts
    Null

Ids == Owners \X Keys
Items == Outpoints \X Bindings
Time == 0 .. MaxTime

\* No timestamp: Option::None, which is below every u64.
NoTime == -1

ASSUME ConstantsAssumption ==
    /\ MaxTime \in Nat
    /\ OwnerLimit \in Nat \ {0}
    /\ GlobalLimit \in Nat \ {0}
    /\ OwnerLimit <= GlobalLimit
    /\ FeeAccepted \subseteq Payloads
    /\ IsFiniteSet(Owners)
    /\ IsFiniteSet(Keys)

ASSUME NullAssumption ==
    Null \notin Requests \cup Payloads \cup Artifacts \cup Ids

-----------------------------------------------------------------------------
(* The stored records. *)

Reasons == {"Expired", "ClientCancelled", "ProviderRejected"}

Statuses == {"Absent", "Reserved", "Released", "Committed", "Signed"}

\* A row of RESERVATIONS; "Absent" is a missing row.
Reservation ==
    [status: Statuses,
     request: Requests \cup {Null},
     items: SUBSET Items,
     created_at: Int,
     accept_before: Int,
     reason: Reasons \cup {Null},
     released_at: Int,
     payload: Payloads \cup {Null},
     committed_at: Int,
     artifact: Artifacts \cup {Null},
     signed_at: Int]

AbsentReservation ==
    [status |-> "Absent", request |-> Null, items |-> {},
     created_at |-> NoTime, accept_before |-> NoTime,
     reason |-> Null, released_at |-> NoTime,
     payload |-> Null, committed_at |-> NoTime,
     artifact |-> Null, signed_at |-> NoTime]

\* A row of ALLOCATIONS; "Available" is a missing row.
Allocation ==
    [state: {"Available", "Reserved", "Committed"},
     id: Ids \cup {Null},
     payload: Payloads \cup {Null}]

Available == [state |-> "Available", id |-> Null, payload |-> Null]
ReservedBy(id) == [state |-> "Reserved", id |-> id, payload |-> Null]
CommittedTo(id, p) == [state |-> "Committed", id |-> id, payload |-> p]

AuditEvents ==
    {"InventoryImported", "ReservationCreated", "ReservationReleased",
     "SigningCommitted", "SignedArtifactStored"}

\* A row of AUDIT, without its subject.
AuditEntries ==
    [at: Time, event: AuditEvents, items: SUBSET Items,
     detail: Reasons \cup Payloads \cup Artifacts \cup {Null}]

AuditEntry(at, event, items, detail) ==
    [at |-> at, event |-> event, items |-> items, detail |-> detail]

InputsOf(r) == {item[1] : item \in r.items}

\* The tables.  Each inventory row is keyed by its outpoint.
Store ==
    {d \in [inventory: SUBSET Items,
            allocation: [Outpoints -> Allocation],
            reservation: [Ids -> Reservation],
            binding: [Ids -> Requests \cup {Null}],
            expirations: SUBSET (Time \X Ids),
            live_quotes: SUBSET (Time \X Ids),
            revision: Nat,
            hwm: Time \cup {NoTime},
            item_audit: [Outpoints -> Seq(AuditEntries)],
            audit: [Ids -> Seq(AuditEntries)]] :
        \A x, y \in d.inventory : x[1] = y[1] => x = y}

EmptyStore ==
    [inventory |-> {},
     allocation |-> [u \in Outpoints |-> Available],
     reservation |-> [id \in Ids |-> AbsentReservation],
     binding |-> [id \in Ids |-> Null],
     expirations |-> {},
     live_quotes |-> {},
     revision |-> 0,
     hwm |-> NoTime,
     item_audit |-> [u \in Outpoints |-> <<>>],
     audit |-> [id \in Ids |-> <<>>]]

-----------------------------------------------------------------------------
(* Writes. *)

\* A faulty variant of ObserveTime: the clock reading is not written.
ObserveTimeUnrecorded(d, now) == d

\* observe_time: the first of the two commits of every timed operation.
ObserveTime(d, now) == [d EXCEPT !.hwm = now]

ConflictsWith(d, items) ==
    \E new \in items, old \in d.inventory : new[1] = old[1] /\ new # old

\* import_inventory_batch: all of a discovery set or none of it.
ImportInventory(d, items, now) ==
    LET fresh(u) == {item \in items \ d.inventory : item[1] = u} IN
    IF ConflictsWith(d, items)
    THEN d
    ELSE [d EXCEPT
            !.inventory = @ \cup items,
            !.item_audit = [u \in Outpoints |->
                IF fresh(u) # {}
                THEN Append(d.item_audit[u],
                            AuditEntry(now, "InventoryImported", fresh(u), Null))
                ELSE d.item_audit[u]]]

\* The consistency checks of release_reserved and remove_live_quote_index;
\* a mismatch is CorruptState and aborts the write.
HoldsItsInputs(d, id) ==
    LET r == d.reservation[id] IN
    /\ r.status = "Reserved"
    /\ \A u \in InputsOf(r) : d.allocation[u] = ReservedBy(id)
    /\ <<r.accept_before, id>> \in d.expirations
    /\ <<r.accept_before, id>> \in d.live_quotes

Released(r, reason, now) ==
    [r EXCEPT !.status = "Released", !.reason = reason, !.released_at = now]

\* A faulty variant of DeadlineKeys: a release leaves its index rows behind.
DeadlineKeysKept(d, S) == {}

\* The rows of EXPIRATIONS and LIVE_QUOTES of the reservations of S.
DeadlineKeys(d, S) == {<<d.reservation[id].accept_before, id>> : id \in S}

\* release_reserved, for every reservation of S in one transaction.
ReleaseReserved(d, S, reason, now) ==
    IF \E id \in S : ~HoldsItsInputs(d, id)
    THEN d
    ELSE [d EXCEPT
            !.allocation = [u \in Outpoints |->
                IF \E id \in S : u \in InputsOf(d.reservation[id])
                THEN Available ELSE d.allocation[u]],
            !.revision = @ + Cardinality(S),
            !.expirations = @ \ DeadlineKeys(d, S),
            !.live_quotes = @ \ DeadlineKeys(d, S),
            !.reservation = [id \in Ids |->
                IF id \in S
                THEN Released(d.reservation[id], reason, now)
                ELSE d.reservation[id]],
            !.audit = [id \in Ids |->
                IF id \in S
                THEN Append(d.audit[id], AuditEntry(now, "ReservationReleased", {}, reason))
                ELSE d.audit[id]]]

\* The reservations the expiration index lists as due.
Due(d, now) == {id \in Ids : \E t \in Time : t <= now /\ <<t, id>> \in d.expirations}

\* expire_due_in_write takes the first "limit" keys of the expiration index,
\* which is ordered by deadline and then by a hash.
OldestDue(d, now, limit, S) ==
    /\ S \subseteq Due(d, now)
    /\ Cardinality(S) <= limit
    /\ Cardinality(S) < limit => S = Due(d, now)
    /\ \A id \in S, other \in Due(d, now) \ S :
           d.reservation[id].accept_before <= d.reservation[other].accept_before

ExpireDueInWrite(d, S, now) == ReleaseReserved(d, S, "Expired", now)

DeadlineElapsed(r, now) == now >= r.accept_before

\* replay_binding_in_write: an exact retry reads its reservation, which it
\* first expires when due.
ReplayBinding(d, id, now) ==
    IF d.reservation[id].status = "Reserved" /\ DeadlineElapsed(d.reservation[id], now)
    THEN ReleaseReserved(d, {id}, "Expired", now)
    ELSE d

Live(d, now) == {entry \in d.live_quotes : entry[1] > now}
LiveOf(d, owner, now) == {entry \in Live(d, now) : entry[2][1] = owner}

\* A faulty variant of QuotaAllows: the limits are off by one.
QuotaAllowsOneMore(d, owner, now) ==
    /\ Cardinality(LiveOf(d, owner, now)) <= OwnerLimit
    /\ Cardinality(Live(d, now)) <= GlobalLimit

\* enforce_live_quote_limits
QuotaAllows(d, owner, now) ==
    /\ Cardinality(LiveOf(d, owner, now)) < OwnerLimit
    /\ Cardinality(Live(d, now)) < GlobalLimit

\* preflight_firm_quote: S is the batch the bounded cleanup takes.  The quota
\* decides the answer; the write is committed either way.
PreflightFirmQuote(d, id, request, S, now) ==
    IF d.binding[id] # Null
    THEN IF d.binding[id] # request THEN d ELSE ReplayBinding(d, id, now)
    ELSE ExpireDueInWrite(d, S, now)

\* replay_firm_quote
ReplayFirmQuote(d, id, request, now) ==
    IF d.binding[id] # Null /\ d.binding[id] = request
    THEN ReplayBinding(d, id, now)
    ELSE d

NewReservation(request, items, now, deadline) ==
    [AbsentReservation EXCEPT
        !.status = "Reserved", !.request = request, !.items = items,
        !.created_at = now, !.accept_before = deadline]

\* persist_new_reservation
PersistNewReservation(d, id, request, items, deadline, now) ==
    [d EXCEPT
        !.reservation[id] = NewReservation(request, items, now, deadline),
        !.binding[id] = request,
        !.allocation = [u \in Outpoints |->
            IF \E item \in items : item[1] = u THEN ReservedBy(id) ELSE d.allocation[u]],
        !.revision = @ + 1,
        !.expirations = @ \cup {<<deadline, id>>},
        !.live_quotes = @ \cup {<<deadline, id>>},
        !.audit[id] = Append(@, AuditEntry(now, "ReservationCreated", items, Null))]

\* A faulty variant of DeadlineFits: the addition is not checked.
DeadlineUnchecked(now, lifetime) == TRUE

\* checked_add of the quote lifetime to the current time.
DeadlineFits(now, lifetime) == now + lifetime <= MaxTime

\* A faulty variant of InputsFree: the allocation table is not consulted.
InputsKnown(d, items) == items \subseteq d.inventory

\* Every selected input is the stored item and has no allocation row.
InputsFree(d, items) ==
    /\ items \subseteq d.inventory
    /\ \A item \in items : d.allocation[item[1]] = Available

\* The checks of reserve_firm_quote_from_snapshot on a request that has no
\* binding yet.  "draft" carries the items, the allocation revision and the
\* observation time of the inventory snapshot it was selected from.
MayReserve(d, id, draft, lifetime, maximum_age, now) ==
    /\ now >= draft.observed_at
    /\ now - draft.observed_at < maximum_age
    /\ d.revision = draft.revision
    /\ DeadlineFits(now, lifetime)
    /\ d.reservation[id].status = "Absent"
    /\ InputsFree(d, draft.items)
    /\ QuotaAllows(d, id[1], now)

\* A faulty variant of ReserveFirmQuote: a retry of a released quote reserves
\* its inputs again.
ReserveFirmQuoteAgain(d, id, request, draft, lifetime, maximum_age, now) ==
    IF /\ d.reservation[id].status \in {"Absent", "Released"}
       /\ d.revision = draft.revision
       /\ DeadlineFits(now, lifetime)
       /\ InputsFree(d, draft.items)
       /\ QuotaAllows(d, id[1], now)
    THEN PersistNewReservation(d, id, request, draft.items, now + lifetime, now)
    ELSE ReplayFirmQuote(d, id, request, now)

\* reserve_firm_quote_from_snapshot
ReserveFirmQuote(d, id, request, draft, lifetime, maximum_age, now) ==
    IF d.binding[id] # Null
    THEN ReplayFirmQuote(d, id, request, now)
    ELSE IF MayReserve(d, id, draft, lifetime, maximum_age, now)
         THEN PersistNewReservation(d, id, request, draft.items, now + lifetime, now)
         ELSE d

\* cancel, and reject_uncommitted with the other reason.
ReleaseBeforeCommit(d, id, reason, now) ==
    IF d.reservation[id].status = "Reserved"
    THEN ReleaseReserved(d, {id},
             IF DeadlineElapsed(d.reservation[id], now) THEN "Expired" ELSE reason, now)
    ELSE d

Cancel(d, owner, id, now) ==
    IF id[1] = owner THEN ReleaseBeforeCommit(d, id, "ClientCancelled", now) ELSE d

RejectUncommitted(d, id, now) == ReleaseBeforeCommit(d, id, "ProviderRejected", now)

Committed(r, payload, now) ==
    [r EXCEPT !.status = "Committed", !.payload = payload, !.committed_at = now]

\* The Reserved -> Committed write of commit_before_sign_inner.
CommitIntent(d, id, payload, now) ==
    LET r == d.reservation[id] IN
    [d EXCEPT
        !.allocation = [u \in Outpoints |->
            IF u \in InputsOf(r) THEN CommittedTo(id, payload) ELSE d.allocation[u]],
        !.revision = @ + 1,
        !.expirations = @ \ {<<r.accept_before, id>>},
        !.live_quotes = @ \ {<<r.accept_before, id>>},
        !.reservation[id] = Committed(r, payload, now),
        !.audit[id] = Append(@, AuditEntry(now, "SigningCommitted", {}, payload))]

\* A faulty variant of CommitBeforeSign: a committed payload can be replaced.
CommitBeforeSignAgain(d, owner, id, payload, now) ==
    IF id[1] # owner \/ d.reservation[id].status \notin {"Reserved", "Committed"}
    THEN d
    ELSE IF DeadlineElapsed(d.reservation[id], now)
    THEN ReleaseReserved(d, {id}, "Expired", now)
    ELSE IF payload \in FeeAccepted
    THEN CommitIntent(d, id, payload, now)
    ELSE d

\* commit_before_sign_inner.  A committed or signed reservation answers from
\* its record and a released one is refused: neither changes the store.
CommitBeforeSign(d, owner, id, payload, now) ==
    IF id[1] # owner \/ d.reservation[id].status # "Reserved"
    THEN d
    ELSE IF DeadlineElapsed(d.reservation[id], now)
    THEN ReleaseReserved(d, {id}, "Expired", now)
    ELSE IF payload \in FeeAccepted /\ HoldsItsInputs(d, id)
    THEN CommitIntent(d, id, payload, now)
    ELSE d

CommittedAllocations(d, id) ==
    \A u \in InputsOf(d.reservation[id]) :
        d.allocation[u] = CommittedTo(id, d.reservation[id].payload)

Signed(r, artifact, now) ==
    [r EXCEPT !.status = "Signed", !.artifact = artifact, !.signed_at = now]

\* record_signed_inner: only the exact committed job becomes signed; once it
\* is, every later candidate gets the stored artifact.
RecordSigned(d, id, payload, artifact, now) ==
    IF /\ d.reservation[id].status = "Committed"
       /\ d.reservation[id].payload = payload
       /\ CommittedAllocations(d, id)
    THEN [d EXCEPT
            !.reservation[id] = Signed(d.reservation[id], artifact, now),
            !.audit[id] = Append(@, AuditEntry(now, "SignedArtifactStored", {}, artifact))]
    ELSE d

-----------------------------------------------------------------------------
(* validate_store_integrity, which every open of the database runs.        *)

\* validate_reservation_times and validate_commit_time.
TimesValid(r, hwm) ==
    /\ r.created_at \in Time
    /\ r.created_at <= hwm
    /\ r.created_at < r.accept_before
    /\ r.status = "Released" =>
           /\ r.released_at >= r.created_at
           /\ r.released_at <= hwm
           /\ (r.reason = "Expired") <=> (r.released_at >= r.accept_before)
    /\ r.status \in {"Committed", "Signed"} =>
           /\ r.committed_at >= r.created_at
           /\ r.committed_at < r.accept_before
           /\ r.committed_at <= hwm
    /\ r.status = "Signed" =>
           /\ r.signed_at >= r.committed_at
           /\ r.signed_at <= hwm

\* A record is complete, and its request is the one bound to its key.
RecordValid(d, id) ==
    LET r == d.reservation[id] IN
    /\ r.items # {}
    /\ r.items \subseteq d.inventory
    /\ r.request # Null
    /\ r.status \in {"Committed", "Signed"} => r.payload \in FeeAccepted
    /\ r.status = "Signed" => r.artifact # Null
    /\ d.binding[id] = r.request

\* A reservation is in the two deadline indexes as long as it is Reserved.
DeadlineIndexed(d, id) ==
    LET r == d.reservation[id]
        key == <<r.accept_before, id>>
    IN
    /\ (key \in d.expirations) <=> (r.status = "Reserved")
    /\ (key \in d.live_quotes) <=> (r.status = "Reserved")

\* A reservation owns the allocations of its inputs until it is released.
InputsAgree(d, id) ==
    LET r == d.reservation[id] IN
    \A u \in InputsOf(r) :
        /\ r.status = "Reserved" => d.allocation[u] = ReservedBy(id)
        /\ r.status \in {"Committed", "Signed"} =>
               d.allocation[u] = CommittedTo(id, r.payload)
        /\ r.status = "Released" => d.allocation[u].id # id

\* The loop over the stored reservations.
ReservationValid(d, id) ==
    /\ TimesValid(d.reservation[id], d.hwm)
    /\ RecordValid(d, id)
    /\ DeadlineIndexed(d, id)
    /\ InputsAgree(d, id)

ReservationsValid(d) ==
    \A id \in Ids : d.reservation[id].status # "Absent" => ReservationValid(d, id)

\* Every request binding names a stored reservation.
BindingsValid(d) ==
    \A id \in Ids : d.binding[id] # Null => d.reservation[id].status # "Absent"

\* An allocation is of a stored item, and its reservation agrees with it.
AllocationValid(d, u) ==
    LET a == d.allocation[u] IN
    /\ \E item \in d.inventory : item[1] = u
    /\ a.id \in Ids
    /\ u \in InputsOf(d.reservation[a.id])
    /\ a.state = "Reserved" => d.reservation[a.id].status = "Reserved"
    /\ a.state = "Committed" => /\ d.reservation[a.id].status \in {"Committed", "Signed"}
                                /\ d.reservation[a.id].payload = a.payload

AllocationsValid(d) ==
    \A u \in Outpoints : d.allocation[u].state # "Available" => AllocationValid(d, u)

\* Every index key is the deadline of a reservation that is still Reserved.
IndexesValid(d) ==
    \A key \in d.expirations \cup d.live_quotes :
        /\ d.reservation[key[2]].status = "Reserved"
        /\ d.reservation[key[2]].accept_before = key[1]

TablesValid(d) ==
    /\ ReservationsValid(d)
    /\ BindingsValid(d)
    /\ AllocationsValid(d)
    /\ IndexesValid(d)

\* The audit history a reservation of each status must have.
AuditShape(r) ==
    LET created == AuditEntry(r.created_at, "ReservationCreated", r.items, Null)
        released == AuditEntry(r.released_at, "ReservationReleased", {}, r.reason)
        committed == AuditEntry(r.committed_at, "SigningCommitted", {}, r.payload)
        signed == AuditEntry(r.signed_at, "SignedArtifactStored", {}, r.artifact)
    IN  CASE r.status = "Absent" -> <<>>
          [] r.status = "Reserved" -> <<created>>
          [] r.status = "Released" -> <<created, released>>
          [] r.status = "Committed" -> <<created, committed>>
          [] r.status = "Signed" -> <<created, committed, signed>>

\* validate_audit_integrity
AuditValid(d) ==
    /\ \A id \in Ids : d.audit[id] = AuditShape(d.reservation[id])
    /\ \A u \in Outpoints :
           /\ Len(d.item_audit[u]) = IF \E item \in d.inventory : item[1] = u THEN 1 ELSE 0
           /\ \A i \in DOMAIN d.item_audit[u] : d.item_audit[u][i].at <= d.hwm

ValidateStoreIntegrity(d) == TablesValid(d) /\ AuditValid(d)

-----------------------------------------------------------------------------
(* What a later database e may never undo of an earlier one d. *)

\* What was committed or signed stays so, with its outpoints and its payload.
Irrevocable(d, e) ==
    /\ \A u \in Outpoints :
           d.allocation[u].state = "Committed" => e.allocation[u] = d.allocation[u]
    /\ \A id \in Ids :
           /\ d.reservation[id].status \in {"Committed", "Signed"} =>
                  /\ e.reservation[id].status \in {"Committed", "Signed"}
                  /\ e.reservation[id].payload = d.reservation[id].payload
           /\ d.reservation[id].status = "Signed" => e.reservation[id] = d.reservation[id]

\* What was bound to a key keeps its terms, and what was released stays so.
KeyUsedOnce(d, e) ==
    \A id \in Ids :
        /\ d.binding[id] # Null =>
               /\ e.binding[id] = d.binding[id]
               /\ e.reservation[id].items = d.reservation[id].items
               /\ e.reservation[id].accept_before = d.reservation[id].accept_before
        /\ d.reservation[id].status = "Released" => e.reservation[id] = d.reservation[id]

\* When a reservation entered its current status.
StatusSince(r) ==
    CASE r.status = "Reserved" -> r.created_at
      [] r.status = "Released" -> r.released_at
      [] r.status = "Committed" -> r.committed_at
      [] r.status = "Signed" -> r.signed_at

\* Time goes on, and every change of a reservation is at the recorded time.
ClockKept(d, e) ==
    /\ e.hwm >= d.hwm
    /\ \A id \in Ids :
           e.reservation[id] # d.reservation[id] => e.hwm = StatusSince(e.reservation[id])

=============================================================================
