-------------------------- MODULE ReservationLedger --------------------------
(* The refinement mapping from the reservation book to the input ledger. *)
EXTENDS ReservationBook

PhaseOf(r) ==
    CASE r.status = "Absent" -> "Unused"
      [] r.status = "Reserved" -> "Held"
      [] r.status = "Released" -> "Freed"
      [] r.status = "Committed" -> "Promised"
      [] r.status = "Signed" -> "Delivered"

\* What a quote holds is read from the ALLOCATIONS table, not from the
\* reservation row: the two are updated by different statements.
HeldBy(d, id) == {u \in Outpoints : d.allocation[u].id = id}

Ledger == INSTANCE InputLedger WITH
    None <- Null,
    phase <- [id \in Ids |-> PhaseOf(db.reservation[id])],
    held <- [id \in Ids |-> HeldBy(db, id)],
    job <- [id \in Ids |-> db.reservation[id].payload],
    artifact <- [id \in Ids |-> db.reservation[id].artifact]

\* The reservation book implements the input ledger: whatever order the
\* operations, the expirations and the crashes come in, each write of the
\* allocation and reservation tables is one step of the ledger or none.
ImplementsLedger == Ledger!Spec

=============================================================================
