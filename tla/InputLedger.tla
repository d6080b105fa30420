----------------------------- MODULE InputLedger -----------------------------
(***************************************************************************)
(* What the reservation book promises about the provider's inputs, with no *)
(* clock, no index and no audit log: an input is held by one quote at a    *)
(* time, a quote holds its inputs as a whole, gives them back once and     *)
(* only before it is promised, and a promise names one payload and yields  *)
(* at most one artifact.                                                   *)
(***************************************************************************)
CONSTANTS Ids, Outpoints, Payloads, Artifacts, None

VARIABLES
    phase,      \* of each quote
    held,       \* the inputs each quote holds
    job,        \* the payload each quote is promised to
    artifact    \* the signed transaction of each quote

vars == <<phase, held, job, artifact>>

Init ==
    /\ phase = [id \in Ids |-> "Unused"]
    /\ held = [id \in Ids |-> {}]
    /\ job = [id \in Ids |-> None]
    /\ artifact = [id \in Ids |-> None]

\* A new quote takes a set of inputs that nobody holds.
Hold(id, U) ==
    /\ phase[id] = "Unused"
    /\ \A other \in Ids : held[other] \cap U = {}
    /\ phase' = [phase EXCEPT ![id] = "Held"]
    /\ held' = [held EXCEPT ![id] = U]
    /\ UNCHANGED <<job, artifact>>

\* Some quotes that are not promised yet give everything back.
Free(S) ==
    /\ \A id \in S : phase[id] = "Held"
    /\ phase' = [id \in Ids |-> IF id \in S THEN "Freed" ELSE phase[id]]
    /\ held' = [id \in Ids |-> IF id \in S THEN {} ELSE held[id]]
    /\ UNCHANGED <<job, artifact>>

Promise(id, p) ==
    /\ phase[id] = "Held"
    /\ phase' = [phase EXCEPT ![id] = "Promised"]
    /\ job' = [job EXCEPT ![id] = p]
    /\ UNCHANGED <<held, artifact>>

Deliver(id, a) ==
    /\ phase[id] = "Promised"
    /\ phase' = [phase EXCEPT ![id] = "Delivered"]
    /\ artifact' = [artifact EXCEPT ![id] = a]
    /\ UNCHANGED <<held, job>>

Next ==
    \/ \E id \in Ids, U \in (SUBSET Outpoints) \ {{}} : Hold(id, U)
    \/ \E S \in (SUBSET Ids) \ {{}} : Free(S)
    \/ \E id \in Ids, p \in Payloads : Promise(id, p)
    \/ \E id \in Ids, a \in Artifacts : Deliver(id, a)

Spec == Init /\ [][Next]_vars

=============================================================================
