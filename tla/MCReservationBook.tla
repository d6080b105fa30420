-------------------------- MODULE MCReservationBook --------------------------
(* Small instances of ReservationBook for TLC. *)
EXTENDS ReservationLedger, TLC

\* Two payloads of FeeAccepted are interchangeable, as are the members of the
\* other sets: no definition singles one of them out.
Symmetric ==
    Permutations(Owners) \cup Permutations(Keys) \cup Permutations(Requests)
        \cup Permutations(Outpoints) \cup Permutations(Bindings)
        \cup Permutations(FeeAccepted)

=============================================================================
