-------------------------- MODULE MCQuoteAdmission --------------------------
(* Instances of QuoteAdmission.  Callers, keys and outpoints are            *)
(* interchangeable; the reduction is used for the safety run only.          *)
EXTENDS QuoteAdmission, TLC

Symmetric == Permutations(Callers) \cup Permutations(Keys) \cup Permutations(Outpoints)

=============================================================================
