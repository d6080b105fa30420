------------------------ MODULE MCSettlementSigning ------------------------
(* A small instance of SettlementSigning for TLC: each payload has two valid *)
(* signature encodings.                                                      *)
EXTENDS SettlementSigning

CONSTANTS p1, p2

ArtifactsOfPayloads == Payloads \X {1, 2}

PayloadOfArtifact == [a \in Artifacts |-> a[1]]

=============================================================================
