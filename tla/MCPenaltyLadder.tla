--------------------------- MODULE MCPenaltyLadder ---------------------------
(* Small instances of PenaltyLadder for TLC. *)
EXTENDS PenaltyLadder, TLC

CONSTANTS r1, r2

SomeRequests == {r1, r2}

Symmetry == Permutations(SomeRequests)

=============================================================================
