-------------------------- MODULE MCChangeRequests --------------------------
(* A small instance of ChangeRequests for TLC. *)
EXTENDS ChangeRequests, TLC

SymmetricSets ==
  Permutations(Apps) \cup Permutations(Plates) \cup Permutations(Officers)

(* Corrections are about decided applications: what applicants send before *)
(* the decision is left out of the instance.                               *)
Deciders == {"submit", "accept", "reject"}

=============================================================================
