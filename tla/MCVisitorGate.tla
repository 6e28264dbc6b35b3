---------------------------- MODULE MCVisitorGate ----------------------------
(* A small instance of VisitorGate for TLC: one campus day of one car. *)
EXTENDS VisitorGate, TLC

Symmetric == Permutations(Requests)

=============================================================================
