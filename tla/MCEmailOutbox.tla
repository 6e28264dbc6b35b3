---------------------------- MODULE MCEmailOutbox ----------------------------
(* Small instances of EmailOutbox for TLC; a tick is the first retry delay. *)
EXTENDS EmailOutbox, TLC

OneThenTwo == <<1, 2>>

SymmetricSets == Permutations(Msgs) \cup Permutations(Servers)

=============================================================================
