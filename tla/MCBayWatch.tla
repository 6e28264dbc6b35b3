----------------------------- MODULE MCBayWatch -----------------------------
(* A small instance of BayWatch for TLC: a frame every tick, which stands  *)
(* for a fifth of a second; a late frame, and one after an outage.         *)
EXTENDS BayWatch

Steady == {1}
LateOrOut == {2, Offline}

=============================================================================
