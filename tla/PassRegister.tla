---------------------------- MODULE PassRegister ----------------------------
(***************************************************************************)
(* What the registration desk promises: a register of vehicle passes.  A   *)
(* pass is issued once to an application, for a plate nobody else holds,   *)
(* against an Official Receipt no other pass has.  It is never altered; it *)
(* ends when its application is closed, and a closed application never     *)
(* gets another.                                                           *)
(***************************************************************************)
CONSTANTS
  Apps,       \* applications
  Plates,     \* plates
  Receipts,   \* Official Receipt numbers
  NoReceipt   \* the receipt of a fee-exempt applicant

VARIABLES
  passes,     \* the passes in force: [app, plate, receipt]
  closed      \* the applications rejected or expired

vars == <<passes, closed>>

Holders == {x.app : x \in passes}

Init == passes = {} /\ closed = {}

(* One pass is issued. *)
Issue(a, p, r) ==
  /\ a \notin Holders \cup closed
  /\ \A x \in passes : x.plate # p /\ (r = NoReceipt \/ x.receipt # r)
  /\ passes' = passes \cup {[app |-> a, plate |-> p, receipt |-> r]}
  /\ UNCHANGED closed

(* Applications are closed, by a reviewer, by a sweep or with an account,  *)
(* and their passes end with them.                                         *)
Close(S) ==
  /\ S \cap closed = {}
  /\ passes' = {x \in passes : x.app \notin S}
  /\ closed' = closed \cup S

Next ==
  \/ \E a \in Apps, p \in Plates, r \in Receipts \cup {NoReceipt} : Issue(a, p, r)
  \/ \E S \in SUBSET Apps : Close(S)

Spec == Init /\ [][Next]_vars

=============================================================================
