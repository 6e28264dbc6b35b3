----------------------------- MODULE VisitLedger -----------------------------
(***************************************************************************)
(* What the gate's log is for: visits that begin once and end at most      *)
(* once.  A visit is named by the row that began it; its end is a pair of  *)
(* the row that recorded it and the visit it ended.                        *)
(***************************************************************************)
VARIABLES
  arrived,  \* visits that began
  left      \* <<record, visit>> for every recorded end

ledger == <<arrived, left>>

Ended == {l[2] : l \in left}

Init == arrived = {} /\ left = {}

Arrive ==
  /\ \E v \in arrived' \ arrived : arrived' = arrived \cup {v}
  /\ UNCHANGED left

Leave ==
  /\ \E l \in left' \ left :
       l[2] \in arrived \ Ended /\ left' = left \cup {l}
  /\ UNCHANGED arrived

Next == Arrive \/ Leave

Spec == Init /\ [][Next]_ledger

=============================================================================
