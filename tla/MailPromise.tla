----------------------------- MODULE MailPromise -----------------------------
(***************************************************************************)
(* What the outbox promises whoever sends a message.  An accepted message  *)
(* waits until it has gone out or until the outbox gives up on it; it may  *)
(* go out more than once; it never leaves without one or the other, and a  *)
(* given-up message is only forgotten, or revived, as given up.            *)
(***************************************************************************)
CONSTANT Msgs

VARIABLES
  stage,    \* new, waiting, failed, done, forgotten, refused
  wentOut   \* the messages the provider has taken at least once

vars == <<stage, wentOut>>

Moves(S, from, to) ==
  /\ \A m \in S : stage[m] \in from
  /\ stage' = [m \in Msgs |-> IF m \in S THEN to ELSE stage[m]]

Init == stage = [m \in Msgs |-> "new"] /\ wentOut = {}

(* The caller is told the message is sent, or gets the error. *)
Accept(m) == Moves({m}, {"new"}, "waiting") /\ UNCHANGED wentOut

Refuse(m) == Moves({m}, {"new"}, "refused") /\ UNCHANGED wentOut

(* Sent on the spot, without the outbox; the answer may be lost, and what  *)
(* announced it rolled back.                                               *)
SendNow(m) ==
  /\ \E to \in {"new", "done", "refused"} : Moves({m}, {"new"}, to)
  /\ wentOut' = wentOut \cup {m}

GoesOut(m) ==
  /\ stage[m] # "new"
  /\ wentOut' = wentOut \cup {m}
  /\ UNCHANGED stage

Settle(m) ==
  /\ m \in wentOut
  /\ Moves({m}, {"waiting", "failed"}, "done")
  /\ UNCHANGED wentOut

GiveUp(m) == Moves({m}, {"waiting", "failed"}, "failed") /\ UNCHANGED wentOut

Forget(S) == Moves(S, {"failed"}, "forgotten") /\ UNCHANGED wentOut

Revive(S) == Moves(S, {"failed"}, "waiting") /\ UNCHANGED wentOut

Next ==
  \/ \E m \in Msgs : Accept(m) \/ Refuse(m) \/ SendNow(m) \/ GoesOut(m)
                      \/ Settle(m) \/ GiveUp(m)
  \/ \E S \in SUBSET Msgs : Forget(S) \/ Revive(S)

Spec == Init /\ [][Next]_vars

=============================================================================
