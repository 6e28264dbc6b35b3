----------------------------- MODULE EmailOutbox -----------------------------
(***************************************************************************)
(* The mail outbox: a message is stored in the caller's transaction, and   *)
(* the workers of two servers, beside a command an administrator may run,  *)
(* claim what is due, send it outside the transaction, and retry what      *)
(* fails until it has gone out or its time is over.                        *)
(*                                                                         *)
(* Timestamps are kept as distances from now, so time passes without a     *)
(* bound: due is next_attempt_at, life is expires_at, nap is what is left  *)
(* of a worker's wait, age is how long ago its pass read the clock - once, *)
(* for all it does.                                                        *)
(*                                                                         *)
(* vehicles/email_outbox.py, config/email_backends.py, retry_emails.py.    *)
(***************************************************************************)
EXTENDS Integers, Sequences, FiniteSets

CONSTANTS
  Msgs,         \* messages
  Servers,      \* server processes, each with a worker
  Shells,       \* processes that run retry_emails
  Lease,        \* LEASE
  RetryDelays,  \* RETRY_DELAYS
  MaxAge,       \* max_age(), or the expires_in() of a message with its own
  Idle,         \* IDLE_POLL_SECONDS
  FailWait,     \* the wait after a pass that failed
  Batch,        \* BATCH
  PassMax,      \* bound: how long one pass over the outbox takes
  MaxFaults,    \* bound: processes that die, passes that lose the database
  LosesAnswers  \* whether the provider may send a message and not say so

ASSUME TimesAssumption ==
  /\ Lease \in Nat /\ MaxAge \in Nat \ {0} /\ Idle \in Nat /\ FailWait \in Nat
  /\ PassMax \in Nat /\ MaxFaults \in Nat /\ Batch \in Nat \ {0}
  /\ RetryDelays \in Seq(Nat) /\ RetryDelays # <<>>

ASSUME ProcessesAssumption ==
  /\ Servers \cap Shells = {}
  /\ LosesAnswers \in BOOLEAN

Procs == Servers \cup Shells

VARIABLES
  box,     \* EmailOutbox: per message its row, or what became of it
  worker,  \* per process: where its pass is
  sent,    \* how often the provider has taken a message (two is "again")
  bell,    \* what the CDSO has been told of a message
  slips,   \* history, per message: what no row says of it
  faults

vars == <<box, worker, sent, bell, slips, faults>>

(* loose: its lease ended while a pass still held it; unheard: the provider *)
(* took it and nobody wrote that down; unnoted: a delay was told, and who   *)
(* told it died before noting it.                                          *)
Slips == {"loose", "unheard", "unnoted"}

Least(i, j) == IF i <= j THEN i ELSE j
Most(i, j) == IF i <= j THEN j ELSE i

(* stored: inserted by a transaction that has not committed. *)
Stages == {"new", "stored", "pending", "failed", "gone", "forgotten", "refused"}

Row == [stage : Stages, by : Procs, tries : 0..Len(RetryDelays),
        due : Int, life : Int, told : BOOLEAN]

(* A row of a batch, as loaded when it was claimed. *)
Copy == [m : Msgs, tries : 0..Len(RetryDelays), told : BOOLEAN, late : BOOLEAN]

Steps == {"down", "nap", "claim", "work", "sending", "failed", "sent", "giveup", "report", "rest"}

(* batch: what is left of it; cur: the row in hand, if any. *)
Worker == [step : Steps, nap : Nat, wake : BOOLEAN, age : 0..PassMax,
           batch : SUBSET Copy, cur : SUBSET Copy, full : BOOLEAN]

Asleep(n) == [step |-> "nap", nap |-> n, wake |-> FALSE, age |-> 0,
              batch |-> {}, cur |-> {}, full |-> FALSE]

Down == [Asleep(0) EXCEPT !.step = "down"]

TypeOK ==
  /\ box \in [Msgs -> Row]
  /\ worker \in [Procs -> Worker]
  /\ sent \in [Msgs -> 0..2]
  /\ bell \in [Msgs -> SUBSET {"delayed", "late", "failed"}]
  /\ slips \in [Msgs -> SUBSET Slips]
  /\ faults \in 0..MaxFaults

Blank(stage, p) == [stage |-> stage, by |-> p, tries |-> 0, due |-> 0, life |-> 0,
                    told |-> FALSE]

Init ==
  /\ box \in [Msgs -> {Blank("new", p) : p \in Procs}]
  /\ worker = [p \in Procs |-> IF p \in Servers THEN Asleep(0) ELSE Down]
  /\ sent = [m \in Msgs |-> 0]
  /\ bell = [m \in Msgs |-> {}]
  /\ slips = [m \in Msgs |-> {}]
  /\ faults = 0

-----------------------------------------------------------------------------
Exists(m) == box[m].stage \in {"pending", "failed"}

GivenUp == {m \in Msgs : box[m].stage = "failed"}

(* What a step adds to the history of some messages. *)
Slip(S, what) == [m \in Msgs |-> IF m \in S THEN slips[m] \cup {what} ELSE slips[m]]

Again(m) == sent' = [sent EXCEPT ![m] = Least(2, @ + 1)]

DelayAfter(n) == RetryDelays[Least(n, Len(RetryDelays))]

(* Attempts beyond the last delay are not told apart. *)
More(n) == Least(n + 1, Len(RetryDelays))

InPass(p) == worker[p].step \notin {"down", "nap"}

-----------------------------------------------------------------------------
(***************************************************************************)
(* Whoever sends a message.  The process that does is fixed per message.   *)
(***************************************************************************)

(* In a server: stored, invisible to the workers until the commit. *)
Enqueue(m) ==
  LET p == box[m].by IN
  /\ box[m].stage = "new" /\ p \in Servers /\ worker[p].step # "down"
  /\ box' = [box EXCEPT ![m].stage = "stored", ![m].life = MaxAge]
  /\ UNCHANGED <<worker, sent, bell, slips, faults>>

(* Faulty variant: nobody is woken once the row can be seen. *)
CommitQuietly(m) ==
  /\ box[m].stage = "stored"
  /\ box' = [box EXCEPT ![m].stage = "pending"]
  /\ UNCHANGED <<worker, sent, bell, slips, faults>>

(* The commit shows the row and wakes the worker of this process, if any. *)
Commit(m) ==
  LET p == box[m].by IN
  /\ box[m].stage = "stored"
  /\ box' = [box EXCEPT ![m].stage = "pending"]
  /\ worker' = [worker EXCEPT ![p].wake = worker[p].step # "down"]
  /\ UNCHANGED <<sent, bell, slips, faults>>

(* A rolled-back action takes its mail with it. *)
RollBack(m) ==
  /\ box[m].stage = "stored"
  /\ box' = [box EXCEPT ![m] = Blank("new", @.by)]
  /\ UNCHANGED <<worker, sent, bell, slips, faults>>

(* No worker in this process, or no row could be stored: sent directly,    *)
(* and stored only if that fails, is worth a retry and can be.             *)
SendNow(m, went, raises) ==
  /\ box[m].stage = "new"
  /\ box[m].by \in Servers => worker[box[m].by].step # "down"
  /\ went \/ raises
  /\ went /\ raises => LosesAnswers
  /\ IF went THEN Again(m) ELSE UNCHANGED sent
  /\ slips' = IF went /\ raises THEN Slip({m}, "unheard") ELSE slips
  /\ \/ ~raises /\ box' = [box EXCEPT ![m].stage = "gone"]
     \/ raises /\ box' = [box EXCEPT ![m].stage = "refused"]
     \/ /\ raises /\ MaxAge > DelayAfter(1)
        /\ box' = [box EXCEPT ![m] = [@ EXCEPT !.stage = "stored", !.tries = 1,
                                        !.due = DelayAfter(1), !.life = MaxAge]]
  /\ UNCHANGED <<worker, bell, faults>>

-----------------------------------------------------------------------------
(***************************************************************************)
(* A pass over what is due.                                                *)
(***************************************************************************)

(* The wait ends, the flag is cleared, and only then is the table read.    *)
(* Given-up rows more than a fortnight old are deleted first.              *)
BeginPass(p) ==
  /\ worker[p].step = "nap" /\ (worker[p].wake \/ worker[p].nap = 0)
  /\ worker' = [worker EXCEPT ![p] = [Asleep(0) EXCEPT !.step = "claim"]]
  /\ \E S \in SUBSET GivenUp :
       box' = [m \in Msgs |-> IF m \in S THEN Blank("forgotten", box[m].by) ELSE box[m]]
  /\ UNCHANGED <<sent, bell, slips, faults>>

InHand(p) == {c.m : c \in worker[p].batch \cup worker[p].cur}

(* retry_emails: revive what was given up, if asked to and unless it has a *)
(* deadline of its own, make all that waits due now, and run one pass.     *)
RetryEmails(p, revived) ==
  /\ p \in Shells /\ worker[p].step = "down"
  /\ box' = [m \in Msgs |->
       IF m \in revived
       THEN [box[m] EXCEPT !.stage = "pending", !.life = MaxAge, !.due = 0]
       ELSE IF box[m].stage = "pending" THEN [box[m] EXCEPT !.due = 0] ELSE box[m]]
  /\ worker' = [worker EXCEPT ![p] = [Asleep(0) EXCEPT !.step = "claim"]]
  /\ slips' = Slip(UNION {InHand(q) : q \in Procs}, "loose")
  /\ UNCHANGED <<sent, bell, faults>>

DueFor(p) == {m \in Msgs : box[m].stage = "pending" /\ box[m].due + worker[p].age <= 0}

(* The first BATCH of them by next_attempt_at. *)
FirstDue(p, S) ==
  /\ Cardinality(S) = Least(Batch, Cardinality(DueFor(p)))
  /\ \A m \in S, n \in DueFor(p) \ S : box[m].due <= box[n].due

CopyOf(p, m) == [m |-> m, tries |-> box[m].tries, told |-> box[m].told,
                 late |-> box[m].life + worker[p].age <= 0]

(* Faulty variant: the rows are read but no lease is taken. *)
ClaimUnleased(p) ==
  /\ worker[p].step = "claim"
  /\ \E S \in SUBSET DueFor(p) :
       /\ FirstDue(p, S)
       /\ worker' = [worker EXCEPT ![p].step = IF S = {} THEN "rest" ELSE "work",
                                   ![p].batch = {CopyOf(p, m) : m \in S},
                                   ![p].full = Cardinality(S) = Batch]
  /\ UNCHANGED <<box, sent, bell, slips, faults>>

(* One transaction locks a batch, skipping what is locked, and pushes it a *)
(* lease ahead of the moment the pass began.                               *)
Claim(p) ==
  /\ worker[p].step = "claim"
  /\ \E S \in SUBSET DueFor(p) :
       /\ FirstDue(p, S)
       /\ worker' = [worker EXCEPT ![p].step = IF S = {} THEN "rest" ELSE "work",
                                   ![p].batch = {CopyOf(p, m) : m \in S},
                                   ![p].full = Cardinality(S) = Batch]
       /\ box' = [m \in Msgs |-> IF m \in S
                                 THEN [box[m] EXCEPT !.due = Lease - worker[p].age]
                                 ELSE box[m]]
       /\ slips' = IF worker[p].age >= Lease THEN Slip(S, "loose") ELSE slips
  /\ UNCHANGED <<sent, bell, faults>>

(* Faulty variant: the deadline is not looked at. *)
AttemptLate(p, c) ==
  /\ worker[p].step = "work" /\ c \in worker[p].batch
  /\ worker' = [worker EXCEPT ![p].step = "sending", ![p].batch = @ \ {c}, ![p].cur = {c}]
  /\ UNCHANGED <<box, sent, bell, slips, faults>>

(* The next row: given up when its time is over or it cannot be rebuilt,   *)
(* sent otherwise.                                                         *)
Attempt(p, c) ==
  /\ worker[p].step = "work" /\ c \in worker[p].batch
  /\ \E next \in {"giveup", "sending"} :
       /\ c.late => next = "giveup"
       /\ worker' = [worker EXCEPT ![p].step = next, ![p].batch = @ \ {c}, ![p].cur = {c}]
  /\ UNCHANGED <<box, sent, bell, slips, faults>>

(* The thread catches whatever a pass raises, and a call that came during   *)
(* it is not forgotten; the command ends with it.                          *)
FailedPass(p) ==
  IF p \in Servers THEN [Asleep(FailWait) EXCEPT !.wake = worker[p].wake] ELSE Down

Delivered(p, c) ==
  /\ worker[p].step = "sending" /\ c \in worker[p].cur
  /\ Again(c.m)
  /\ worker' = [worker EXCEPT ![p].step = "sent"]
  /\ UNCHANGED <<box, bell, slips, faults>>

Refused(p, c) ==
  /\ worker[p].step = "sending" /\ c \in worker[p].cur
  /\ worker' = [worker EXCEPT ![p].step = "giveup", ![p].cur = {[c EXCEPT !.tries = More(@)]}]
  /\ UNCHANGED <<box, sent, bell, slips, faults>>

(* Faulty variant: the delay is told, but not noted. *)
FailsUnnoted(p, c, went, stuck) ==
  /\ worker[p].step = "sending" /\ c \in worker[p].cur
  /\ bell' = IF stuck /\ ~c.told THEN [bell EXCEPT ![c.m] = @ \cup {"delayed"}] ELSE bell
  /\ worker' = [worker EXCEPT ![p].step = "failed"]
  /\ UNCHANGED <<box, sent, slips, faults>>

(* The send raises, though the provider may have taken the message all the *)
(* same.  The CDSO is told once of a message stuck too long ...            *)
Fails(p, c, went, stuck) ==
  /\ worker[p].step = "sending" /\ c \in worker[p].cur
  /\ went => LosesAnswers
  /\ IF went THEN Again(c.m) ELSE UNCHANGED sent
  /\ slips' = IF went THEN Slip({c.m}, "unheard") ELSE slips
  /\ bell' = IF stuck /\ ~c.told THEN [bell EXCEPT ![c.m] = @ \cup {"delayed"}] ELSE bell
  /\ worker' = [worker EXCEPT ![p].step = "failed", ![p].cur = {[c EXCEPT !.told = @ \/ stuck]}]
  /\ UNCHANGED <<box, faults>>

(* Faulty variant: a message that failed is dropped, as it once was. *)
PutOffForEver(p, c) ==
  /\ worker[p].step = "failed" /\ c \in worker[p].cur
  /\ box' = [box EXCEPT ![c.m] = Blank("gone", @.by)]
  /\ worker' = [worker EXCEPT ![p].step = "work", ![p].cur = {}]
  /\ UNCHANGED <<sent, bell, slips, faults>>

(* ... and the row saved: what was told, and a next attempt that is never  *)
(* put off past the deadline.  Saving a row that another worker has        *)
(* deleted raises in turn.                                                 *)
PutOff(p, c) ==
  /\ worker[p].step = "failed" /\ c \in worker[p].cur
  /\ IF Exists(c.m)
     THEN /\ box' = [box EXCEPT ![c.m] =
                [box[c.m] EXCEPT !.tries = More(c.tries), !.told = box[c.m].told \/ c.told,
                          !.due = Least(DelayAfter(c.tries + 1) - worker[p].age, box[c.m].life)]]
          /\ worker' = [worker EXCEPT ![p].step = "work", ![p].cur = {}]
     ELSE UNCHANGED box /\ worker' = [worker EXCEPT ![p] = FailedPass(p)]
  /\ UNCHANGED <<sent, bell, slips, faults>>

(* Giving up: the row is marked ... *)
GiveUp(p, c) ==
  /\ worker[p].step = "giveup" /\ c \in worker[p].cur
  /\ IF Exists(c.m)
     THEN /\ box' = [box EXCEPT ![c.m] =
                [Blank("failed", @.by) EXCEPT !.tries = c.tries, !.told = box[c.m].told]]
          /\ worker' = [worker EXCEPT ![p].step = "report"]
     ELSE UNCHANGED box /\ worker' = [worker EXCEPT ![p] = FailedPass(p)]
  /\ UNCHANGED <<sent, bell, slips, faults>>

(* ... and the CDSO told. *)
Report(p, c) ==
  /\ worker[p].step = "report" /\ c \in worker[p].cur
  /\ bell' = [bell EXCEPT ![c.m] = @ \cup {"failed"}]
  /\ worker' = [worker EXCEPT ![p].step = "work", ![p].cur = {}]
  /\ UNCHANGED <<box, sent, slips, faults>>

(* It went out: a message reported as delayed is reported again, and the   *)
(* row, which may hold a password, is deleted.                             *)
Remove(p, c) ==
  /\ worker[p].step = "sent" /\ c \in worker[p].cur
  /\ bell' = IF c.told THEN [bell EXCEPT ![c.m] = @ \cup {"late"}] ELSE bell
  /\ box' = IF Exists(c.m) THEN [box EXCEPT ![c.m] = Blank("gone", @.by)] ELSE box
  /\ worker' = [worker EXCEPT ![p].step = "work", ![p].cur = {}]
  /\ UNCHANGED <<sent, slips, faults>>

(* A full batch is followed by another claim. *)
NextBatch(p) ==
  /\ worker[p].step = "work" /\ worker[p].batch = {}
  /\ worker' = [worker EXCEPT ![p].step = IF worker[p].full THEN "claim" ELSE "rest"]
  /\ UNCHANGED <<box, sent, bell, slips, faults>>

Waiting == {m \in Msgs : box[m].stage = "pending"}

(* Sleep until the next row is due, or for IDLE_POLL_SECONDS. *)
Rest(p) ==
  /\ worker[p].step = "rest"
  /\ \E n \in 0..Idle :
       /\ \A m \in Waiting : n <= Most(0, box[m].due)
       /\ n = Idle \/ \E m \in Waiting : n = Most(0, box[m].due)
       /\ worker' = [worker EXCEPT ![p] = IF p \in Servers
                                          THEN [Asleep(n) EXCEPT !.wake = worker[p].wake]
                                          ELSE Down]
  /\ UNCHANGED <<box, sent, bell, slips, faults>>

-----------------------------------------------------------------------------
(***************************************************************************)
(* The environment.                                                        *)
(***************************************************************************)

(* What nobody knows of the row in hand once the pass is broken off. *)
BrokenOff(p) ==
  LET inHand(step) == {c.m : c \in {d \in worker[p].cur : worker[p].step = step}} IN
  [m \in Msgs |-> slips[m]
     \cup {w \in {"unheard"} : m \in inHand("sent")}
     \cup {w \in {"unnoted"} : m \in inHand("failed")}]

(* A process dies: its open transactions are rolled back. *)
Die(p) ==
  /\ faults < MaxFaults /\ worker[p].step # "down"
  /\ faults' = faults + 1
  /\ worker' = [worker EXCEPT ![p] = Down]
  /\ box' = [m \in Msgs |-> IF box[m].stage = "stored" /\ box[m].by = p
                            THEN Blank("new", p) ELSE box[m]]
  /\ slips' = BrokenOff(p)
  /\ UNCHANGED <<sent, bell>>

Restart(p) ==
  /\ p \in Servers /\ worker[p].step = "down"
  /\ worker' = [worker EXCEPT ![p] = Asleep(0)]
  /\ UNCHANGED <<box, sent, bell, slips, faults>>

(* The database is out of reach in the middle of a pass. *)
LoseDatabase(p) ==
  /\ faults < MaxFaults /\ InPass(p)
  /\ faults' = faults + 1
  /\ worker' = [worker EXCEPT ![p] = FailedPass(p)]
  /\ slips' = BrokenOff(p)
  /\ UNCHANGED <<box, sent, bell>>

(* Time passes; what is further back than a pass is long is not told apart. *)
Earlier(t) == Most(t - 1, -PassMax)

Tick ==
  /\ \A p \in Procs : InPass(p) => worker[p].age < PassMax
  /\ box' = [m \in Msgs |-> IF box[m].stage \in {"stored", "pending"}
                            THEN [box[m] EXCEPT !.due = Earlier(@), !.life = Earlier(@)]
                            ELSE box[m]]
  /\ worker' = [p \in Procs |-> IF InPass(p) THEN [worker[p] EXCEPT !.age = @ + 1]
                                ELSE [worker[p] EXCEPT !.nap = Most(0, @ - 1)]]
  /\ slips' = Slip(UNION {InHand(p) : p \in {q \in Procs : worker[q].age + 1 >= Lease}}, "loose")
  /\ UNCHANGED <<sent, bell, faults>>

Sender(m) ==
  \/ Enqueue(m) \/ Commit(m) \/ RollBack(m)
  \/ \E went, raises \in BOOLEAN : SendNow(m, went, raises)

PassStep(p) ==
  \/ BeginPass(p) \/ Claim(p) \/ NextBatch(p) \/ Rest(p)
  \/ \E c \in worker[p].batch : Attempt(p, c)
  \/ \E c \in worker[p].cur :
       \/ Delivered(p, c) \/ Refused(p, c)
       \/ \E went, stuck \in BOOLEAN : Fails(p, c, went, stuck)
       \/ PutOff(p, c)
       \/ GiveUp(p, c) \/ Report(p, c) \/ Remove(p, c)

Next ==
  \/ \E m \in Msgs : Sender(m)
  \/ \E p \in Procs :
       \/ PassStep(p)
       \/ \E revived \in SUBSET GivenUp : RetryEmails(p, revived)
       \/ Die(p) \/ Restart(p) \/ LoseDatabase(p)
  \/ Tick

Spec == Init /\ [][Next]_vars

(* Time passes, a worker that can take a step does, and a server that died *)
(* is started again.                                                       *)
Fairness ==
  /\ WF_vars(Tick)
  /\ \A p \in Procs : WF_vars(PassStep(p)) /\ WF_vars(Restart(p))

FairSpec == Spec /\ Fairness

-----------------------------------------------------------------------------
(***************************************************************************)
(* Properties.                                                             *)
(***************************************************************************)

(* "two servers never send the same row at once": while it is leased.  Two *)
(* do only if a pass outlived its lease, or the command cut one short.     *)
OneSender ==
  \A p, q \in Procs :
    \A c \in worker[p].cur, d \in worker[q].cur :
      worker[p].step = "sending" /\ worker[q].step = "sending" /\ c.m = d.m
        => p = q \/ "loose" \in slips[c.m]

(* Nobody is told that a message could not be delivered which has gone     *)
(* out, unless nobody could know: its answer was lost, or a pass was       *)
(* broken off between the send and the delete; or it was sent twice at     *)
(* once.                                                                   *)
NoFalseAlarm ==
  [][\A m \in Msgs :
       "failed" \in bell'[m] \ bell[m] =>
         sent[m] = 0 \/ slips[m] \cap {"loose", "unheard"} # {}]_vars

(* The CDSO, once told a message is delayed, is told when it gets through, *)
(* however many passes, servers, lost answers and broken connections later; *)
(* unless a pass was broken off between the notice and the save that notes *)
(* it, or two had the message in hand.                                     *)
AlarmClosed ==
  \A m \in Msgs :
    box[m].stage = "gone" /\ "delayed" \in bell[m] =>
      "late" \in bell[m] \/ slips[m] \cap {"loose", "unnoted"} # {}

(* No worker sleeps past a message, until something goes down or a lease   *)
(* is lost: whatever waits, some worker is at it, woken, or wakes by the   *)
(* time it is due.                                                         *)
Attended ==
  faults = 0 /\ (\A m \in Msgs : "loose" \notin slips[m]) =>
    \A m \in Waiting : \E p \in Procs :
      \/ InPass(p)
      \/ worker[p].step = "nap" /\ (worker[p].wake \/ worker[p].nap <= Most(0, box[m].due))

(* A message leaves at most one pass after its deadline.                   *)
SentInTime ==
  \A p \in Procs : \A c \in worker[p].cur :
    worker[p].step = "sending" /\ box[c.m].stage = "pending" => box[c.m].life > -PassMax

(* No message waits for ever: it goes out, or the outbox gives up.         *)
Settled == \A m \in Msgs : box[m].stage = "pending" ~> box[m].stage # "pending"

(* What a caller sees of a row. *)
Public(stage) == CASE stage = "stored" -> "new"
                   [] stage = "pending" -> "waiting"
                   [] stage = "gone" -> "done"
                   [] OTHER -> stage

(* What the outbox promises its callers: nothing accepted is lost.         *)
Promise == INSTANCE MailPromise WITH
  stage <- [m \in Msgs |-> Public(box[m].stage)],
  wentOut <- {m \in Msgs : sent[m] > 0}

PromiseSpec == Promise!Spec

=============================================================================
