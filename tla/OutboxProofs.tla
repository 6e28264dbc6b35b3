---------------------------- MODULE OutboxProofs ----------------------------
(***************************************************************************)
(* Proofs about EmailOutbox, for any number of messages, servers and       *)
(* commands, any delays and batch size, any number of faults, and whether  *)
(* or not the provider's answers are lost - but for the theorems that say  *)
(* what more they need.                                                    *)
(***************************************************************************)
EXTENDS EmailOutbox, TLAPS

-----------------------------------------------------------------------------
(***************************************************************************)
(* Helpers.                                                                *)
(***************************************************************************)

LEMMA Extremes ==
  ASSUME NEW i \in Int, NEW j \in Int
  PROVE  /\ Least(i, j) \in {i, j} /\ Least(i, j) <= i /\ Least(i, j) <= j
         /\ Most(i, j) \in {i, j} /\ Most(i, j) >= i /\ Most(i, j) >= j
  BY DEF Least, Most

LEMMA Delays ==
  ASSUME NEW n \in Nat
  PROVE  /\ More(n) \in 0..Len(RetryDelays)
         /\ DelayAfter(n + 1) \in Nat
  BY TimesAssumption DEF More, DelayAfter, Least

LEMMA Fresh ==
  ASSUME NEW n \in Nat
  PROVE  Asleep(n) \in Worker /\ Down \in Worker
  <1>1. 0 \in 0..PassMax /\ {"nap", "down"} \subseteq Steps /\ 0 \in Nat
    BY TimesAssumption DEF Steps
  <1>2. Asleep(n) \in Worker /\ Asleep(0) \in Worker
    BY <1>1 DEF Asleep, Worker
  <1>3. QED
    BY <1>1, <1>2 DEF Down, Worker

(* Saving some fields of a row keeps its type. *)
LEMMA RowStored ==
  ASSUME NEW r \in Row, NEW stage \in Stages, NEW life \in Int, NEW due \in Int
  PROVE  /\ [r EXCEPT !.stage = stage, !.life = life] \in Row
         /\ [r EXCEPT !.stage = stage, !.life = life, !.due = due] \in Row
  BY DEF Row

LEMMA RowDue ==
  ASSUME NEW r \in Row, NEW due \in Int
  PROVE  [r EXCEPT !.due = due] \in Row
  BY DEF Row

LEMMA RowQueued ==
  ASSUME NEW r \in Row, NEW stage \in Stages, NEW n \in 0..Len(RetryDelays),
         NEW due \in Int, NEW life \in Int
  PROVE  /\ [r EXCEPT !.stage = stage] \in Row
         /\ [r EXCEPT !.stage = stage, !.tries = n, !.due = due, !.life = life] \in Row
  BY DEF Row

LEMMA RowTried ==
  ASSUME NEW r \in Row, NEW n \in 0..Len(RetryDelays), NEW due \in Int, NEW told \in BOOLEAN
  PROVE  [r EXCEPT !.tries = n, !.told = told, !.due = due] \in Row
  BY DEF Row

LEMMA Blanks ==
  ASSUME NEW stage \in Stages, NEW p \in Procs
  PROVE  Blank(stage, p) \in Row
  BY DEF Blank, Row

LEMMA Ageing ==
  ASSUME NEW t \in Int
  PROVE  /\ Earlier(t) \in Int
         /\ \A a \in 0..PassMax : a < PassMax => Earlier(t) + a + 1 >= t + a
         /\ \A a \in 0..PassMax : t + a > 0 /\ a < PassMax => Earlier(t) + a + 1 = t + a
  BY TimesAssumption DEF Earlier, Most

(* What is added to the history is of its kinds, and nothing is lost. *)
LEMMA Slipped ==
  ASSUME slips \in [Msgs -> SUBSET Slips]
  PROVE  /\ \A S : \A what \in Slips :
              /\ Slip(S, what) \in [Msgs -> SUBSET Slips]
              /\ \A m \in Msgs : /\ slips[m] \subseteq Slip(S, what)[m]
                                 /\ m \in S => what \in Slip(S, what)[m]
         /\ \A p : /\ BrokenOff(p) \in [Msgs -> SUBSET Slips]
                    /\ \A m \in Msgs : slips[m] \subseteq BrokenOff(p)[m]
  <1>1. \A S : \A what \in Slips :
          /\ Slip(S, what) \in [Msgs -> SUBSET Slips]
          /\ \A m \in Msgs : /\ slips[m] \subseteq Slip(S, what)[m]
                             /\ m \in S => what \in Slip(S, what)[m]
    BY DEF Slip
  <1>2. \A p : /\ BrokenOff(p) \in [Msgs -> SUBSET Slips]
               /\ \A m \in Msgs : slips[m] \subseteq BrokenOff(p)[m]
    BY DEF BrokenOff, Slips
  <1>3. QED
    BY <1>1, <1>2

-----------------------------------------------------------------------------
(***************************************************************************)
(* Types.                                                                  *)
(***************************************************************************)

LEMMA InitTypes == Init => TypeOK
  BY TimesAssumption, Fresh, Blanks DEF Init, TypeOK, Stages

LEMMA FailedTypes ==
  ASSUME TypeOK, NEW p \in Procs
  PROVE  FailedPass(p) \in Worker
  <1>1. Asleep(FailWait) \in Worker /\ Down \in Worker
    BY Fresh, TimesAssumption
  <1>2. [Asleep(FailWait) EXCEPT !.wake = worker[p].wake] \in Worker
    BY <1>1 DEF TypeOK, Worker
  <1>3. QED
    BY <1>1, <1>2 DEF FailedPass

(* A pass that failed holds nothing any more. *)
LEMMA FailedHolds ==
  ASSUME NEW p \in Procs
  PROVE  /\ FailedPass(p).step \in {"nap", "down"} /\ FailedPass(p).age = 0
         /\ FailedPass(p).batch = {} /\ FailedPass(p).cur = {}
  <1>1. CASE p \in Servers
    BY <1>1 DEF FailedPass, Asleep
  <1>2. CASE p \notin Servers
    BY <1>2 DEF FailedPass, Down, Asleep
  <1>3. QED
    BY <1>1, <1>2

LEMMA SenderTypes ==
  ASSUME TypeOK, NEW m \in Msgs, Sender(m)
  PROVE  TypeOK'
  <1>0. box[m] \in Row /\ box[m].by \in Procs /\ worker[box[m].by] \in Worker
    BY DEF TypeOK, Row
  <1>1. CASE Enqueue(m)
    <2>1. box' = [box EXCEPT ![m] = [box[m] EXCEPT !.stage = "stored", !.life = MaxAge]]
      BY <1>0, <1>1 DEF Enqueue, TypeOK
    <2>2. "stored" \in Stages /\ MaxAge \in Int
      BY TimesAssumption DEF Stages
    <2>3. [box[m] EXCEPT !.stage = "stored", !.life = MaxAge] \in Row
      BY <1>0, <2>2, RowStored
    <2>4. box' \in [Msgs -> Row]
      BY <2>1, <2>3 DEF TypeOK
    <2>5. QED
      BY <1>1, <2>4 DEF Enqueue, TypeOK
  <1>2. CASE Commit(m)
    <2>1. box' \in [Msgs -> Row]
      BY <1>0, <1>2 DEF Commit, TypeOK, Row, Stages
    <2>2. worker' \in [Procs -> Worker]
      BY <1>0, <1>2 DEF Commit, TypeOK, Worker
    <2>3. QED
      BY <1>2, <2>1, <2>2 DEF Commit, TypeOK
  <1>3. CASE RollBack(m)
    BY <1>0, <1>3, Blanks DEF RollBack, TypeOK, Stages
  <1>4. ASSUME NEW went \in BOOLEAN, NEW raises \in BOOLEAN, SendNow(m, went, raises)
        PROVE  TypeOK'
    <2>1. sent' \in [Msgs -> 0..2]
      BY <1>4 DEF SendNow, Again, Least, TypeOK
    <2>2. DelayAfter(1) \in Nat /\ 1 \in 0..Len(RetryDelays)
      BY Delays, TimesAssumption
    <2>3. box' \in [Msgs -> Row]
      <3>1. {"gone", "refused", "stored"} \subseteq Stages /\ MaxAge \in Int
        BY TimesAssumption DEF Stages
      <3>2. /\ [box[m] EXCEPT !.stage = "gone"] \in Row
            /\ [box[m] EXCEPT !.stage = "refused"] \in Row
        BY <1>0, <2>2, <3>1, RowQueued
      <3>3. [box[m] EXCEPT !.stage = "stored", !.tries = 1,
                          !.due = DelayAfter(1), !.life = MaxAge] \in Row
        <4>1. DelayAfter(1) \in Int /\ "stored" \in Stages
          BY <2>2, <3>1
        <4>2. QED
          BY <1>0, <2>2, <3>1, <4>1, RowQueued
      <3>4. QED
        BY <1>4, <3>2, <3>3 DEF SendNow, TypeOK
    <2>4. slips' \in [Msgs -> SUBSET Slips]
      <3>1. slips' \in {Slip({m}, "unheard"), slips}
        BY <1>4 DEF SendNow
      <3>2. QED
        BY <3>1, Slipped DEF TypeOK, Slips
    <2>5. QED
      BY <1>4, <2>1, <2>3, <2>4 DEF SendNow, TypeOK
  <1>5. QED
    BY <1>1, <1>2, <1>3, <1>4 DEF Sender

LEMMA PassTypes ==
  ASSUME TypeOK, NEW p \in Procs, PassStep(p)
  PROVE  TypeOK'
  <1>0. /\ worker[p] \in Worker /\ worker[p].age \in 0..PassMax
        /\ worker[p].batch \subseteq Copy /\ worker[p].cur \subseteq Copy
        /\ \A m \in Msgs : box[m] \in Row
    BY DEF TypeOK, Worker
  <1>1. CASE BeginPass(p)
    <2>1. [Asleep(0) EXCEPT !.step = "claim"] \in Worker
      BY Fresh DEF Worker, Steps
    <2>2. worker' \in [Procs -> Worker]
      BY <1>1, <2>1 DEF BeginPass, TypeOK
    <2>3. box' \in [Msgs -> Row]
      BY <1>0, <1>1, Blanks DEF BeginPass, Stages, Row
    <2>4. QED
      BY <1>1, <2>2, <2>3 DEF BeginPass, TypeOK
  <1>2. CASE Claim(p)
    <2>1. PICK S \in SUBSET DueFor(p) :
            /\ worker' = [worker EXCEPT ![p].step = IF S = {} THEN "rest" ELSE "work",
                                        ![p].batch = {CopyOf(p, m) : m \in S},
                                        ![p].full = Cardinality(S) = Batch]
            /\ box' = [m \in Msgs |-> IF m \in S
                                      THEN [box[m] EXCEPT !.due = Lease - worker[p].age]
                                      ELSE box[m]]
      BY <1>2 DEF Claim
    <2>2. {CopyOf(p, m) : m \in S} \subseteq Copy
      <3>1. ASSUME NEW m \in S
            PROVE  CopyOf(p, m) \in Copy
        <4>1. m \in Msgs /\ box[m].tries \in 0..Len(RetryDelays) /\ box[m].told \in BOOLEAN
          BY <1>0, <3>1 DEF DueFor, Row
        <4>2. (box[m].life + worker[p].age <= 0) \in BOOLEAN
          OBVIOUS
        <4>3. QED
          BY <4>1, <4>2 DEF CopyOf, Copy
      <3>2. QED
        BY <3>1
    <2>3. worker' \in [Procs -> Worker]
      BY <1>0, <2>1, <2>2 DEF TypeOK, Worker, Steps
    <2>4. box' \in [Msgs -> Row]
      <3>1. Lease - worker[p].age \in Int
        BY <1>0, TimesAssumption
      <3>2. \A m \in Msgs : [box[m] EXCEPT !.due = Lease - worker[p].age] \in Row
        BY <1>0, <3>1 DEF Row
      <3>3. QED
        BY <2>1, <1>0, <3>2
    <2>5. slips' \in [Msgs -> SUBSET Slips]
      <3>1. PICK T \in SUBSET DueFor(p) :
              slips' = IF worker[p].age >= Lease THEN Slip(T, "loose") ELSE slips
        BY <1>2 DEF Claim
      <3>2. QED
        BY <3>1, Slipped DEF TypeOK, Slips
    <2>6. QED
      BY <1>2, <2>3, <2>4, <2>5 DEF Claim, TypeOK
  <1>3. CASE NextBatch(p)
    BY <1>0, <1>3 DEF NextBatch, TypeOK, Worker, Steps
  <1>4. CASE Rest(p)
    <2>1. PICK n \in 0..Idle :
            worker' = [worker EXCEPT ![p] = IF p \in Servers
                                            THEN [Asleep(n) EXCEPT !.wake = worker[p].wake]
                                            ELSE Down]
      BY <1>4 DEF Rest
    <2>2. n \in Nat
      BY TimesAssumption
    <2>3. [Asleep(n) EXCEPT !.wake = worker[p].wake] \in Worker
      BY <1>0, <2>2, Fresh DEF Worker
    <2>4. QED
      BY <1>4, <2>1, <2>2, <2>3, Fresh DEF Rest, TypeOK
  <1>5. ASSUME NEW c \in worker[p].batch, Attempt(p, c)
        PROVE  TypeOK'
    <2>1. PICK next \in {"giveup", "sending"} :
            worker' = [worker EXCEPT ![p].step = next, ![p].batch = @ \ {c}, ![p].cur = {c}]
      BY <1>5 DEF Attempt
    <2>2. c \in Copy
      BY <1>0, <1>5
    <2>3. worker' \in [Procs -> Worker]
      BY <1>0, <2>1, <2>2 DEF TypeOK, Worker, Steps
    <2>4. QED
      BY <1>5, <2>3 DEF Attempt, TypeOK
  <1>6. ASSUME NEW c \in worker[p].cur,
               \/ Delivered(p, c) \/ Refused(p, c)
               \/ \E went, stuck \in BOOLEAN : Fails(p, c, went, stuck)
               \/ PutOff(p, c) \/ GiveUp(p, c) \/ Report(p, c) \/ Remove(p, c)
        PROVE  TypeOK'
    <2>0. /\ c \in Copy /\ c.m \in Msgs /\ c.tries \in 0..Len(RetryDelays)
          /\ box[c.m] \in Row /\ box[c.m].by \in Procs
          /\ FailedPass(p) \in Worker
      <3>1. c \in Copy
        BY <1>0, <1>6
      <3>2. FailedPass(p) \in Worker
        BY FailedTypes
      <3>3. QED
        BY <1>0, <3>1, <3>2 DEF Copy, Row
    <2>1. CASE Delivered(p, c)
      <3>1. sent' \in [Msgs -> 0..2]
        BY <2>0, <2>1 DEF Delivered, Again, Least, TypeOK
      <3>2. worker' \in [Procs -> Worker]
        BY <1>0, <2>1 DEF Delivered, TypeOK, Worker, Steps
      <3>3. QED
        BY <2>1, <3>1, <3>2 DEF Delivered, TypeOK
    <2>2. CASE Refused(p, c)
      <3>1. c.tries \in Nat
        BY <2>0, TimesAssumption
      <3>2. [c EXCEPT !.tries = More(@)] \in Copy
        BY <2>0, <3>1, Delays DEF Copy
      <3>3. worker' \in [Procs -> Worker]
        BY <1>0, <2>2, <3>2 DEF Refused, TypeOK, Worker, Steps
      <3>4. QED
        BY <2>2, <3>3 DEF Refused, TypeOK
    <2>3. ASSUME NEW went \in BOOLEAN, NEW stuck \in BOOLEAN, Fails(p, c, went, stuck)
          PROVE  TypeOK'
      <3>1. sent' \in [Msgs -> 0..2]
        BY <2>0, <2>3 DEF Fails, Again, Least, TypeOK
      <3>2. bell' \in [Msgs -> SUBSET {"delayed", "late", "failed"}]
        BY <2>0, <2>3 DEF Fails, TypeOK
      <3>3. worker' \in [Procs -> Worker]
        <4>1. [c EXCEPT !.told = @ \/ stuck] \in Copy
          <5>1. (c.told \/ stuck) \in BOOLEAN
            BY Zenon
          <5>2. QED
            BY <2>0, <5>1 DEF Copy
        <4>2. QED
          BY <1>0, <2>3, <4>1 DEF Fails, TypeOK, Worker, Steps
      <3>4. slips' \in [Msgs -> SUBSET Slips]
        <4>1. slips' \in {Slip({c.m}, "unheard"), slips}
          BY <2>3 DEF Fails
        <4>2. QED
          BY <4>1, Slipped DEF TypeOK, Slips
      <3>5. QED
        BY <2>3, <3>1, <3>2, <3>3, <3>4 DEF Fails, TypeOK
    <2>8. CASE PutOff(p, c)
      <3>1. c.tries \in Nat
        BY <2>0, TimesAssumption
      <3>4. Least(DelayAfter(c.tries + 1) - worker[p].age, box[c.m].life) \in Int
        <4>0. DelayAfter(c.tries + 1) \in Nat
          BY <3>1, Delays
        <4>1. DelayAfter(c.tries + 1) - worker[p].age \in Int /\ box[c.m].life \in Int
          BY <1>0, <2>0, <4>0, TimesAssumption DEF Row
        <4>2. QED
          BY <4>1, Extremes
      <3>5. More(c.tries) \in 0..Len(RetryDelays)
        BY <3>1, Delays
      <3>6. box' \in [Msgs -> Row]
        <4>0. (box[c.m].told \/ c.told) \in BOOLEAN
          BY Zenon
        <4>1. [box[c.m] EXCEPT !.tries = More(c.tries), !.told = box[c.m].told \/ c.told,
                 !.due = Least(DelayAfter(c.tries + 1) - worker[p].age, box[c.m].life)] \in Row
          BY <2>0, <3>4, <3>5, <4>0, RowTried
        <4>2. CASE Exists(c.m)
          <5>1. box' = [box EXCEPT ![c.m] = [box[c.m] EXCEPT
                           !.tries = More(c.tries), !.told = box[c.m].told \/ c.told,
                           !.due = Least(DelayAfter(c.tries + 1) - worker[p].age, box[c.m].life)]]
            BY <2>8, <4>2, Zenon DEF PutOff
          <5>2. QED
            BY <2>0, <4>1, <5>1 DEF TypeOK
        <4>3. CASE ~Exists(c.m)
          BY <2>8, <4>3 DEF PutOff, TypeOK
        <4>4. QED
          BY <4>2, <4>3
      <3>7. worker' \in [Procs -> Worker]
        <4>1. [worker[p] EXCEPT !.step = "work", !.cur = {}] \in Worker
          BY <1>0, "work" \in Steps DEF Worker, Steps
        <4>2. worker' \in {[worker EXCEPT ![p] = [worker[p] EXCEPT !.step = "work", !.cur = {}]],
                           [worker EXCEPT ![p] = FailedPass(p)]}
          BY <2>8 DEF PutOff, TypeOK
        <4>3. QED
          BY <2>0, <4>1, <4>2 DEF TypeOK
      <3>8. QED
        BY <2>8, <3>6, <3>7 DEF PutOff, TypeOK
    <2>4. CASE GiveUp(p, c)
      <3>1. box' \in [Msgs -> Row]
        <4>1. Blank("failed", box[c.m].by) \in Row /\ box[c.m].told \in BOOLEAN
          BY <2>0, Blanks DEF Stages, Row
        <4>2. [Blank("failed", box[c.m].by) EXCEPT !.tries = c.tries, !.told = box[c.m].told] \in Row
          BY <2>0, <4>1 DEF Row
        <4>3. QED
          BY <2>0, <2>4, <4>2 DEF GiveUp, TypeOK
      <3>2. worker' \in [Procs -> Worker]
        <4>1. [worker[p] EXCEPT !.step = "report"] \in Worker
          BY <1>0, "report" \in Steps DEF Worker, Steps
        <4>2. worker' \in {[worker EXCEPT ![p] = [worker[p] EXCEPT !.step = "report"]],
                           [worker EXCEPT ![p] = FailedPass(p)]}
          BY <2>4 DEF GiveUp, TypeOK
        <4>3. QED
          BY <2>0, <4>1, <4>2 DEF TypeOK
      <3>3. QED
        BY <2>4, <3>1, <3>2 DEF GiveUp, TypeOK
    <2>5. CASE Report(p, c)
      <3>1. worker' \in [Procs -> Worker]
        BY <1>0, <2>5 DEF Report, TypeOK, Worker, Steps
      <3>2. QED
        BY <2>0, <2>5, <3>1 DEF Report, TypeOK
    <2>6. CASE Remove(p, c)
      <3>1. box' \in [Msgs -> Row]
        BY <2>0, <2>6, Blanks DEF Remove, TypeOK, Stages
      <3>2. worker' \in [Procs -> Worker]
        BY <1>0, <2>6 DEF Remove, TypeOK, Worker, Steps
      <3>3. QED
        BY <2>0, <2>6, <3>1, <3>2 DEF Remove, TypeOK
    <2>7. QED
      BY <1>6, <2>1, <2>2, <2>3, <2>4, <2>5, <2>6, <2>8
  <1>7. QED
    BY <1>1, <1>2, <1>3, <1>4, <1>5, <1>6 DEF PassStep

LEMMA OtherTypes ==
  ASSUME TypeOK,
         \/ \E p \in Procs :
              \/ \E revived \in SUBSET GivenUp : RetryEmails(p, revived)
              \/ Die(p) \/ Restart(p) \/ LoseDatabase(p)
         \/ Tick
  PROVE  TypeOK'
  <1>0. \A m \in Msgs : box[m] \in Row /\ box[m].by \in Procs
    BY DEF TypeOK, Row
  <1>1. ASSUME NEW p \in Procs, NEW revived \in SUBSET GivenUp, RetryEmails(p, revived)
        PROVE  TypeOK'
    <2>1. [Asleep(0) EXCEPT !.step = "claim"] \in Worker
      BY Fresh DEF Worker, Steps
    <2>2. worker' \in [Procs -> Worker]
      BY <1>1, <2>1 DEF RetryEmails, TypeOK
    <2>3. box' \in [Msgs -> Row]
      <3>1. "pending" \in Stages /\ MaxAge \in Int /\ 0 \in Int
        BY TimesAssumption DEF Stages
      <3>2. \A m \in Msgs : /\ [box[m] EXCEPT !.stage = "pending", !.life = MaxAge, !.due = 0] \in Row
                           /\ [box[m] EXCEPT !.due = 0] \in Row
        BY <1>0, <3>1, RowStored, RowDue
      <3>3. QED
        BY <1>0, <1>1, <3>2 DEF RetryEmails
    <2>4. slips' \in [Msgs -> SUBSET Slips]
      BY <1>1, Slipped DEF RetryEmails, TypeOK, Slips
    <2>5. QED
      BY <1>1, <2>2, <2>3, <2>4 DEF RetryEmails, TypeOK
  <1>2. ASSUME NEW p \in Procs, Die(p)
        PROVE  TypeOK'
    <2>1. box' \in [Msgs -> Row]
      BY <1>0, <1>2, Blanks DEF Die, Stages
    <2>2. QED
      BY <1>2, <2>1, Fresh, Slipped, TimesAssumption DEF Die, TypeOK
  <1>3. ASSUME NEW p \in Procs, Restart(p)
        PROVE  TypeOK'
    BY <1>3, Fresh DEF Restart, TypeOK
  <1>4. ASSUME NEW p \in Procs, LoseDatabase(p)
        PROVE  TypeOK'
    <2>1. FailedPass(p) \in Worker
      BY FailedTypes
    <2>2. QED
      BY <1>4, <2>1, Slipped, TimesAssumption DEF LoseDatabase, TypeOK
  <1>5. CASE Tick
    <2>1. box' \in [Msgs -> Row]
      BY <1>0, <1>5, Ageing DEF Tick, Row
    <2>2. ASSUME NEW q \in Procs
          PROVE  worker'[q] \in Worker
      <3>1. worker[q] \in Worker /\ worker[q].age \in Nat /\ worker[q].nap \in Nat
        BY TimesAssumption DEF TypeOK, Worker
      <3>2. CASE InPass(q)
        <4>1. worker'[q] = [worker[q] EXCEPT !.age = @ + 1] /\ worker[q].age < PassMax
          BY <1>5, <2>2, <3>2 DEF Tick
        <4>2. worker[q].age + 1 \in 0..PassMax
          BY <3>1, <4>1, TimesAssumption
        <4>3. QED
          BY <3>1, <4>1, <4>2 DEF Worker
      <3>3. CASE ~InPass(q)
        <4>1. worker'[q] = [worker[q] EXCEPT !.nap = Most(0, @ - 1)]
          BY <1>5, <2>2, <3>3 DEF Tick
        <4>2. Most(0, worker[q].nap - 1) \in Nat
          BY <3>1, Extremes
        <4>3. QED
          BY <3>1, <4>1, <4>2 DEF Worker
      <3>4. QED
        BY <3>2, <3>3
    <2>3. worker' \in [Procs -> Worker]
      BY <1>5, <2>2 DEF Tick
    <2>4. slips' \in [Msgs -> SUBSET Slips]
      BY <1>5, Slipped DEF Tick, TypeOK, Slips
    <2>5. QED
      BY <1>5, <2>1, <2>3, <2>4 DEF Tick, TypeOK
  <1>6. QED
    BY <1>1, <1>2, <1>3, <1>4, <1>5

LEMMA NextTypes ==
  ASSUME TypeOK, [Next]_vars
  PROVE  TypeOK'
  <1>1. CASE UNCHANGED vars
    BY <1>1 DEF vars, TypeOK
  <1>2. QED
    BY <1>1, SenderTypes, PassTypes, OtherTypes DEF Next

(* Whatever dies or is lost, rows, passes and notices keep their types. *)
THEOREM OutboxTypes == Spec => []TypeOK
  BY InitTypes, NextTypes, PTL DEF Spec

-----------------------------------------------------------------------------
(***************************************************************************)
(* What a pass holds.  A row in hand was accepted; it is marked sent only  *)
(* if the provider took it; and it was in time when the pass began, so its *)
(* life and the age of the pass never add up to nothing.                   *)
(***************************************************************************)
Copies(p) == worker[p].batch \cup worker[p].cur

HeldBy(p) ==
  /\ worker[p].step \in {"down", "nap", "claim", "rest"} => Copies(p) = {}
  /\ worker[p].step = "work" => worker[p].cur = {}
  /\ \A c, d \in worker[p].cur : c = d
  /\ \A c \in Copies(p) : box[c.m].stage \notin {"new", "stored", "refused"}
  /\ worker[p].step = "sent" => \A c \in worker[p].cur : sent[c.m] > 0

InTime(p) ==
  /\ worker[p].step = "sending" => \A c \in worker[p].cur : ~c.late
  /\ \A c \in Copies(p) :
       ~c.late /\ box[c.m].stage = "pending" => box[c.m].life + worker[p].age > 0

Held == \A p \in Procs : HeldBy(p) /\ InTime(p)

SameHand(q) ==
  /\ worker'[q].step = worker[q].step
  /\ worker'[q].age = worker[q].age
  /\ worker'[q].batch = worker[q].batch
  /\ worker'[q].cur = worker[q].cur

(* An action that leaves a worker and what it holds alone keeps Held. *)
LEMMA Undisturbed ==
  ASSUME TypeOK, Held, NEW q \in Procs, SameHand(q),
         \A c \in Copies(q) :
           /\ box'[c.m].stage \notin {"new", "stored", "refused"}
           /\ box'[c.m].stage = "pending" =>
                \/ box'[c.m].life > 0
                \/ box[c.m].stage = "pending" /\ box'[c.m].life = box[c.m].life
           /\ sent'[c.m] >= sent[c.m],
         \A m \in Msgs : sent'[m] \in Nat /\ box'[m] \in Row
  PROVE  HeldBy(q)' /\ InTime(q)'
  <1>1. /\ worker[q].age \in Nat /\ Copies(q) \subseteq Copy /\ Copies(q)' = Copies(q)
        /\ \A c \in Copies(q) : c.m \in Msgs /\ box'[c.m].life \in Int /\ sent[c.m] \in Nat
                               /\ sent'[c.m] \in Nat
    <2>1. worker[q] \in Worker
      BY DEF TypeOK
    <2>2. worker[q].age \in Nat /\ Copies(q) \subseteq Copy
      BY <2>1, TimesAssumption DEF Worker, Copies
    <2>3. Copies(q)' = Copies(q)
      BY DEF Copies, SameHand
    <2>4. \A c \in Copies(q) : c.m \in Msgs
      BY <2>2 DEF Copy
    <2>5. \A m \in Msgs : sent[m] \in Nat
      BY DEF TypeOK
    <2>6. QED
      BY <2>2, <2>3, <2>4, <2>5 DEF Row
  <1>2. HeldBy(q)'
    BY <1>1 DEF Held, HeldBy, Copies, SameHand
  <1>3. InTime(q)'
    BY <1>1 DEF Held, InTime, Copies, SameHand
  <1>4. QED
    BY <1>2, <1>3

LEMMA InitHeld == Init => Held
  BY DEF Init, Held, HeldBy, InTime, Copies, Asleep, Down

(* The messages in hand are messages, and were accepted. *)
LEMMA HandsOf ==
  ASSUME TypeOK, Held, NEW q \in Procs, NEW c \in Copies(q)
  PROVE  /\ c \in Copy /\ c.m \in Msgs
         /\ box[c.m] \in Row
         /\ box[c.m].stage \notin {"new", "stored", "refused"}
  <1>1. worker[q] \in Worker
    BY DEF TypeOK
  <1>2. c \in Copy
    BY <1>1 DEF Worker, Copies
  <1>3. QED
    BY <1>2 DEF TypeOK, Held, HeldBy, Copy

(* Only rows nobody can have in hand are stored, shown or sent directly. *)
LEMMA SenderHeld ==
  ASSUME TypeOK, TypeOK', Held, NEW m \in Msgs, Sender(m)
  PROVE  Held'
  <1>1. /\ box[m].stage \in {"new", "stored"}
        /\ \A n \in Msgs \ {m} : box'[n] = box[n] /\ sent'[n] = sent[n]
    <2>1. CASE Enqueue(m)
      BY <2>1 DEF Enqueue, TypeOK
    <2>2. CASE Commit(m)
      BY <2>2 DEF Commit, TypeOK
    <2>3. CASE RollBack(m)
      BY <2>3 DEF RollBack, TypeOK
    <2>4. ASSUME NEW went \in BOOLEAN, NEW raises \in BOOLEAN, SendNow(m, went, raises)
          PROVE  /\ box[m].stage \in {"new", "stored"}
                 /\ \A n \in Msgs \ {m} : box'[n] = box[n] /\ sent'[n] = sent[n]
      BY <2>4 DEF SendNow, Again, TypeOK
    <2>5. QED
      BY <2>1, <2>2, <2>3, <2>4 DEF Sender
  <1>2. \A q \in Procs : SameHand(q)
    <2>1. \A q \in Procs : worker[q] \in Worker
      BY DEF TypeOK
    <2>2. \/ worker' = worker
          \/ worker' = [worker EXCEPT ![box[m].by].wake = worker[box[m].by].step # "down"]
      BY DEF Sender, Enqueue, Commit, RollBack, SendNow
    <2>3. QED
      BY <2>1, <2>2 DEF SameHand, TypeOK, Worker
  <1>3. ASSUME NEW q \in Procs
        PROVE  HeldBy(q)' /\ InTime(q)'
    <2>1. \A c \in Copies(q) : c.m \in Msgs /\ c.m # m /\ box[c.m].stage \notin {"new", "stored", "refused"}
      BY <1>1, HandsOf
    <2>2. \A n \in Msgs : sent'[n] \in Nat /\ sent[n] \in Nat /\ box'[n] \in Row
      BY DEF TypeOK
    <2>3. QED
      BY <1>1, <1>2, <2>1, <2>2, Undisturbed
  <1>4. QED
    BY <1>3 DEF Held

(* No step of a pass brings a row back to life or takes a sending back.    *)
Advances ==
  \A m \in Msgs :
    /\ box[m].stage \notin {"new", "stored", "refused"} =>
         box'[m].stage \notin {"new", "stored", "refused"}
    /\ box'[m].stage = "pending" => box[m].stage = "pending" /\ box'[m].life = box[m].life
    /\ sent'[m] >= sent[m]

(* A step of one pass: the others keep what they hold, and it holds what   *)
(* the table says it may.                                                  *)
LEMMA PassHeld ==
  ASSUME TypeOK, TypeOK', Held, NEW p \in Procs, PassStep(p)
  PROVE  Held'
  <1>0. /\ worker[p] \in Worker /\ worker[p].age \in Nat /\ HeldBy(p) /\ InTime(p)
        /\ \A m \in Msgs : box[m] \in Row /\ box[m].life \in Int /\ sent[m] \in Nat /\ sent'[m] \in Nat
                        /\ box'[m] \in Row
    <2>1. worker[p] \in Worker
      BY DEF TypeOK
    <2>2. worker[p].age \in Nat
      BY <2>1, TimesAssumption DEF Worker
    <2>3. \A m \in Msgs : box[m] \in Row /\ sent[m] \in Nat /\ sent'[m] \in Nat /\ box'[m] \in Row
      BY DEF TypeOK
    <2>4. \A m \in Msgs : box[m].life \in Int
      BY <2>3 DEF Row
    <2>5. QED
      BY <2>1, <2>2, <2>3, <2>4 DEF Held
  <1>1. \A q \in Procs \ {p} : SameHand(q)
    <2>1. \E w : worker' = [worker EXCEPT ![p] = w]
      BY DEF PassStep, BeginPass, Claim, NextBatch, Rest, Attempt, Delivered, Refused,
             Fails, PutOff, GiveUp, Report, Remove
    <2>2. QED
      BY <2>1 DEF SameHand, TypeOK
  <1>2. Advances
    <2>1. CASE BeginPass(p)
      <3>1. \A m \in Msgs : \/ box'[m] = box[m]
                            \/ box[m].stage = "failed" /\ box'[m] = Blank("forgotten", box[m].by)
        <4>1. PICK S \in SUBSET GivenUp :
                box' = [m \in Msgs |-> IF m \in S THEN Blank("forgotten", box[m].by) ELSE box[m]]
          BY <2>1 DEF BeginPass
        <4>2. \A m \in S : box[m].stage = "failed"
          BY DEF GivenUp
        <4>3. ASSUME NEW m \in Msgs
              PROVE  \/ box'[m] = box[m]
                     \/ box[m].stage = "failed" /\ box'[m] = Blank("forgotten", box[m].by)
          <5>1. box'[m] = IF m \in S THEN Blank("forgotten", box[m].by) ELSE box[m]
            BY <4>1, <4>3, Zenon
          <5>2. QED
            BY <4>2, <5>1, Zenon
        <4>4. QED
          BY <4>3
      <3>2. sent' = sent
        BY <2>1 DEF BeginPass
      <3>3. ASSUME NEW m \in Msgs, box[m].stage = "failed", box'[m] = Blank("forgotten", box[m].by)
            PROVE  box'[m].stage = "forgotten"
        BY <3>3 DEF Blank
      <3>4. QED
        BY <1>0, <3>1, <3>2, <3>3 DEF Advances
    <2>2. CASE Claim(p)
      <3>1. \A m \in Msgs : \/ box'[m] = box[m]
                            \/ box'[m] = [box[m] EXCEPT !.due = Lease - worker[p].age]
        BY <2>2 DEF Claim
      <3>2. \A m \in Msgs : box'[m].stage = box[m].stage /\ box'[m].life = box[m].life
        BY <1>0, <3>1 DEF Row
      <3>3. sent' = sent
        BY <2>2 DEF Claim
      <3>4. QED
        BY <1>0, <3>2, <3>3 DEF Advances
    <2>3. CASE NextBatch(p) \/ Rest(p) \/ \E c \in worker[p].batch : Attempt(p, c)
      <3>1. box' = box /\ sent' = sent
        BY <2>3 DEF NextBatch, Rest, Attempt
      <3>2. QED
        BY <1>0, <3>1 DEF Advances
    <2>4. ASSUME NEW c \in worker[p].cur,
                 \/ Delivered(p, c) \/ Refused(p, c)
                 \/ \E went, stuck \in BOOLEAN : Fails(p, c, went, stuck)
                 \/ PutOff(p, c) \/ GiveUp(p, c) \/ Report(p, c) \/ Remove(p, c)
          PROVE  Advances
      <3>1. c.m \in Msgs /\ box[c.m] \in Row
        BY HandsOf DEF Copies
      <3>2. Again(c.m) => \A m \in Msgs : sent'[m] >= sent[m]
        BY <1>0 DEF Again, Least, TypeOK
      <3>3. CASE Delivered(p, c) \/ Refused(p, c) \/ Report(p, c)
        BY <1>0, <3>2, <3>3 DEF Delivered, Refused, Report, Advances
      <3>4. ASSUME NEW went \in BOOLEAN, NEW stuck \in BOOLEAN, Fails(p, c, went, stuck)
            PROVE  Advances
        <4>1. \A m \in Msgs : sent'[m] >= sent[m]
          BY <1>0, <3>2, <3>4 DEF Fails
        <4>2. QED
          BY <3>4, <4>1 DEF Fails, Advances
      <3>8. CASE PutOff(p, c)
        <4>1. sent' = sent
          BY <3>8 DEF PutOff
        <4>2. \A m \in Msgs : box'[m].stage = box[m].stage /\ box'[m].life = box[m].life
          <5>1. CASE Exists(c.m)
            <6>1. box' = [box EXCEPT ![c.m] =
                    [box[c.m] EXCEPT !.tries = More(c.tries), !.told = box[c.m].told \/ c.told,
                       !.due = Least(DelayAfter(c.tries + 1) - worker[p].age, box[c.m].life)]]
              BY <3>8, <5>1, Zenon DEF PutOff
            <6>2. QED
              BY <1>0, <3>1, <6>1 DEF TypeOK, Row
          <5>2. CASE ~Exists(c.m)
            BY <3>8, <5>2 DEF PutOff
          <5>3. QED
            BY <5>1, <5>2
        <4>3. QED
          BY <1>0, <4>1, <4>2 DEF Advances
      <3>5. CASE GiveUp(p, c)
        <4>1. /\ sent' = sent
              /\ \/ box' = box
                 \/ box' = [box EXCEPT ![c.m] =
                      [Blank("failed", @.by) EXCEPT !.tries = c.tries, !.told = box[c.m].told]]
          BY <3>5 DEF GiveUp
        <4>2. [Blank("failed", box[c.m].by) EXCEPT !.tries = c.tries,
                                                  !.told = box[c.m].told].stage = "failed"
          BY DEF Blank
        <4>3. \A m \in Msgs : box'[m] = box[m] \/ box'[m].stage = "failed"
          BY <3>1, <4>1, <4>2 DEF TypeOK
        <4>4. QED
          BY <1>0, <4>1, <4>3 DEF Advances
      <3>6. CASE Remove(p, c)
        BY <1>0, <3>1, <3>6 DEF Remove, Blank, TypeOK, Advances
      <3>7. QED
        BY <2>4, <3>3, <3>4, <3>5, <3>6, <3>8
    <2>5. QED
      BY <2>1, <2>2, <2>3, <2>4 DEF PassStep
  <1>3. ASSUME NEW q \in Procs \ {p}
        PROVE  HeldBy(q)' /\ InTime(q)'
    <2>1. \A c \in Copies(q) : c.m \in Msgs /\ box[c.m].stage \notin {"new", "stored", "refused"}
      BY HandsOf
    <2>2. QED
      BY <1>0, <1>1, <1>2, <2>1, Undisturbed DEF Advances
  <1>4. HeldBy(p)' /\ InTime(p)'
    <2>0. \A c \in Copies(p) : c \in Copy /\ c.m \in Msgs /\ box[c.m] \in Row
      BY HandsOf
    <2>1. CASE BeginPass(p)
      <3>1. worker'[p] = [Asleep(0) EXCEPT !.step = "claim"]
        BY <2>1 DEF BeginPass, TypeOK
      <3>2. QED
        BY <3>1 DEF Asleep, HeldBy, InTime, Copies
    <2>2. CASE Claim(p)
      <3>1. PICK S \in SUBSET DueFor(p) :
              worker' = [worker EXCEPT ![p].step = IF S = {} THEN "rest" ELSE "work",
                                       ![p].batch = {CopyOf(p, m) : m \in S},
                                       ![p].full = Cardinality(S) = Batch]
        BY <2>2 DEF Claim
      <3>2. /\ worker'[p].step = IF S = {} THEN "rest" ELSE "work"
            /\ worker'[p].batch = {CopyOf(p, m) : m \in S}
            /\ worker'[p].cur = {} /\ worker'[p].age = worker[p].age
        BY <1>0, <2>2, <3>1 DEF TypeOK, Worker, Claim, HeldBy, Copies
      <3>3. ASSUME NEW c \in Copies(p)'
            PROVE  /\ box'[c.m].stage = "pending"
                   /\ ~c.late => box'[c.m].life + worker'[p].age > 0
        <4>1. PICK m \in S : c = CopyOf(p, m)
          BY <3>2 DEF Copies
        <4>2. /\ c.m = m /\ m \in Msgs /\ box[m].stage = "pending"
              /\ ~c.late => ~(box[m].life + worker[p].age <= 0)
          BY <3>1, <4>1 DEF CopyOf, DueFor
        <4>3. box'[m].stage = "pending" /\ box'[m].life = box[m].life
          <5>1. box'[m] \in {box[m], [box[m] EXCEPT !.due = Lease - worker[p].age]}
            BY <2>2, <4>2 DEF Claim
          <5>2. QED
            BY <1>0, <4>2, <5>1 DEF Row
        <4>4. QED
          BY <1>0, <3>2, <4>2, <4>3
      <3>4. QED
        BY <3>2, <3>3 DEF HeldBy, InTime, Copies
    <2>3. CASE NextBatch(p)
      <3>1. /\ worker'[p].step \in {"claim", "rest"} /\ worker[p].step = "work"
            /\ worker'[p].batch = {} /\ worker'[p].cur = worker[p].cur
        BY <1>0, <2>3 DEF NextBatch, TypeOK, Worker
      <3>2. QED
        BY <1>0, <3>1 DEF HeldBy, InTime, Copies
    <2>4. CASE Rest(p)
      <3>1. worker'[p].step \in {"down", "nap"} /\ worker'[p].batch = {} /\ worker'[p].cur = {}
        BY <2>4 DEF Rest, TypeOK, Asleep, Down
      <3>2. QED
        BY <3>1 DEF HeldBy, InTime, Copies
    <2>5. ASSUME NEW c \in worker[p].batch, Attempt(p, c)
          PROVE  HeldBy(p)' /\ InTime(p)'
      <3>1. /\ worker'[p].step \in {"giveup", "sending"} /\ box' = box /\ sent' = sent
            /\ c.late => worker'[p].step = "giveup"
            /\ worker'[p].batch = worker[p].batch \ {c} /\ worker'[p].cur = {c}
            /\ worker'[p].age = worker[p].age
        BY <1>0, <2>5 DEF Attempt, TypeOK, Worker
      <3>2. Copies(p)' \subseteq Copies(p)
        BY <2>5, <3>1 DEF Copies
      <3>3. QED
        BY <1>0, <3>1, <3>2 DEF HeldBy, InTime
    <2>6. ASSUME NEW c \in worker[p].cur,
                 \/ Delivered(p, c) \/ Refused(p, c)
                 \/ \E went, stuck \in BOOLEAN : Fails(p, c, went, stuck)
                 \/ PutOff(p, c) \/ GiveUp(p, c) \/ Report(p, c) \/ Remove(p, c)
          PROVE  HeldBy(p)' /\ InTime(p)'
      <3>0. c \in Copy /\ c.m \in Msgs
        BY <2>0, <2>6 DEF Copies
      <3>1. CASE Delivered(p, c)
        <4>1. /\ worker'[p].step = "sent" /\ worker[p].step = "sending" /\ box' = box
              /\ worker'[p].batch = worker[p].batch /\ worker'[p].cur = worker[p].cur
              /\ worker'[p].age = worker[p].age
          BY <1>0, <3>1 DEF Delivered, TypeOK, Worker
        <4>2. \A d \in worker[p].cur : sent'[d.m] > 0
          BY <1>0, <2>6, <3>0, <3>1 DEF Delivered, Again, Least, TypeOK, HeldBy
        <4>3. QED
          BY <1>0, <4>1, <4>2 DEF HeldBy, InTime, Copies
      <3>2. CASE Refused(p, c)
        <4>1. /\ worker'[p].step = "giveup" /\ worker[p].step = "sending" /\ box' = box
              /\ worker'[p].batch = worker[p].batch
              /\ worker'[p].cur = {[c EXCEPT !.tries = More(@)]}
              /\ worker'[p].age = worker[p].age
          BY <1>0, <3>2 DEF Refused, TypeOK, Worker
        <4>2. \A d \in Copies(p)' : \E e \in Copies(p) : d.m = e.m /\ d.late = e.late
          BY <2>6, <3>0, <4>1 DEF Copies, Copy
        <4>3. QED
          BY <1>0, <4>1, <4>2 DEF HeldBy, InTime
      <3>3. CASE GiveUp(p, c) /\ Exists(c.m)
        <4>1. /\ worker'[p].step = "report"
              /\ worker'[p].batch = worker[p].batch /\ worker'[p].cur = worker[p].cur
              /\ worker'[p].age = worker[p].age
          BY <1>0, <3>3 DEF GiveUp, TypeOK, Worker
        <4>2. QED
          BY <1>0, <1>2, <2>0, <4>1 DEF HeldBy, InTime, Copies, Advances
      <3>4. CASE \/ worker' = [worker EXCEPT ![p] = FailedPass(p)]
                 \/ worker' = [worker EXCEPT ![p].step = "work", ![p].cur = {}]
        <4>1. CASE worker' = [worker EXCEPT ![p] = FailedPass(p)]
          BY <4>1, FailedHolds DEF TypeOK, HeldBy, InTime, Copies
        <4>2. CASE worker' = [worker EXCEPT ![p].step = "work", ![p].cur = {}]
          <5>1. /\ worker'[p].step = "work"
                /\ worker'[p].batch = worker[p].batch /\ worker'[p].cur = {}
                /\ worker'[p].age = worker[p].age
            BY <1>0, <4>2 DEF TypeOK, Worker
          <5>2. QED
            BY <1>0, <1>2, <2>0, <5>1 DEF HeldBy, InTime, Copies, Advances
        <4>3. QED
          BY <3>4, <4>1, <4>2
      <3>6. ASSUME NEW went \in BOOLEAN, NEW stuck \in BOOLEAN, Fails(p, c, went, stuck)
            PROVE  HeldBy(p)' /\ InTime(p)'
        <4>1. /\ worker'[p].step = "failed" /\ worker[p].step = "sending" /\ box' = box
              /\ worker'[p].batch = worker[p].batch
              /\ worker'[p].cur = {[c EXCEPT !.told = @ \/ stuck]}
              /\ worker'[p].age = worker[p].age
          BY <1>0, <3>6 DEF Fails, TypeOK, Worker
        <4>2. \A d \in Copies(p)' : \E e \in Copies(p) : d.m = e.m /\ d.late = e.late
          BY <2>6, <3>0, <4>1 DEF Copies, Copy
        <4>3. QED
          BY <1>0, <4>1, <4>2 DEF HeldBy, InTime
      <3>5. CASE PutOff(p, c)
        BY <3>4, <3>5, Zenon DEF PutOff
      <3>7. CASE GiveUp(p, c) /\ ~Exists(c.m)
        BY <3>4, <3>7, Zenon DEF GiveUp
      <3>8. CASE Report(p, c) \/ Remove(p, c)
        BY <3>4, <3>8 DEF Report, Remove
      <3>9. QED
        BY <2>6, <3>1, <3>2, <3>3, <3>5, <3>6, <3>7, <3>8
    <2>7. QED
      BY <2>1, <2>2, <2>3, <2>4, <2>5, <2>6 DEF PassStep
  <1>5. QED
    BY <1>3, <1>4 DEF Held

(* The command, deaths and time.  A death or a lost database empties the   *)
(* hands; time takes from a row's life what it adds to the pass's age.     *)
LEMMA OtherHeld ==
  ASSUME TypeOK, TypeOK', Held,
         \/ \E p \in Procs :
              \/ \E revived \in SUBSET GivenUp : RetryEmails(p, revived)
              \/ Die(p) \/ Restart(p) \/ LoseDatabase(p)
         \/ Tick
  PROVE  Held'
  <1>0. \A m \in Msgs : box[m] \in Row /\ box'[m] \in Row /\ sent[m] \in Nat /\ sent'[m] \in Nat
    BY DEF TypeOK
  <1>1. ASSUME NEW p \in Procs,
               \/ \E revived \in SUBSET GivenUp : RetryEmails(p, revived)
               \/ Die(p) \/ Restart(p) \/ LoseDatabase(p)
        PROVE  Held'
    <2>1. /\ worker'[p] \in {Asleep(0), FailedPass(p), Down, [Asleep(0) EXCEPT !.step = "claim"]}
          /\ \A q \in Procs \ {p} : worker'[q] = worker[q]
      BY <1>1 DEF RetryEmails, Die, Restart, LoseDatabase, TypeOK
    <2>2. HeldBy(p)' /\ InTime(p)'
      BY <2>1, FailedHolds DEF Asleep, Down, HeldBy, InTime, Copies
    <2>3. sent' = sent
      BY <1>1 DEF RetryEmails, Die, Restart, LoseDatabase
    <2>4. ASSUME NEW m \in Msgs, box[m].stage \notin {"new", "stored", "refused"}
          PROVE  /\ box'[m].stage \notin {"new", "stored", "refused"}
                 /\ box'[m].stage = "pending" =>
                      \/ box'[m].life > 0
                      \/ box[m].stage = "pending" /\ box'[m].life = box[m].life
      <3>1. \/ box'[m] = box[m]
            \/ box'[m] = [box[m] EXCEPT !.stage = "pending", !.life = MaxAge, !.due = 0]
            \/ box'[m] = [box[m] EXCEPT !.due = 0]
        BY <1>1, <2>4 DEF RetryEmails, Die, Restart, LoseDatabase
      <3>2. QED
        <4>1. box[m] \in Row /\ MaxAge > 0
          BY <1>0, <2>4, TimesAssumption
        <4>2. CASE box'[m] = box[m]
          BY <2>4, <4>2
        <4>3. CASE box'[m] = [box[m] EXCEPT !.stage = "pending", !.life = MaxAge, !.due = 0]
          <5>1. box'[m].stage = "pending" /\ box'[m].life = MaxAge
            BY <4>1, <4>3 DEF Row
          <5>2. QED
            BY <4>1, <5>1
        <4>4. CASE box'[m] = [box[m] EXCEPT !.due = 0]
          BY <2>4, <4>1, <4>4 DEF Row
        <4>5. QED
          BY <3>1, <4>2, <4>3, <4>4
    <2>5. ASSUME NEW q \in Procs \ {p}
          PROVE  HeldBy(q)' /\ InTime(q)'
      <3>1. \A c \in Copies(q) : c.m \in Msgs /\ box[c.m].stage \notin {"new", "stored", "refused"}
        BY HandsOf
      <3>2. SameHand(q)
        BY <2>1 DEF SameHand
      <3>3. QED
        BY <1>0, <2>3, <2>4, <3>1, <3>2, Undisturbed
    <2>6. QED
      BY <2>2, <2>5 DEF Held
  <1>2. ASSUME Tick, NEW q \in Procs
        PROVE  HeldBy(q)' /\ InTime(q)'
    <2>1. /\ worker[q] \in Worker /\ worker[q].age \in 0..PassMax /\ sent' = sent
          /\ HeldBy(q) /\ InTime(q)
      BY <1>2 DEF Tick, TypeOK, Worker, Held
    <2>2. \A m \in Msgs :
            /\ box'[m].stage = box[m].stage
            /\ box[m].stage = "pending" => box'[m].life = Earlier(box[m].life)
      BY <1>0, <1>2 DEF Tick, Row
    <2>3. CASE InPass(q)
      <3>1. /\ worker[q].age < PassMax /\ worker'[q].age = worker[q].age + 1
            /\ worker'[q].step = worker[q].step
            /\ worker'[q].batch = worker[q].batch /\ worker'[q].cur = worker[q].cur
        BY <1>2, <2>1, <2>3 DEF Tick, Worker
      <3>2. ASSUME NEW c \in Copies(q), ~c.late, box'[c.m].stage = "pending"
            PROVE  box'[c.m].life + worker'[q].age > 0
        <4>1. /\ c.m \in Msgs /\ box[c.m].life \in Int /\ box[c.m].stage = "pending"
              /\ box'[c.m].life = Earlier(box[c.m].life)
          BY <2>2, <3>2, HandsOf DEF Row
        <4>2. box[c.m].life + worker[q].age > 0
          BY <2>1, <3>2, <4>1 DEF InTime
        <4>3. QED
          <5>1. \A a \in 0..PassMax : box[c.m].life + a > 0 /\ a < PassMax =>
                  Earlier(box[c.m].life) + a + 1 = box[c.m].life + a
            BY <4>1, Ageing
          <5>2. Earlier(box[c.m].life) \in Int
            BY <4>1, Ageing
          <5>3. Earlier(box[c.m].life) + worker[q].age + 1 = box[c.m].life + worker[q].age
            BY <2>1, <3>1, <4>2, <5>1
          <5>4. QED
            BY <2>1, <3>1, <4>1, <4>2, <5>2, <5>3
      <3>3. \A c \in Copies(q) : c.m \in Msgs
        BY HandsOf
      <3>4. QED
        BY <2>1, <2>2, <3>1, <3>2, <3>3 DEF HeldBy, InTime, Copies
    <2>4. CASE ~InPass(q)
      <3>1. worker'[q] = [worker[q] EXCEPT !.nap = Most(0, @ - 1)]
        BY <1>2, <2>4 DEF Tick
      <3>2. Copies(q) = {}
        BY <2>1, <2>4 DEF InPass, HeldBy
      <3>3. worker'[q].step = worker[q].step /\ Copies(q)' = {} /\ worker'[q].cur = {}
        BY <2>1, <3>1, <3>2 DEF Worker, Copies
      <3>4. QED
        BY <3>3 DEF HeldBy, InTime
    <2>5. QED
      BY <2>3, <2>4
  <1>3. QED
    BY <1>1, <1>2 DEF Held

LEMMA NextHeld ==
  ASSUME TypeOK, TypeOK', Held, [Next]_vars
  PROVE  Held'
  <1>1. CASE UNCHANGED vars
    BY <1>1 DEF vars, Held, HeldBy, InTime, Copies
  <1>2. QED
    BY <1>1, SenderHeld, PassHeld, OtherHeld DEF Next

LEMMA AlwaysHeld == Spec => [](TypeOK /\ Held)
  <1>1. Init => TypeOK /\ Held
    BY InitTypes, InitHeld
  <1>2. TypeOK /\ Held /\ [Next]_vars => (TypeOK /\ Held)'
    BY NextTypes, NextHeld
  <1>3. QED
    BY <1>1, <1>2, PTL DEF Spec

(* However the passes and the command interleave, a message that leaves    *)
(* past its deadline leaves less than one pass past it.                    *)
THEOREM NeverLate == Spec => []SentInTime
  <1>1. TypeOK /\ Held => SentInTime
    <2>1. SUFFICES ASSUME TypeOK, Held, NEW p \in Procs, NEW c \in worker[p].cur,
                          worker[p].step = "sending", box[c.m].stage = "pending"
                   PROVE  box[c.m].life > -PassMax
      BY DEF SentInTime
    <2>2. worker[p] \in Worker /\ worker[p].age \in 0..PassMax /\ InTime(p)
      <3>1. worker[p] \in Worker
        BY <2>1 DEF TypeOK
      <3>2. QED
        BY <2>1, <3>1 DEF Worker, Held
    <2>3. c \in Copies(p) /\ ~c.late
      BY <2>1, <2>2 DEF InTime, Copies
    <2>4. box[c.m].life \in Int /\ box[c.m].life + worker[p].age > 0
      BY <2>1, <2>2, <2>3, HandsOf DEF InTime, Row
    <2>5. QED
      BY <2>2, <2>4, TimesAssumption
  <1>2. QED
    BY <1>1, AlwaysHeld, PTL

-----------------------------------------------------------------------------
(***************************************************************************)
(* The outbox implements MailPromise.                                      *)
(***************************************************************************)
Shown == [m \in Msgs |-> Public(box[m].stage)]

Out == {m \in Msgs : sent[m] > 0}

(* Moving the rows of S, and no others, from one public stage to another. *)
LEMMA Moved ==
  ASSUME NEW S \in SUBSET Msgs, NEW from, NEW to,
         \A m \in S : Public(box[m].stage) \in from /\ Public(box'[m].stage) = to,
         \A m \in Msgs \ S : Public(box'[m].stage) = Public(box[m].stage)
  PROVE  Promise!Moves(S, from, to)
  <1>1. Shown' = [m \in Msgs |-> IF m \in S THEN to ELSE Shown[m]]
    BY DEF Shown
  <1>2. \A m \in S : Shown[m] \in from
    BY DEF Shown
  <1>3. QED
    BY <1>1, <1>2 DEF Promise!Moves, Shown

LEMMA OutSame ==
  ASSUME sent' = sent
  PROVE  Out' = Out
  BY DEF Out

LEMMA OutMore ==
  ASSUME TypeOK, NEW m \in Msgs, Again(m)
  PROVE  Out' = Out \cup {m}
  BY DEF Out, Again, Least, TypeOK

LEMMA Still ==
  ASSUME \A m \in Msgs : Public(box'[m].stage) = Public(box[m].stage), sent' = sent
  PROVE  UNCHANGED <<Shown, Out>>
  BY DEF Shown, Out

LEMMA PromiseInit == Init => Promise!Init
  <1>1. SUFFICES ASSUME Init PROVE Promise!Init
    OBVIOUS
  <1>2. \A m \in Msgs : Public(box[m].stage) = "new" /\ ~(sent[m] > 0)
    BY <1>1 DEF Init, Blank, Public
  <1>3. QED
    BY <1>2 DEF Promise!Init

LEMMA SenderPromise ==
  ASSUME TypeOK, NEW m \in Msgs, Sender(m)
  PROVE  [Promise!Next]_<<Shown, Out>>
  <1>0. box[m] \in Row
    BY DEF TypeOK
  <1>1. CASE Enqueue(m)
    <2>1. \A n \in Msgs : Public(box'[n].stage) = Public(box[n].stage)
      BY <1>0, <1>1 DEF Enqueue, TypeOK, Row, Public
    <2>2. QED
      BY <1>1, <2>1, Still DEF Enqueue
  <1>2. CASE Commit(m)
    <2>1. Promise!Moves({m}, {"new"}, "waiting")
      <3>1. Public(box[m].stage) = "new" /\ Public(box'[m].stage) = "waiting"
        BY <1>0, <1>2 DEF Commit, TypeOK, Row, Public
      <3>2. \A n \in Msgs \ {m} : box'[n] = box[n]
        BY <1>2 DEF Commit, TypeOK
      <3>3. QED
        BY <3>1, <3>2, Moved
    <2>2. Promise!Accept(m)
      BY <1>2, <2>1, OutSame DEF Commit, Promise!Accept, Out
    <2>3. QED
      BY <2>2 DEF Promise!Next
  <1>3. CASE RollBack(m)
    <2>1. \A n \in Msgs : Public(box'[n].stage) = Public(box[n].stage)
      BY <1>0, <1>3 DEF RollBack, TypeOK, Blank, Public
    <2>2. QED
      BY <1>3, <2>1, Still DEF RollBack
  <1>4. ASSUME NEW went \in BOOLEAN, NEW raises \in BOOLEAN, SendNow(m, went, raises)
        PROVE  [Promise!Next]_<<Shown, Out>>
    <2>1. /\ box[m].stage = "new" /\ \A n \in Msgs \ {m} : box'[n] = box[n]
          /\ box'[m].stage \in {"gone", "refused", "stored"}
          /\ ~went => box'[m].stage # "gone"
      <3>1. /\ box[m].stage = "new" /\ (went \/ raises)
            /\ \/ ~raises /\ box' = [box EXCEPT ![m].stage = "gone"]
               \/ box' = [box EXCEPT ![m].stage = "refused"]
               \/ box' = [box EXCEPT ![m] = [@ EXCEPT !.stage = "stored", !.tries = 1,
                                               !.due = DelayAfter(1), !.life = MaxAge]]
        BY <1>4 DEF SendNow
      <3>2. \A n \in Msgs \ {m} : box'[n] = box[n]
        BY <3>1 DEF TypeOK
      <3>3. CASE ~raises /\ box' = [box EXCEPT ![m].stage = "gone"]
        BY <1>0, <3>1, <3>2, <3>3 DEF TypeOK, Row
      <3>4. CASE box' = [box EXCEPT ![m].stage = "refused"]
        BY <1>0, <3>1, <3>2, <3>4 DEF TypeOK, Row
      <3>5. CASE box' = [box EXCEPT ![m] = [@ EXCEPT !.stage = "stored", !.tries = 1,
                                               !.due = DelayAfter(1), !.life = MaxAge]]
        <4>1. box'[m] = [box[m] EXCEPT !.stage = "stored", !.tries = 1,
                                      !.due = DelayAfter(1), !.life = MaxAge]
          BY <3>5 DEF TypeOK
        <4>2. box'[m].stage = "stored"
          BY <1>0, <4>1 DEF Row
        <4>3. QED
          BY <3>1, <3>2, <4>2
      <3>6. QED
        BY <3>1, <3>3, <3>4, <3>5
    <2>2. PICK to \in {"new", "done", "refused"} :
            /\ to = Public(box'[m].stage)
            /\ ~went => to # "done"
      BY <2>1 DEF Public
    <2>3. Promise!Moves({m}, {"new"}, to)
      BY <2>1, <2>2, Moved DEF Public
    <2>4. CASE went
      <3>1. Out' = Out \cup {m}
        BY <1>4, <2>4, OutMore DEF SendNow
      <3>2. Promise!SendNow(m)
        BY <2>2, <2>3, <3>1 DEF Promise!SendNow, Out
      <3>3. QED
        BY <3>2 DEF Promise!Next
    <2>5. CASE ~went /\ to = "refused"
      <3>1. Out' = Out
        BY <1>4, <2>5, OutSame DEF SendNow
      <3>2. Promise!Refuse(m)
        BY <2>3, <2>5, <3>1 DEF Promise!Refuse, Out
      <3>3. QED
        BY <3>2 DEF Promise!Next
    <2>6. CASE ~went /\ to = "new"
      <3>1. \A n \in Msgs : Public(box'[n].stage) = Public(box[n].stage)
        BY <2>1, <2>2, <2>6 DEF Public
      <3>2. QED
        BY <1>4, <2>6, <3>1, Still DEF SendNow
    <2>7. QED
      BY <2>2, <2>4, <2>5, <2>6
  <1>5. QED
    BY <1>1, <1>2, <1>3, <1>4 DEF Sender

LEMMA PassPromise ==
  ASSUME TypeOK, Held, NEW p \in Procs, PassStep(p)
  PROVE  [Promise!Next]_<<Shown, Out>>
  <1>0. \A m \in Msgs : box[m] \in Row
    BY DEF TypeOK
  <1>1. CASE BeginPass(p)
    <2>1. PICK S \in SUBSET GivenUp :
            box' = [m \in Msgs |-> IF m \in S THEN Blank("forgotten", box[m].by) ELSE box[m]]
      BY <1>1 DEF BeginPass
    <2>2. S \in SUBSET Msgs /\ \A m \in S : box[m].stage = "failed"
      BY DEF GivenUp
    <2>3. \A m \in S : box'[m].stage = "forgotten"
      BY <2>1, <2>2 DEF Blank
    <2>4. \A m \in Msgs \ S : box'[m] = box[m]
      BY <2>1
    <2>5. Promise!Moves(S, {"failed"}, "forgotten")
      BY <2>2, <2>3, <2>4, Moved DEF Public
    <2>6. Promise!Forget(S)
      BY <1>1, <2>5, OutSame DEF BeginPass, Promise!Forget, Out
    <2>7. QED
      BY <2>2, <2>6 DEF Promise!Next
  <1>2. CASE Claim(p)
    <2>1. \A m \in Msgs : box'[m] \in {box[m], [box[m] EXCEPT !.due = Lease - worker[p].age]}
      BY <1>2 DEF Claim
    <2>2. \A m \in Msgs : box'[m].stage = box[m].stage
      BY <1>0, <2>1 DEF Row
    <2>3. QED
      BY <1>2, <2>2, Still DEF Claim
  <1>3. CASE NextBatch(p) \/ Rest(p) \/ \E c \in worker[p].batch : Attempt(p, c)
    BY <1>3, Still DEF NextBatch, Rest, Attempt
  <1>4. ASSUME NEW c \in worker[p].cur,
               \/ Delivered(p, c) \/ Refused(p, c)
               \/ \E went, stuck \in BOOLEAN : Fails(p, c, went, stuck)
               \/ PutOff(p, c) \/ GiveUp(p, c) \/ Report(p, c) \/ Remove(p, c)
        PROVE  [Promise!Next]_<<Shown, Out>>
    <2>0. /\ c.m \in Msgs /\ box[c.m] \in Row
          /\ box[c.m].stage \notin {"new", "stored", "refused"}
          /\ Public(box[c.m].stage) # "new"
      <3>1. c \in Copies(p)
        BY DEF Copies
      <3>2. /\ c.m \in Msgs /\ box[c.m] \in Row
            /\ box[c.m].stage \notin {"new", "stored", "refused"}
        BY <3>1, HandsOf
      <3>3. QED
        BY <3>2 DEF Public
    <2>1. ASSUME \A m \in Msgs : box'[m].stage = box[m].stage, Again(c.m)
          PROVE  [Promise!Next]_<<Shown, Out>>
      <3>1. Out' = Out \cup {c.m} /\ Shown' = Shown
        BY <2>0, <2>1, OutMore DEF Shown
      <3>2. Shown[c.m] # "new"
        BY <2>0 DEF Shown
      <3>3. Promise!GoesOut(c.m)
        BY <3>1, <3>2 DEF Promise!GoesOut, Shown, Out
      <3>4. QED
        BY <2>0, <3>3 DEF Promise!Next
    <2>2. CASE Delivered(p, c)
      BY <2>1, <2>2 DEF Delivered
    <2>3. CASE Refused(p, c) \/ Report(p, c)
      BY <2>3, Still DEF Refused, Report
    <2>4. ASSUME NEW went \in BOOLEAN, NEW stuck \in BOOLEAN, Fails(p, c, went, stuck)
          PROVE  [Promise!Next]_<<Shown, Out>>
      <3>1. CASE went
        BY <2>1, <2>4, <3>1 DEF Fails
      <3>2. CASE ~went
        BY <2>4, <3>2, Still DEF Fails
      <3>3. QED
        BY <3>1, <3>2
    <2>8. CASE PutOff(p, c)
      <3>1. \A m \in Msgs : box'[m].stage = box[m].stage
        <4>1. CASE Exists(c.m)
          <5>1. box' = [box EXCEPT ![c.m] =
                  [box[c.m] EXCEPT !.tries = More(c.tries), !.told = box[c.m].told \/ c.told,
                     !.due = Least(DelayAfter(c.tries + 1) - worker[p].age, box[c.m].life)]]
            BY <2>8, <4>1, Zenon DEF PutOff
          <5>2. QED
            BY <1>0, <2>0, <5>1 DEF TypeOK, Row
        <4>2. CASE ~Exists(c.m)
          BY <2>8, <4>2 DEF PutOff
        <4>3. QED
          BY <4>1, <4>2
      <3>2. QED
        BY <2>8, <3>1, Still DEF PutOff
    <2>5. CASE GiveUp(p, c)
      <3>1. CASE Exists(c.m)
        <4>1. /\ sent' = sent
              /\ box' = [box EXCEPT ![c.m] =
                   [Blank("failed", @.by) EXCEPT !.tries = c.tries, !.told = box[c.m].told]]
          BY <2>5, <3>1 DEF GiveUp
        <4>2. [Blank("failed", box[c.m].by) EXCEPT !.tries = c.tries,
                                                  !.told = box[c.m].told].stage = "failed"
          BY DEF Blank
        <4>3. box'[c.m].stage = "failed" /\ \A m \in Msgs \ {c.m} : box'[m] = box[m]
          BY <2>0, <4>1, <4>2 DEF TypeOK
        <4>4. Promise!Moves({c.m}, {"waiting", "failed"}, "failed")
          BY <2>0, <3>1, <4>3, Moved DEF Exists, Public
        <4>5. Promise!GiveUp(c.m)
          BY <4>1, <4>4, OutSame DEF Promise!GiveUp, Out
        <4>6. QED
          BY <2>0, <4>5 DEF Promise!Next
      <3>2. CASE ~Exists(c.m)
        BY <2>5, <3>2, Still DEF GiveUp
      <3>3. QED
        BY <3>1, <3>2
    <2>6. CASE Remove(p, c)
      <3>1. CASE Exists(c.m)
        <4>1. sent' = sent /\ sent[c.m] > 0
          BY <1>4, <2>6 DEF Remove, Held, HeldBy
        <4>2. box'[c.m].stage = "gone" /\ \A m \in Msgs \ {c.m} : box'[m] = box[m]
          BY <2>0, <2>6, <3>1 DEF Remove, Blank, TypeOK
        <4>3. Promise!Moves({c.m}, {"waiting", "failed"}, "done")
          BY <2>0, <3>1, <4>2, Moved DEF Exists, Public
        <4>4. c.m \in Out
          BY <2>0, <4>1 DEF Out
        <4>5. Promise!Settle(c.m)
          BY <4>1, <4>3, <4>4, OutSame DEF Promise!Settle, Out
        <4>6. QED
          BY <2>0, <4>5 DEF Promise!Next
      <3>2. CASE ~Exists(c.m)
        BY <2>6, <3>2, Still DEF Remove
      <3>3. QED
        BY <3>1, <3>2
    <2>7. QED
      BY <1>4, <2>2, <2>3, <2>4, <2>5, <2>6, <2>8
  <1>5. QED
    BY <1>1, <1>2, <1>3, <1>4 DEF PassStep

LEMMA OtherPromise ==
  ASSUME TypeOK,
         \/ \E p \in Procs :
              \/ \E revived \in SUBSET GivenUp : RetryEmails(p, revived)
              \/ Die(p) \/ Restart(p) \/ LoseDatabase(p)
         \/ Tick
  PROVE  [Promise!Next]_<<Shown, Out>>
  <1>0. \A m \in Msgs : box[m] \in Row
    BY DEF TypeOK
  <1>1. ASSUME NEW p \in Procs, NEW revived \in SUBSET GivenUp, RetryEmails(p, revived)
        PROVE  [Promise!Next]_<<Shown, Out>>
    <2>1. revived \in SUBSET Msgs /\ \A m \in revived : box[m].stage = "failed"
      BY DEF GivenUp
    <2>2. \A m \in Msgs : box'[m] =
            IF m \in revived
            THEN [box[m] EXCEPT !.stage = "pending", !.life = MaxAge, !.due = 0]
            ELSE IF box[m].stage = "pending" THEN [box[m] EXCEPT !.due = 0] ELSE box[m]
      BY <1>1 DEF RetryEmails
    <2>3. \A m \in revived : box'[m].stage = "pending"
      BY <1>0, <2>1, <2>2 DEF Row
    <2>4. \A m \in Msgs \ revived : box'[m].stage = box[m].stage
      BY <1>0, <2>2 DEF Row
    <2>5. Promise!Moves(revived, {"failed"}, "waiting")
      BY <2>1, <2>3, <2>4, Moved DEF Public
    <2>6. Promise!Revive(revived)
      BY <1>1, <2>5, OutSame DEF RetryEmails, Promise!Revive, Out
    <2>7. QED
      BY <2>1, <2>6 DEF Promise!Next
  <1>2. ASSUME NEW p \in Procs, Die(p) \/ Restart(p) \/ LoseDatabase(p)
        PROVE  [Promise!Next]_<<Shown, Out>>
    <2>1. /\ sent' = sent
          /\ \A m \in Msgs : \/ box'[m] = box[m]
                             \/ box[m].stage = "stored" /\ box'[m] = Blank("new", p)
      <3>1. CASE Die(p)
        <4>1. sent' = sent
          BY <3>1 DEF Die
        <4>2. \A m \in Msgs : box'[m] = IF box[m].stage = "stored" /\ box[m].by = p
                                       THEN Blank("new", p) ELSE box[m]
          BY <3>1 DEF Die
        <4>3. QED
          BY <4>1, <4>2
      <3>2. CASE Restart(p) \/ LoseDatabase(p)
        BY <3>2 DEF Restart, LoseDatabase
      <3>3. QED
        BY <1>2, <3>1, <3>2
    <2>2. \A m \in Msgs : Public(box'[m].stage) = Public(box[m].stage)
      BY <2>1 DEF Blank, Public
    <2>3. QED
      BY <2>1, <2>2, Still
  <1>3. CASE Tick
    <2>1. \A m \in Msgs : box'[m].stage = box[m].stage
      BY <1>0, <1>3 DEF Tick, Row
    <2>2. QED
      BY <1>3, <2>1, Still DEF Tick
  <1>4. QED
    BY <1>1, <1>2, <1>3

(* Deaths, lost databases and overlapping passes included, an accepted     *)
(* message only leaves the table sent or given up.                         *)
THEOREM ImplementsPromise == Spec => PromiseSpec
  <1>1. TypeOK /\ Held /\ [Next]_vars => [Promise!Next]_<<Shown, Out>>
    <2>1. SUFFICES ASSUME TypeOK, Held, [Next]_vars
                   PROVE  [Promise!Next]_<<Shown, Out>>
      OBVIOUS
    <2>2. CASE UNCHANGED vars
      BY <2>2, Still DEF vars
    <2>3. QED
      BY <2>1, <2>2, SenderPromise, PassPromise, OtherPromise DEF Next
  <1>2. [Promise!Next]_<<Shown, Out>> => [Promise!Next]_Promise!vars
    BY DEF Promise!vars, Shown, Out
  <1>3. QED
    BY <1>1, <1>2, PromiseInit, AlwaysHeld, PTL DEF Spec, PromiseSpec, Promise!Spec

-----------------------------------------------------------------------------
(***************************************************************************)
(* One sender.  Unless a pass outlived its lease or the command cut one    *)
(* short, a pending row in hand is leased until a moment its pass has not  *)
(* reached, so it is not due for anyone, and it is in no other hand.       *)
(***************************************************************************)
Loose == {m \in Msgs : "loose" \in slips[m]}

Leased(p) ==
  /\ \A c \in Copies(p) :
       box[c.m].stage = "pending" /\ c.m \notin Loose =>
         box[c.m].due + worker[p].age = Lease /\ worker[p].age < Lease
  /\ \A c, d \in Copies(p) : c.m = d.m => c = d
  /\ worker[p].batch \cap worker[p].cur = {}

Apart(p, q) == \A c \in Copies(p), d \in Copies(q) : c.m = d.m => c.m \in Loose

Lone ==
  /\ \A p \in Procs : Leased(p)
  /\ \A p, q \in Procs : p # q => Apart(p, q)

(* What is once written in the history of a message stays there. *)
Remembered == \A m \in Msgs : slips[m] \subseteq slips'[m]

LEMMA HistoryGrows ==
  ASSUME TypeOK, [Next]_vars
  PROVE  Remembered
  <1>1. ASSUME NEW S, NEW what, slips' = Slip(S, what)
        PROVE  Remembered
    BY <1>1 DEF Slip, Remembered
  <1>2. ASSUME NEW p \in Procs, slips' = BrokenOff(p)
        PROVE  Remembered
    BY <1>2 DEF BrokenOff, Remembered
  <1>3. slips' = slips => Remembered
    BY DEF Remembered
  <1>4. CASE UNCHANGED vars
    BY <1>3, <1>4 DEF vars
  <1>5. ASSUME NEW m \in Msgs, Sender(m)
        PROVE  Remembered
    <2>1. CASE Enqueue(m) \/ Commit(m) \/ RollBack(m)
      BY <1>3, <2>1 DEF Enqueue, Commit, RollBack
    <2>2. ASSUME NEW went \in BOOLEAN, NEW raises \in BOOLEAN, SendNow(m, went, raises)
          PROVE  Remembered
      <3>1. slips' = Slip({m}, "unheard") \/ slips' = slips
        BY <2>2 DEF SendNow
      <3>2. QED
        BY <1>1, <1>3, <3>1
    <2>3. QED
      BY <1>5, <2>1, <2>2 DEF Sender
  <1>6. ASSUME NEW p \in Procs, PassStep(p)
        PROVE  Remembered
    <2>1. CASE Claim(p)
      <3>1. (\E S : slips' = Slip(S, "loose")) \/ slips' = slips
        BY <2>1 DEF Claim
      <3>2. QED
        BY <1>1, <1>3, <3>1
    <2>2. ASSUME NEW c \in worker[p].cur, NEW went \in BOOLEAN, NEW stuck \in BOOLEAN,
                 Fails(p, c, went, stuck)
          PROVE  Remembered
      <3>1. slips' = Slip({c.m}, "unheard") \/ slips' = slips
        BY <2>2 DEF Fails
      <3>2. QED
        BY <1>1, <1>3, <3>1
    <2>3. QED
      BY <1>3, <1>6, <2>1, <2>2 DEF PassStep, BeginPass, NextBatch, Rest, Attempt,
         Delivered, Refused, PutOff, GiveUp, Report, Remove
  <1>7. ASSUME NEW p \in Procs, NEW revived, RetryEmails(p, revived)
        PROVE  Remembered
    BY <1>1, <1>7 DEF RetryEmails
  <1>8. ASSUME NEW p \in Procs, Die(p) \/ Restart(p) \/ LoseDatabase(p)
        PROVE  Remembered
    BY <1>2, <1>3, <1>8 DEF Die, Restart, LoseDatabase
  <1>9. CASE Tick
    BY <1>1, <1>9 DEF Tick
  <1>10. QED
    BY <1>4, <1>5, <1>6, <1>7, <1>8, <1>9 DEF Next

LEMMA StaysLoose ==
  ASSUME Remembered
  PROVE  Loose \subseteq Loose'
  BY DEF Loose, Remembered

(* What is in another's hand keeps its lease. *)
LEMMA LeaseKept ==
  ASSUME Lone, Remembered, NEW q \in Procs, SameHand(q),
         \A c \in Copies(q) : box'[c.m].stage = "pending" =>
           \/ c.m \in Loose
           \/ box[c.m].stage = "pending" /\ box'[c.m].due = box[c.m].due
  PROVE  Leased(q)' /\ Copies(q)' = Copies(q)
  <1>1. Copies(q)' = Copies(q) /\ worker'[q].age = worker[q].age
    BY DEF SameHand, Copies
  <1>2. worker'[q].batch \cap worker'[q].cur = {}
    BY DEF Lone, Leased, SameHand
  <1>3. QED
    BY <1>1, <1>2, StaysLoose DEF Lone, Leased

LEMMA InitLone == Init => Lone
  BY DEF Init, Lone, Leased, Apart, Copies, Asleep, Down

LEMMA SenderLone ==
  ASSUME TypeOK, Held, Lone, Remembered, NEW m \in Msgs, Sender(m)
  PROVE  Lone'
  <1>1. box[m].stage \in {"new", "stored"} /\ \A n \in Msgs \ {m} : box'[n] = box[n]
    BY DEF Sender, Enqueue, Commit, RollBack, SendNow, TypeOK
  <1>2. \A q \in Procs : SameHand(q)
    <2>1. \A q \in Procs : worker[q] \in Worker
      BY DEF TypeOK
    <2>2. \/ worker' = worker
          \/ worker' = [worker EXCEPT ![box[m].by].wake = worker[box[m].by].step # "down"]
      BY DEF Sender, Enqueue, Commit, RollBack, SendNow
    <2>3. QED
      BY <2>1, <2>2 DEF SameHand, TypeOK, Worker
  <1>3. \A q \in Procs : \A c \in Copies(q) : box'[c.m] = box[c.m]
    BY <1>1, HandsOf
  <1>4. \A q \in Procs : Leased(q)' /\ Copies(q)' = Copies(q)
    BY <1>2, <1>3, LeaseKept
  <1>5. QED
    BY <1>4, StaysLoose DEF Lone, Apart

(* A pass that only lets go of rows, or keeps them as they were. *)
LEMMA LettingGo ==
  ASSUME TypeOK, Lone, Remembered, NEW p \in Procs,
         \A q \in Procs \ {p} : SameHand(q),
         \A d \in Copies(p)' : \E c \in Copies(p) : d.m = c.m,
         \A c, d \in Copies(p)' : c.m = d.m => c = d,
         worker'[p].batch \cap worker'[p].cur = {},
         Copies(p)' # {} => worker'[p].age = worker[p].age,
         \A q \in Procs : \A c \in Copies(q) :
           /\ q = p => \E d \in Copies(p)' : d.m = c.m
           /\ box'[c.m].stage = "pending"
           => \/ c.m \in Loose
              \/ box[c.m].stage = "pending" /\ box'[c.m].due = box[c.m].due
  PROVE  Lone'
  <1>1. \A q \in Procs \ {p} : Leased(q)' /\ Copies(q)' = Copies(q)
    BY LeaseKept
  <1>2. Leased(p)'
    <2>1. ASSUME NEW d \in Copies(p)', box'[d.m].stage = "pending", d.m \notin Loose'
          PROVE  box'[d.m].due + worker'[p].age = Lease /\ worker'[p].age < Lease
      <3>1. PICK c \in Copies(p) : d.m = c.m
        BY <2>1
      <3>2. /\ box[c.m].stage = "pending" /\ box'[c.m].due = box[c.m].due
            /\ c.m \notin Loose
        BY <2>1, <3>1, StaysLoose
      <3>3. QED
        BY <2>1, <3>1, <3>2 DEF Lone, Leased
    <2>2. QED
      BY <2>1 DEF Leased
  <1>3. ASSUME NEW q \in Procs, NEW r \in Procs, q # r
        PROVE  Apart(q, r)'
    <2>1. \A x \in {q, r} : \A d \in Copies(x)' : \E c \in Copies(x) : d.m = c.m
      BY <1>1
    <2>2. Apart(q, r)
      BY <1>3 DEF Lone
    <2>3. QED
      BY <2>1, <2>2, StaysLoose DEF Apart
  <1>4. QED
    BY <1>1, <1>2, <1>3 DEF Lone

(* A claim takes only rows that are due, and no row in hand is. *)
LEMMA ClaimLone ==
  ASSUME TypeOK, Held, Lone, Remembered, NEW p \in Procs, Claim(p)
  PROVE  Lone'
  <1>0. /\ worker[p] \in Worker /\ HeldBy(p)
        /\ \A q \in Procs : worker[q].age \in 0..PassMax
        /\ \A m \in Msgs : box[m] \in Row /\ box[m].due \in Int
    BY DEF TypeOK, Worker, Row, Held
  <1>1. PICK S \in SUBSET DueFor(p) :
          /\ worker' = [worker EXCEPT ![p].step = IF S = {} THEN "rest" ELSE "work",
                                      ![p].batch = {CopyOf(p, m) : m \in S},
                                      ![p].full = Cardinality(S) = Batch]
          /\ box' = [m \in Msgs |-> IF m \in S
                                    THEN [box[m] EXCEPT !.due = Lease - worker[p].age]
                                    ELSE box[m]]
          /\ slips' = IF worker[p].age >= Lease THEN Slip(S, "loose") ELSE slips
    BY DEF Claim
  <1>2. \A m \in S : m \in Msgs /\ box[m].stage = "pending" /\ box[m].due + worker[p].age <= 0
    BY <1>1 DEF DueFor
  <1>3. Copies(p) = {}
    BY <1>0 DEF Claim, HeldBy
  <1>4. /\ worker'[p].age = worker[p].age
        /\ worker'[p].batch = {CopyOf(p, m) : m \in S} /\ worker'[p].cur = {}
        /\ \A q \in Procs \ {p} : SameHand(q)
    BY <1>0, <1>1, <1>3 DEF TypeOK, Worker, SameHand, Copies
  <1>5. \A d \in Copies(p)' : d.m \in S /\ d = CopyOf(p, d.m)
    BY <1>4 DEF Copies, CopyOf
  <1>6. ASSUME NEW q \in Procs, NEW c \in Copies(q), c.m \notin Loose
        PROVE  c.m \in Msgs /\ c.m \notin S
    <2>1. c.m \in Msgs /\ Leased(q) /\ worker[q].age \in 0..PassMax /\ worker[p].age \in 0..PassMax
      BY <1>0, <1>6, HandsOf DEF Lone
    <2>2. ASSUME c.m \in S
          PROVE  FALSE
      <3>1. box[c.m].due + worker[q].age = Lease /\ worker[q].age < Lease
            /\ box[c.m].due + worker[p].age <= 0 /\ box[c.m].due \in Int
        BY <1>0, <1>2, <1>6, <2>1, <2>2 DEF Leased
      <3>2. QED
        BY <2>1, <3>1, TimesAssumption
    <2>3. QED
      BY <2>1, <2>2
  <1>7. \A q \in Procs \ {p} : Leased(q)' /\ Copies(q)' = Copies(q)
    <2>1. \A q \in Procs : \A c \in Copies(q) : c.m \in Msgs
      BY HandsOf
    <2>2. \A q \in Procs \ {p} : \A c \in Copies(q) : c.m \in Loose \/ box'[c.m] = box[c.m]
      BY <1>1, <1>6, <2>1
    <2>3. QED
      BY <1>4, <2>2, LeaseKept
  <1>8. Leased(p)'
    <2>1. ASSUME NEW d \in Copies(p)', d.m \notin Loose'
          PROVE  box'[d.m].due + worker'[p].age = Lease /\ worker'[p].age < Lease
      <3>1. box'[d.m] = [box[d.m] EXCEPT !.due = Lease - worker[p].age] /\ d.m \in Msgs
        BY <1>1, <1>2, <1>5, <2>1
      <3>2. box'[d.m].due = Lease - worker[p].age
        BY <1>0, <3>1 DEF Row
      <3>3. ~(worker[p].age >= Lease)
        <4>1. slips' = Slip(S, "loose") => d.m \in Loose'
          BY <1>2, <1>5, <2>1 DEF Slip, Loose
        <4>2. QED
          BY <1>1, <2>1, <4>1
      <3>4. QED
        BY <1>0, <1>4, <3>2, <3>3, TimesAssumption
    <2>2. \A c, d \in Copies(p)' : c.m = d.m => c = d
      BY <1>5
    <2>3. QED
      BY <1>4, <2>1, <2>2 DEF Leased
  <1>9. \A q, r \in Procs : q # r => Apart(q, r)'
    <2>1. ASSUME NEW q \in Procs \ {p}
          PROVE  Apart(p, q)' /\ Apart(q, p)'
      BY <1>5, <1>6, <1>7, StaysLoose DEF Apart
    <2>2. ASSUME NEW q \in Procs \ {p}, NEW r \in Procs \ {p}, q # r
          PROVE  Apart(q, r)'
      BY <1>7, <2>2, StaysLoose DEF Apart, Lone
    <2>3. QED
      BY <2>1, <2>2
  <1>10. QED
    BY <1>7, <1>8, <1>9 DEF Lone

LEMMA PassLone ==
  ASSUME TypeOK, Held, Lone, Remembered, NEW p \in Procs, PassStep(p)
  PROVE  Lone'
  <1>0. /\ worker[p] \in Worker /\ HeldBy(p) /\ Leased(p)
        /\ \A m \in Msgs : box[m] \in Row
        /\ \A q \in Procs : \A c \in Copies(q) : c.m \in Msgs /\ c \in Copy
    BY HandsOf DEF TypeOK, Held, Lone
  <1>1. \A q \in Procs \ {p} : SameHand(q)
    <2>1. \E w : worker' = [worker EXCEPT ![p] = w]
      BY DEF PassStep, BeginPass, Claim, NextBatch, Rest, Attempt, Delivered, Refused,
             Fails, PutOff, GiveUp, Report, Remove
    <2>2. QED
      BY <2>1 DEF SameHand, TypeOK
  <1>2. CASE BeginPass(p)
    <2>1. Copies(p)' = {} /\ worker'[p].batch = {}
      BY <1>2 DEF BeginPass, Asleep, Copies, TypeOK
    <2>2. \A m \in Msgs : box'[m].stage = "pending" => box'[m] = box[m]
      <3>1. PICK S \in SUBSET GivenUp :
              box' = [m \in Msgs |-> IF m \in S THEN Blank("forgotten", box[m].by) ELSE box[m]]
        BY <1>2 DEF BeginPass
      <3>2. \A m \in Msgs : box'[m] = IF m \in S THEN Blank("forgotten", box[m].by) ELSE box[m]
        BY <3>1
      <3>3. ASSUME NEW m \in Msgs, box'[m] = Blank("forgotten", box[m].by)
            PROVE  box'[m].stage # "pending"
        BY <3>3 DEF Blank
      <3>4. QED
        BY <3>2, <3>3
    <2>3. \A q \in Procs : \A c \in Copies(q) : box'[c.m].stage = "pending" =>
            box[c.m].stage = "pending" /\ box'[c.m].due = box[c.m].due
      BY <1>0, <2>2
    <2>4. QED
      BY <1>1, <2>1, <2>3, LettingGo
  <1>3. CASE Claim(p)
    BY <1>3, ClaimLone
  <1>4. CASE NextBatch(p) \/ Rest(p)
    <2>1. box' = box /\ Copies(p)' \subseteq Copies(p) /\ worker'[p].batch = {}
          /\ (Copies(p)' # {} => worker'[p].age = worker[p].age)
      <3>1. CASE NextBatch(p)
        BY <1>0, <3>1 DEF NextBatch, Copies, TypeOK, Worker
      <3>2. CASE Rest(p)
        BY <1>0, <3>2 DEF Rest, Asleep, Down, Copies, TypeOK
      <3>3. QED
        BY <1>4, <3>1, <3>2
    <2>2. \A c, d \in Copies(p)' : c.m = d.m => c = d
      BY <1>0, <2>1 DEF Leased
    <2>3. QED
      BY <1>1, <2>1, <2>2, LettingGo
  <1>5. ASSUME NEW c \in worker[p].batch, Attempt(p, c)
        PROVE  Lone'
    <2>1. /\ box' = box /\ worker'[p].age = worker[p].age
          /\ worker'[p].batch = worker[p].batch \ {c} /\ worker'[p].cur = {c}
      BY <1>0, <1>5 DEF Attempt, TypeOK, Worker
    <2>2. Copies(p)' \subseteq Copies(p) /\ worker'[p].batch \cap worker'[p].cur = {}
      BY <1>5, <2>1 DEF Copies
    <2>3. \A d, e \in Copies(p)' : d.m = e.m => d = e
      BY <1>0, <2>2 DEF Leased
    <2>4. QED
      BY <1>1, <2>1, <2>2, <2>3, LettingGo
  <1>6. ASSUME NEW c \in worker[p].cur,
               \/ Delivered(p, c) \/ Refused(p, c)
               \/ \E went, stuck \in BOOLEAN : Fails(p, c, went, stuck)
               \/ PutOff(p, c) \/ GiveUp(p, c) \/ Report(p, c) \/ Remove(p, c)
        PROVE  Lone'
    <2>0. c \in Copies(p) /\ c \in Copy /\ c.m \in Msgs /\ worker[p].cur = {c}
      BY <1>0, <1>6 DEF Copies, HeldBy
    <2>1. CASE Delivered(p, c)
      <3>1. /\ box' = box /\ worker'[p].age = worker[p].age /\ Copies(p)' = Copies(p)
            /\ worker'[p].batch = worker[p].batch /\ worker'[p].cur = worker[p].cur
        BY <1>0, <2>1 DEF Delivered, TypeOK, Worker, Copies
      <3>2. QED
        BY <1>0, <1>1, <3>1, LettingGo DEF Leased
    <2>2. CASE Refused(p, c)
      <3>1. /\ box' = box /\ worker'[p].age = worker[p].age
            /\ worker'[p].batch = worker[p].batch
            /\ worker'[p].cur = {[c EXCEPT !.tries = More(@)]}
        BY <1>0, <2>2 DEF Refused, TypeOK, Worker
      <3>2. [c EXCEPT !.tries = More(@)].m = c.m
        BY <2>0 DEF Copy
      <3>3. \A d \in worker[p].batch : d.m # c.m
        BY <1>0, <2>0 DEF Leased, Copies
      <3>4. \A d \in Copies(p)' : \E e \in Copies(p) : d.m = e.m
        BY <2>0, <3>1, <3>2 DEF Copies
      <3>5. \A d, e \in Copies(p)' : d.m = e.m => d = e
        BY <1>0, <3>1, <3>2, <3>3 DEF Copies, Leased
      <3>6. worker'[p].batch \cap worker'[p].cur = {}
        BY <3>1, <3>2, <3>3
      <3>7. QED
        BY <1>1, <3>1, <3>4, <3>5, <3>6, LettingGo
    <2>3. CASE GiveUp(p, c) /\ Exists(c.m)
      <3>1. /\ worker'[p].age = worker[p].age /\ Copies(p)' = Copies(p)
            /\ worker'[p].batch = worker[p].batch /\ worker'[p].cur = worker[p].cur
        BY <1>0, <2>3 DEF GiveUp, TypeOK, Worker, Copies
      <3>2. [Blank("failed", box[c.m].by) EXCEPT !.tries = c.tries,
                                                !.told = box[c.m].told].stage = "failed"
        BY DEF Blank
      <3>3. box' = [box EXCEPT ![c.m] =
              [Blank("failed", @.by) EXCEPT !.tries = c.tries, !.told = box[c.m].told]]
        BY <2>3 DEF GiveUp
      <3>4. \A m \in Msgs : box'[m].stage = "pending" => box'[m] = box[m]
        BY <2>0, <3>2, <3>3 DEF TypeOK
      <3>5. QED
        BY <1>0, <1>1, <3>1, <3>4, LettingGo DEF Leased
    <2>4. CASE worker' = [worker EXCEPT ![p] = FailedPass(p)] /\ box' = box
      <3>1. Copies(p)' = {} /\ worker'[p].batch = {}
        BY <2>4 DEF FailedPass, Asleep, Down, Copies, TypeOK
      <3>2. QED
        BY <1>1, <2>4, <3>1, LettingGo
    (* It is done with the row: nobody else has it. *)
    <2>5. CASE /\ worker' = [worker EXCEPT ![p].step = "work", ![p].cur = {}]
               /\ \A m \in Msgs \ {c.m} : box'[m] = box[m]
      <3>1. /\ worker'[p].age = worker[p].age /\ worker'[p].batch = worker[p].batch
            /\ worker'[p].cur = {} /\ Copies(p)' = worker[p].batch
        BY <1>0, <2>5 DEF TypeOK, Worker, Copies
      <3>2. \A d \in Copies(p)' : d \in Copies(p) /\ d.m # c.m
        BY <1>0, <2>0, <3>1 DEF Copies, Leased
      <3>3. \A q \in Procs \ {p} : \A d \in Copies(q) :
              d.m \in Msgs /\ (d.m = c.m => d.m \in Loose)
        BY <1>0, <2>0 DEF Lone, Apart
      <3>4. \A d, e \in Copies(p)' : d.m = e.m => d = e
        BY <1>0, <3>2 DEF Leased
      <3>5. \A q \in Procs : \A d \in Copies(q) :
              (q = p => \E e \in Copies(p)' : e.m = d.m) =>
                box'[d.m] = box[d.m] \/ d.m \in Loose
        BY <1>0, <2>5, <3>2, <3>3
      <3>6. QED
        BY <1>1, <3>1, <3>2, <3>4, <3>5, LettingGo
    <2>6. ASSUME NEW went \in BOOLEAN, NEW stuck \in BOOLEAN, Fails(p, c, went, stuck)
          PROVE  Lone'
      <3>1. /\ box' = box /\ worker'[p].age = worker[p].age
            /\ worker'[p].batch = worker[p].batch
            /\ worker'[p].cur = {[c EXCEPT !.told = @ \/ stuck]}
        BY <1>0, <2>6 DEF Fails, TypeOK, Worker
      <3>2. [c EXCEPT !.told = @ \/ stuck].m = c.m
        BY <2>0 DEF Copy
      <3>3. \A d \in worker[p].batch : d.m # c.m
        BY <1>0, <2>0 DEF Leased, Copies
      <3>4. \A d \in Copies(p)' : \E e \in Copies(p) : d.m = e.m
        BY <2>0, <3>1, <3>2 DEF Copies
      <3>5. \A d, e \in Copies(p)' : d.m = e.m => d = e
        BY <1>0, <3>1, <3>2, <3>3 DEF Copies, Leased
      <3>6. worker'[p].batch \cap worker'[p].cur = {}
        BY <3>1, <3>2, <3>3
      <3>7. QED
        BY <1>1, <3>1, <3>4, <3>5, <3>6, LettingGo
    <2>7. CASE PutOff(p, c)
      <3>1. CASE Exists(c.m)
        <4>1. /\ worker' = [worker EXCEPT ![p].step = "work", ![p].cur = {}]
              /\ \E r : box' = [box EXCEPT ![c.m] = r]
          BY <2>7, <3>1, Zenon DEF PutOff
        <4>2. \A m \in Msgs \ {c.m} : box'[m] = box[m]
          BY <4>1 DEF TypeOK
        <4>3. QED
          BY <2>5, <4>1, <4>2
      <3>2. CASE ~Exists(c.m)
        BY <2>4, <2>7, <3>2 DEF PutOff
      <3>3. QED
        BY <3>1, <3>2
    <2>8. CASE GiveUp(p, c) /\ ~Exists(c.m)
      BY <2>4, <2>8 DEF GiveUp
    <2>9. CASE Report(p, c) \/ Remove(p, c)
      BY <2>5, <2>9 DEF Report, Remove, TypeOK
    <2>10. QED
      BY <1>6, <2>1, <2>2, <2>3, <2>6, <2>7, <2>8, <2>9
  <1>7. QED
    BY <1>2, <1>3, <1>4, <1>5, <1>6 DEF PassStep

(* Deaths empty the hands, and time takes from a lease what it adds to the *)
(* age of the pass that holds it.                                          *)
LEMMA OtherLone ==
  ASSUME TypeOK, Held, Lone, Remembered,
         \/ \E p \in Procs : Die(p) \/ Restart(p) \/ LoseDatabase(p)
         \/ \E p \in Procs, revived \in SUBSET GivenUp : RetryEmails(p, revived)
         \/ Tick
  PROVE  Lone'
  <1>0. /\ \A m \in Msgs : box[m] \in Row
        /\ \A q \in Procs : \A c \in Copies(q) :
             c.m \in Msgs /\ box[c.m].stage \notin {"new", "stored", "refused"}
    BY HandsOf DEF TypeOK
  <1>1. ASSUME NEW p \in Procs, Die(p) \/ Restart(p) \/ LoseDatabase(p)
        PROVE  Lone'
    <2>1. Copies(p)' = {} /\ worker'[p].batch = {}
      BY <1>1 DEF Die, Restart, LoseDatabase, FailedPass, Asleep, Down, Copies, TypeOK
    <2>2. \A q \in Procs \ {p} : SameHand(q)
      BY <1>1 DEF Die, Restart, LoseDatabase, SameHand, TypeOK
    <2>3. \A q \in Procs : \A c \in Copies(q) : box'[c.m] = box[c.m]
      <3>1. CASE Die(p)
        <4>1. \A m \in Msgs : box'[m] = IF box[m].stage = "stored" /\ box[m].by = p
                                       THEN Blank("new", p) ELSE box[m]
          BY <3>1 DEF Die
        <4>2. QED
          BY <1>0, <4>1
      <3>2. CASE Restart(p) \/ LoseDatabase(p)
        BY <3>2 DEF Restart, LoseDatabase
      <3>3. QED
        BY <1>1, <3>1, <3>2
    <2>4. QED
      BY <2>1, <2>2, <2>3, LettingGo
  <1>2. ASSUME Tick, NEW q \in Procs
        PROVE  Leased(q)' /\ Copies(q)' = Copies(q)
    <2>0. /\ worker[q] \in Worker /\ worker[q].age \in 0..PassMax
          /\ HeldBy(q) /\ Leased(q)
      <3>1. worker[q] \in Worker
        BY DEF TypeOK
      <3>2. QED
        BY <3>1 DEF Worker, Held, Lone
    <2>1. CASE ~InPass(q)
      <3>1. worker'[q] = [worker[q] EXCEPT !.nap = Most(0, @ - 1)]
        BY <1>2, <2>1 DEF Tick
      <3>2. SameHand(q) /\ Copies(q) = {}
        BY <2>0, <2>1, <3>1 DEF InPass, HeldBy, SameHand, Worker
      <3>3. QED
        BY <3>2, LeaseKept
    <2>2. CASE InPass(q)
      <3>1. /\ worker[q].age < PassMax /\ worker'[q].age = worker[q].age + 1
            /\ worker'[q].batch = worker[q].batch /\ worker'[q].cur = worker[q].cur
            /\ Copies(q)' = Copies(q)
        BY <1>2, <2>0, <2>2 DEF Tick, Worker, Copies
      <3>2. ASSUME NEW c \in Copies(q), box'[c.m].stage = "pending", c.m \notin Loose'
            PROVE  box'[c.m].due + worker'[q].age = Lease /\ worker'[q].age < Lease
        <4>1. /\ c.m \in Msgs /\ box[c.m] \in Row /\ box[c.m].due \in Int
              /\ box[c.m].stage \notin {"new", "stored", "refused"}
          BY <1>0, <3>2 DEF Row
        <4>2. \/ box'[c.m] = box[c.m] /\ box[c.m].stage # "pending"
              \/ box'[c.m] = [box[c.m] EXCEPT !.due = Earlier(@), !.life = Earlier(@)]
          BY <1>2, <4>1 DEF Tick
        <4>3. box[c.m].stage = "pending" /\ box'[c.m].due = Earlier(box[c.m].due)
          BY <3>2, <4>1, <4>2 DEF Row
        <4>4. box[c.m].due + worker[q].age = Lease
          BY <2>0, <3>2, <4>3, StaysLoose DEF Leased
        <4>7. ~(worker[q].age + 1 >= Lease)
          <5>1. c.m \in InHand(q)
            BY <3>2 DEF InHand, Copies
          <5>2. ASSUME worker[q].age + 1 >= Lease
                PROVE  FALSE
            <6>1. c.m \in UNION {InHand(r) : r \in {t \in Procs : worker[t].age + 1 >= Lease}}
              BY <5>1, <5>2
            <6>2. "loose" \in slips'[c.m]
              BY <1>2, <4>1, <6>1 DEF Tick, Slip
            <6>3. QED
              BY <3>2, <4>1, <6>2 DEF Loose
          <5>3. QED
            BY <5>2
        <4>5. box[c.m].due > 0 /\ Earlier(box[c.m].due) = box[c.m].due - 1
          <5>1. PassMax \in Nat /\ Lease \in Nat /\ worker[q].age \in Nat
            BY <2>0, TimesAssumption
          <5>2. box[c.m].due > 0
            BY <4>1, <4>4, <4>7, <5>1
          <5>3. QED
            BY <4>1, <5>1, <5>2 DEF Earlier, Most
        <4>6. box'[c.m].due + (worker[q].age + 1) = Lease /\ worker[q].age + 1 < Lease
          <5>1. Lease \in Nat /\ worker[q].age \in Nat
            BY <2>0, TimesAssumption
          <5>2. box'[c.m].due = box[c.m].due - 1
            BY <4>3, <4>5
          <5>3. QED
            BY <4>1, <4>4, <4>7, <5>1, <5>2
        <4>8. QED
          BY <3>1, <4>6
      <3>3. QED
        BY <2>0, <3>1, <3>2 DEF Leased
    <2>3. QED
      BY <2>1, <2>2
  <1>3. ASSUME Tick
        PROVE  Lone'
    BY <1>2, <1>3, StaysLoose DEF Lone, Apart
  (* The command works alone: whatever was in hand is loose from there on. *)
  <1>4. ASSUME NEW p \in Procs, NEW revived, RetryEmails(p, revived)
        PROVE  Lone'
    <2>1. Copies(p)' = {} /\ worker'[p].batch = {}
      BY <1>4 DEF RetryEmails, Asleep, Copies, TypeOK
    <2>2. \A q \in Procs \ {p} : SameHand(q)
      BY <1>4 DEF RetryEmails, SameHand, TypeOK
    <2>3. \A q \in Procs \ {p} : \A c \in Copies(q) : c.m \in Loose'
      <3>1. ASSUME NEW q \in Procs, NEW c \in Copies(q)
            PROVE  c.m \in Loose'
        <4>1. c.m \in UNION {InHand(r) : r \in Procs} /\ c.m \in Msgs
          BY <1>0, <3>1 DEF InHand, Copies
        <4>2. QED
          BY <1>4, <4>1 DEF RetryEmails, Slip, Loose
      <3>2. QED
        BY <3>1
    <2>4. ASSUME NEW q \in Procs \ {p}
          PROVE  Leased(q)' /\ Copies(q)' = Copies(q)
      <3>1. Copies(q)' = Copies(q) /\ worker'[q].batch \cap worker'[q].cur = {}
        BY <2>2 DEF SameHand, Copies, Lone, Leased
      <3>2. QED
        BY <2>3, <3>1 DEF Lone, Leased
    <2>5. Leased(p)'
      BY <2>1 DEF Leased
    <2>6. \A q, r \in Procs : q # r => Apart(q, r)'
      BY <2>1, <2>3, <2>4 DEF Apart
    <2>7. QED
      BY <2>4, <2>5, <2>6 DEF Lone
  <1>5. QED
    BY <1>1, <1>3, <1>4

LEMMA NextLone ==
  ASSUME TypeOK, Held, Lone, [Next]_vars
  PROVE  Lone'
  <1>1. CASE UNCHANGED vars
    BY <1>1 DEF vars, Lone, Leased, Apart, Copies, Loose
  <1>2. QED
    BY <1>1, HistoryGrows, SenderLone, PassLone, OtherLone DEF Next

(* No two send one message at once, unless a pass outlived the lease or    *)
(* the command made its rows due again: whatever dies in between, and      *)
(* however long a pass takes.                                              *)
THEOREM SentOnceAtATime == Spec => []OneSender
  <1>1. TypeOK /\ Held /\ Lone /\ [Next]_vars => Lone'
    BY NextLone
  <1>2. TypeOK /\ Lone => OneSender
    <2>1. SUFFICES ASSUME TypeOK, Lone, NEW p \in Procs, NEW q \in Procs,
                          NEW c \in worker[p].cur, NEW d \in worker[q].cur, c.m = d.m, p # q
                   PROVE  "loose" \in slips[c.m]
      BY DEF OneSender
    <2>2. c.m \in Loose
      BY <2>1 DEF Lone, Apart, Copies
    <2>3. QED
      BY <2>2 DEF Loose
  <1>3. QED
    BY <1>1, <1>2, InitLone, AlwaysHeld, PTL DEF Spec

-----------------------------------------------------------------------------
(***************************************************************************)
(* What the CDSO is told.  A row in one hand is as its copy says: still    *)
(* waiting, its delay noted or not, until its pass has given it up; and    *)
(* between the notice and the save that notes it, the copy knows more.     *)
(***************************************************************************)
Handed(p) ==
  \A c \in Copies(p) : c.m \notin Loose =>
    IF worker[p].step = "report" /\ c \in worker[p].cur
    THEN box[c.m].stage \in {"failed", "forgotten"}
    ELSE /\ box[c.m].stage = "pending"
         /\ \/ c.told = box[c.m].told
            \/ worker[p].step = "failed" /\ c \in worker[p].cur

AllHanded == \A p \in Procs : Handed(p)

(* Between the notice of a delay and the save that notes it. *)
Noting(p, m) == worker[p].step = "failed" /\ \E c \in worker[p].cur : c.m = m /\ c.told

(* A delay the CDSO was told of is noted on the row, until it is settled. *)
Known(m) ==
  "delayed" \in bell[m] /\ m \notin Loose /\ "unnoted" \notin slips[m] =>
    \/ box[m].stage \in {"pending", "failed"} /\ box[m].told
    \/ box[m].stage = "forgotten"
    \/ box[m].stage = "gone" /\ "late" \in bell[m]
    \/ \E p \in Procs : Noting(p, m)

AllKnown == \A m \in Msgs : Known(m)

Keeps(m) == box'[m].stage = box[m].stage /\ box'[m].told = box[m].told

Same(m) == Keeps(m) /\ sent'[m] = sent[m] /\ bell'[m] = bell[m]

Faded(m) ==
  /\ box[m].stage = "failed" /\ box'[m].stage = "forgotten"
  /\ sent'[m] = sent[m] /\ bell'[m] = bell[m]

(* What becomes of the row a pass has in hand. *)
GoesOut(p, c) ==
  /\ worker[p].step = "sending" /\ worker'[p].step = "sent" /\ worker'[p].cur = worker[p].cur
  /\ Keeps(c.m) /\ bell'[c.m] = bell[c.m]

StaysIn(p, c) ==
  /\ worker[p].step = "sending" /\ worker'[p].step = "failed" /\ Keeps(c.m)
  /\ sent'[c.m] = sent[c.m] \/ "unheard" \in slips'[c.m]
  /\ \E stuck \in BOOLEAN :
       /\ bell'[c.m] = IF stuck /\ ~c.told THEN bell[c.m] \cup {"delayed"} ELSE bell[c.m]
       /\ \E d \in worker'[p].cur : d.m = c.m /\ d.told = (c.told \/ stuck)

IsPutOff(p, c) ==
  /\ worker[p].step = "failed" /\ box'[c.m].stage = box[c.m].stage
  /\ box'[c.m].told = (box[c.m].told \/ c.told)
  /\ sent'[c.m] = sent[c.m] /\ bell'[c.m] = bell[c.m]

IsGivenUp(p, c) ==
  /\ worker[p].step = "giveup" /\ box'[c.m].stage = "failed" /\ box'[c.m].told = box[c.m].told
  /\ sent'[c.m] = sent[c.m] /\ bell'[c.m] = bell[c.m]

IsReported(p, c) ==
  /\ worker[p].step = "report" /\ Keeps(c.m) /\ sent'[c.m] = sent[c.m]
  /\ bell'[c.m] = bell[c.m] \cup {"failed"}

IsRemoved(p, c) ==
  /\ worker[p].step = "sent" /\ box'[c.m].stage = "gone" /\ sent'[c.m] = sent[c.m]
  /\ bell'[c.m] = IF c.told THEN bell[c.m] \cup {"late"} ELSE bell[c.m]

Deed(p, c) ==
  \/ GoesOut(p, c) \/ StaysIn(p, c) \/ IsPutOff(p, c)
  \/ IsGivenUp(p, c) \/ IsReported(p, c) \/ IsRemoved(p, c)

Effect(p) ==
  \/ /\ worker[p].step \notin {"failed", "sent"}
     /\ \A m \in Msgs : Same(m) \/ Faded(m)
  \/ \E c \in worker[p].cur :
       /\ \A n \in Msgs \ {c.m} : Same(n)
       /\ c.m \in Loose \/ Deed(p, c)

(* A step that leaves a hand alone, and its rows but for what is forgotten. *)
LEMMA HandedKept ==
  ASSUME NEW q \in Procs, Handed(q), SameHand(q), Remembered,
         \A c \in Copies(q) : c.m \in Loose \/ Keeps(c.m) \/ Faded(c.m)
  PROVE  Handed(q)'
  <1>1. Copies(q)' = Copies(q) /\ worker'[q].cur = worker[q].cur /\ worker'[q].step = worker[q].step
    BY DEF SameHand, Copies
  <1>2. QED
    BY <1>1, StaysLoose DEF Handed, Keeps, Faded

(* Nobody saves a row that another has deleted. *)
LEMMA HandedExists ==
  ASSUME TypeOK, Held, NEW p \in Procs, Handed(p), NEW c \in worker[p].cur,
         worker[p].step # "report", c.m \notin Loose
  PROVE  /\ box[c.m].stage = "pending" /\ Exists(c.m)
         /\ worker[p].step # "failed" => c.told = box[c.m].told
  <1>1. c \in Copies(p)
    BY DEF Copies
  <1>2. QED
    BY <1>1 DEF Handed, Exists

LEMMA InCur ==
  ASSUME TypeOK, Held, NEW p \in Procs, NEW c \in worker[p].cur
  PROVE  /\ c \in Copies(p) /\ c \in Copy /\ c.m \in Msgs /\ box[c.m] \in Row
         /\ c.told \in BOOLEAN /\ worker[p].cur = {c}
  <1>1. c \in Copies(p)
    BY DEF Copies
  <1>2. worker[p].cur = {c}
    BY DEF Held, HeldBy
  <1>3. QED
    BY <1>1, <1>2, HandsOf DEF Copy

LEMMA InitHanded == Init => AllHanded /\ AllKnown
  BY DEF Init, AllHanded, Handed, AllKnown, Known, Copies, Asleep, Down

(* A step of one pass, in these terms. *)
LEMMA PassEffect ==
  ASSUME TypeOK, Held, Lone, Remembered, NEW p \in Procs, Handed(p), PassStep(p)
  PROVE  Effect(p) /\ Handed(p)'
  <1>0. /\ worker[p] \in Worker /\ HeldBy(p) /\ Leased(p)
        /\ \A m \in Msgs : box[m] \in Row
        /\ \A c \in Copies(p) : c.m \in Msgs /\ c \in Copy /\ c.told \in BOOLEAN
    <2>1. \A c \in Copies(p) : c.m \in Msgs /\ c \in Copy
      BY HandsOf
    <2>2. QED
      BY <2>1 DEF TypeOK, Held, Lone, Copy
  <1>1. CASE BeginPass(p)
    <2>1. PICK S \in SUBSET GivenUp :
            box' = [m \in Msgs |-> IF m \in S THEN Blank("forgotten", box[m].by) ELSE box[m]]
      BY <1>1 DEF BeginPass
    <2>2. \A m \in Msgs : box'[m] = IF m \in S THEN Blank("forgotten", box[m].by) ELSE box[m]
      BY <2>1
    <2>3. \A m \in S : box[m].stage = "failed"
      BY DEF GivenUp
    <2>4. \A m \in Msgs : Blank("forgotten", box[m].by).stage = "forgotten"
      BY DEF Blank
    <2>5. sent' = sent /\ bell' = bell
      BY <1>1 DEF BeginPass
    <2>6. \A m \in Msgs : Same(m) \/ Faded(m)
      BY <2>2, <2>3, <2>4, <2>5, Zenon DEF Same, Keeps, Faded
    <2>7. Copies(p)' = {} /\ worker[p].step \notin {"failed", "sent"}
      BY <1>1 DEF BeginPass, Asleep, Copies, TypeOK
    <2>8. QED
      BY <2>6, <2>7 DEF Effect, Handed
  <1>2. CASE Claim(p)
    <2>1. PICK S \in SUBSET DueFor(p) :
            /\ worker' = [worker EXCEPT ![p].step = IF S = {} THEN "rest" ELSE "work",
                                        ![p].batch = {CopyOf(p, m) : m \in S},
                                        ![p].full = Cardinality(S) = Batch]
            /\ box' = [m \in Msgs |-> IF m \in S
                                      THEN [box[m] EXCEPT !.due = Lease - worker[p].age]
                                      ELSE box[m]]
      BY <1>2 DEF Claim
    <2>2. \A m \in Msgs : box'[m] = IF m \in S
                                    THEN [box[m] EXCEPT !.due = Lease - worker[p].age]
                                    ELSE box[m]
      BY <2>1
    <2>3. \A m \in Msgs : Keeps(m)
      BY <1>0, <2>2 DEF Keeps, Row
    <2>4. worker[p].step \notin {"failed", "sent"} /\ \A m \in Msgs : Same(m)
      BY <1>2, <2>3 DEF Claim, Same
    <2>5. /\ worker'[p].batch = {CopyOf(p, m) : m \in S} /\ worker'[p].cur = {}
          /\ worker'[p].step # "report"
      BY <1>0, <1>2, <2>1 DEF Claim, HeldBy, Copies, TypeOK, Worker
    <2>6. \A d \in Copies(p)' : d.m \in S /\ d.told = box[d.m].told
      BY <2>5 DEF Copies, CopyOf
    <2>7. \A m \in S : m \in Msgs /\ box[m].stage = "pending"
      BY DEF DueFor
    <2>8. Handed(p)'
      BY <2>3, <2>5, <2>6, <2>7 DEF Handed, Keeps
    <2>9. QED
      BY <2>4, <2>8 DEF Effect
  <1>3. CASE NextBatch(p) \/ Rest(p)
    <2>1. box' = box /\ sent' = sent /\ bell' = bell
          /\ worker[p].step \notin {"failed", "sent"}
      BY <1>3 DEF NextBatch, Rest
    <2>2. Copies(p)' = {}
      <3>1. CASE NextBatch(p)
        BY <1>0, <3>1 DEF NextBatch, HeldBy, Copies, TypeOK, Worker
      <3>2. CASE Rest(p)
        BY <3>2 DEF Rest, Asleep, Down, Copies, TypeOK
      <3>3. QED
        BY <1>3, <3>1, <3>2
    <2>3. \A m \in Msgs : Same(m)
      BY <2>1 DEF Same, Keeps
    <2>4. QED
      BY <2>1, <2>2, <2>3 DEF Effect, Handed
  <1>4. ASSUME NEW c \in worker[p].batch, Attempt(p, c)
        PROVE  Effect(p) /\ Handed(p)'
    <2>1. /\ box' = box /\ sent' = sent /\ bell' = bell /\ worker[p].step = "work"
          /\ worker'[p].batch = worker[p].batch \ {c} /\ worker'[p].cur = {c}
          /\ worker'[p].step # "report"
      BY <1>0, <1>4 DEF Attempt, TypeOK, Worker
    <2>2. \A m \in Msgs : Same(m)
      BY <2>1 DEF Same, Keeps
    <2>3. Copies(p)' \subseteq Copies(p)
      BY <1>4, <2>1 DEF Copies
    <2>4. Handed(p)'
      BY <2>1, <2>3, StaysLoose DEF Handed
    <2>5. QED
      BY <2>1, <2>2, <2>4 DEF Effect
  <1>5. ASSUME NEW c \in worker[p].cur, Refused(p, c)
        PROVE  Effect(p) /\ Handed(p)'
    <2>0. c \in Copy
      BY <1>5, InCur
    <2>1. /\ box' = box /\ sent' = sent /\ bell' = bell /\ worker[p].step = "sending"
          /\ worker'[p].batch = worker[p].batch
          /\ worker'[p].cur = {[c EXCEPT !.tries = More(@)]}
          /\ worker'[p].step = "giveup"
      BY <1>0, <1>5 DEF Refused, TypeOK, Worker
    <2>2. [c EXCEPT !.tries = More(@)].m = c.m /\ [c EXCEPT !.tries = More(@)].told = c.told
      BY <2>0 DEF Copy
    <2>3. \A m \in Msgs : Same(m)
      BY <2>1 DEF Same, Keeps
    <2>4. \A d \in worker[p].batch \cup {c} :
            d.m \notin Loose => box[d.m].stage = "pending" /\ d.told = box[d.m].told
      BY <1>5, <2>1 DEF Handed, Copies
    <2>5. Handed(p)'
      BY <2>1, <2>2, <2>4, StaysLoose DEF Handed, Copies
    <2>6. QED
      BY <2>1, <2>3, <2>5 DEF Effect
  (* It is done with the row in hand, and keeps the rest of its batch. *)
  <1>6. ASSUME NEW c \in worker[p].cur, \A n \in Msgs \ {c.m} : Same(n),
               worker'[p].cur = {}, worker'[p].batch = worker[p].batch,
               worker'[p].step = "work"
        PROVE  Handed(p)'
    <2>1. Copies(p)' = worker[p].batch
      BY <1>6 DEF Copies
    <2>2. \A d \in worker[p].batch :
            /\ d \in Copies(p) /\ d \notin worker[p].cur /\ d.m \in Msgs \ {c.m}
      BY <1>0, <1>6 DEF Leased, Copies
    <2>3. QED
      BY <1>6, <2>1, <2>2, StaysLoose DEF Handed, Same, Keeps
  <1>7. ASSUME NEW c \in worker[p].cur, Delivered(p, c)
        PROVE  Effect(p) /\ Handed(p)'
    <2>1. /\ box' = box /\ bell' = bell /\ worker[p].step = "sending"
          /\ worker'[p].batch = worker[p].batch /\ worker'[p].cur = worker[p].cur
          /\ worker'[p].step = "sent"
      BY <1>0, <1>7 DEF Delivered, TypeOK, Worker
    <2>2. \A n \in Msgs \ {c.m} : sent'[n] = sent[n]
      BY <1>7 DEF Delivered, Again, TypeOK
    <2>3. \A n \in Msgs \ {c.m} : Same(n)
      BY <2>1, <2>2 DEF Same, Keeps
    <2>4. Handed(p)'
      BY <2>1, StaysLoose DEF Handed, Copies
    <2>5. GoesOut(p, c)
      BY <2>1 DEF GoesOut, Keeps
    <2>6. QED
      BY <2>3, <2>4, <2>5 DEF Effect, Deed
  <1>8. ASSUME NEW c \in worker[p].cur, NEW went \in BOOLEAN, NEW stuck \in BOOLEAN,
               Fails(p, c, went, stuck)
        PROVE  Effect(p) /\ Handed(p)'
    <2>0. c \in Copy /\ c.m \in Msgs
      BY <1>8, InCur
    <2>1. /\ box' = box /\ worker[p].step = "sending" /\ worker'[p].step = "failed"
          /\ worker'[p].batch = worker[p].batch
          /\ worker'[p].cur = {[c EXCEPT !.told = @ \/ stuck]}
      BY <1>0, <1>8 DEF Fails, TypeOK, Worker
    <2>2. [c EXCEPT !.told = @ \/ stuck].m = c.m
          /\ [c EXCEPT !.told = @ \/ stuck].told = (c.told \/ stuck)
      BY <2>0 DEF Copy
    <2>3. bell' = IF stuck /\ ~c.told THEN [bell EXCEPT ![c.m] = @ \cup {"delayed"}] ELSE bell
      BY <1>8, Zenon DEF Fails
    <2>4. /\ bell'[c.m] = IF stuck /\ ~c.told THEN bell[c.m] \cup {"delayed"} ELSE bell[c.m]
          /\ \A n \in Msgs \ {c.m} : bell'[n] = bell[n]
      BY <2>0, <2>3 DEF TypeOK
    <2>5. /\ sent'[c.m] = sent[c.m] \/ "unheard" \in slips'[c.m]
          /\ \A n \in Msgs \ {c.m} : sent'[n] = sent[n]
      BY <1>8, <2>0 DEF Fails, Again, Slip, TypeOK
    <2>6. \A n \in Msgs \ {c.m} : Same(n)
      BY <2>1, <2>4, <2>5 DEF Same, Keeps
    <2>7. \E d \in worker'[p].cur : d.m = c.m /\ d.told = (c.told \/ stuck)
      BY <2>1, <2>2
    <2>8. StaysIn(p, c)
      BY <2>1, <2>4, <2>5, <2>7 DEF StaysIn, Keeps
    <2>9. \A d \in worker[p].batch :
            d.m \notin Loose =>
              box[d.m].stage = "pending" /\ d.told = box[d.m].told
      BY <1>0, <1>8, <2>1 DEF Leased, Copies, Handed
    <2>10. c.m \notin Loose => box[c.m].stage = "pending"
      BY <1>8, <2>1, HandedExists
    <2>11. Handed(p)'
      BY <2>1, <2>2, <2>9, <2>10, StaysLoose DEF Handed, Copies
    <2>12. QED
      BY <2>6, <2>8, <2>11 DEF Effect, Deed
  (* A save that finds no row ends the pass; nothing was told or changed. *)
  <1>9. ASSUME NEW c \in worker[p].cur, c.m \in Loose, box' = box, sent' = sent, bell' = bell,
               worker' = [worker EXCEPT ![p] = FailedPass(p)]
        PROVE  Effect(p) /\ Handed(p)'
    <2>1. \A n \in Msgs : Same(n)
      BY <1>9 DEF Same, Keeps
    <2>2. Copies(p)' = {}
      BY <1>9 DEF FailedPass, Asleep, Down, Copies, TypeOK
    <2>3. QED
      BY <1>9, <2>1, <2>2 DEF Effect, Handed
  <1>10. ASSUME NEW c \in worker[p].cur, PutOff(p, c)
         PROVE  Effect(p) /\ Handed(p)'
    <2>0. c \in Copy /\ c.m \in Msgs /\ box[c.m] \in Row /\ worker[p].step = "failed"
      BY <1>10, InCur DEF PutOff
    <2>1. CASE Exists(c.m)
      <3>1. /\ box' = [box EXCEPT ![c.m] =
                 [box[c.m] EXCEPT !.tries = More(c.tries), !.told = box[c.m].told \/ c.told,
                    !.due = Least(DelayAfter(c.tries + 1) - worker[p].age, box[c.m].life)]]
            /\ worker' = [worker EXCEPT ![p].step = "work", ![p].cur = {}]
        BY <1>10, <2>1, Zenon DEF PutOff
      <3>2. /\ box'[c.m].stage = box[c.m].stage /\ box'[c.m].told = (box[c.m].told \/ c.told)
            /\ \A n \in Msgs \ {c.m} : box'[n] = box[n]
        BY <2>0, <3>1 DEF TypeOK, Row
      <3>3. sent' = sent /\ bell' = bell
        BY <1>10 DEF PutOff
      <3>4. /\ worker'[p].cur = {} /\ worker'[p].batch = worker[p].batch
            /\ worker'[p].step = "work"
        BY <1>0, <3>1 DEF TypeOK, Worker
      <3>5. \A n \in Msgs \ {c.m} : Same(n)
        BY <3>2, <3>3 DEF Same, Keeps
      <3>6. IsPutOff(p, c)
        BY <2>0, <3>2, <3>3 DEF IsPutOff
      <3>7. QED
        BY <1>6, <3>4, <3>5, <3>6 DEF Effect, Deed
    <2>2. CASE ~Exists(c.m)
      <3>1. /\ box' = box /\ sent' = sent /\ bell' = bell
            /\ worker' = [worker EXCEPT ![p] = FailedPass(p)]
        BY <1>10, <2>2 DEF PutOff
      <3>2. c.m \in Loose
        BY <2>0, <2>2, HandedExists
      <3>3. QED
        BY <1>9, <3>1, <3>2
    <2>3. QED
      BY <2>1, <2>2
  <1>11. ASSUME NEW c \in worker[p].cur, GiveUp(p, c)
         PROVE  Effect(p) /\ Handed(p)'
    <2>0. /\ c \in Copy /\ c.m \in Msgs /\ box[c.m] \in Row
          /\ worker[p].step = "giveup" /\ worker[p].cur = {c}
      BY <1>11, InCur DEF GiveUp
    <2>1. CASE Exists(c.m)
      <3>1. /\ box' = [box EXCEPT ![c.m] =
                 [Blank("failed", @.by) EXCEPT !.tries = c.tries, !.told = box[c.m].told]]
            /\ worker' = [worker EXCEPT ![p].step = "report"]
            /\ sent' = sent /\ bell' = bell
        BY <1>11, <2>1 DEF GiveUp
      <3>2. [Blank("failed", box[c.m].by) EXCEPT !.tries = c.tries, !.told = box[c.m].told].stage
              = "failed"
        BY DEF Blank
      <3>3. [Blank("failed", box[c.m].by) EXCEPT !.tries = c.tries, !.told = box[c.m].told].told
              = box[c.m].told
        BY DEF Blank
      <3>4. /\ box'[c.m].stage = "failed" /\ box'[c.m].told = box[c.m].told
            /\ \A n \in Msgs \ {c.m} : box'[n] = box[n]
        BY <2>0, <3>1, <3>2, <3>3 DEF TypeOK
      <3>5. /\ worker'[p].cur = {c} /\ worker'[p].batch = worker[p].batch
            /\ worker'[p].step = "report"
        BY <1>0, <2>0, <3>1 DEF TypeOK, Worker
      <3>6. \A n \in Msgs \ {c.m} : Same(n)
        BY <3>1, <3>4 DEF Same, Keeps
      <3>7. \A d \in worker[p].batch :
              /\ d.m \in Msgs \ {c.m} /\ d \notin worker'[p].cur
              /\ d.m \notin Loose => box[d.m].stage = "pending" /\ d.told = box[d.m].told
        BY <1>0, <2>0, <3>5 DEF Leased, Copies, Handed
      <3>8. Handed(p)'
        BY <3>4, <3>5, <3>6, <3>7, StaysLoose DEF Handed, Copies, Same, Keeps
      <3>9. IsGivenUp(p, c)
        BY <2>0, <3>1, <3>4 DEF IsGivenUp
      <3>10. QED
        BY <3>6, <3>8, <3>9 DEF Effect, Deed
    <2>2. CASE ~Exists(c.m)
      <3>1. /\ box' = box /\ sent' = sent /\ bell' = bell
            /\ worker' = [worker EXCEPT ![p] = FailedPass(p)]
        BY <1>11, <2>2 DEF GiveUp
      <3>2. c.m \in Loose
        BY <2>0, <2>2, HandedExists
      <3>3. QED
        BY <1>9, <3>1, <3>2
    <2>3. QED
      BY <2>1, <2>2
  <1>12. ASSUME NEW c \in worker[p].cur, Report(p, c)
         PROVE  Effect(p) /\ Handed(p)'
    <2>0. c.m \in Msgs /\ worker[p].step = "report"
      BY <1>12, InCur DEF Report
    <2>1. /\ box' = box /\ sent' = sent
          /\ bell'[c.m] = bell[c.m] \cup {"failed"} /\ \A n \in Msgs \ {c.m} : bell'[n] = bell[n]
      BY <1>12, <2>0 DEF Report, TypeOK
    <2>2. /\ worker'[p].cur = {} /\ worker'[p].batch = worker[p].batch
          /\ worker'[p].step = "work"
      BY <1>0, <1>12 DEF Report, TypeOK, Worker
    <2>3. IsReported(p, c) /\ \A n \in Msgs \ {c.m} : Same(n)
      BY <2>0, <2>1 DEF IsReported, Same, Keeps
    <2>4. QED
      BY <1>6, <2>2, <2>3 DEF Effect, Deed
  <1>13. ASSUME NEW c \in worker[p].cur, Remove(p, c)
         PROVE  Effect(p) /\ Handed(p)'
    <2>0. c.m \in Msgs /\ box[c.m] \in Row /\ worker[p].step = "sent"
      BY <1>13, InCur DEF Remove
    <2>1. /\ sent' = sent /\ \A n \in Msgs \ {c.m} : box'[n] = box[n]
          /\ Exists(c.m) => box'[c.m].stage = "gone"
      BY <1>13, <2>0 DEF Remove, Blank, TypeOK
    <2>2. bell' = IF c.told THEN [bell EXCEPT ![c.m] = @ \cup {"late"}] ELSE bell
      BY <1>13 DEF Remove
    <2>3. /\ bell'[c.m] = IF c.told THEN bell[c.m] \cup {"late"} ELSE bell[c.m]
          /\ \A n \in Msgs \ {c.m} : bell'[n] = bell[n]
      BY <2>0, <2>2 DEF TypeOK
    <2>4. /\ worker'[p].cur = {} /\ worker'[p].batch = worker[p].batch
          /\ worker'[p].step = "work"
      BY <1>0, <1>13 DEF Remove, TypeOK, Worker
    <2>5. c.m \notin Loose => IsRemoved(p, c)
      BY <2>0, <2>1, <2>3, HandedExists DEF IsRemoved
    <2>6. \A n \in Msgs \ {c.m} : Same(n)
      BY <2>0, <2>1, <2>3 DEF Same, Keeps
    <2>7. QED
      BY <1>6, <2>4, <2>5, <2>6 DEF Effect, Deed
  <1>14. QED
    BY <1>1, <1>2, <1>3, <1>4, <1>5, <1>7, <1>8, <1>10, <1>11, <1>12, <1>13 DEF PassStep

(* The senders' rows are in nobody's hand, and a message nobody has tried  *)
(* is not spoken of.                                                       *)
LEMMA SenderHanded ==
  ASSUME TypeOK, Held, AllHanded, AllKnown, Remembered, NEW m \in Msgs, Sender(m)
  PROVE  AllHanded' /\ AllKnown'
  <1>1. /\ box[m].stage \in {"new", "stored"} /\ bell' = bell
        /\ \A n \in Msgs \ {m} : box'[n] = box[n]
    BY DEF Sender, Enqueue, Commit, RollBack, SendNow, TypeOK
  <1>2. \A q \in Procs : SameHand(q)
    <2>1. \A q \in Procs : worker[q] \in Worker
      BY DEF TypeOK
    <2>2. \/ worker' = worker
          \/ worker' = [worker EXCEPT ![box[m].by].wake = worker[box[m].by].step # "down"]
      BY DEF Sender, Enqueue, Commit, RollBack, SendNow
    <2>3. QED
      BY <2>1, <2>2 DEF SameHand, TypeOK, Worker
  <1>3. \A q \in Procs : \A c \in Copies(q) : Keeps(c.m)
    <2>1. \A q \in Procs : \A c \in Copies(q) : box'[c.m] = box[c.m]
      BY <1>1, HandsOf
    <2>2. QED
      BY <2>1 DEF Keeps
  <1>4. AllHanded'
    BY <1>2, <1>3, HandedKept DEF AllHanded
  (* Nobody has this message in hand. *)
  <1>5. \A q \in Procs : ~Noting(q, m)
    BY <1>1, HandsOf DEF Noting, Copies
  <1>6. \A q \in Procs, n \in Msgs : Noting(q, n) => Noting(q, n)'
    BY <1>2 DEF SameHand, Noting
  <1>7. \A n \in Msgs : Known(n)'
    BY <1>1, <1>5, <1>6, StaysLoose DEF AllKnown, Known, Remembered
  <1>8. QED
    BY <1>4, <1>7 DEF AllKnown

LEMMA PassHanded ==
  ASSUME TypeOK, Held, Lone, AllHanded, Remembered, NEW p \in Procs, PassStep(p)
  PROVE  AllHanded' /\ \A q \in Procs \ {p} : SameHand(q)
  <1>1. Effect(p) /\ Handed(p)'
    BY PassEffect DEF AllHanded
  <1>2. ASSUME NEW q \in Procs \ {p}
        PROVE  Handed(q)' /\ SameHand(q)
    <2>1. SameHand(q)
      <3>1. \E w : worker' = [worker EXCEPT ![p] = w]
        BY DEF PassStep, BeginPass, Claim, NextBatch, Rest, Attempt, Delivered, Refused,
               Fails, PutOff, GiveUp, Report, Remove
      <3>2. QED
        BY <3>1 DEF SameHand, TypeOK
    <2>2. \A d \in Copies(q) : d.m \in Msgs
      BY HandsOf
    <2>3. \A d \in Copies(q) : \A c \in worker[p].cur : d.m = c.m => d.m \in Loose
      BY DEF Lone, Apart, Copies
    <2>4. \A d \in Copies(q) : d.m \in Loose \/ Same(d.m) \/ Faded(d.m)
      BY <1>1, <2>2, <2>3 DEF Effect
    <2>5. QED
      BY <2>1, <2>4, HandedKept DEF AllHanded, Same
  <1>3. QED
    BY <1>1, <1>2 DEF AllHanded

LEMMA PassKnown ==
  ASSUME TypeOK, Held, Lone, AllHanded, AllKnown, Remembered, NEW p \in Procs, PassStep(p)
  PROVE  AllKnown'
  <1>1. Effect(p)
    BY PassEffect DEF AllHanded
  <1>2. ASSUME NEW m \in Msgs, Same(m) \/ Faded(m),
               worker[p].step = "failed" => \A c \in worker[p].cur : c.m # m
        PROVE  Known(m)'
    <2>1. \A q \in Procs : Noting(q, m) => Noting(q, m)'
      <3>1. ~Noting(p, m)
        BY <1>2 DEF Noting
      <3>2. \A q \in Procs \ {p} : SameHand(q)
        BY PassHanded
      <3>3. QED
        BY <3>1, <3>2 DEF SameHand, Noting
    <2>2. QED
      BY <1>2, <2>1, StaysLoose DEF AllKnown, Known, Same, Keeps, Faded, Remembered
  <1>3. ASSUME NEW c \in worker[p].cur, Deed(p, c), c.m \notin Loose,
               "delayed" \in bell'[c.m], "unnoted" \notin slips'[c.m]
        PROVE  Known(c.m)'
    <2>0. /\ c.m \in Msgs /\ box[c.m] \in Row /\ Known(c.m) /\ c.told \in BOOLEAN
          /\ box[c.m].told \in BOOLEAN /\ "unnoted" \notin slips[c.m]
      BY <1>3, InCur DEF AllKnown, Row, Remembered
    (* Nobody else has it in hand. *)
    <2>1. \A q \in Procs : Noting(q, c.m) => worker[p].step = "failed" /\ c.told
      <3>1. \A q \in Procs \ {p} : \A d \in worker[q].cur : d.m # c.m
        BY <1>3 DEF Lone, Apart, Copies
      <3>2. worker[p].cur = {c}
        BY InCur
      <3>3. QED
        BY <3>1, <3>2 DEF Noting
    <2>2. worker[p].step # "report" =>
            box[c.m].stage = "pending" /\ (worker[p].step # "failed" => c.told = box[c.m].told)
      BY <1>3, HandedExists DEF AllHanded
    <2>3. /\ worker[p].step \notin {"report", "failed"} /\ "delayed" \in bell[c.m]
             => box[c.m].told
          /\ worker[p].step = "failed" /\ "delayed" \in bell[c.m]
             => box[c.m].told \/ c.told
      BY <1>3, <2>0, <2>1, <2>2 DEF Known
    <2>4. CASE GoesOut(p, c)
      BY <1>3, <2>2, <2>3, <2>4 DEF GoesOut, Keeps, Known
    <2>5. CASE StaysIn(p, c)
      <3>1. PICK stuck \in BOOLEAN :
              /\ bell'[c.m] = IF stuck /\ ~c.told THEN bell[c.m] \cup {"delayed"} ELSE bell[c.m]
              /\ \E d \in worker'[p].cur : d.m = c.m /\ d.told = (c.told \/ stuck)
        BY <2>5 DEF StaysIn
      <3>2. CASE stuck
        <4>1. Noting(p, c.m)'
          BY <2>0, <2>5, <3>1, <3>2 DEF StaysIn, Noting
        <4>2. QED
          BY <4>1 DEF Known
      <3>3. CASE ~stuck
        BY <1>3, <2>2, <2>3, <2>5, <3>1, <3>3 DEF StaysIn, Keeps, Known
      <3>4. QED
        BY <3>2, <3>3
    <2>6. CASE IsPutOff(p, c)
      BY <1>3, <2>2, <2>3, <2>6 DEF IsPutOff, Known
    <2>7. CASE IsGivenUp(p, c)
      BY <1>3, <2>2, <2>3, <2>7 DEF IsGivenUp, Known
    <2>8. CASE IsReported(p, c)
      <3>1. "delayed" \in bell[c.m] /\ ("late" \in bell[c.m] => "late" \in bell'[c.m])
        BY <1>3, <2>8 DEF IsReported
      <3>2. \A q \in Procs : ~Noting(q, c.m)
        BY <2>1, <2>8 DEF IsReported
      <3>3. QED
        BY <1>3, <2>0, <2>8, <3>1, <3>2 DEF IsReported, Keeps, Known
    <2>9. CASE IsRemoved(p, c)
      BY <1>3, <2>2, <2>3, <2>9 DEF IsRemoved, Known
    <2>10. QED
      BY <1>3, <2>4, <2>5, <2>6, <2>7, <2>8, <2>9 DEF Deed
  <1>4. \A c \in worker[p].cur : c.m \in Loose \/ Deed(p, c) => Known(c.m)'
    BY <1>3, InCur, StaysLoose DEF Known
  <1>5. CASE /\ worker[p].step \notin {"failed", "sent"}
             /\ \A m \in Msgs : Same(m) \/ Faded(m)
    BY <1>2, <1>5 DEF AllKnown
  <1>6. ASSUME NEW c \in worker[p].cur, \A n \in Msgs \ {c.m} : Same(n),
               c.m \in Loose \/ Deed(p, c)
        PROVE  AllKnown'
    <2>1. \A d \in worker[p].cur : d.m = c.m
      BY InCur
    <2>2. \A n \in Msgs \ {c.m} : Known(n)'
      BY <1>2, <1>6, <2>1
    <2>3. QED
      BY <1>4, <1>6, <2>2 DEF AllKnown
  <1>7. QED
    BY <1>1, <1>5, <1>6 DEF Effect

LEMMA OtherHanded ==
  ASSUME TypeOK, Held, AllHanded, AllKnown, Remembered,
         \/ \E p \in Procs : Die(p) \/ Restart(p) \/ LoseDatabase(p)
         \/ \E p \in Procs, revived \in SUBSET GivenUp : RetryEmails(p, revived)
         \/ Tick
  PROVE  AllHanded' /\ AllKnown'
  <1>0. /\ \A m \in Msgs : box[m] \in Row
        /\ \A q \in Procs : worker[q] \in Worker
        /\ \A q \in Procs : \A c \in Copies(q) :
             c.m \in Msgs /\ box[c.m].stage \notin {"new", "stored", "refused"}
    BY HandsOf DEF TypeOK
  <1>1. ASSUME NEW p \in Procs, Die(p) \/ Restart(p) \/ LoseDatabase(p)
        PROVE  AllHanded' /\ AllKnown'
    <2>1. \A m \in Msgs : \/ Keeps(m)
                          \/ box[m].stage = "stored" /\ box'[m] = Blank("new", p)
      <3>1. CASE Die(p)
        <4>1. \A m \in Msgs : box'[m] = IF box[m].stage = "stored" /\ box[m].by = p
                                       THEN Blank("new", p) ELSE box[m]
          BY <3>1 DEF Die
        <4>2. QED
          BY <4>1 DEF Keeps
      <3>2. CASE Restart(p) \/ LoseDatabase(p)
        BY <3>2 DEF Restart, LoseDatabase, Keeps
      <3>3. QED
        BY <1>1, <3>1, <3>2
    <2>2. Copies(p)' = {}
      BY <1>1 DEF Die, Restart, LoseDatabase, FailedPass, Asleep, Down, Copies, TypeOK
    <2>3. \A q \in Procs \ {p} : SameHand(q)
      BY <1>1 DEF Die, Restart, LoseDatabase, SameHand, TypeOK
    <2>4. \A q \in Procs \ {p} : Handed(q)'
      BY <1>0, <2>1, <2>3, HandedKept DEF AllHanded
    <2>5. Handed(p)'
      BY <2>2 DEF Handed
    <2>6. bell' = bell
      BY <1>1 DEF Die, Restart, LoseDatabase
    <2>7. ASSUME NEW m \in Msgs
          PROVE  Known(m)'
      <3>1. Noting(p, m) => "unnoted" \in slips'[m]
        <4>1. CASE Restart(p)
          BY <4>1 DEF Restart, Noting
        <4>2. CASE Die(p) \/ LoseDatabase(p)
          BY <4>2 DEF Die, LoseDatabase, BrokenOff, Noting
        <4>3. QED
          BY <1>1, <4>1, <4>2
      <3>2. \A q \in Procs \ {p} : Noting(q, m) => Noting(q, m)'
        BY <2>3 DEF SameHand, Noting
      <3>3. QED
        BY <2>1, <2>6, <3>1, <3>2, StaysLoose DEF AllKnown, Known, Keeps, Remembered
    <2>8. QED
      BY <2>4, <2>5, <2>7 DEF AllHanded, AllKnown
  <1>2. ASSUME Tick
        PROVE  AllHanded' /\ AllKnown'
    <2>1. \A m \in Msgs : Keeps(m)
      BY <1>0, <1>2 DEF Tick, Row, Keeps
    <2>2. ASSUME NEW q \in Procs
          PROVE  /\ worker'[q].step = worker[q].step /\ worker'[q].cur = worker[q].cur
                 /\ Copies(q)' = Copies(q)
      BY <1>0, <1>2 DEF Tick, Worker, Copies
    <2>3. ASSUME NEW q \in Procs
          PROVE  Handed(q)'
      BY <1>0, <2>1, <2>2, StaysLoose DEF AllHanded, Handed, Keeps
    <2>4. bell' = bell
      BY <1>2 DEF Tick
    <2>5. \A q \in Procs, m \in Msgs : Noting(q, m) => Noting(q, m)'
      BY <2>2 DEF Noting
    <2>6. \A m \in Msgs : Known(m)'
      BY <2>1, <2>4, <2>5, StaysLoose DEF AllKnown, Known, Keeps, Remembered
    <2>7. QED
      BY <2>3, <2>6 DEF AllHanded, AllKnown
  (* The command revives what was given up; what is in hand is loose. *)
  <1>3. ASSUME NEW p \in Procs, NEW revived \in SUBSET GivenUp, RetryEmails(p, revived)
        PROVE  AllHanded' /\ AllKnown'
    <2>1. ASSUME NEW q \in Procs, NEW c \in Copies(q)
          PROVE  c.m \in Loose'
      <3>1. c.m \in UNION {InHand(r) : r \in Procs} /\ c.m \in Msgs
        BY <1>0, <2>1 DEF InHand, Copies
      <3>2. QED
        BY <1>3, <3>1 DEF RetryEmails, Slip, Loose
    <2>2. Copies(p)' = {} /\ \A q \in Procs \ {p} : Copies(q)' = Copies(q)
      BY <1>3 DEF RetryEmails, Asleep, Copies, TypeOK
    <2>3. \A q \in Procs : Handed(q)'
      BY <2>1, <2>2 DEF Handed
    <2>4. ASSUME NEW m \in Msgs
          PROVE  /\ box'[m].told = box[m].told
                 /\ \/ box'[m].stage = box[m].stage
                    \/ box[m].stage = "failed" /\ box'[m].stage = "pending"
      <3>1. box'[m] = IF m \in revived
                      THEN [box[m] EXCEPT !.stage = "pending", !.life = MaxAge, !.due = 0]
                      ELSE IF box[m].stage = "pending" THEN [box[m] EXCEPT !.due = 0] ELSE box[m]
        BY <1>3 DEF RetryEmails
      <3>2. m \in revived => box[m].stage = "failed"
        BY DEF GivenUp
      <3>3. QED
        BY <1>0, <3>1, <3>2 DEF Row
    <2>5. \A q \in Procs, m \in Msgs : Noting(q, m) => m \in Loose'
      BY <2>1 DEF Noting, Copies
    <2>6. bell' = bell
      BY <1>3 DEF RetryEmails
    <2>7. \A m \in Msgs : Known(m)'
      BY <2>4, <2>5, <2>6, StaysLoose DEF AllKnown, Known, Remembered
    <2>8. QED
      BY <2>3, <2>7 DEF AllHanded, AllKnown
  <1>4. QED
    BY <1>1, <1>2, <1>3

LEMMA NextHanded ==
  ASSUME TypeOK, Held, Lone, AllHanded, AllKnown, [Next]_vars
  PROVE  AllHanded' /\ AllKnown'
  <1>1. CASE UNCHANGED vars
    BY <1>1 DEF vars, AllHanded, Handed, AllKnown, Known, Copies, Loose, Noting
  <1>2. Remembered
    BY HistoryGrows
  <1>3. QED
    BY <1>1, <1>2, SenderHanded, PassHanded, PassKnown, OtherHanded DEF Next

LEMMA AlwaysHanded == Spec => [](TypeOK /\ Held /\ Lone /\ AllHanded /\ AllKnown)
  <1>1. TypeOK /\ Held /\ Lone /\ [Next]_vars => Lone'
    BY NextLone
  <1>2. TypeOK /\ Held /\ Lone /\ AllHanded /\ AllKnown /\ [Next]_vars => (AllHanded /\ AllKnown)'
    BY NextHanded
  <1>3. QED
    BY <1>1, <1>2, InitLone, InitHanded, AlwaysHeld, PTL DEF Spec

(* The CDSO who was told a message is delayed is told when it gets         *)
(* through, unless two had it in hand, or a pass was broken off between    *)
(* the notice and the save that notes it: whatever else dies in between,   *)
(* whether or not an answer is lost, and however long a pass takes.        *)
THEOREM AlarmIsClosed == Spec => []AlarmClosed
  <1>1. TypeOK /\ Lone /\ AllHanded /\ AllKnown => AlarmClosed
    <2>1. SUFFICES ASSUME AllHanded, AllKnown, NEW m \in Msgs,
                          box[m].stage = "gone", "delayed" \in bell[m],
                          m \notin Loose, "unnoted" \notin slips[m]
                   PROVE  "late" \in bell[m]
      BY DEF AlarmClosed, Loose
    <2>2. \A p \in Procs : ~Noting(p, m)
      BY <2>1 DEF AllHanded, Handed, Noting, Copies
    <2>3. QED
      BY <2>1, <2>2 DEF AllKnown, Known
  <1>2. QED
    BY <1>1, AlwaysHanded, PTL

-----------------------------------------------------------------------------
(***************************************************************************)
(* No false alarm: what the provider has taken and said so is gone or      *)
(* about to be, in the hand of the pass that sent it, so nobody else gives *)
(* it up - unless that pass was broken off, or two had it in hand.         *)
(***************************************************************************)
Sending(p, m) == worker[p].step = "sent" /\ \E c \in worker[p].cur : c.m = m

Sure(m) ==
  sent[m] # 0 /\ m \notin Loose /\ "unheard" \notin slips[m] =>
    box[m].stage = "gone" \/ \E p \in Procs : Sending(p, m)

Accounted == \A m \in Msgs : Sure(m)

LEMMA InitAccounted == Init => Accounted
  BY DEF Init, Accounted, Sure

LEMMA SenderAccounted ==
  ASSUME TypeOK, Held, Accounted, Remembered, NEW m \in Msgs, Sender(m)
  PROVE  Accounted'
  <1>1. /\ box[m].stage \in {"new", "stored"}
        /\ \A n \in Msgs \ {m} : box'[n] = box[n] /\ sent'[n] = sent[n]
        /\ sent'[m] # sent[m] => box'[m].stage = "gone" \/ "unheard" \in slips'[m]
    <2>1. CASE Enqueue(m) \/ Commit(m) \/ RollBack(m)
      BY <2>1 DEF Enqueue, Commit, RollBack, TypeOK
    <2>2. ASSUME NEW went \in BOOLEAN, NEW raises \in BOOLEAN, SendNow(m, went, raises)
          PROVE  /\ box[m].stage \in {"new", "stored"}
                 /\ \A n \in Msgs \ {m} : box'[n] = box[n] /\ sent'[n] = sent[n]
                 /\ sent'[m] # sent[m] => box'[m].stage = "gone" \/ "unheard" \in slips'[m]
      <3>1. /\ box[m].stage = "new"
            /\ \A n \in Msgs \ {m} : box'[n] = box[n] /\ sent'[n] = sent[n]
        BY <2>2 DEF SendNow, Again, TypeOK
      <3>2. CASE raises
        BY <2>2, <3>1, <3>2 DEF SendNow, Slip
      <3>3. CASE ~raises
        <4>1. box' = [box EXCEPT ![m].stage = "gone"] /\ box[m] \in Row
          BY <2>2, <3>3 DEF SendNow, TypeOK
        <4>2. box'[m].stage = "gone"
          BY <4>1 DEF TypeOK, Row
        <4>3. QED
          BY <3>1, <4>2
      <3>4. QED
        BY <3>2, <3>3
    <2>3. QED
      BY <2>1, <2>2 DEF Sender
  <1>2. \A q \in Procs : SameHand(q)
    <2>1. \A q \in Procs : worker[q] \in Worker
      BY DEF TypeOK
    <2>2. \/ worker' = worker
          \/ worker' = [worker EXCEPT ![box[m].by].wake = worker[box[m].by].step # "down"]
      BY DEF Sender, Enqueue, Commit, RollBack, SendNow
    <2>3. QED
      BY <2>1, <2>2 DEF SameHand, TypeOK, Worker
  <1>3. \A q \in Procs, n \in Msgs : Sending(q, n) => Sending(q, n)'
    BY <1>2 DEF SameHand, Sending
  <1>4. \A n \in Msgs \ {m} : Sure(n)'
    BY <1>1, <1>3, StaysLoose DEF Accounted, Sure, Remembered
  <1>5. Sure(m)'
    <2>1. \A q \in Procs : ~Sending(q, m)
      BY <1>1, HandsOf DEF Sending, Copies
    <2>2. QED
      BY <1>1, <2>1, StaysLoose DEF Accounted, Sure, Remembered
  <1>6. QED
    BY <1>4, <1>5 DEF Accounted

LEMMA PassAccounted ==
  ASSUME TypeOK, Held, Lone, AllHanded, Accounted, Remembered, NEW p \in Procs, PassStep(p)
  PROVE  Accounted'
  <1>1. Effect(p) /\ \A q \in Procs \ {p} : SameHand(q)
    BY PassEffect, PassHanded DEF AllHanded
  (* What is in the hand of another pass stays there. *)
  <1>2. ASSUME NEW m \in Msgs, Same(m) \/ Faded(m),
               worker[p].step = "sent" => \A c \in worker[p].cur : c.m # m
        PROVE  Sure(m)'
    <2>1. \A q \in Procs : Sending(q, m) => Sending(q, m)'
      BY <1>1, <1>2 DEF SameHand, Sending
    <2>2. ASSUME Faded(m), m \notin Loose
          PROVE  \A q \in Procs : ~Sending(q, m)
      <3>1. ASSUME NEW q \in Procs, NEW c \in worker[q].cur, worker[q].step = "sent", c.m = m
            PROVE  FALSE
        <4>1. box[m].stage = "pending"
          BY <2>2, <3>1, HandedExists DEF AllHanded
        <4>2. QED
          BY <2>2, <4>1 DEF Faded
      <3>2. QED
        BY <3>1 DEF Sending
    <2>3. CASE Same(m)
      BY <2>1, <2>3, StaysLoose DEF Same, Keeps, Accounted, Sure, Remembered
    <2>4. CASE Faded(m)
      BY <2>2, <2>4, StaysLoose DEF Faded, Accounted, Sure, Remembered
    <2>5. QED
      BY <1>2, <2>3, <2>4
  <1>3. CASE worker[p].step \notin {"failed", "sent"} /\ \A m \in Msgs : Same(m) \/ Faded(m)
    BY <1>2, <1>3 DEF Accounted
  <1>4. ASSUME NEW c \in worker[p].cur, Deed(p, c), c.m \notin Loose
        PROVE  Sure(c.m)'
    <2>0. c.m \in Msgs /\ Sure(c.m) /\ worker[p].cur = {c}
      BY InCur DEF Accounted
    (* Nobody else has it in hand. *)
    <2>1. \A q \in Procs : Sending(q, c.m) => worker[p].step = "sent"
      BY <1>4 DEF Lone, Apart, Copies, Sending
    <2>2. CASE GoesOut(p, c)
      <3>1. Sending(p, c.m)'
        BY <2>2 DEF GoesOut, Sending
      <3>2. QED
        BY <3>1 DEF Sure
    <2>3. CASE StaysIn(p, c)
      BY <2>0, <2>1, <2>3, StaysLoose DEF StaysIn, Keeps, Sure, Remembered
    <2>4. CASE IsPutOff(p, c)
      BY <2>0, <2>1, <2>4, StaysLoose DEF IsPutOff, Sure, Remembered
    <2>5. CASE IsGivenUp(p, c)
      <3>1. box[c.m].stage = "pending"
        BY <1>4, <2>5, HandedExists DEF IsGivenUp, AllHanded
      <3>2. QED
        BY <2>0, <2>1, <2>5, <3>1, StaysLoose DEF IsGivenUp, Sure, Remembered
    <2>6. CASE IsReported(p, c)
      BY <2>0, <2>1, <2>6, StaysLoose DEF IsReported, Keeps, Sure, Remembered
    <2>7. CASE IsRemoved(p, c)
      BY <2>7 DEF IsRemoved, Sure
    <2>8. QED
      BY <1>4, <2>2, <2>3, <2>4, <2>5, <2>6, <2>7 DEF Deed
  <1>5. ASSUME NEW c \in worker[p].cur, \A n \in Msgs \ {c.m} : Same(n),
               c.m \in Loose \/ Deed(p, c)
        PROVE  Accounted'
    <2>1. \A n \in Msgs \ {c.m} : Sure(n)'
      BY <1>2, <1>5, InCur
    <2>2. Sure(c.m)'
      BY <1>4, <1>5, StaysLoose DEF Sure
    <2>3. QED
      BY <2>1, <2>2 DEF Accounted
  <1>6. QED
    BY <1>1, <1>3, <1>5 DEF Effect

LEMMA OtherAccounted ==
  ASSUME TypeOK, Held, Accounted, Remembered,
         \/ \E p \in Procs : Die(p) \/ Restart(p) \/ LoseDatabase(p)
         \/ \E p \in Procs, revived \in SUBSET GivenUp : RetryEmails(p, revived)
         \/ Tick
  PROVE  Accounted'
  <1>0. /\ \A m \in Msgs : box[m] \in Row
        /\ \A q \in Procs : worker[q] \in Worker
    BY DEF TypeOK
  <1>1. ASSUME NEW p \in Procs, Die(p) \/ Restart(p) \/ LoseDatabase(p), NEW m \in Msgs
        PROVE  Sure(m)'
    <2>1. sent' = sent /\ (box[m].stage = "gone" => box'[m].stage = "gone")
      BY <1>1 DEF Die, Restart, LoseDatabase
    <2>2. \A q \in Procs \ {p} : Sending(q, m) => Sending(q, m)'
      BY <1>1 DEF Die, Restart, LoseDatabase, Sending, TypeOK
    <2>3. Sending(p, m) => "unheard" \in slips'[m]
      <3>1. CASE Restart(p)
        BY <3>1 DEF Restart, Sending
      <3>2. CASE Die(p) \/ LoseDatabase(p)
        BY <3>2 DEF Die, LoseDatabase, BrokenOff, Sending
      <3>3. QED
        BY <1>1, <3>1, <3>2
    <2>4. QED
      BY <2>1, <2>2, <2>3, StaysLoose DEF Accounted, Sure, Remembered
  <1>2. ASSUME Tick, NEW m \in Msgs
        PROVE  Sure(m)'
    <2>1. sent' = sent /\ box'[m].stage = box[m].stage
      BY <1>0, <1>2 DEF Tick, Row
    <2>2. \A q \in Procs : worker'[q].step = worker[q].step /\ worker'[q].cur = worker[q].cur
      BY <1>0, <1>2 DEF Tick, Worker
    <2>3. \A q \in Procs : Sending(q, m) => Sending(q, m)'
      BY <2>2 DEF Sending
    <2>4. QED
      BY <2>1, <2>3, StaysLoose DEF Accounted, Sure, Remembered
  <1>3. ASSUME NEW p \in Procs, NEW revived \in SUBSET GivenUp, RetryEmails(p, revived),
               NEW m \in Msgs
        PROVE  Sure(m)'
    <2>1. sent' = sent
      BY <1>3 DEF RetryEmails
    <2>2. box[m].stage = "gone" => box'[m].stage = "gone"
      <3>1. box[m].stage = "gone" => m \notin revived
        BY DEF GivenUp
      <3>2. QED
        BY <1>3, <3>1 DEF RetryEmails
    <2>3. \A q \in Procs : Sending(q, m) => m \in Loose'
      <3>1. ASSUME NEW q \in Procs, Sending(q, m)
            PROVE  m \in Loose'
        <4>1. m \in UNION {InHand(r) : r \in Procs}
          BY <3>1 DEF Sending, InHand
        <4>2. QED
          BY <1>3, <4>1 DEF RetryEmails, Slip, Loose
      <3>2. QED
        BY <3>1
    <2>4. QED
      BY <2>1, <2>2, <2>3, StaysLoose DEF Accounted, Sure, Remembered
  <1>4. QED
    BY <1>1, <1>2, <1>3 DEF Accounted

LEMMA NextAccounted ==
  ASSUME TypeOK, Held, Lone, AllHanded, Accounted, [Next]_vars
  PROVE  Accounted'
  <1>1. CASE UNCHANGED vars
    BY <1>1 DEF vars, Accounted, Sure, Loose, Sending
  <1>2. Remembered
    BY HistoryGrows
  <1>3. QED
    BY <1>1, <1>2, SenderAccounted, PassAccounted, OtherAccounted DEF Next

(* Only a report tells of a failure. *)
LEMMA ToldByReport ==
  ASSUME TypeOK, Held, [Next]_vars, NEW m \in Msgs, "failed" \in bell'[m] \ bell[m]
  PROVE  /\ sent'[m] = sent[m]
         /\ \E p \in Procs : worker[p].step = "report" /\ \E c \in worker[p].cur : c.m = m
  <1>1. ~UNCHANGED vars
    BY DEF vars
  <1>2. \A n \in Msgs : ~Sender(n)
    BY DEF Sender, Enqueue, Commit, RollBack, SendNow
  <1>3. ~Tick /\ \A p \in Procs : /\ ~(Die(p) \/ Restart(p) \/ LoseDatabase(p))
                                 /\ \A revived \in SUBSET GivenUp : ~RetryEmails(p, revived)
    BY DEF Tick, Die, Restart, LoseDatabase, RetryEmails
  <1>4. PICK p \in Procs : PassStep(p)
    BY <1>1, <1>2, <1>3 DEF Next
  <1>5. ~(BeginPass(p) \/ Claim(p) \/ NextBatch(p) \/ Rest(p))
        /\ \A c \in worker[p].batch : ~Attempt(p, c)
    BY DEF BeginPass, Claim, NextBatch, Rest, Attempt
  <1>6. PICK c \in worker[p].cur :
          \/ Delivered(p, c) \/ Refused(p, c)
          \/ \E went, stuck \in BOOLEAN : Fails(p, c, went, stuck)
          \/ PutOff(p, c) \/ GiveUp(p, c) \/ Report(p, c) \/ Remove(p, c)
    BY <1>4, <1>5 DEF PassStep
  <1>7. c.m \in Msgs
    BY InCur
  <1>8. ~(Delivered(p, c) \/ Refused(p, c) \/ PutOff(p, c) \/ GiveUp(p, c))
    BY DEF Delivered, Refused, PutOff, GiveUp
  <1>9. \A went, stuck \in BOOLEAN : ~Fails(p, c, went, stuck)
    <2>1. SUFFICES ASSUME NEW went \in BOOLEAN, NEW stuck \in BOOLEAN, Fails(p, c, went, stuck)
                   PROVE  FALSE
      OBVIOUS
    <2>2. bell' = [bell EXCEPT ![c.m] = @ \cup {"delayed"}] \/ bell' = bell
      BY <2>1 DEF Fails
    <2>3. QED
      BY <1>7, <2>2 DEF TypeOK
  <1>10. ~Remove(p, c)
    <2>1. SUFFICES ASSUME Remove(p, c)
                   PROVE  FALSE
      OBVIOUS
    <2>2. bell' = [bell EXCEPT ![c.m] = @ \cup {"late"}] \/ bell' = bell
      BY <2>1 DEF Remove
    <2>3. QED
      BY <1>7, <2>2 DEF TypeOK
  <1>11. Report(p, c)
    BY <1>6, <1>8, <1>9, <1>10
  <1>12. c.m = m
    BY <1>7, <1>11 DEF Report, TypeOK
  <1>13. QED
    BY <1>11, <1>12 DEF Report

(* Nobody is told that a message could not be delivered which has gone     *)
(* out, unless its answer was lost, a pass was broken off between the send *)
(* and the delete, or two had it in hand: whatever else dies, and however  *)
(* long a pass takes.                                                      *)
THEOREM NothingSentIsGivenUp == Spec => NoFalseAlarm
  <1>1. TypeOK /\ Held /\ Lone /\ AllHanded /\ Accounted /\ [Next]_vars => Accounted'
    BY NextAccounted
  <1>2. TypeOK /\ Held /\ Lone /\ AllHanded /\ Accounted /\ [Next]_vars =>
          [\A m \in Msgs :
             "failed" \in bell'[m] \ bell[m] =>
               sent[m] = 0 \/ slips[m] \cap {"loose", "unheard"} # {}]_vars
    <2>1. SUFFICES ASSUME TypeOK, Held, Lone, AllHanded, Accounted, [Next]_vars,
                          NEW m \in Msgs, "failed" \in bell'[m] \ bell[m],
                          "loose" \notin slips[m], "unheard" \notin slips[m]
                   PROVE  sent[m] = 0
      OBVIOUS
    <2>2. PICK p \in Procs : worker[p].step = "report" /\ \E c \in worker[p].cur : c.m = m
      BY <2>1, ToldByReport
    <2>3. m \notin Loose
      BY <2>1 DEF Loose
    <2>4. box[m].stage \in {"failed", "forgotten"}
      BY <2>1, <2>2, <2>3 DEF AllHanded, Handed, Copies
    <2>5. ASSUME NEW q \in Procs, NEW c \in worker[q].cur, worker[q].step = "sent", c.m = m
          PROVE  FALSE
      BY <2>1, <2>3, <2>4, <2>5, HandedExists DEF AllHanded
    <2>6. QED
      BY <2>1, <2>3, <2>4, <2>5 DEF Accounted, Sure, Sending
  <1>3. QED
    BY <1>1, <1>2, InitAccounted, AlwaysHanded, PTL DEF Spec, NoFalseAlarm

-----------------------------------------------------------------------------
(***************************************************************************)
(* No message is slept past, until something goes down or a lease is lost: *)
(* no pass is cut short, since the row in hand exists, and a wait is       *)
(* chosen after a look at the table, or ended by the commit that changes   *)
(* it.                                                                     *)
(***************************************************************************)
Calm == faults = 0 /\ \A m \in Msgs : "loose" \notin slips[m]

Up == Calm => \A p \in Procs : worker[p].step # "down"

LEMMA StaysCalm ==
  ASSUME TypeOK, [Next]_vars, Calm'
  PROVE  Calm /\ Remembered
  <1>1. Remembered
    BY HistoryGrows
  <1>2. faults \in Nat /\ (faults' = faults \/ faults' = faults + 1)
    <2>1. CASE UNCHANGED vars
      BY <2>1, TimesAssumption DEF vars, TypeOK
    <2>2. CASE Next
      <3>1. \A m \in Msgs : Sender(m) => faults' = faults
        BY DEF Sender, Enqueue, Commit, RollBack, SendNow
      <3>2. \A p \in Procs : PassStep(p) => faults' = faults
        <4>1. SUFFICES ASSUME NEW p \in Procs, PassStep(p)
                       PROVE  faults' = faults
          OBVIOUS
        <4>2. BeginPass(p) \/ Claim(p) \/ NextBatch(p) \/ Rest(p) => faults' = faults
          BY DEF BeginPass, Claim, NextBatch, Rest
        <4>3. \A c \in worker[p].batch : Attempt(p, c) => faults' = faults
          BY DEF Attempt
        <4>4. \A c \in worker[p].cur :
                Delivered(p, c) \/ Refused(p, c) \/ PutOff(p, c) \/ GiveUp(p, c)
                \/ Report(p, c) \/ Remove(p, c) => faults' = faults
          BY DEF Delivered, Refused, PutOff, GiveUp, Report, Remove
        <4>5. \A c \in worker[p].cur : \A went, stuck \in BOOLEAN :
                Fails(p, c, went, stuck) => faults' = faults
          BY DEF Fails
        <4>6. QED
          BY <4>1, <4>2, <4>3, <4>4, <4>5 DEF PassStep
      <3>3. \A p \in Procs : Die(p) \/ LoseDatabase(p) => faults' = faults + 1
        BY DEF Die, LoseDatabase
      <3>4. /\ Tick => faults' = faults
            /\ \A p \in Procs : /\ Restart(p) => faults' = faults
                               /\ \A revived : RetryEmails(p, revived) => faults' = faults
        BY DEF Tick, Restart, RetryEmails
      <3>5. faults \in Nat
        BY TimesAssumption DEF TypeOK
      <3>6. QED
        BY <2>2, <3>1, <3>2, <3>3, <3>4, <3>5 DEF Next
    <2>3. QED
      BY <2>1, <2>2
  <1>3. QED
    BY <1>1, <1>2 DEF Calm, Remembered

(* Who looks after a message. *)
Minds(p, m) ==
  \/ InPass(p)
  \/ worker[p].step = "nap" /\ (worker[p].wake \/ worker[p].nap <= Most(0, box[m].due))

LEMMA InitAttended ==
  ASSUME Shells = {}
  PROVE  Init => Up /\ Attended
  <1>1. Init => Up
    BY DEF Init, Up, Asleep, Procs
  <1>2. Init => Waiting = {}
    BY DEF Init, Waiting, Blank
  <1>3. QED
    BY <1>1, <1>2 DEF Attended

LEMMA SenderAttended ==
  ASSUME TypeOK, Up, Attended, Calm, Calm', NEW m \in Msgs, Sender(m)
  PROVE  Up' /\ Attended'
  <1>0. \A q \in Procs : worker[q] \in Worker
    BY DEF TypeOK
  <1>1. box[m].by \in Procs /\ box[m] \in Row
    BY DEF TypeOK, Row
  <1>2. CASE Commit(m)
    <2>1. \A n \in Msgs \ {m} : box'[n] = box[n]
      BY <1>2 DEF Commit, TypeOK
    <2>2. \A q \in Procs : /\ worker'[q].step = worker[q].step /\ worker'[q].nap = worker[q].nap
                           /\ q # box[m].by => worker'[q].wake = worker[q].wake
                           /\ q = box[m].by => worker'[q].wake = TRUE
      BY <1>0, <1>1, <1>2 DEF Commit, TypeOK, Worker, Up, Calm
    <2>3. \A q \in Procs : worker[q].wake => worker'[q].wake
      BY <2>2
    <2>4. ASSUME NEW n \in Waiting'
          PROVE  \E q \in Procs : Minds(q, n)'
      <3>1. CASE n = m
        <4>1. PICK b \in Procs : b = box[m].by
          BY <1>1
        <4>2. worker'[b].wake /\ worker'[b].step # "down"
          BY <2>2, <4>1 DEF Up, Calm
        <4>3. Minds(b, n)'
          BY <4>2 DEF Minds, InPass
        <4>4. QED
          BY <4>3
      <3>2. CASE n # m
        <4>1. n \in Waiting /\ box'[n] = box[n]
          BY <2>1, <2>4, <3>2 DEF Waiting
        <4>2. PICK q \in Procs : Minds(q, n)
          BY <4>1 DEF Attended, Minds, Calm
        <4>3. Minds(q, n)'
          BY <2>2, <2>3, <4>1, <4>2 DEF Minds, InPass
        <4>4. QED
          BY <4>3
      <3>3. QED
        BY <3>1, <3>2
    <2>5. QED
      BY <2>2, <2>4 DEF Up, Attended, Minds, Calm
  <1>3. CASE ~Commit(m)
    <2>1. worker' = worker
      BY <1>3 DEF Sender, Enqueue, RollBack, SendNow
    <2>2. box'[m].stage # "pending" /\ \A n \in Msgs \ {m} : box'[n] = box[n]
      <3>1. CASE Enqueue(m) \/ RollBack(m)
        BY <1>1, <3>1 DEF Enqueue, RollBack, Blank, TypeOK, Row
      <3>2. ASSUME NEW went \in BOOLEAN, NEW raises \in BOOLEAN, SendNow(m, went, raises)
            PROVE  box'[m].stage # "pending" /\ \A n \in Msgs \ {m} : box'[n] = box[n]
        <4>1. \A stage \in {"gone", "refused"} : [box[m] EXCEPT !.stage = stage].stage = stage
          BY <1>1 DEF Row
        <4>2. [box[m] EXCEPT !.stage = "stored", !.tries = 1, !.due = DelayAfter(1),
                             !.life = MaxAge].stage = "stored"
          BY <1>1 DEF Row
        <4>3. \E r : box' = [box EXCEPT ![m] = r] /\ r.stage # "pending"
          BY <3>2, <4>1, <4>2 DEF SendNow
        <4>4. QED
          BY <4>3 DEF TypeOK
      <3>3. QED
        BY <1>3, <3>1, <3>2 DEF Sender
    <2>3. \A n \in Waiting' : n \in Waiting /\ box'[n] = box[n]
      BY <2>2 DEF Waiting
    <2>4. QED
      BY <2>1, <2>3 DEF Up, Attended, InPass, Calm
  <1>4. QED
    BY <1>2, <1>3

LEMMA PassAttended ==
  ASSUME Shells = {}, TypeOK, Held, AllHanded, Up, Attended, Calm, Calm',
         NEW p \in Procs, PassStep(p)
  PROVE  Up' /\ Attended'
  <1>0. worker[p] \in Worker /\ p \in Servers
    BY DEF TypeOK, Procs
  <1>1. \A q \in Procs \ {p} : worker'[q] = worker[q]
    <2>1. \E w : worker' = [worker EXCEPT ![p] = w]
      BY DEF PassStep, BeginPass, Claim, NextBatch, Rest, Attempt, Delivered, Refused,
             Fails, PutOff, GiveUp, Report, Remove
    <2>2. QED
      BY <2>1 DEF TypeOK
  <1>2. CASE Rest(p)
    <2>1. PICK n \in 0..Idle :
            /\ \A m \in Waiting : n <= Most(0, box[m].due)
            /\ worker' = [worker EXCEPT ![p] = IF p \in Servers
                                               THEN [Asleep(n) EXCEPT !.wake = worker[p].wake]
                                               ELSE Down]
      BY <1>2 DEF Rest
    <2>2. worker'[p].step = "nap" /\ worker'[p].nap = n
      BY <1>0, <2>1 DEF Asleep, TypeOK
    <2>3. box' = box
      BY <1>2 DEF Rest
    <2>4. \A m \in Waiting' : Minds(p, m)'
      BY <2>1, <2>2, <2>3 DEF Minds, Waiting
    <2>5. QED
      BY <1>1, <2>2, <2>4 DEF Up, Attended, Minds, Calm
  <1>3. CASE ~Rest(p)
    <2>1. InPass(p)'
      <3>1. CASE BeginPass(p) \/ Claim(p) \/ NextBatch(p) \/ \E c \in worker[p].batch : Attempt(p, c)
        <4>1. CASE BeginPass(p)
          BY <4>1 DEF BeginPass, Asleep, InPass, TypeOK
        <4>2. CASE Claim(p)
          <5>1. PICK S \in SUBSET DueFor(p) :
                  worker' = [worker EXCEPT ![p].step = IF S = {} THEN "rest" ELSE "work",
                                           ![p].batch = {CopyOf(p, m) : m \in S},
                                           ![p].full = Cardinality(S) = Batch]
            BY <4>2 DEF Claim
          <5>2. worker'[p].step \in {"rest", "work"}
            BY <1>0, <5>1 DEF TypeOK, Worker
          <5>3. QED
            BY <5>2 DEF InPass
        <4>3. CASE NextBatch(p)
          BY <1>0, <4>3 DEF NextBatch, InPass, TypeOK, Worker
        <4>4. ASSUME NEW c \in worker[p].batch, Attempt(p, c)
              PROVE  InPass(p)'
          BY <1>0, <4>4 DEF Attempt, InPass, TypeOK, Worker
        <4>5. QED
          BY <3>1, <4>1, <4>2, <4>3, <4>4
      <3>2. ASSUME NEW c \in worker[p].cur,
                   Delivered(p, c) \/ Refused(p, c) \/ Report(p, c) \/ Remove(p, c)
            PROVE  InPass(p)'
        BY <1>0, <3>2 DEF Delivered, Refused, Report, Remove, InPass, TypeOK, Worker
      <3>3. ASSUME NEW c \in worker[p].cur, NEW went \in BOOLEAN, NEW stuck \in BOOLEAN,
                   Fails(p, c, went, stuck)
            PROVE  InPass(p)'
        BY <1>0, <3>3 DEF Fails, InPass, TypeOK, Worker
      (* The row in hand exists. *)
      <3>4. ASSUME NEW c \in worker[p].cur, PutOff(p, c) \/ GiveUp(p, c)
            PROVE  InPass(p)'
        <4>1. Exists(c.m)
          <5>1. c.m \notin Loose /\ worker[p].step # "report"
            BY <3>4, InCur DEF Calm, Loose, PutOff, GiveUp
          <5>2. QED
            BY <3>4, <5>1, HandedExists DEF AllHanded
        <4>2. \/ worker' = [worker EXCEPT ![p].step = "work", ![p].cur = {}]
              \/ worker' = [worker EXCEPT ![p].step = "report"]
          BY <3>4, <4>1, Zenon DEF PutOff, GiveUp
        <4>3. QED
          BY <1>0, <4>2 DEF InPass, TypeOK, Worker
      <3>5. QED
        BY <1>3, <3>1, <3>2, <3>3, <3>4 DEF PassStep
    <2>2. QED
      BY <1>1, <2>1 DEF Up, Attended, InPass, Calm
  <1>4. QED
    BY <1>2, <1>3

LEMMA TickAttended ==
  ASSUME TypeOK, Up, Attended, Calm, Calm', Tick
  PROVE  Up' /\ Attended'
  <1>1. ASSUME NEW q \in Procs
        PROVE  /\ worker'[q].step = worker[q].step /\ worker'[q].wake = worker[q].wake
               /\ ~InPass(q) => worker'[q].nap = Most(0, worker[q].nap - 1)
               /\ worker[q].nap \in Nat
    <2>1. worker[q] \in Worker
      BY DEF TypeOK
    <2>2. QED
      BY <2>1 DEF Tick, Worker
  <1>2. ASSUME NEW m \in Waiting'
        PROVE  \E q \in Procs : Minds(q, m)'
    <2>1. m \in Msgs /\ box[m] \in Row
      BY <1>2 DEF Waiting, TypeOK
    <2>2. m \in Waiting /\ box'[m].due = Earlier(box[m].due) /\ box[m].due \in Int
      BY <1>2, <2>1 DEF Tick, Waiting, Row
    <2>3. PICK q \in Procs : Minds(q, m)
      BY <2>2 DEF Attended, Minds, Calm
    <2>4. worker[q].nap <= Most(0, box[m].due) =>
            Most(0, worker[q].nap - 1) <= Most(0, Earlier(box[m].due))
      BY <1>1, <2>2, TimesAssumption DEF Most, Earlier
    <2>5. Minds(q, m)'
      BY <1>1, <2>2, <2>3, <2>4 DEF Minds, InPass
    <2>6. QED
      BY <2>5
  <1>3. QED
    BY <1>1, <1>2 DEF Up, Attended, Minds, Calm

LEMMA NextAttended ==
  ASSUME Shells = {}, TypeOK, Held, AllHanded, Up, Attended, [Next]_vars
  PROVE  Up' /\ Attended'
  <1>1. CASE UNCHANGED vars
    BY <1>1 DEF vars, Up, Attended, InPass, Waiting, Calm
  <1>2. \A p \in Procs : \A revived : ~RetryEmails(p, revived)
    BY DEF RetryEmails
  <1>3. CASE Next /\ Calm'
    <2>1. Calm
      BY <1>3, StaysCalm
    <2>2. \A p \in Procs : ~Restart(p) /\ ~Die(p) /\ ~LoseDatabase(p)
      BY <1>3, <2>1 DEF Restart, Die, LoseDatabase, Up, Calm
    <2>3. QED
      BY <1>2, <1>3, <2>1, <2>2, SenderAttended, PassAttended, TickAttended DEF Next
  <1>4. CASE ~Calm'
    BY <1>4 DEF Up, Attended, Calm
  <1>5. QED
    BY <1>1, <1>3, <1>4

(* While nobody runs the command, no worker sleeps past a message that     *)
(* waits, until a process dies, a pass loses the database or outlives its  *)
(* lease.                                                                  *)
THEOREM NoMessageSleptPast ==
  ASSUME Shells = {}
  PROVE  Spec => []Attended
  <1>1. TypeOK /\ Held /\ AllHanded /\ Up /\ Attended /\ [Next]_vars => (Up /\ Attended)'
    BY NextAttended
  <1>2. QED
    BY <1>1, InitAttended, AlwaysHanded, PTL DEF Spec

=============================================================================
