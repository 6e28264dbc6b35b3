-------------------------- MODULE DailyJobsProofs --------------------------
(***************************************************************************)
(* A job is never run twice for one key, for any number of servers, jobs   *)
(* and upsets: the row of DailyJobRun is the lock, and only who inserted   *)
(* it takes it away.  A claim is left behind by a death or a lost database *)
(* alone; and, where one server is never switched off and the day is long  *)
(* enough, a day's job is lost by such a claim alone.  With a server that  *)
(* is never switched off, sweeps and backups come in time.                 *)
(***************************************************************************)
EXTENDS DailyJobs, FiniteSetTheorems, TLAPS

(* Whoever works on a job holds its claim, unfinished, and alone. *)
Holder(s) ==
  HoldsKey(s) => /\ worker[s].key \in claimed \ finished
                 /\ worker[s].next <= Len(Jobs)

Alone ==
  \A s, t \in Servers :
    s # t /\ HoldsKey(s) /\ HoldsKey(t) => worker[s].key # worker[t].key

IInv == TypeOK /\ (\A s \in Servers : Holder(s)) /\ Alone

-----------------------------------------------------------------------------
LEMMA SlotNear ==
  ASSUME NEW t \in Nat, NEW c \in Int, NEW p \in Nat \ {0}
  PROVE  /\ (t - c) % p \in Int /\ t - ((t - c) % p) \in Int
         /\ t - ((t - c) % p) + p \in Nat
  BY SMT

LEMMA DayNat ==
  ASSUME NEW t \in Nat, NEW d \in Nat \ {0}
  PROVE  t \div d \in Nat
  BY SMT

LEMMA InDay ==
  ASSUME NEW t \in Nat, NEW d \in Nat \ {0}, NEW h \in Nat \ {0}
  PROVE  (t % d) \div h \in Nat
  BY SMT

LEMMA KeyTyped ==
  ASSUME TypeOK, NEW s \in Servers, NEW job \in JobNames
  PROVE  KeyOf(s, job) \in Keys
  <1>1. worker[s].day \in Nat
    BY DEF TypeOK, Worker
  <1>2. Slot(now) \in Int \cup {Off}
    <2>1. CASE clock = Off
      BY <2>1 DEF Slot
    <2>2. CASE clock # Off
      <3>1. clock \in Int
        BY <2>2, TimesAssumption DEF TypeOK
      <3>2. now - ((now - clock) % Period) \in Int
        BY <3>1, SlotNear, TimesAssumption DEF TypeOK
      <3> QED BY <2>2, <3>2 DEF Slot
    <2> QED BY <2>1, <2>2
  <1>3. HourOf(now) \in Nat
    BY InDay, TimesAssumption DEF TypeOK, HourOf
  <1>4. (IF job = Backup THEN s ELSE Everyone) \in Servers \cup {Everyone}
    OBVIOUS
  <1>5. (IF job = Backup THEN Slot(now) ELSE IF job \in Hourly THEN HourOf(now) ELSE 0)
          \in Int \cup {Off}
    BY <1>2, <1>3
  <1> QED BY <1>1, <1>4, <1>5 DEF KeyOf, Keys

LEMMA NextPassTyped ==
  ASSUME TypeOK PROVE NextPass \in Nat
  <1>1. now \in Nat /\ Hour \in Nat
    BY TimesAssumption DEF TypeOK
  <1>2. CASE clock = Off
    BY <1>1, <1>2 DEF NextPass
  <1>3. CASE clock # Off
    <2>1. clock \in Int
      BY <1>3, TimesAssumption DEF TypeOK
    <2>2. Slot(now) + Period \in Nat
      BY <1>1, <1>3, <2>1, SlotNear, TimesAssumption DEF Slot
    <2> QED BY <1>1, <2>2 DEF NextPass
  <1> QED BY <1>2, <1>3

LEMMA FreshTyped ==
  ASSUME NEW pc \in PCs, NEW t \in Nat
  PROVE  Fresh(pc, t) \in Worker
  <1>1. Len(Jobs) \in Nat
    BY JobsAssumption
  <1> QED BY <1>1 DEF Fresh, Worker

(* One thread moves. *)
LEMMA Moves ==
  ASSUME TypeOK, NEW s \in Servers, NEW r \in Worker,
         worker' = [worker EXCEPT ![s] = r]
  PROVE  /\ worker' \in [Servers -> Worker]
         /\ worker'[s] = r
         /\ \A t \in Servers \ {s} : worker'[t] = worker[t]
  BY DEF TypeOK

(* A thread that holds no key leaves what the others hold as it was, when  *)
(* no claim goes and nothing is finished.                                  *)
LEMMA Released ==
  ASSUME IInv, NEW s \in Servers, NEW r \in Worker,
         worker' = [worker EXCEPT ![s] = r],
         r.pc \in {"off", "asleep", "claim"},
         UNCHANGED <<claimed, finished>>
  PROVE  (\A t \in Servers : Holder(t))' /\ Alone'
  <1>1. /\ worker'[s] = r
        /\ \A t \in Servers \ {s} : worker'[t] = worker[t]
    BY Moves DEF IInv
  <1>2. ~HoldsKey(s)'
    BY <1>1 DEF HoldsKey
  <1>3. ASSUME NEW t \in Servers PROVE Holder(t)'
    <2>1. CASE t = s
      BY <1>2, <2>1 DEF Holder
    <2>2. CASE t # s
      BY <1>1, <2>2 DEF Holder, HoldsKey, IInv
    <2> QED BY <2>1, <2>2
  <1>4. Alone'
    BY <1>1, <1>2 DEF Alone, HoldsKey, IInv
  <1> QED BY <1>3, <1>4

(* A thread goes on with the key it holds. *)
LEMMA HoldsOn ==
  ASSUME IInv, NEW s \in Servers, NEW r \in Worker,
         worker' = [worker EXCEPT ![s] = r],
         HoldsKey(s), r.key = worker[s].key, r.next = worker[s].next,
         UNCHANGED <<claimed, finished>>
  PROVE  (\A t \in Servers : Holder(t))' /\ Alone'
  <1>1. /\ worker'[s] = r
        /\ \A t \in Servers \ {s} : worker'[t] = worker[t]
    BY Moves DEF IInv
  <1>3. ASSUME NEW t \in Servers PROVE Holder(t)'
    <2>1. CASE t = s
      BY <1>1, <2>1 DEF Holder, IInv
    <2>2. CASE t # s
      BY <1>1, <2>2 DEF Holder, HoldsKey, IInv
    <2> QED BY <2>1, <2>2
  <1>4. Alone'
    BY <1>1 DEF Alone, HoldsKey, IInv
  <1> QED BY <1>3, <1>4

-----------------------------------------------------------------------------
LEMMA InitIInv == Init => IInv
  <1> SUFFICES ASSUME Init PROVE IInv
    OBVIOUS
  <1>1. worker \in [Servers -> Worker]
    BY FreshTyped DEF Init, PCs
  <1>2. NoFile \in Int
    BY TimesAssumption DEF NoFile
  <1>3. TypeOK
    BY <1>1, <1>2 DEF Init, TypeOK
  <1>4. \A s \in Servers : ~HoldsKey(s)
    BY DEF Init, Fresh, HoldsKey
  <1> QED BY <1>3, <1>4 DEF IInv, Holder, Alone

(* A thread wakes, sleeps, passes a job over, or its server comes or goes. *)
LEMMA FreeStep ==
  ASSUME IInv, NEW s \in Servers, NEW r \in Worker,
         worker' = [worker EXCEPT ![s] = r],
         r.pc \in {"off", "asleep", "claim"},
         fails' \in Nat, faults' \in Nat,
         UNCHANGED <<now, clock, moved, claimed, finished, newest, swept, moves>>
  PROVE  IInv'
  <1>1. TypeOK'
    BY Moves DEF IInv, TypeOK
  <1> QED BY <1>1, Released DEF IInv

LEMMA WakeInv == ASSUME IInv, NEW s \in Servers, Wake(s) PROVE IInv'
  <1> DEFINE r == [Fresh("claim", 0) EXCEPT !.day = Day(now), !.began = now]
  <1>1. now \in Nat /\ Day(now) \in Nat
    BY DayNat, TimesAssumption DEF IInv, TypeOK, Day
  <1>2. Fresh("claim", 0) \in Worker
    BY FreshTyped DEF PCs
  <1>3. r \in Worker /\ r.pc = "claim"
    BY <1>1, <1>2 DEF Worker, Fresh
  <1>4. worker' = [worker EXCEPT ![s] = r]
    BY DEF Wake
  <1> QED BY <1>3, <1>4, FreeStep DEF Wake, IInv, TypeOK

(* The schedule is saved: a thread is woken where it is. *)
LEMMA SaveInv ==
  ASSUME IInv, NEW s \in Servers, NEW c \in Clocks \cup {Off}, SaveSchedule(s, c)
  PROVE  IInv'
  <1> DEFINE r == [worker[s] EXCEPT !.wake = TRUE]
  <1>1. r \in Worker /\ r.pc = worker[s].pc /\ r.key = worker[s].key /\ r.next = worker[s].next
    BY DEF IInv, TypeOK, Worker
  <1>2. worker' = [worker EXCEPT ![s] = r]
    BY DEF SaveSchedule, IInv, TypeOK
  <1>3. TypeOK'
    BY <1>1, <1>2, Moves DEF SaveSchedule, IInv, TypeOK
  <1>4. UNCHANGED <<claimed, finished>>
    BY DEF SaveSchedule
  <1>5. CASE HoldsKey(s)
    BY <1>1, <1>2, <1>3, <1>4, <1>5, HoldsOn DEF IInv
  <1>6. CASE ~HoldsKey(s)
    <2>1. r.pc \in {"off", "asleep", "claim"}
      BY <1>1, <1>6 DEF HoldsKey, IInv, TypeOK, Worker, PCs
    <2> QED BY <1>1, <1>2, <1>3, <1>4, <2>1, Released DEF IInv
  <1> QED BY <1>5, <1>6

LEMMA ClaimInv == ASSUME IInv, NEW s \in Servers, Claim(s) PROVE IInv'
  <1> DEFINE job == Jobs[worker[s].next]
             k == KeyOf(s, job)
  <1>1. worker[s] \in Worker /\ worker[s].next \in 1..Len(Jobs) /\ Len(Jobs) \in Nat
    BY JobsAssumption DEF Claim, IInv, TypeOK, Worker
  <1>2. job \in JobNames
    BY <1>1 DEF JobNames
  <1>3. k \in Keys
    BY <1>2, KeyTyped DEF IInv
  <1>4. CASE <<s, job>> \in Skipped \/ k \in claimed
    <2> DEFINE r == [worker[s] EXCEPT !.next = @ + 1]
    <2>1. r \in Worker /\ r.pc = "claim"
      BY <1>1 DEF Worker, Claim
    <2>2. worker' = [worker EXCEPT ![s] = r] /\ UNCHANGED claimed
      BY <1>4 DEF Claim, IInv, TypeOK
    <2> QED BY <2>1, <2>2, FreeStep DEF Claim, IInv, TypeOK
  <1>5. CASE ~(<<s, job>> \in Skipped \/ k \in claimed)
    <2> DEFINE r == [worker[s] EXCEPT !.pc = "work", !.key = k]
    <2>1. r \in Worker /\ r.pc = "work" /\ r.key = k /\ r.next = worker[s].next
      BY <1>1, <1>3 DEF Worker, PCs
    <2>2. worker' = [worker EXCEPT ![s] = r] /\ claimed' = claimed \cup {k}
      BY <1>5 DEF Claim, IInv, TypeOK
    <2>3. /\ worker'[s] = r
          /\ \A t \in Servers \ {s} : worker'[t] = worker[t]
      BY <2>1, <2>2, Moves DEF IInv
    <2>4. TypeOK'
      BY <1>3, <2>1, <2>2, Moves DEF Claim, IInv, TypeOK
    <2>5. k \notin claimed /\ finished' = finished /\ finished \subseteq claimed
      BY <1>5 DEF Claim, IInv, TypeOK
    <2>6. ASSUME NEW t \in Servers PROVE Holder(t)'
      <3>1. CASE t = s
        <4>1. worker'[t].key = k /\ worker'[t].next = worker[s].next
          BY <2>1, <2>3, <3>1
        <4>3. worker[s].next <= Len(Jobs)
          BY <1>1
        <4>2. k \in claimed' \ finished'
          BY <2>2, <2>5
        <4> QED BY <4>1, <4>2, <4>3 DEF Holder
      <3>2. CASE t # s
        <4>1. worker'[t] = worker[t] /\ Holder(t)
          BY <2>3, <3>2 DEF IInv
        <4>2. HoldsKey(t)' => HoldsKey(t)
          BY <4>1 DEF HoldsKey
        <4> QED BY <2>2, <2>5, <4>1, <4>2 DEF Holder
      <3> QED BY <3>1, <3>2
    <2>7. ASSUME NEW t \in Servers \ {s}, HoldsKey(t)'
          PROVE  HoldsKey(t) /\ worker'[t] = worker[t] /\ worker'[t].key # k
      <3>1. worker'[t] = worker[t]
        BY <2>3
      <3>2. HoldsKey(t)
        BY <2>7, <3>1 DEF HoldsKey
      <3>3. worker[t].key \in claimed
        BY <3>2 DEF IInv, Holder
      <3> QED BY <2>5, <3>1, <3>2, <3>3
    <2>8. Alone'
      <3>1. SUFFICES ASSUME NEW t \in Servers, NEW u \in Servers, t # u,
                            HoldsKey(t)', HoldsKey(u)'
                     PROVE  worker'[t].key # worker'[u].key
        BY DEF Alone
      <3>2. CASE t = s
        BY <2>1, <2>3, <2>7, <3>1, <3>2
      <3>3. CASE u = s
        BY <2>1, <2>3, <2>7, <3>1, <3>3
      <3>4. CASE t # s /\ u # s
        BY <2>7, <3>1, <3>4 DEF Alone, IInv
      <3> QED BY <3>2, <3>3, <3>4
    <2> QED BY <2>4, <2>6, <2>8 DEF IInv
  <1> QED BY <1>4, <1>5

(* The job runs, fails, or its backup is looked at or written.             *)
LEMMA WorkInv ==
  ASSUME IInv, NEW s \in Servers, Fail(s) \/ Run(s) \/ BackUp(s) \/ WriteBackup(s)
  PROVE  IInv'
  <1>1. PICK pc \in {"write", "done", "undone"} : worker' = [worker EXCEPT ![s].pc = pc]
    <2>1. CASE Fail(s)
      BY <2>1 DEF Fail, Goto
    <2>2. CASE Run(s)
      BY <2>2 DEF Run, Goto
    <2>3. CASE BackUp(s)
      BY <2>3 DEF BackUp
    <2>4. CASE WriteBackup(s)
      BY <2>4 DEF WriteBackup, Goto
    <2> QED BY <2>1, <2>2, <2>3, <2>4
  <1> DEFINE r == [worker[s] EXCEPT !.pc = pc]
  <1>2. r \in Worker /\ r.key = worker[s].key /\ r.next = worker[s].next
    BY DEF IInv, TypeOK, Worker, PCs
  <1>3. worker' = [worker EXCEPT ![s] = r]
    BY <1>1 DEF IInv, TypeOK
  <1>4. HoldsKey(s) /\ UNCHANGED <<now, clock, moved, claimed, finished, moves>>
    BY DEF HoldsKey, Fail, Run, BackUp, WriteBackup
  <1>5. newest' \in [Servers -> Int] /\ swept' \in [Hourly -> Nat]
    BY DEF Fail, Run, BackUp, WriteBackup, IInv, TypeOK
  <1>6. fails' \in Nat /\ faults' \in Nat
    BY DEF Fail, Run, BackUp, WriteBackup, IInv, TypeOK
  <1>7. TypeOK'
    BY <1>2, <1>3, <1>4, <1>5, <1>6, Moves DEF IInv, TypeOK
  <1> QED BY <1>2, <1>3, <1>4, <1>7, HoldsOn DEF IInv

(* The key is let go of: finished, or its claim given back; it is nobody   *)
(* else's.                                                                 *)
LEMMA SettleInv == ASSUME IInv, NEW s \in Servers, Settle(s) PROVE IInv'
  <1> DEFINE r == [worker[s] EXCEPT !.pc = "claim", !.key = NoKey, !.next = @ + 1]
             k == worker[s].key
  <1>1. HoldsKey(s)
    BY DEF Settle, HoldsKey
  <1>2. k \in claimed \ finished /\ worker[s].next <= Len(Jobs) /\ worker[s] \in Worker
    BY <1>1 DEF IInv, Holder, TypeOK
  <1>3. r \in Worker /\ r.pc = "claim"
    <2>1. worker[s].next + 1 \in 1..(Len(Jobs) + 1)
      BY <1>2, JobsAssumption DEF Worker
    <2>2. \A n \in 1..(Len(Jobs) + 1) :
            [worker[s] EXCEPT !.pc = "claim", !.key = NoKey, !.next = n] \in Worker
      BY <1>2 DEF Worker, PCs
    <2>3. r \in Worker
      BY <2>1, <2>2
    <2> QED BY <1>2, <2>3 DEF Worker
  <1>4. worker' = [worker EXCEPT ![s] = r]
    BY DEF Settle, IInv, TypeOK
  <1>5. /\ worker'[s] = r
        /\ \A t \in Servers \ {s} : worker'[t] = worker[t]
    BY <1>3, <1>4, Moves DEF IInv
  <1>6. \/ finished' = finished \cup {k} /\ claimed' = claimed
        \/ claimed' = claimed \ {k} /\ finished' = finished
    BY DEF Settle
  <1>7. TypeOK'
    BY <1>2, <1>3, <1>4, <1>6, Moves DEF Settle, IInv, TypeOK
  <1>8. ~HoldsKey(s)'
    BY <1>3, <1>5 DEF HoldsKey
  <1>9. ASSUME NEW t \in Servers PROVE Holder(t)'
    <2>1. CASE t = s
      BY <1>8, <2>1 DEF Holder
    <2>2. CASE t # s
      <3>1. HoldsKey(t) => worker[t].key # k
        BY <1>1, <2>2 DEF Alone, IInv
      <3> QED BY <1>5, <1>6, <2>2, <3>1 DEF Holder, HoldsKey, IInv
    <2> QED BY <2>1, <2>2
  <1>10. Alone'
    BY <1>5, <1>8 DEF Alone, HoldsKey, IInv
  <1> QED BY <1>7, <1>9, <1>10 DEF IInv

LEMMA RestInv == ASSUME IInv, NEW s \in Servers, Rest(s) PROVE IInv'
  <1> DEFINE r == [Fresh("asleep", NextPass) EXCEPT !.wake = worker[s].wake]
  <1>1. worker[s].wake \in BOOLEAN
    BY DEF IInv, TypeOK, Worker
  <1>2. Fresh("asleep", NextPass) \in Worker
    BY FreshTyped, NextPassTyped DEF IInv, PCs
  <1>3. r \in Worker /\ r.pc = "asleep"
    BY <1>1, <1>2 DEF Worker, Fresh
  <1>4. worker' = [worker EXCEPT ![s] = r]
    BY DEF Rest
  <1> QED BY <1>3, <1>4, FreeStep DEF Rest, IInv, TypeOK

LEMMA LoseInv == ASSUME IInv, NEW s \in Servers, LoseDatabase(s) PROVE IInv'
  <1>1. PICK due \in {now + Hour, NextPass} :
          worker' = [worker EXCEPT ![s] = [Fresh("asleep", due) EXCEPT !.wake = worker[s].wake]]
    BY DEF LoseDatabase
  <1> DEFINE r == [Fresh("asleep", due) EXCEPT !.wake = worker[s].wake]
  <1>2. worker[s].wake \in BOOLEAN
    BY DEF IInv, TypeOK, Worker
  <1>3. due \in Nat
    BY <1>1, NextPassTyped, TimesAssumption DEF IInv, TypeOK
  <1>4. Fresh("asleep", due) \in Worker
    BY <1>3, FreshTyped DEF PCs
  <1>5. r \in Worker /\ r.pc = "asleep"
    BY <1>2, <1>4 DEF Worker, Fresh
  <1>6. fails' \in Nat /\ faults' \in Nat
    BY DEF LoseDatabase, IInv, TypeOK
  <1> QED BY <1>1, <1>5, <1>6, FreeStep DEF LoseDatabase

(* A server dies, or starts. *)
LEMMA ServerInv ==
  ASSUME IInv, NEW s \in Servers, Die(s) \/ Boot(s)
  PROVE  IInv'
  <1>1. CASE Die(s)
    <2>1. Fresh("off", 0) \in Worker /\ Fresh("off", 0).pc = "off"
      BY FreshTyped DEF PCs, Fresh
    <2>2. fails' \in Nat /\ faults' \in Nat
      BY <1>1 DEF Die, IInv, TypeOK
    <2> QED BY <1>1, <2>1, <2>2, FreeStep DEF Die
  <1>2. CASE Boot(s)
    <2>1. Fresh("asleep", now) \in Worker /\ Fresh("asleep", now).pc = "asleep"
      BY FreshTyped DEF PCs, Fresh, IInv, TypeOK
    <2>2. fails' \in Nat /\ faults' \in Nat
      BY <1>2 DEF Boot, IInv, TypeOK
    <2> QED BY <1>2, <2>1, <2>2, FreeStep DEF Boot
  <1> QED BY <1>1, <1>2

(* Neither time nor a stutter touches the ledger or a thread. *)
LEMMA StillInv ==
  ASSUME IInv, Tick \/ UNCHANGED vars
  PROVE  IInv'
  <1>1. UNCHANGED <<clock, moved, claimed, finished, newest, swept, worker, fails, faults, moves>>
    BY DEF Tick, vars
  <1>2. now' \in Nat
    BY DEF Tick, vars, IInv, TypeOK
  <1>3. TypeOK'
    BY <1>1, <1>2 DEF IInv, TypeOK
  <1>4. (\A s \in Servers : Holder(s))' /\ Alone'
    BY <1>1 DEF IInv, Holder, Alone, HoldsKey
  <1> QED BY <1>3, <1>4 DEF IInv

LEMMA NextIInv == IInv /\ [Next]_vars => IInv'
  <1> SUFFICES ASSUME IInv, [Next]_vars PROVE IInv'
    OBVIOUS
  <1>1. ASSUME NEW s \in Servers, Step(s) PROVE IInv'
    BY <1>1, WakeInv, ClaimInv, WorkInv, SettleInv, RestInv DEF Step
  <1>2. ASSUME NEW s \in Servers, Die(s) \/ Boot(s) PROVE IInv'
    BY <1>2, ServerInv
  <1>3. ASSUME NEW s \in Servers, LoseDatabase(s) PROVE IInv'
    BY <1>3, LoseInv
  <1>4. ASSUME NEW s \in Servers, NEW c \in Clocks \cup {Off}, SaveSchedule(s, c) PROVE IInv'
    BY <1>4, SaveInv
  <1>5. CASE Tick \/ Exhausted \/ UNCHANGED vars
    BY <1>5, StillInv DEF Exhausted
  <1> QED BY <1>1, <1>2, <1>3, <1>4, <1>5 DEF Next

-----------------------------------------------------------------------------
(***************************************************************************)
(* What is left behind: a step leaves one claim more only if it is a       *)
(* fault, and then one only.                                               *)
(***************************************************************************)
ActsAlone(s) ==
  \/ Step(s) \/ Die(s) \/ LoseDatabase(s) \/ Boot(s)
  \/ \E c \in Clocks \cup {Off} : SaveSchedule(s, c)

LEMMA OthersStay ==
  ASSUME IInv, NEW s \in Servers, ActsAlone(s), NEW t \in Servers \ {s}
  PROVE  worker'[t] = worker[t]
  BY DEF ActsAlone, Step, Die, LoseDatabase, Boot, SaveSchedule, Wake, Claim, Fail, Run,
         BackUp, WriteBackup, Settle, Rest, Goto, IInv, TypeOK

(* What another holds stays in hand. *)
LEMMA OthersHold ==
  ASSUME IInv, NEW s \in Servers, ActsAlone(s), NEW k, InHand(k),
         ~(HoldsKey(s) /\ worker[s].key = k)
  PROVE  InHand(k)'
  <1>1. PICK t \in Servers : HoldsKey(t) /\ worker[t].key = k
    BY DEF InHand
  <1>2. t # s
    BY <1>1
  <1>3. worker'[t] = worker[t]
    BY <1>2, OthersStay
  <1> QED BY <1>1, <1>3 DEF InHand, HoldsKey

(* A thread that holds no key, or goes on holding the one it has, leaves   *)
(* nothing behind unless it makes a claim.                                 *)
LEMMA NothingLeft ==
  ASSUME IInv, NEW s \in Servers, ActsAlone(s),
         HoldsKey(s) => HoldsKey(s)' /\ worker'[s].key = worker[s].key,
         UNCHANGED <<claimed, finished>>
  PROVE  LeftBehind' \subseteq LeftBehind
  <1> SUFFICES ASSUME NEW k \in claimed \ finished, InHand(k) PROVE InHand(k)'
    BY DEF LeftBehind
  <1>1. CASE HoldsKey(s) /\ worker[s].key = k
    BY <1>1 DEF InHand
  <1>2. CASE ~(HoldsKey(s) /\ worker[s].key = k)
    BY <1>2, OthersHold
  <1> QED BY <1>1, <1>2

LEMMA ClaimLeaves ==
  ASSUME IInv, NEW s \in Servers, Claim(s)
  PROVE  LeftBehind' \subseteq LeftBehind
  <1> PICK k : k = KeyOf(s, Jobs[worker[s].next])
    OBVIOUS
  <1>0. ActsAlone(s) /\ ~HoldsKey(s)
    BY DEF ActsAlone, Step, Claim, HoldsKey
  <1>1. CASE UNCHANGED claimed
    BY <1>0, <1>1, NothingLeft DEF Claim
  <1>2. CASE /\ claimed' = claimed \cup {k}
             /\ worker' = [worker EXCEPT ![s].pc = "work", ![s].key = k]
    <2>1. worker'[s].pc = "work" /\ worker'[s].key = k
      BY <1>2 DEF IInv, TypeOK, Worker
    <2>2. InHand(k)'
      BY <2>1 DEF InHand, HoldsKey
    <2>3. finished' = finished
      BY DEF Claim
    <2> SUFFICES ASSUME NEW l \in claimed \ finished, InHand(l) PROVE InHand(l)'
      BY <1>2, <2>2, <2>3 DEF LeftBehind
    <2> QED BY <1>0, OthersHold
  <1> QED BY <1>1, <1>2 DEF Claim

LEMMA SettleLeaves ==
  ASSUME IInv, NEW s \in Servers, Settle(s)
  PROVE  LeftBehind' \subseteq LeftBehind
  <1>1. ActsAlone(s)
    BY DEF ActsAlone, Step
  <1>2. /\ claimed' \ finished' \subseteq claimed \ finished
        /\ worker[s].key \notin claimed' \ finished'
    BY DEF Settle
  <1> SUFFICES ASSUME NEW k \in claimed' \ finished', InHand(k) PROVE InHand(k)'
    BY <1>2 DEF LeftBehind
  <1> QED BY <1>1, <1>2, OthersHold

LEMMA FaultLeaves ==
  ASSUME IInv, NEW s \in Servers, Die(s) \/ LoseDatabase(s)
  PROVE  LeftBehind' \subseteq LeftBehind \cup {worker[s].key}
  <1>1. ActsAlone(s)
    BY DEF ActsAlone
  <1>2. UNCHANGED <<claimed, finished>>
    BY DEF Die, LoseDatabase
  <1> SUFFICES ASSUME NEW k \in claimed \ finished, InHand(k), k # worker[s].key
               PROVE  InHand(k)'
    BY <1>2 DEF LeftBehind
  <1> QED BY <1>1, OthersHold

(* The threads' other steps. *)
LEMMA QuietLeaves ==
  ASSUME IInv, NEW s \in Servers,
         \/ Wake(s) \/ Fail(s) \/ Run(s) \/ BackUp(s) \/ WriteBackup(s) \/ Rest(s) \/ Boot(s)
         \/ \E c \in Clocks \cup {Off} : SaveSchedule(s, c)
  PROVE  LeftBehind' \subseteq LeftBehind
  <1>1. ActsAlone(s)
    BY DEF ActsAlone, Step
  <1>2. UNCHANGED <<claimed, finished>>
    BY DEF Wake, Fail, Run, BackUp, WriteBackup, Rest, Boot, SaveSchedule
  <1>3. CASE Wake(s) \/ Rest(s) \/ Boot(s)
    <2>1. ~HoldsKey(s)
      BY <1>3 DEF Wake, Rest, Boot, HoldsKey
    <2> QED BY <1>1, <1>2, <2>1, NothingLeft
  <1>4. CASE Fail(s) \/ Run(s) \/ BackUp(s) \/ WriteBackup(s)
    <2>1. PICK pc \in {"write", "done", "undone"} : worker' = [worker EXCEPT ![s].pc = pc]
      <3>1. CASE Fail(s)
        BY <3>1 DEF Fail, Goto
      <3>2. CASE Run(s)
        BY <3>2 DEF Run, Goto
      <3>3. CASE BackUp(s)
        BY <3>3 DEF BackUp
      <3>4. CASE WriteBackup(s)
        BY <3>4 DEF WriteBackup, Goto
      <3> QED BY <1>4, <3>1, <3>2, <3>3, <3>4
    <2>2. worker'[s].pc = pc /\ worker'[s].key = worker[s].key
      BY <2>1 DEF IInv, TypeOK, Worker
    <2>3. HoldsKey(s)'
      BY <2>2 DEF HoldsKey
    <2> QED BY <1>1, <1>2, <2>2, <2>3, NothingLeft
  <1>5. CASE \E c \in Clocks \cup {Off} : SaveSchedule(s, c)
    <2>1. worker'[s].pc = worker[s].pc /\ worker'[s].key = worker[s].key
      BY <1>5 DEF SaveSchedule, IInv, TypeOK, Worker
    <2>2. HoldsKey(s) => HoldsKey(s)'
      BY <2>1 DEF HoldsKey
    <2> QED BY <1>1, <1>2, <2>1, <2>2, NothingLeft
  <1> QED BY <1>3, <1>4, <1>5

LInv == IInv /\ IsFiniteSet(LeftBehind) /\ OnlyFaultsLeaveClaims

LEMMA InitLInv == Init => LInv
  <1> SUFFICES ASSUME Init PROVE LInv
    OBVIOUS
  <1>1. LeftBehind = {}
    BY DEF Init, LeftBehind
  <1>2. IsFiniteSet({}) /\ Cardinality({}) = 0
    BY FS_EmptySet
  <1> QED BY <1>1, <1>2, InitIInv DEF LInv, OnlyFaultsLeaveClaims, Init

LEMMA NextLInv == LInv /\ [Next]_vars => LInv'
  <1> SUFFICES ASSUME LInv, [Next]_vars PROVE LInv'
    OBVIOUS
  <1>0. IInv /\ IInv'
    BY NextIInv DEF LInv
  <1>1. Cardinality(LeftBehind) \in Nat /\ faults \in Nat /\ Cardinality(LeftBehind) <= faults
    BY <1>0, FS_CardinalityType DEF LInv, IInv, TypeOK, OnlyFaultsLeaveClaims
  <1>2. ASSUME LeftBehind' \subseteq LeftBehind, faults' = faults PROVE LInv'
    <2>1. IsFiniteSet(LeftBehind') /\ Cardinality(LeftBehind') <= Cardinality(LeftBehind)
      BY <1>2, FS_Subset DEF LInv
    <2>2. Cardinality(LeftBehind') \in Nat
      BY <2>1, FS_CardinalityType
    <2>3. Cardinality(LeftBehind') <= faults'
      BY <1>1, <1>2, <2>1, <2>2
    <2> QED BY <1>0, <2>1, <2>3 DEF LInv, OnlyFaultsLeaveClaims
  <1>3. ASSUME NEW s \in Servers, Die(s) \/ LoseDatabase(s) PROVE LInv'
    <2> DEFINE S == LeftBehind \cup {worker[s].key}
    <2>1. IsFiniteSet(S) /\ (Cardinality(S) = Cardinality(LeftBehind)
                              \/ Cardinality(S) = Cardinality(LeftBehind) + 1)
      BY FS_AddElement DEF LInv
    <2>2. LeftBehind' \subseteq S
      BY <1>0, <1>3, FaultLeaves
    <2>3. IsFiniteSet(LeftBehind') /\ Cardinality(LeftBehind') <= Cardinality(S)
      BY <2>1, <2>2, FS_Subset
    <2>4. Cardinality(LeftBehind') \in Nat
      BY <2>3, FS_CardinalityType
    <2>5. faults' = faults + 1
      BY <1>3 DEF Die, LoseDatabase
    <2>6. Cardinality(LeftBehind') <= faults'
      BY <1>1, <2>1, <2>3, <2>4, <2>5
    <2> QED BY <1>0, <2>3, <2>6 DEF LInv, OnlyFaultsLeaveClaims
  <1>4. ASSUME NEW s \in Servers,
               Step(s) \/ Boot(s) \/ \E c \in Clocks \cup {Off} : SaveSchedule(s, c)
        PROVE LInv'
    <2>1. LeftBehind' \subseteq LeftBehind
      BY <1>0, <1>4, ClaimLeaves, SettleLeaves, QuietLeaves DEF Step
    <2>2. faults' = faults
      BY <1>4 DEF Step, Wake, Claim, Fail, Run, BackUp, WriteBackup, Settle, Rest, Boot,
                  SaveSchedule
    <2> QED BY <1>2, <2>1, <2>2
  <1>5. CASE Tick \/ Exhausted \/ UNCHANGED vars
    <2>1. UNCHANGED <<claimed, finished, worker, faults>>
      BY <1>5 DEF Tick, Exhausted, vars
    <2>2. LeftBehind' = LeftBehind
      BY <2>1 DEF LeftBehind, InHand, HoldsKey
    <2> QED BY <1>2, <2>1, <2>2
  <1> QED BY <1>3, <1>4, <1>5 DEF Next

-----------------------------------------------------------------------------
(***************************************************************************)
(* Theorems.                                                               *)
(***************************************************************************)

(* The inductive invariant holds: a claim in hand is held by one.      *)
THEOREM JobsInvariant == Spec => []IInv
  BY InitIInv, NextIInv, PTL DEF Spec

(* Ledger, files and threads keep their types; a finished run has a row.   *)
THEOREM JobTypes == Spec => []TypeOK
  <1>1. IInv => TypeOK
    BY DEF IInv
  <1> QED BY <1>1, JobsInvariant, PTL

(* No job is run twice for one key: not by two servers at once, not again  *)
(* once it is finished, whatever dies, fails or is saved in between.       *)
THEOREM RunOnce == Spec => []NeverTwice
  <1>1. IInv => NeverTwice
    BY DEF IInv, Holder, Alone, NeverTwice
  <1> QED BY <1>1, JobsInvariant, PTL

(* However many jobs fail, are not due or are interrupted, a claim nobody  *)
(* works on and nobody finished was left by a death or a lost database,    *)
(* and each of these leaves one at most.                                   *)
THEOREM FewLeftBehind == Spec => []OnlyFaultsLeaveClaims
  <1>1. LInv => OnlyFaultsLeaveClaims
    BY DEF LInv
  <1> QED BY <1>1, InitLInv, NextLInv, PTL DEF Spec

-----------------------------------------------------------------------------
(***************************************************************************)
(* What a thread's step does to its turn and to the claims.                *)
(***************************************************************************)
Setbacks == fails + faults

SameClaims == claimed' = claimed /\ Setbacks' = Setbacks

SamePass(s) ==
  worker'[s].began = worker[s].began /\ worker'[s].day = worker[s].day

Sleeps(s) ==
  /\ worker'[s].pc \in {"off", "asleep"}
  /\ worker'[s].pc = "asleep" => worker'[s].due <= now + Hour

Woken(s) ==
  /\ worker[s].pc = "asleep" /\ SameClaims
  /\ worker'[s].pc = "claim" /\ worker'[s].next = 1
  /\ worker'[s].began = now /\ worker'[s].day = Day(now)

Claims(s) ==
  LET k == KeyOf(s, Jobs[worker[s].next]) IN
  /\ worker[s].pc = "claim" /\ k \notin claimed /\ claimed' = claimed \cup {k}
  /\ worker'[s].pc = "work" /\ worker'[s].key = k /\ worker'[s].next = worker[s].next
  /\ SamePass(s) /\ Setbacks' = Setbacks

PassesOver(s) ==
  LET job == Jobs[worker[s].next] IN
  /\ worker[s].pc = "claim" /\ (<<s, job>> \in Skipped \/ KeyOf(s, job) \in claimed)
  /\ worker'[s].pc = "claim" /\ worker'[s].next = worker[s].next + 1
  /\ SamePass(s) /\ SameClaims

Works(s) ==
  /\ worker[s].pc \in {"work", "write"} /\ worker'[s].pc \in {"write", "done", "undone"}
  /\ worker'[s].key = worker[s].key /\ worker'[s].next = worker[s].next
  /\ SamePass(s) /\ claimed' = claimed
  /\ \/ Setbacks' = Setbacks + 1
     \/ Setbacks' = Setbacks /\ (worker'[s].pc = "undone" => worker[s].key.job = Backup)

Settles(s) ==
  /\ worker[s].pc \in {"done", "undone"} /\ worker'[s].pc = "claim"
  /\ worker'[s].next = worker[s].next + 1
  /\ SamePass(s) /\ Setbacks' = Setbacks
  /\ claimed' = IF worker[s].pc = "done" THEN claimed ELSE claimed \ {worker[s].key}

LiesDown(s) ==
  worker[s].pc = "claim" /\ worker[s].next > Len(Jobs) /\ Sleeps(s) /\ SameClaims

Starts(s) ==
  worker[s].pc = "off" /\ worker'[s].pc = "asleep" /\ worker'[s].due = now /\ SameClaims

Saves(s) ==
  /\ worker'[s].pc = worker[s].pc /\ worker'[s].key = worker[s].key
  /\ worker'[s].next = worker[s].next /\ worker'[s].due = worker[s].due
  /\ SamePass(s) /\ SameClaims

Struck(s) == Sleeps(s) /\ claimed' = claimed /\ Setbacks' = Setbacks + 1

Turn(s) ==
  \/ Woken(s) \/ Claims(s) \/ PassesOver(s) \/ Works(s) \/ Settles(s) \/ LiesDown(s)
  \/ Starts(s) \/ Saves(s) \/ Struck(s)

LEMMA NextPassSoon == ASSUME TypeOK PROVE NextPass <= now + Hour
  <1>1. NextPass \in Nat /\ now \in Nat /\ Hour \in Nat
    BY NextPassTyped, TimesAssumption DEF TypeOK
  <1> QED BY <1>1 DEF NextPass

LEMMA EachTurn ==
  ASSUME IInv, NEW s \in Servers, ActsAlone(s)
  PROVE  Turn(s) /\ now' = now
  <1>0. worker[s] \in Worker /\ now \in Nat /\ Hour \in Nat /\ fails \in Nat /\ faults \in Nat
    BY TimesAssumption DEF IInv, TypeOK
  <1>1. CASE Wake(s)
    <2>1. worker'[s] = [Fresh("claim", 0) EXCEPT !.day = Day(now), !.began = now]
      BY <1>1 DEF Wake, IInv, TypeOK
    <2>2. /\ worker'[s].pc = "claim" /\ worker'[s].next = 1
          /\ worker'[s].began = now /\ worker'[s].day = Day(now)
      BY <2>1 DEF Fresh
    <2>3. worker[s].pc = "asleep" /\ SameClaims /\ now' = now
      BY <1>1 DEF Wake, SameClaims, Setbacks
    <2> QED BY <2>2, <2>3 DEF Woken, Turn
  <1>2. CASE Claim(s)
    <2> PICK job : job = Jobs[worker[s].next]
      OBVIOUS
    <2>1. CASE <<s, job>> \in Skipped \/ KeyOf(s, job) \in claimed
      <3>1. worker' = [worker EXCEPT ![s].next = @ + 1] /\ claimed' = claimed
        BY <1>2, <2>1 DEF Claim
      <3>2. PassesOver(s)
        BY <1>0, <1>2, <2>1, <3>1
        DEF Claim, PassesOver, SamePass, SameClaims, Setbacks, IInv, TypeOK, Worker
      <3> QED BY <1>2, <3>2 DEF Claim, Turn
    <2>2. CASE ~(<<s, job>> \in Skipped \/ KeyOf(s, job) \in claimed)
      <3>1. /\ worker' = [worker EXCEPT ![s].pc = "work", ![s].key = KeyOf(s, job)]
            /\ claimed' = claimed \cup {KeyOf(s, job)}
        BY <1>2, <2>2 DEF Claim
      <3>2. Claims(s)
        BY <1>0, <1>2, <2>2, <3>1
        DEF Claim, Claims, SamePass, Setbacks, IInv, TypeOK, Worker
      <3> QED BY <1>2, <3>2 DEF Claim, Turn
    <2> QED BY <2>1, <2>2
  <1>3. CASE Fail(s) \/ Run(s) \/ BackUp(s) \/ WriteBackup(s)
    <2>1. PICK pc \in {"write", "done", "undone"} :
            /\ worker' = [worker EXCEPT ![s].pc = pc]
            /\ Fail(s) \/ (pc = "undone" => worker[s].key.job = Backup)
      <3>1. CASE Fail(s)
        BY <3>1 DEF Fail, Goto
      <3>2. CASE Run(s)
        BY <3>2 DEF Run, Goto
      <3>3. CASE BackUp(s)
        BY <3>3 DEF BackUp
      <3>4. CASE WriteBackup(s)
        BY <3>4 DEF WriteBackup, Goto
      <3> QED BY <1>3, <3>1, <3>2, <3>3, <3>4
    <2>2. /\ worker'[s].pc = pc /\ worker'[s].key = worker[s].key
          /\ worker'[s].next = worker[s].next /\ SamePass(s)
      BY <2>1 DEF IInv, TypeOK, Worker, SamePass
    <2>3. worker[s].pc \in {"work", "write"} /\ claimed' = claimed /\ now' = now
      BY <1>3 DEF Fail, Run, BackUp, WriteBackup
    <2>4. \/ Setbacks' = Setbacks + 1
          \/ Setbacks' = Setbacks /\ (pc = "undone" => worker[s].key.job = Backup)
      <3>1. CASE Fail(s)
        BY <1>0, <3>1 DEF Fail, Setbacks
      <3>2. CASE ~Fail(s)
        BY <1>3, <2>1, <3>2 DEF Run, BackUp, WriteBackup, Setbacks
      <3> QED BY <3>1, <3>2
    <2>5. Works(s)
      BY <2>2, <2>3, <2>4 DEF Works
    <2> QED BY <2>3, <2>5 DEF Turn
  <1>4. CASE Settle(s)
    <2>1. worker'[s] = [worker[s] EXCEPT !.pc = "claim", !.key = NoKey, !.next = @ + 1]
      BY <1>4 DEF Settle, IInv, TypeOK
    <2>2. /\ worker'[s].pc = "claim" /\ worker'[s].next = worker[s].next + 1 /\ SamePass(s)
      BY <1>0, <2>1 DEF SamePass, Worker
    <2>3. /\ worker[s].pc \in {"done", "undone"} /\ Setbacks' = Setbacks /\ now' = now
          /\ claimed' = IF worker[s].pc = "done" THEN claimed ELSE claimed \ {worker[s].key}
      BY <1>4 DEF Settle, Setbacks
    <2> QED BY <2>2, <2>3 DEF Settles, Turn
  <1>5. CASE Rest(s)
    <2>1. worker'[s] = [Fresh("asleep", NextPass) EXCEPT !.wake = worker[s].wake]
      BY <1>5 DEF Rest, IInv, TypeOK
    <2>2. worker'[s].pc = "asleep" /\ worker'[s].due = NextPass
      BY <2>1 DEF Fresh
    <2>3. LiesDown(s)
      BY <1>5, <2>2, NextPassSoon DEF Rest, LiesDown, Sleeps, SameClaims, Setbacks, IInv
    <2> QED BY <1>5, <2>3 DEF Rest, Turn
  <1>6. CASE Boot(s)
    <2>1. worker'[s] = Fresh("asleep", now)
      BY <1>6 DEF Boot, IInv, TypeOK
    <2>2. Starts(s)
      BY <1>6, <2>1 DEF Boot, Starts, Fresh, SameClaims, Setbacks
    <2> QED BY <1>6, <2>2 DEF Boot, Turn
  <1>7. CASE \E c \in Clocks \cup {Off} : SaveSchedule(s, c)
    <2>1. worker'[s] = [worker[s] EXCEPT !.wake = TRUE]
      BY <1>7 DEF SaveSchedule, IInv, TypeOK
    <2>2. Saves(s)
      BY <1>0, <1>7, <2>1 DEF SaveSchedule, Saves, SamePass, SameClaims, Setbacks, Worker
    <2> QED BY <1>7, <2>2 DEF SaveSchedule, Turn
  <1>8. CASE Die(s)
    <2>1. worker'[s].pc = "off"
      BY <1>8 DEF Die, Fresh, IInv, TypeOK
    <2>2. Struck(s)
      BY <1>0, <1>8, <2>1 DEF Die, Struck, Sleeps, Setbacks
    <2> QED BY <1>8, <2>2 DEF Die, Turn
  <1>9. CASE LoseDatabase(s)
    <2>1. PICK due \in {now + Hour, NextPass} :
            worker' = [worker EXCEPT ![s] = [Fresh("asleep", due) EXCEPT !.wake = worker[s].wake]]
      BY <1>9 DEF LoseDatabase
    <2>2. worker'[s].pc = "asleep" /\ worker'[s].due = due
      BY <2>1 DEF Fresh, IInv, TypeOK
    <2>3. due <= now + Hour
      BY <1>0, NextPassSoon DEF IInv
    <2>4. Struck(s)
      BY <1>0, <1>9, <2>2, <2>3 DEF LoseDatabase, Struck, Sleeps, Setbacks
    <2> QED BY <1>9, <2>4 DEF LoseDatabase, Turn
  <1> QED BY <1>1, <1>2, <1>3, <1>4, <1>5, <1>6, <1>7, <1>8, <1>9 DEF ActsAlone, Step

-----------------------------------------------------------------------------
(***************************************************************************)
(* A pass is as long as it may be, and its key is the one its turn is at.  *)
(***************************************************************************)
DayJobs == JobNames \ (Hourly \cup {Backup})

DayKey(job, d) == [job |-> job, by |-> Everyone, mark |-> 0, day |-> d]

Paced(s) ==
  /\ InPass(s) => /\ worker[s].began <= now /\ now <= worker[s].began + PassMax
                  /\ worker[s].day = Day(worker[s].began)
  /\ worker[s].pc = "asleep" => worker[s].due <= now + Hour
  /\ HoldsKey(s) =>
       /\ worker[s].key.job = Jobs[worker[s].next]
       /\ worker[s].key.job \in DayJobs =>
            worker[s].key = DayKey(Jobs[worker[s].next], worker[s].day)

PInv == IInv /\ (\A s \in Servers : Paced(s)) /\ Setbacks <= MaxUpsets

LEMMA InitPInv == Init => PInv
  <1> SUFFICES ASSUME Init PROVE PInv
    OBVIOUS
  <1>1. \A s \in Servers : worker[s].pc \in {"off", "asleep"} /\ worker[s].due = 0
    BY DEF Init, Fresh
  <1>2. now = 0 /\ fails = 0 /\ faults = 0
    BY DEF Init
  <1>3. \A s \in Servers : Paced(s)
    BY <1>1, <1>2, TimesAssumption DEF Paced, InPass, HoldsKey
  <1>4. Setbacks <= MaxUpsets
    BY <1>2, TimesAssumption DEF Setbacks
  <1> QED BY <1>3, <1>4, InitIInv DEF PInv

LEMMA PacedTurn ==
  ASSUME IInv, IInv', NEW s \in Servers, Paced(s), Turn(s), now' = now
  PROVE  Paced(s)'
  <1>0. /\ now \in Nat /\ Hour \in Nat /\ PassMax \in Nat
        /\ worker[s] \in Worker /\ worker'[s] \in Worker
    BY TimesAssumption DEF IInv, TypeOK
  <1>1. CASE Woken(s)
    <2>1. now <= now + PassMax
      BY <1>0
    <2> QED BY <1>0, <1>1, <2>1 DEF Woken, Paced, InPass, HoldsKey
  <1>2. CASE Claims(s)
    <2>1. InPass(s) /\ InPass(s)' /\ HoldsKey(s)' /\ worker'[s].pc # "asleep"
      BY <1>2 DEF Claims, InPass, HoldsKey
    <2>2. /\ worker'[s].key.job = Jobs[worker'[s].next]
          /\ worker'[s].key.job \in DayJobs =>
               worker'[s].key = DayKey(Jobs[worker'[s].next], worker'[s].day)
      <3>1. PICK job : job = Jobs[worker[s].next]
        OBVIOUS
      <3>2. worker'[s].key = KeyOf(s, job) /\ KeyOf(s, job).job = job
        BY <1>2, <3>1 DEF Claims, KeyOf
      <3>3. job \in DayJobs => KeyOf(s, job) = DayKey(job, worker[s].day)
        BY DEF DayJobs, KeyOf, DayKey
      <3> QED BY <1>2, <3>1, <3>2, <3>3 DEF Claims, SamePass
    <2> QED BY <1>2, <2>1, <2>2 DEF Claims, SamePass, Paced
  <1>3. CASE PassesOver(s) \/ Settles(s)
    <2>1. InPass(s) /\ SamePass(s) /\ worker'[s].pc = "claim"
      BY <1>3 DEF PassesOver, Settles, InPass
    <2> QED BY <2>1 DEF Paced, SamePass, HoldsKey
  <1>4. CASE Works(s)
    <2>1. /\ InPass(s) /\ SamePass(s) /\ worker'[s].pc # "asleep" /\ HoldsKey(s)
          /\ worker'[s].key = worker[s].key /\ worker'[s].next = worker[s].next
      BY <1>4 DEF Works, InPass, HoldsKey
    <2> QED BY <2>1 DEF Paced, SamePass
  <1>5. CASE Sleeps(s)
    BY <1>5 DEF Sleeps, Paced, InPass, HoldsKey
  <1>6. CASE Starts(s)
    BY <1>0, <1>6 DEF Starts, Paced, InPass, HoldsKey
  <1>7. CASE Saves(s)
    <2>1. /\ InPass(s)' = InPass(s) /\ HoldsKey(s)' = HoldsKey(s)
      BY <1>7 DEF Saves, InPass, HoldsKey
    <2> QED BY <1>7, <2>1 DEF Saves, SamePass, Paced
  <1> QED BY <1>1, <1>2, <1>3, <1>4, <1>5, <1>6, <1>7 DEF Turn, LiesDown, Struck

LEMMA NextPInv == PInv /\ [Next]_vars => PInv'
  <1> SUFFICES ASSUME PInv, [Next]_vars PROVE PInv'
    OBVIOUS
  <1>0. IInv /\ IInv' /\ \A s \in Servers : Paced(s)
    BY NextIInv DEF PInv
  <1>1. ASSUME NEW s \in Servers, ActsAlone(s) PROVE PInv'
    <2>1. Turn(s) /\ now' = now
      BY <1>0, <1>1, EachTurn
    <2>2. Paced(s)'
      BY <1>0, <2>1, PacedTurn
    <2>3. \A t \in Servers \ {s} : worker'[t] = worker[t]
      BY <1>0, <1>1, OthersStay
    <2>4. \A t \in Servers \ {s} : Paced(t)'
      BY <1>0, <2>1, <2>3 DEF Paced, InPass, HoldsKey
    <2>5. (Setbacks <= MaxUpsets)'
      <3>1. /\ fails \in Nat /\ faults \in Nat /\ moves \in Nat /\ MaxUpsets \in Nat
            /\ fails + faults <= MaxUpsets
        BY TimesAssumption DEF PInv, IInv, TypeOK, Setbacks
      <3>2. CASE Step(s) \/ Boot(s) \/ \E c \in Clocks \cup {Off} : SaveSchedule(s, c)
        BY <3>1, <3>2 DEF Step, Wake, Claim, Fail, Run, BackUp, WriteBackup, Settle, Rest, Boot,
                          SaveSchedule, Setbacks, Upsets
      <3>3. CASE Die(s) \/ LoseDatabase(s)
        BY <3>1, <3>3 DEF Die, LoseDatabase, Setbacks, Upsets
      <3> QED BY <1>1, <3>2, <3>3 DEF ActsAlone
    <2> QED BY <1>0, <2>2, <2>4, <2>5 DEF PInv
  <1>2. CASE Tick
    <2>1. UNCHANGED <<worker, fails, faults>> /\ now' = now + 1
      BY <1>2 DEF Tick
    <2>2. ASSUME NEW s \in Servers PROVE Paced(s)'
      <3>1. /\ now \in Nat /\ Hour \in Nat /\ PassMax \in Nat
            /\ worker[s].began \in Nat /\ worker[s].due \in Nat
        BY <1>0, TimesAssumption DEF IInv, TypeOK, Worker
      <3>2. InPass(s) => now - worker[s].began < PassMax
        BY <1>2 DEF Tick
      <3> QED BY <1>0, <2>1, <3>1, <3>2 DEF Paced, InPass, HoldsKey
    <2> QED BY <1>0, <2>1, <2>2 DEF PInv, Setbacks
  <1>3. CASE UNCHANGED vars
    BY <1>0, <1>3 DEF vars, PInv, Paced, InPass, HoldsKey, Setbacks
  <1> QED BY <1>1, <1>2, <1>3 DEF Next, ActsAlone, Exhausted

-----------------------------------------------------------------------------
(***************************************************************************)
(* A day's job.  While a job of the day d is nobody's, a steady server     *)
(* that may run it comes to it in time: an hour into the day, and a lap    *)
(* later for each run that failed or was cut short.                        *)
(***************************************************************************)
Lap == Hour + 3 * PassMax

Deadline(d) == d * DayLength + Setbacks * Lap + Hour + PassMax

ToCome(s, job) == \E i \in worker[s].next..Len(Jobs) : Jobs[i] = job

InReach(s, job, d) ==
  DayKey(job, d) \notin claimed /\ d * DayLength <= now =>
    \/ /\ ~InPass(s) /\ now <= Deadline(d)
       /\ (worker[s].pc = "asleep" => worker[s].due <= Deadline(d))
    \/ /\ InPass(s) /\ worker[s].day = d /\ worker[s].began <= Deadline(d) /\ ToCome(s, job)
    \/ InPass(s) /\ worker[s].began + PassMax + Hour <= Deadline(d)

(* Whoever claims the job does so before that. *)
HeldSoon(q, job, d) ==
  HoldsKey(q) /\ worker[q].key = DayKey(job, d) =>
    worker[q].began + (IF worker[q].pc = "undone" THEN Lap ELSE 0) <= Deadline(d) + PassMax

LEMMA Products ==
  ASSUME NEW a \in Nat, NEW b \in Nat, NEW c \in Nat
  PROVE  /\ a * c \in Nat
         /\ (a + 1) * c = a * c + c
         /\ a <= b => a * c <= b * c
  <1>1. a * c \in Nat /\ b * c \in Nat /\ (a + 1) * c = a * c + c
    BY SMT
  <1>2. ASSUME a <= b PROVE a * c <= b * c
    <2>1. PICK e \in Nat : b = a + e
      <3>1. b - a \in Nat /\ b = a + (b - a)
        BY <1>2
      <3> QED BY <3>1
    <2>2. e * c \in Nat /\ b * c = a * c + e * c
      BY <2>1, SMT
    <2> QED BY <1>1, <2>2
  <1> QED BY <1>1, <1>2

LEMMA DayBounds ==
  ASSUME NEW t \in Nat, NEW n \in Nat \ {0}
  PROVE  t \div n \in Nat /\ (t \div n) * n <= t /\ t < (t \div n) * n + n
  <1>1. t \div n \in Nat
    BY SMT
  <1>2. t = n * (t \div n) + (t % n) /\ t % n \in 0..(n - 1)
    BY SMT
  <1>3. n * (t \div n) = (t \div n) * n
    BY <1>1, SMT
  <1> QED BY <1>1, <1>2, <1>3, SMT

LEMMA InTheDay ==
  ASSUME NEW t \in Nat, NEW d \in Nat, d * DayLength <= t, t < d * DayLength + DayLength
  PROVE  Day(t) = d
  <1> DEFINE q == t \div DayLength
  <1>1. q \in Nat /\ q * DayLength <= t /\ t < q * DayLength + DayLength
    BY DayBounds, TimesAssumption
  <1>2. \A a, b \in Nat : a < b => a * DayLength + DayLength <= b * DayLength
    <2> TAKE a, b \in Nat
    <2> HAVE a < b
    <2>1. a + 1 \in Nat /\ a + 1 <= b
      OBVIOUS
    <2>2. (a + 1) * DayLength = a * DayLength + DayLength /\ (a + 1) * DayLength <= b * DayLength
      BY <2>1, Products, TimesAssumption
    <2> QED BY <2>2
  <1>3. q * DayLength \in Nat /\ d * DayLength \in Nat
    BY <1>1, Products, TimesAssumption
  <1> HIDE DEF q
  <1>4. ~(q < d) /\ ~(d < q)
    BY <1>1, <1>2, <1>3, TimesAssumption
  <1>5. q = d
    BY <1>1, <1>4
  <1> QED BY <1>5 DEF Day, q

LEMMA DeadlineNear ==
  ASSUME TypeOK, NEW d \in Nat
  PROVE  /\ d * DayLength \in Nat /\ Deadline(d) \in Nat /\ Lap \in Nat
         /\ Deadline(d) >= d * DayLength + Hour + PassMax
         /\ Setbacks <= MaxUpsets /\ MaxUpsets * Lap + Hour + 2 * PassMax < DayLength =>
              Deadline(d) + PassMax < d * DayLength + DayLength
  <1>1. /\ Hour \in Nat /\ PassMax \in Nat /\ DayLength \in Nat /\ MaxUpsets \in Nat
        /\ Setbacks \in Nat
    BY TimesAssumption DEF TypeOK, Setbacks
  <1>2. Lap \in Nat
    BY <1>1 DEF Lap
  <1>3. d * DayLength \in Nat /\ Setbacks * Lap \in Nat /\ MaxUpsets * Lap \in Nat
        /\ (Setbacks <= MaxUpsets => Setbacks * Lap <= MaxUpsets * Lap)
    BY <1>1, <1>2, Products
  <1> QED BY <1>1, <1>2, <1>3 DEF Deadline

LEMMA DeadlineMoves ==
  ASSUME TypeOK, NEW d \in Nat
  PROVE  /\ Setbacks' = Setbacks => Deadline(d)' = Deadline(d)
         /\ Setbacks' = Setbacks + 1 => Deadline(d)' = Deadline(d) + Lap
  <1>1. /\ Hour \in Nat /\ PassMax \in Nat /\ DayLength \in Nat /\ Setbacks \in Nat
    BY TimesAssumption DEF TypeOK, Setbacks
  <1>2. Lap \in Nat
    BY <1>1 DEF Lap
  <1>3. /\ d * DayLength \in Nat /\ Setbacks * Lap \in Nat
        /\ (Setbacks + 1) * Lap = Setbacks * Lap + Lap
    BY <1>1, <1>2, Products
  <1> QED BY <1>1, <1>2, <1>3 DEF Deadline

LEMMA ReachNow ==
  ASSUME PInv, NEW s \in Servers, NEW d \in Nat, NEW job, InReach(s, job, d),
         DayKey(job, d) \notin claimed, d * DayLength <= now
  PROVE  now <= Deadline(d) + PassMax
  <1>1. /\ now \in Nat /\ Hour \in Nat /\ PassMax \in Nat /\ worker[s].began \in Nat
        /\ Deadline(d) \in Nat
    BY TimesAssumption, DeadlineNear DEF PInv, IInv, TypeOK, Worker
  <1>2. InPass(s) => now <= worker[s].began + PassMax
    BY DEF PInv, Paced
  <1> QED BY <1>1, <1>2 DEF InReach

(* With time to spare, wherever the server is. *)
LEMMA ReachAgain ==
  ASSUME PInv', NEW s \in Servers, NEW d \in Nat, NEW job,
         Deadline(d)' \in Nat, now' + Hour + PassMax <= Deadline(d)'
  PROVE  InReach(s, job, d)'
  <1>1. /\ now' \in Nat /\ Hour \in Nat /\ PassMax \in Nat
        /\ worker'[s].began \in Nat /\ worker'[s].due \in Nat
    BY TimesAssumption DEF PInv, IInv, TypeOK, Worker
  <1>2. /\ InPass(s)' => worker'[s].began <= now'
        /\ worker'[s].pc = "asleep" => worker'[s].due <= now' + Hour
    BY DEF PInv, Paced
  <1> QED BY <1>1, <1>2 DEF InReach

(* The server is where it was, and no claim of the job has gone. *)
LEMMA ReachKept ==
  ASSUME PInv, PInv', NEW s \in Servers, NEW d \in Nat, NEW job, InReach(s, job, d),
         now' = now, DayKey(job, d) \notin claimed' => DayKey(job, d) \notin claimed,
         Setbacks' \in {Setbacks, Setbacks + 1},
         InPass(s)' = InPass(s),
         ~InPass(s) => worker'[s].pc = worker[s].pc /\ worker'[s].due = worker[s].due,
         InPass(s) => worker'[s].next = worker[s].next /\ SamePass(s)
  PROVE  InReach(s, job, d)'
  <1>1. /\ now \in Nat /\ Hour \in Nat /\ PassMax \in Nat /\ Lap \in Nat
        /\ worker[s].began \in Nat /\ worker[s].due \in Nat /\ Deadline(d) \in Nat
    BY TimesAssumption, DeadlineNear DEF PInv, IInv, TypeOK, Worker
  <1>2. Deadline(d)' \in Nat /\ Deadline(d)' >= Deadline(d)
    BY <1>1, DeadlineMoves DEF PInv, IInv
  <1> SUFFICES ASSUME DayKey(job, d) \notin claimed', d * DayLength <= now'
               PROVE  \/ /\ ~InPass(s)' /\ now' <= Deadline(d)'
                         /\ (worker'[s].pc = "asleep" => worker'[s].due <= Deadline(d)')
                      \/ /\ InPass(s)' /\ worker'[s].day = d /\ worker'[s].began <= Deadline(d)'
                         /\ ToCome(s, job)'
                      \/ InPass(s)' /\ worker'[s].began + PassMax + Hour <= Deadline(d)'
    BY DEF InReach
  <1>3. DayKey(job, d) \notin claimed /\ d * DayLength <= now
    OBVIOUS
  <1>4. CASE ~InPass(s)
    BY <1>1, <1>2, <1>3, <1>4 DEF InReach
  <1>5. CASE InPass(s) /\ worker[s].began + PassMax + Hour <= Deadline(d)
    BY <1>1, <1>2, <1>5 DEF SamePass
  <1>6. CASE InPass(s) /\ worker[s].day = d /\ worker[s].began <= Deadline(d) /\ ToCome(s, job)
    <2>1. ToCome(s, job)'
      BY <1>6 DEF ToCome
    <2> QED BY <1>1, <1>2, <1>6, <2>1 DEF SamePass
  <1> QED BY <1>3, <1>4, <1>5, <1>6 DEF InReach

(* A failed run's claim is given back with a lap to spare. *)
LEMMA GivenBack ==
  ASSUME PInv, PInv', NEW q \in Servers, NEW d \in Nat, NEW job, Settles(q), now' = now,
         HeldSoon(q, job, d), worker[q].key = DayKey(job, d), worker[q].pc = "undone"
  PROVE  Deadline(d)' \in Nat /\ now' + Hour + PassMax <= Deadline(d)'
  <1>1. /\ now \in Nat /\ Hour \in Nat /\ PassMax \in Nat /\ Lap \in Nat
        /\ worker[q].began \in Nat /\ Deadline(d) \in Nat
    BY TimesAssumption, DeadlineNear DEF PInv, IInv, TypeOK, Worker
  <1>2. Deadline(d)' = Deadline(d)
    BY DeadlineMoves DEF Settles, PInv, IInv
  <1>3. now <= worker[q].began + PassMax
    BY DEF PInv, Paced, InPass
  <1>4. worker[q].began + Lap <= Deadline(d) + PassMax
    BY DEF HeldSoon, HoldsKey
  <1> QED BY <1>1, <1>2, <1>3, <1>4 DEF Lap

(* What the others do. *)
LEMMA OthersReach ==
  ASSUME PInv, PInv', NEW s \in Servers, NEW q \in Servers \ {s}, ActsAlone(q),
         NEW d \in Nat, NEW job, InReach(s, job, d), HeldSoon(q, job, d)
  PROVE  InReach(s, job, d)'
  <1>1. Turn(q) /\ now' = now /\ worker'[s] = worker[s]
    BY EachTurn, OthersStay DEF PInv
  <1>2. InPass(s)' = InPass(s) /\ SamePass(s)
    BY <1>1 DEF InPass, SamePass
  <1>3. Setbacks' \in {Setbacks, Setbacks + 1}
    BY <1>1 DEF Turn, Woken, Claims, PassesOver, Works, Settles, LiesDown, Starts, Saves, Struck,
                SameClaims
  <1>4. CASE Settles(q) /\ worker[q].pc = "undone" /\ worker[q].key = DayKey(job, d)
    BY <1>1, <1>4, GivenBack, ReachAgain
  <1>5. CASE ~(Settles(q) /\ worker[q].pc = "undone" /\ worker[q].key = DayKey(job, d))
    <2>1. DayKey(job, d) \notin claimed' => DayKey(job, d) \notin claimed
      <3>1. CASE Settles(q)
        BY <1>5, <3>1 DEF Settles
      <3>2. CASE ~Settles(q)
        BY <1>1, <3>2 DEF Turn, Woken, Claims, PassesOver, Works, LiesDown, Starts, Saves, Struck,
                          SameClaims
      <3> QED BY <3>1, <3>2
    <2> QED BY <1>1, <1>2, <1>3, <2>1, ReachKept
  <1> QED BY <1>4, <1>5

(* A pass that begins in the day, on time, has the whole list before it. *)
LEMMA WokenReach ==
  ASSUME PInv, PInv', MaxUpsets * Lap + Hour + 2 * PassMax < DayLength,
         NEW s \in Servers, NEW d \in Nat, NEW job \in DayJobs, InReach(s, job, d),
         Woken(s), now' = now
  PROVE  InReach(s, job, d)'
  <1> SUFFICES ASSUME DayKey(job, d) \notin claimed', d * DayLength <= now'
               PROVE  /\ InPass(s)' /\ worker'[s].day = d /\ worker'[s].began <= Deadline(d)'
                      /\ ToCome(s, job)'
    BY DEF InReach
  <1>1. now <= Deadline(d)
    BY DEF InReach, Woken, SameClaims, InPass
  <1>2. /\ now \in Nat /\ Deadline(d) \in Nat /\ Deadline(d)' = Deadline(d) /\ PassMax \in Nat
        /\ Deadline(d) + PassMax < d * DayLength + DayLength /\ d * DayLength \in Nat
        /\ DayLength \in Nat
    BY TimesAssumption, DeadlineNear, DeadlineMoves DEF PInv, IInv, TypeOK, Woken, SameClaims
  <1>3. Day(now) = d
    <2>1. now < d * DayLength + DayLength
      BY <1>1, <1>2
    <2> QED BY <1>2, <2>1, InTheDay
  <1>4. ToCome(s, job)'
    <2>1. PICK i \in 1..Len(Jobs) : Jobs[i] = job
      BY DEF DayJobs, JobNames
    <2> QED BY <2>1 DEF ToCome, Woken
  <1> QED BY <1>1, <1>2, <1>3, <1>4 DEF Woken, InPass

(* The turn moves on, but not past a job of the day that is unclaimed. *)
LEMMA MovesOnReach ==
  ASSUME PInv, PInv', NEW s \in Servers, NEW d \in Nat, NEW job \in DayJobs,
         <<s, job>> \notin Skipped, InReach(s, job, d), now' = now,
         \/ PassesOver(s)
         \/ Settles(s) /\ ~(worker[s].pc = "undone" /\ worker[s].key = DayKey(job, d))
  PROVE  InReach(s, job, d)'
  <1>0. /\ worker[s] \in Worker /\ worker[s].next \in Nat /\ Len(Jobs) \in Nat
        /\ InPass(s) /\ InPass(s)' /\ SamePass(s) /\ worker'[s].next = worker[s].next + 1
        /\ Deadline(d)' = Deadline(d)
    <2>1. worker[s] \in Worker /\ Len(Jobs) \in Nat
      BY JobsAssumption DEF PInv, IInv, TypeOK
    <2>2. Setbacks' = Setbacks
      BY DEF PassesOver, Settles, SameClaims
    <2>3. Deadline(d)' = Deadline(d)
      BY <2>2, DeadlineMoves DEF PInv, IInv
    <2> QED BY <2>1, <2>3 DEF Worker, PassesOver, Settles, InPass
  <1> SUFFICES ASSUME DayKey(job, d) \notin claimed', d * DayLength <= now'
               PROVE  \/ /\ InPass(s)' /\ worker'[s].day = d /\ worker'[s].began <= Deadline(d)'
                         /\ ToCome(s, job)'
                      \/ InPass(s)' /\ worker'[s].began + PassMax + Hour <= Deadline(d)'
    BY DEF InReach
  <1>1. DayKey(job, d) \notin claimed
    BY DEF PassesOver, Settles, SameClaims
  <1>2. CASE worker[s].began + PassMax + Hour <= Deadline(d)
    BY <1>0, <1>2 DEF SamePass
  <1>3. CASE worker[s].day = d /\ worker[s].began <= Deadline(d) /\ ToCome(s, job)
    <2>1. PICK i \in worker[s].next..Len(Jobs) : Jobs[i] = job
      BY <1>3 DEF ToCome
    <2>2. i # worker[s].next
      <3>1. SUFFICES ASSUME Jobs[worker[s].next] = job PROVE FALSE
        BY <2>1
      <3>2. CASE PassesOver(s)
        <4>1. KeyOf(s, job) = DayKey(job, d)
          BY <1>3 DEF DayJobs, KeyOf, DayKey
        <4> QED BY <1>1, <3>1, <3>2, <4>1 DEF PassesOver
      <3>3. CASE Settles(s)
        <4>1. HoldsKey(s) /\ worker[s].key \in claimed
          BY <3>3 DEF Settles, HoldsKey, PInv, IInv, Holder
        <4>2. Paced(s)
          BY DEF PInv
        <4>3. worker[s].key.job = Jobs[worker[s].next]
          BY <4>1, <4>2 DEF Paced
        <4>4. worker[s].key = DayKey(job, d)
          BY <1>3, <3>1, <4>1, <4>2, <4>3 DEF Paced
        <4> QED BY <1>1, <4>1, <4>4
      <3> QED BY <3>2, <3>3
    <2>3. i \in (worker[s].next + 1)..Len(Jobs)
      BY <1>0, <2>1, <2>2
    <2>4. ToCome(s, job)'
      BY <1>0, <2>1, <2>3 DEF ToCome
    <2> QED BY <1>0, <1>3, <2>4 DEF SamePass
  <1> QED BY <1>0, <1>1, <1>2, <1>3 DEF InReach

LEMMA OwnReach ==
  ASSUME PInv, PInv', MaxUpsets * Lap + Hour + 2 * PassMax < DayLength,
         NEW s \in Servers, NEW d \in Nat, NEW job \in DayJobs,
         <<s, job>> \notin Skipped, InReach(s, job, d), HeldSoon(s, job, d),
         Turn(s), now' = now
  PROVE  InReach(s, job, d)'
  <1>0. /\ now \in Nat /\ Hour \in Nat /\ PassMax \in Nat /\ Lap \in Nat
        /\ worker[s] \in Worker /\ Deadline(d) \in Nat
        /\ (Setbacks' = Setbacks => Deadline(d)' = Deadline(d))
        /\ (Setbacks' = Setbacks + 1 => Deadline(d)' = Deadline(d) + Lap)
    BY TimesAssumption, DeadlineNear, DeadlineMoves DEF PInv, IInv, TypeOK
  <1>1. CASE Woken(s)
    BY <1>1, WokenReach
  <1>2. CASE \/ PassesOver(s)
             \/ Settles(s) /\ ~(worker[s].pc = "undone" /\ worker[s].key = DayKey(job, d))
    BY <1>2, MovesOnReach
  <1>3. CASE Settles(s) /\ worker[s].pc = "undone" /\ worker[s].key = DayKey(job, d)
    BY <1>3, GivenBack, ReachAgain
  <1>4. CASE Claims(s) \/ Works(s)
    <2>1. /\ InPass(s) /\ InPass(s)' /\ SamePass(s) /\ worker'[s].next = worker[s].next
          /\ Setbacks' \in {Setbacks, Setbacks + 1} /\ claimed \subseteq claimed'
      BY <1>4 DEF Claims, Works, InPass
    <2> QED BY <2>1, ReachKept
  <1>5. CASE Saves(s)
    <2>1. /\ InPass(s)' = InPass(s) /\ SamePass(s) /\ worker'[s].next = worker[s].next
          /\ Setbacks' = Setbacks /\ claimed' = claimed
          /\ worker'[s].pc = worker[s].pc /\ worker'[s].due = worker[s].due
      BY <1>5 DEF Saves, InPass, SameClaims
    <2> QED BY <2>1, ReachKept
  (* From here on the claims are what they were. *)
  <1>6. ASSUME claimed' = claimed, DayKey(job, d) \notin claimed', d * DayLength <= now'
        PROVE  now <= Deadline(d) + PassMax
    BY <1>6, ReachNow
  <1>7. CASE LiesDown(s)
    <2>1. SUFFICES ASSUME DayKey(job, d) \notin claimed', d * DayLength <= now'
                   PROVE  /\ ~InPass(s)' /\ now' <= Deadline(d)'
                          /\ (worker'[s].pc = "asleep" => worker'[s].due <= Deadline(d)')
      BY DEF InReach
    <2>2. /\ InPass(s) /\ ~InPass(s)' /\ claimed' = claimed /\ Deadline(d)' = Deadline(d)
          /\ (worker'[s].pc = "asleep" => worker'[s].due <= now + Hour)
      BY <1>0, <1>7 DEF LiesDown, Sleeps, SameClaims, InPass
    <2>3. ~ToCome(s, job)
      BY <1>0, <1>7 DEF LiesDown, ToCome, Worker
    <2>4. worker[s].began + PassMax + Hour <= Deadline(d)
      BY <2>1, <2>2, <2>3 DEF InReach
    <2>5. /\ now <= worker[s].began + PassMax /\ worker[s].began \in Nat
          /\ (worker'[s].pc = "asleep" => worker'[s].due \in Nat)
      BY <1>0, <2>2 DEF PInv, Paced, IInv, TypeOK, Worker
    <2> QED BY <1>0, <2>2, <2>4, <2>5
  <1>8. CASE Starts(s)
    <2>1. /\ ~InPass(s) /\ ~InPass(s)' /\ worker'[s].due = now /\ claimed' = claimed
          /\ Deadline(d)' = Deadline(d)
      BY <1>0, <1>8 DEF Starts, SameClaims, InPass
    <2> QED BY <2>1 DEF InReach
  <1>9. CASE Struck(s)
    <2>1. /\ ~InPass(s)' /\ claimed' = claimed /\ Deadline(d)' = Deadline(d) + Lap
          /\ (worker'[s].pc = "asleep" => worker'[s].due <= now + Hour)
      BY <1>0, <1>9 DEF Struck, Sleeps, InPass
    <2>2. SUFFICES ASSUME DayKey(job, d) \notin claimed', d * DayLength <= now'
                   PROVE  now' + Hour <= Deadline(d)'
      <3>1. worker'[s].pc = "asleep" => worker'[s].due \in Nat
        BY DEF PInv, IInv, TypeOK, Worker
      <3> QED BY <1>0, <2>1, <3>1 DEF InReach
    <2> QED BY <1>0, <1>6, <2>1, <2>2 DEF Lap
  <1> QED BY <1>1, <1>2, <1>3, <1>4, <1>5, <1>7, <1>8, <1>9 DEF Turn

(* A claim of the job is made, and a failed one given up, in time. *)
LEMMA OwnHold ==
  ASSUME PInv, PInv', NEW s \in Servers, NEW q \in Servers, NEW d \in Nat, NEW job \in DayJobs,
         InReach(s, job, d), HeldSoon(q, job, d), Turn(q), now' = now
  PROVE  HeldSoon(q, job, d)'
  <1>0. /\ now \in Nat /\ Hour \in Nat /\ PassMax \in Nat /\ Lap \in Nat
        /\ worker[q].began \in Nat /\ worker'[q].began \in Nat /\ Deadline(d) \in Nat
        /\ (Setbacks' = Setbacks => Deadline(d)' = Deadline(d))
        /\ (Setbacks' = Setbacks + 1 => Deadline(d)' = Deadline(d) + Lap)
    BY TimesAssumption, DeadlineNear, DeadlineMoves DEF PInv, IInv, TypeOK, Worker
  <1>1. CASE Claims(q)
    <2>1. SUFFICES ASSUME worker'[q].key = DayKey(job, d)
                   PROVE  worker[q].began <= Deadline(d) + PassMax
      BY <1>0, <1>1 DEF HeldSoon, Claims, SamePass
    <2>2. DayKey(job, d) \notin claimed
      BY <1>1, <2>1 DEF Claims
    <2>3. worker[q].day = d
      BY <1>1, <2>1 DEF Claims, KeyOf, DayKey
    <2>4. worker[q].began <= now /\ Day(worker[q].began) = d
      BY <1>1, <2>3 DEF Claims, InPass, PInv, Paced
    <2>5. d * DayLength <= worker[q].began /\ d * DayLength \in Nat
      <3>1. Day(worker[q].began) * DayLength <= worker[q].began
        BY <1>0, DayBounds, TimesAssumption DEF Day
      <3> QED BY <2>4, <3>1, DeadlineNear DEF PInv, IInv
    <2>6. now <= Deadline(d) + PassMax
      BY <1>0, <2>2, <2>4, <2>5, ReachNow
    <2> QED BY <1>0, <2>4, <2>6
  <1>2. CASE Works(q)
    <2>1. /\ worker[q].key = worker'[q].key /\ worker'[q].began = worker[q].began
          /\ HoldsKey(q) /\ worker[q].pc # "undone"
      BY <1>2 DEF Works, SamePass, HoldsKey
    <2>2. SUFFICES ASSUME worker[q].key = DayKey(job, d)
                   PROVE  worker[q].began + (IF worker'[q].pc = "undone" THEN Lap ELSE 0)
                            <= Deadline(d)' + PassMax
      BY <2>1 DEF HeldSoon
    <2>3. worker[q].began <= Deadline(d) + PassMax
      BY <1>0, <2>1, <2>2 DEF HeldSoon
    <2>4. worker[q].key.job # Backup
      BY <2>2 DEF DayKey, DayJobs
    <2>5. \/ Deadline(d)' = Deadline(d) + Lap
          \/ Deadline(d)' = Deadline(d) /\ worker'[q].pc # "undone"
      BY <1>0, <1>2, <2>4 DEF Works
    <2> QED BY <1>0, <2>3, <2>5
  <1>3. CASE Saves(q)
    <2>1. HoldsKey(q)' = HoldsKey(q) /\ worker'[q].began = worker[q].began
      BY <1>3 DEF Saves, HoldsKey, SamePass
    <2>2. Deadline(d)' = Deadline(d)
      BY <1>0, <1>3 DEF Saves, SameClaims
    <2> QED BY <1>3, <2>1, <2>2 DEF Saves, HeldSoon
  <1>4. CASE \/ Woken(q) \/ PassesOver(q) \/ Settles(q) \/ LiesDown(q) \/ Starts(q) \/ Struck(q)
    <2>1. ~HoldsKey(q)'
      BY <1>4 DEF Woken, PassesOver, Settles, LiesDown, Starts, Struck, Sleeps, HoldsKey
    <2> QED BY <2>1 DEF HeldSoon
  <1> QED BY <1>1, <1>2, <1>3, <1>4 DEF Turn

(* What the others hold stays in time: the deadline never moves back. *)
LEMMA OthersHoldSoon ==
  ASSUME PInv, PInv', NEW q \in Servers, NEW d \in Nat, NEW job,
         HeldSoon(q, job, d), worker'[q] = worker[q], Setbacks' \in {Setbacks, Setbacks + 1}
  PROVE  HeldSoon(q, job, d)'
  <1>1. /\ worker[q].began \in Nat /\ PassMax \in Nat /\ Lap \in Nat /\ Deadline(d) \in Nat
        /\ Deadline(d)' \in {Deadline(d), Deadline(d) + Lap}
    BY TimesAssumption, DeadlineNear, DeadlineMoves DEF PInv, IInv, TypeOK, Worker
  <1>2. HoldsKey(q)' = HoldsKey(q)
    BY DEF HoldsKey
  <1> QED BY <1>1, <1>2 DEF HeldSoon

(* A tick later: a steady server is up, and asleep only until it is due. *)
LEMMA TickReach ==
  ASSUME PInv, PInv', NEW s \in Steady, NEW d \in Nat, NEW job \in DayJobs,
         InReach(s, job, d), Tick
  PROVE  InReach(s, job, d)'
  <1>0. s \in Servers
    BY ServersAssumption
  <1>1. /\ now \in Nat /\ Hour \in Nat \ {0} /\ PassMax \in Nat /\ Lap \in Nat
        /\ worker[s].began \in Nat /\ worker[s].due \in Nat /\ d * DayLength \in Nat
        /\ Deadline(d) \in Nat /\ Deadline(d) >= d * DayLength + Hour + PassMax
    BY <1>0, TimesAssumption, DeadlineNear DEF PInv, IInv, TypeOK, Worker
  <1>2. /\ now' = now + 1 /\ worker' = worker /\ claimed' = claimed /\ Setbacks' = Setbacks
        /\ worker[s].pc # "off"
        /\ worker[s].pc = "asleep" => worker[s].due > now
    BY <1>0 DEF Tick, Setbacks
  <1>3. Deadline(d)' = Deadline(d)
    BY <1>2, DeadlineMoves DEF PInv, IInv
  <1>4. InPass(s)' = InPass(s) /\ ToCome(s, job)' = ToCome(s, job)
    BY <1>2 DEF InPass, ToCome
  <1> SUFFICES ASSUME DayKey(job, d) \notin claimed, d * DayLength <= now + 1
               PROVE  \/ /\ ~InPass(s) /\ now + 1 <= Deadline(d)
                         /\ (worker[s].pc = "asleep" => worker[s].due <= Deadline(d))
                      \/ /\ InPass(s) /\ worker[s].day = d /\ worker[s].began <= Deadline(d)
                         /\ ToCome(s, job)
                      \/ InPass(s) /\ worker[s].began + PassMax + Hour <= Deadline(d)
    BY <1>2, <1>3, <1>4 DEF InReach
  <1>5. Paced(s)
    BY <1>0 DEF PInv
  <1>6. CASE d * DayLength <= now
    <2>1. CASE InPass(s)
      BY <1>6, <2>1 DEF InReach
    <2>2. CASE ~InPass(s)
      <3>1. worker[s].due <= Deadline(d) /\ worker[s].due > now
        BY <1>2, <1>6, <2>2 DEF InReach, InPass
      <3> QED BY <1>1, <2>2, <3>1
    <2> QED BY <2>1, <2>2
  <1>7. CASE d * DayLength = now + 1
    <2>1. CASE InPass(s)
      <3>1. worker[s].began <= now
        BY <1>5, <2>1 DEF Paced
      <3> QED BY <1>1, <1>7, <2>1, <3>1
    <2>2. CASE ~InPass(s)
      <3>1. worker[s].due <= now + Hour
        BY <1>2, <1>5, <2>2 DEF Paced, InPass
      <3> QED BY <1>1, <1>7, <2>2, <3>1
    <2> QED BY <2>1, <2>2
  <1> QED BY <1>1, <1>6, <1>7

(* The invariant of a day's job, for a steady server that runs it. *)
OnTime(s) ==
  \A job \in DayJobs, d \in Nat :
    InReach(s, job, d) /\ \A q \in Servers : HeldSoon(q, job, d)

LEMMA InitOnTime ==
  ASSUME Init, NEW s \in Steady PROVE OnTime(s)
  <1>1. TypeOK /\ s \in Servers
    BY InitIInv, ServersAssumption DEF IInv
  <1>2. \A q \in Servers : worker[q] \in {Fresh("asleep", 0), Fresh("off", 0)}
    BY DEF Init
  <1>3. worker[s].pc = "asleep" /\ worker[s].due = 0 /\ now = 0
    BY <1>1, <1>2 DEF Init, Fresh
  <1>4. \A q \in Servers : ~HoldsKey(q)
    BY <1>2 DEF HoldsKey, Fresh
  <1>5. ASSUME NEW job \in DayJobs, NEW d \in Nat PROVE InReach(s, job, d)
    <2>1. Deadline(d) \in Nat
      BY <1>1, DeadlineNear
    <2> QED BY <1>3, <2>1 DEF InReach, InPass
  <1> QED BY <1>4, <1>5 DEF OnTime, HeldSoon

LEMMA NextOnTime ==
  ASSUME PInv, [Next]_vars, MaxUpsets * Lap + Hour + 2 * PassMax < DayLength,
         NEW s \in Steady, \A job \in DayJobs : <<s, job>> \notin Skipped, OnTime(s)
  PROVE  OnTime(s)'
  <1>0. PInv' /\ s \in Servers
    BY NextPInv, ServersAssumption
  <1> SUFFICES ASSUME NEW job \in DayJobs, NEW d \in Nat
               PROVE  InReach(s, job, d)' /\ \A q \in Servers : HeldSoon(q, job, d)'
    BY DEF OnTime, DayJobs, JobNames
  <1>1. <<s, job>> \notin Skipped /\ InReach(s, job, d) /\ \A q \in Servers : HeldSoon(q, job, d)
    BY DEF OnTime
  <1>2. ASSUME NEW r \in Servers, ActsAlone(r)
        PROVE  InReach(s, job, d)' /\ \A q \in Servers : HeldSoon(q, job, d)'
    <2>1. /\ Turn(r) /\ now' = now /\ (\A q \in Servers \ {r} : worker'[q] = worker[q])
      BY <1>2, EachTurn, OthersStay DEF PInv
    <2>2. Setbacks' \in {Setbacks, Setbacks + 1}
      BY <2>1 DEF Turn, Woken, Claims, PassesOver, Works, Settles, LiesDown, Starts, Saves, Struck,
                  SameClaims
    <2>3. InReach(s, job, d)'
      <3>1. CASE r = s
        BY <1>0, <1>1, <2>1, <3>1, OwnReach
      <3>2. CASE r # s
        BY <1>0, <1>1, <1>2, <3>2, OthersReach
      <3> QED BY <3>1, <3>2
    <2>4. HeldSoon(r, job, d)'
      BY <1>0, <1>1, <2>1, OwnHold
    <2>5. \A q \in Servers \ {r} : HeldSoon(q, job, d)'
      BY <1>0, <1>1, <2>1, <2>2, OthersHoldSoon
    <2> QED BY <2>3, <2>4, <2>5
  <1>3. CASE Tick
    <2>1. worker' = worker /\ Setbacks' = Setbacks
      BY <1>3 DEF Tick, Setbacks
    <2>2. InReach(s, job, d)'
      BY <1>0, <1>1, <1>3, TickReach
    <2> QED BY <1>0, <1>1, <2>1, <2>2, OthersHoldSoon
  <1>4. CASE UNCHANGED vars
    <2>1. worker' = worker /\ Setbacks' = Setbacks /\ claimed' = claimed /\ now' = now
      BY <1>4 DEF vars, Setbacks
    <2>2. InPass(s)' = InPass(s) /\ SamePass(s)
      BY <2>1 DEF InPass, SamePass
    <2>3. InReach(s, job, d)'
      BY <1>0, <1>1, <2>1, <2>2, ReachKept
    <2> QED BY <1>0, <1>1, <2>1, <2>3, OthersHoldSoon
  <1> QED BY <1>2, <1>3, <1>4 DEF Next, ActsAlone, Exhausted

(* A day's job that nobody finished and nobody has in hand has a claim.    *)
LEMMA LostWasClaimed ==
  ASSUME PInv, MaxUpsets * Lap + Hour + 2 * PassMax < DayLength,
         NEW s \in Steady, OnTime(s)
  PROVE  Lost \subseteq LeftBehind
  <1> SUFFICES ASSUME NEW k \in Lost, k \notin claimed PROVE FALSE
    BY DEF Lost, LeftBehind
  <1>1. s \in Servers /\ now \in Nat /\ DayLength \in Nat \ {0}
    BY ServersAssumption, TimesAssumption DEF PInv, IInv, TypeOK
  <1>2. Day(now) \in Nat /\ Day(now) * DayLength <= now
    BY <1>1, DayBounds DEF Day
  <1>3. PICK job \in DayJobs, d \in 0..(Day(now) - 1) : k = DayKey(job, d)
    BY DEF Lost, DayJobs, DayKey
  <1>4. d \in Nat /\ d + 1 \in Nat /\ d + 1 <= Day(now)
    BY <1>2, <1>3
  <1>5. d * DayLength \in Nat /\ d * DayLength + DayLength <= now
    <2>1. /\ (d + 1) * DayLength = d * DayLength + DayLength
          /\ (d + 1) * DayLength <= Day(now) * DayLength
          /\ d * DayLength \in Nat /\ Day(now) * DayLength \in Nat
      BY <1>1, <1>2, <1>4, Products
    <2> QED BY <1>1, <1>2, <2>1
  <1>6. InReach(s, job, d)
    BY <1>4 DEF OnTime
  <1>7. now <= Deadline(d) + PassMax
    <2>1. d * DayLength <= now
      BY <1>1, <1>5
    <2> QED BY <1>1, <1>3, <1>4, <1>6, <2>1, ReachNow
  <1>8. /\ Deadline(d) + PassMax < d * DayLength + DayLength
        /\ Deadline(d) \in Nat /\ PassMax \in Nat
    BY <1>4, DeadlineNear, TimesAssumption DEF PInv, IInv
  <1> QED BY <1>1, <1>5, <1>7, <1>8

(* One bad run does not cost a day, for any number of servers, of jobs and *)
(* of runs that fail: given one server that is never switched off and runs *)
(* all the day's jobs, and a day long enough for a pass an hour into it    *)
(* and a lap - the hour's sleep and the passes around it - for every run   *)
(* that fails or is cut short, a job is left undone on a day only by the   *)
(* claim that a death or a lost database left behind, one job's each.      *)
THEOREM DaysCostFaults ==
  ASSUME NEW s0 \in Steady, \A job \in JobNames \ (Hourly \cup {Backup}) : <<s0, job>> \notin Skipped,
         MaxUpsets * (Hour + 3 * PassMax) + Hour + 2 * PassMax < DayLength
  PROVE  Spec => []OnlyFaultsCostADay
  <1> DEFINE DInv == LInv /\ PInv /\ OnTime(s0)
  <1>0. /\ MaxUpsets * Lap + Hour + 2 * PassMax < DayLength
        /\ \A job \in DayJobs : <<s0, job>> \notin Skipped
    BY DEF Lap, DayJobs
  <1>1. Init => DInv
    BY InitLInv, InitPInv, InitOnTime
  <1>2. DInv /\ [Next]_vars => DInv'
    BY <1>0, NextLInv, NextPInv, NextOnTime
  <1>3. DInv => OnlyFaultsCostADay
    <2> SUFFICES ASSUME DInv PROVE OnlyFaultsCostADay
      OBVIOUS
    <2>1. Lost \subseteq LeftBehind /\ IsFiniteSet(LeftBehind)
      BY <1>0, LostWasClaimed DEF LInv
    <2>2. /\ Cardinality(Lost) <= Cardinality(LeftBehind)
          /\ Cardinality(Lost) \in Nat /\ Cardinality(LeftBehind) \in Nat
      BY <2>1, FS_Subset, FS_CardinalityType
    <2>3. Cardinality(LeftBehind) <= faults /\ faults \in Nat
      BY DEF LInv, OnlyFaultsLeaveClaims, IInv, TypeOK
    <2> QED BY <2>2, <2>3 DEF OnlyFaultsCostADay
  <1> HIDE DEF DInv
  <1> QED BY <1>1, <1>2, <1>3, PTL DEF Spec

-----------------------------------------------------------------------------
(***************************************************************************)
(* The sweeps of an hour.  Between two claims of an hourly job pass three  *)
(* hours and the passes around them at most: a steady server finds the key *)
(* of the hour taken once, and once the same hour's of the day before,     *)
(* over midnight, and comes again.  A claim ends in a sweep or is counted. *)
(***************************************************************************)
Span == 3 * Hour + 4 * PassMax

Sweeping(s, j) == worker[s].pc = "work" /\ worker[s].key.job = j

(* Every row of the job is from c, or earlier, and of an hour of its day. *)
Rowed(j, c) ==
  \A k \in claimed :
    k.job = j => \E t \in 0..c : HourOf(t) = k.mark /\ k.day <= Day(t)

(* By b the hour is another, or the day is: if not, b is not over midnight. *)
Near(b, day, c) ==
  \/ b <= c + 2 * Hour + PassMax
  \/ b <= c + 3 * Hour + 2 * PassMax /\ b + PassMax < (day + 1) * DayLength

(* Where a server is that comes to the job after c: asleep, or before its  *)
(* turn; or past it, in the hour of c or over midnight.                    *)
Coming(s, j, c) ==
  \/ /\ ~InPass(s)
     /\ \E b \in 0..(c + 3 * Hour + 2 * PassMax) :
          /\ now <= b /\ (worker[s].pc = "asleep" => worker[s].due <= b)
          /\ Near(b, Day(now), c)
  \/ /\ InPass(s) /\ ToCome(s, j) /\ ~(HoldsKey(s) /\ worker[s].key.job = j)
     /\ Near(worker[s].began, worker[s].day, c)
  \/ InPass(s) /\ worker[s].began <= c + Hour
  \/ /\ InPass(s) /\ worker[s].began <= c + 2 * Hour + PassMax
     /\ (worker[s].day + 1) * DayLength <= now

Allowed(j) == swept[j] + Setbacks * Span

(* The last claim is paid for by a sweep and the setbacks since, or a run  *)
(* under way will pay for it.                                              *)
Owed(j, c) ==
  \/ c <= Allowed(j)
  \/ \E q \in Servers :
       Sweeping(q, j) /\ worker[q].began + PassMax <= Allowed(j) + Span

(* The invariant of an hourly job, for a steady server that runs it. *)
SweptBy(s, j) == \E c \in 0..now : Rowed(j, c) /\ Coming(s, j, c) /\ Owed(j, c)

LEMMA DayAt ==
  ASSUME NEW t \in Nat
  PROVE  /\ Day(t) \in Nat /\ Day(t) + 1 \in Nat
         /\ Day(t) * DayLength \in Nat /\ (Day(t) + 1) * DayLength \in Nat
         /\ Day(t) * DayLength <= t
         /\ (Day(t) + 1) * DayLength = Day(t) * DayLength + DayLength
         /\ t < (Day(t) + 1) * DayLength
  <1>1. DayLength \in Nat \ {0}
    BY TimesAssumption
  <1>2. Day(t) \in Nat /\ Day(t) * DayLength <= t /\ t < Day(t) * DayLength + DayLength
    BY <1>1, DayBounds DEF Day
  <1>3. /\ Day(t) * DayLength \in Nat
        /\ (Day(t) + 1) * DayLength = Day(t) * DayLength + DayLength
    BY <1>1, <1>2, Products
  <1>4. Day(t) + 1 \in Nat
    BY <1>2
  <1>5. (Day(t) + 1) * DayLength \in Nat
    BY <1>1, <1>4, Products
  <1> QED BY <1>2, <1>3, <1>4, <1>5

LEMMA DayOrder ==
  ASSUME NEW t \in Nat, NEW u \in Nat, t <= u
  PROVE  Day(t) <= Day(u)
  <1>1. /\ Day(t) \in Nat /\ Day(u) \in Nat /\ Day(u) + 1 \in Nat /\ DayLength \in Nat
        /\ Day(t) * DayLength <= t /\ u < (Day(u) + 1) * DayLength
        /\ Day(t) * DayLength \in Nat /\ (Day(u) + 1) * DayLength \in Nat
    BY DayAt, TimesAssumption
  <1>2. SUFFICES ASSUME Day(u) + 1 <= Day(t) PROVE FALSE
    BY <1>1
  <1>3. (Day(u) + 1) * DayLength <= Day(t) * DayLength
    BY <1>1, <1>2, Products
  <1> QED BY <1>1, <1>3

(* A later day has begun. *)
LEMMA DayBegun ==
  ASSUME NEW t \in Nat, NEW d \in Nat, d < Day(t)
  PROVE  (d + 1) * DayLength \in Nat /\ (d + 1) * DayLength <= t
  <1>1. /\ Day(t) \in Nat /\ Day(t) * DayLength \in Nat /\ Day(t) * DayLength <= t
        /\ DayLength \in Nat /\ d + 1 \in Nat /\ d + 1 <= Day(t)
    BY DayAt, TimesAssumption
  <1>2. (d + 1) * DayLength \in Nat /\ (d + 1) * DayLength <= Day(t) * DayLength
    BY <1>1, Products
  <1> QED BY <1>1, <1>2

(* Of one hour of one day. *)
LEMMA SameHour ==
  ASSUME NEW t \in Nat, NEW u \in Nat, Day(t) = Day(u), HourOf(t) = HourOf(u)
  PROVE  u < t + Hour
  <1>1. DayLength \in Nat \ {0} /\ Hour \in Nat \ {0}
    BY TimesAssumption
  <1> DEFINE x == t % DayLength
             y == u % DayLength
  <1>2. x \in Nat /\ y \in Nat
    BY <1>1, SMT
  <1>3. t = DayLength * Day(t) + x /\ u = DayLength * Day(t) + y
    BY <1>1, SMT DEF Day
  <1>4. DayLength * Day(t) \in Nat
    <2>1. Day(t) \in Nat
      BY DayAt
    <2> QED BY <1>1, <2>1, Products
  <1>5. u - t = y - x
    <2> PICK z \in Nat : z = DayLength * Day(t)
      BY <1>4
    <2> HIDE DEF x, y
    <2> QED BY <1>2, <1>3
  <1>6. x \div Hour = y \div Hour
    BY DEF HourOf
  <1>7. y < x + Hour
    <2> HIDE DEF x, y
    <2>1. /\ (x \div Hour) * Hour <= x /\ y < (y \div Hour) * Hour + Hour
          /\ x \div Hour \in Nat
      BY <1>1, <1>2, DayBounds
    <2>2. (x \div Hour) * Hour \in Nat
      BY <1>1, <2>1, Products
    <2> QED BY <1>1, <1>2, <1>6, <2>1, <2>2
  <1> QED BY <1>1, <1>2, <1>5, <1>7

LEMMA SpanMoves ==
  ASSUME TypeOK
  PROVE  /\ Span \in Nat /\ Setbacks \in Nat /\ Setbacks * Span \in Nat
         /\ Setbacks' = Setbacks => Setbacks' * Span = Setbacks * Span
         /\ Setbacks' = Setbacks + 1 => Setbacks' * Span = Setbacks * Span + Span
  <1>1. Hour \in Nat /\ PassMax \in Nat /\ Setbacks \in Nat
    BY TimesAssumption DEF TypeOK, Setbacks
  <1>2. Span \in Nat
    BY <1>1 DEF Span
  <1> QED BY <1>1, <1>2, Products

LEMMA Times ==
  ASSUME TypeOK
  PROVE  /\ now \in Nat /\ Hour \in Nat \ {0} /\ PassMax \in Nat /\ DayLength \in Nat \ {0}
         /\ \A s \in Servers : /\ worker[s] \in Worker /\ worker[s].began \in Nat
                               /\ worker[s].due \in Nat /\ worker[s].day \in Nat
  BY TimesAssumption DEF TypeOK, Worker

-----------------------------------------------------------------------------
(* Coming from now on: wherever the server is. *)
LEMMA ComingAnew ==
  ASSUME PInv', NEW s \in Servers, NEW j
  PROVE  Coming(s, j, now)'
  <1>1. /\ now' \in Nat /\ Hour \in Nat /\ PassMax \in Nat
        /\ worker'[s].began \in Nat /\ worker'[s].due \in Nat
    BY TimesAssumption DEF PInv, IInv, TypeOK, Worker
  <1>2. /\ InPass(s)' => worker'[s].began <= now'
        /\ worker'[s].pc = "asleep" => worker'[s].due <= now' + Hour
    BY DEF PInv, Paced
  <1>3. CASE InPass(s)'
    BY <1>1, <1>2, <1>3 DEF Coming
  <1>4. CASE ~InPass(s)'
    <2> DEFINE b == now' + Hour
    <2>1. b \in 0..(now' + 3 * Hour + 2 * PassMax) /\ now' <= b
      BY <1>1
    <2>2. worker'[s].pc = "asleep" => worker'[s].due <= b
      BY <1>2
    <2>3. Near(b, Day(now'), now')
      BY <1>1 DEF Near
    <2> HIDE DEF b
    <2> QED BY <1>4, <2>1, <2>2, <2>3 DEF Coming
  <1> QED BY <1>3, <1>4

(* It is not long until the next claim. *)
LEMMA ComingSoon ==
  ASSUME PInv, NEW s \in Servers, NEW j, NEW c \in Nat, Coming(s, j, c)
  PROVE  now <= c + 3 * Hour + 3 * PassMax
  <1>1. TypeOK
    BY DEF PInv, IInv
  <1>2. CASE InPass(s)
    <2>1. now <= worker[s].began + PassMax
      BY <1>2 DEF PInv, Paced
    <2>2. worker[s].began <= c + 3 * Hour + 2 * PassMax
      BY <1>1, <1>2, Times DEF Coming, Near
    <2> QED BY <1>1, <2>1, <2>2, Times
  <1>3. CASE ~InPass(s)
    <2>1. PICK b \in 0..(c + 3 * Hour + 2 * PassMax) : now <= b
      BY <1>3 DEF Coming
    <2> QED BY <1>1, <2>1, Times
  <1> QED BY <1>2, <1>3

LEMMA AllowedNow ==
  ASSUME PInv, NEW s \in Servers, NEW j \in Hourly, NEW c \in Nat,
         Coming(s, j, c), Owed(j, c)
  PROVE  swept[j] \in Nat /\ Allowed(j) \in Nat /\ now <= Allowed(j) + Span
  <1>1. TypeOK
    BY DEF PInv, IInv
  <1>2. swept[j] \in Nat /\ Allowed(j) \in Nat /\ Span \in Nat
    BY <1>1, SpanMoves DEF TypeOK, Allowed
  <1>3. CASE c <= Allowed(j)
    <2>1. now <= c + 3 * Hour + 3 * PassMax
      BY ComingSoon
    <2> QED BY <1>1, <1>2, <1>3, <2>1, Times DEF Span
  <1>4. ASSUME NEW q \in Servers, Sweeping(q, j),
               worker[q].began + PassMax <= Allowed(j) + Span
        PROVE now <= Allowed(j) + Span
    <2>1. now <= worker[q].began + PassMax
      BY <1>4 DEF Sweeping, InPass, PInv, Paced
    <2> QED BY <1>1, <1>2, <1>4, <2>1, Times
  <1> QED BY <1>2, <1>3, <1>4 DEF Owed

-----------------------------------------------------------------------------
(* What a step is to the sweeps: a setback, a sweep, or neither.           *)
LEMMA SweepMoves ==
  ASSUME IInv, NEW q \in Servers, ActsAlone(q), NEW j \in Hourly
  PROVE  \/ swept'[j] = swept[j] /\ Setbacks' = Setbacks + 1 /\ claimed' = claimed
         \/ swept'[j] = now /\ Setbacks' = Setbacks /\ claimed' = claimed
         \/ /\ swept'[j] = swept[j] /\ Setbacks' = Setbacks
            /\ Sweeping(q, j) => Sweeping(q, j)' /\ SamePass(q)
  <1>0. fails \in Nat /\ faults \in Nat /\ worker[q] \in Worker /\ j # Backup
    BY JobsAssumption DEF IInv, TypeOK
  <1>1. CASE Fail(q) \/ Die(q) \/ LoseDatabase(q)
    BY <1>0, <1>1 DEF Fail, Die, LoseDatabase, Setbacks
  <1>2. CASE Run(q)
    <2>1. Setbacks' = Setbacks /\ claimed' = claimed
      BY <1>2 DEF Run, Setbacks
    <2>2. CASE worker[q].key.job = j
      BY <1>2, <2>1, <2>2 DEF Run, IInv, TypeOK
    <2>3. CASE worker[q].key.job # j
      <3>1. swept'[j] = swept[j]
        BY <1>2, <2>3 DEF Run, IInv, TypeOK
      <3> QED BY <2>1, <2>3, <3>1 DEF Sweeping
    <2> QED BY <2>2, <2>3
  <1>3. CASE \/ Wake(q) \/ Claim(q) \/ BackUp(q) \/ WriteBackup(q) \/ Settle(q) \/ Rest(q)
             \/ Boot(q)
    <2>1. swept' = swept /\ Setbacks' = Setbacks
      BY <1>3 DEF Wake, Claim, BackUp, WriteBackup, Settle, Rest, Boot, Setbacks
    <2>2. ~Sweeping(q, j)
      BY <1>0, <1>3 DEF Wake, Claim, BackUp, WriteBackup, Settle, Rest, Boot, Sweeping
    <2> QED BY <2>1, <2>2
  <1>4. CASE \E c \in Clocks \cup {Off} : SaveSchedule(q, c)
    <2>1. swept' = swept /\ Setbacks' = Setbacks
      BY <1>4 DEF SaveSchedule, Setbacks
    <2>2. worker'[q] = [worker[q] EXCEPT !.wake = TRUE]
      BY <1>4 DEF SaveSchedule, IInv, TypeOK
    <2>3. worker'[q].pc = worker[q].pc /\ worker'[q].key = worker[q].key /\ SamePass(q)
      BY <1>0, <2>2 DEF Worker, SamePass
    <2> QED BY <2>1, <2>3 DEF Sweeping
  <1> QED BY <1>1, <1>2, <1>3, <1>4 DEF ActsAlone, Step

(* A server past its turn stays so until it lies down. *)
LEMMA ComingPast ==
  ASSUME NEW s \in Servers, NEW j, NEW c, InPass(s)', SamePass(s), now' = now,
         \/ worker[s].began <= c + Hour
         \/ /\ worker[s].began <= c + 2 * Hour + PassMax
            /\ (worker[s].day + 1) * DayLength <= now
  PROVE  Coming(s, j, c)'
  BY DEF Coming, SamePass

(* A server that is where it was. *)
LEMMA ComingKept ==
  ASSUME NEW s \in Servers, NEW j, NEW c, Coming(s, j, c), now' = now, SamePass(s),
         worker'[s].pc = worker[s].pc, worker'[s].due = worker[s].due,
         worker'[s].next = worker[s].next, worker'[s].key = worker[s].key
  PROVE  Coming(s, j, c)'
  <1>1. InPass(s)' = InPass(s) /\ HoldsKey(s)' = HoldsKey(s) /\ ToCome(s, j)' = ToCome(s, j)
    BY DEF InPass, HoldsKey, ToCome
  <1>2. CASE ~InPass(s)
    <2>1. PICK b \in 0..(c + 3 * Hour + 2 * PassMax) :
            /\ now <= b /\ (worker[s].pc = "asleep" => worker[s].due <= b)
            /\ Near(b, Day(now), c)
      BY <1>2 DEF Coming
    <2>2. now' <= b /\ (worker'[s].pc = "asleep" => worker'[s].due <= b) /\ Near(b, Day(now'), c)
      BY <2>1
    <2> QED BY <1>1, <1>2, <2>2 DEF Coming
  <1>3. CASE InPass(s)
    BY <1>1, <1>3 DEF Coming, SamePass
  <1> QED BY <1>2, <1>3

(* It wakes, with the whole list before it. *)
LEMMA ComingWoken ==
  ASSUME PInv, NEW s \in Servers, NEW j \in JobNames, NEW c \in Nat, Coming(s, j, c),
         Woken(s), now' = now
  PROVE  Coming(s, j, c)'
  <1>1. TypeOK
    BY DEF PInv, IInv
  <1>2. InPass(s)' /\ ~InPass(s) /\ ~HoldsKey(s)' /\ ToCome(s, j)'
    <2>1. PICK i \in 1..Len(Jobs) : Jobs[i] = j
      BY DEF JobNames
    <2> QED BY <2>1 DEF Woken, InPass, HoldsKey, ToCome
  <1>3. PICK b \in 0..(c + 3 * Hour + 2 * PassMax) : now <= b /\ Near(b, Day(now), c)
    BY <1>2 DEF Coming
  <1>4. Near(now, Day(now), c)
    <2>1. /\ now \in Nat /\ b \in Nat /\ Hour \in Nat /\ PassMax \in Nat
      BY <1>1, <1>3, Times
    <2>2. (Day(now) + 1) * DayLength \in Nat
      BY <2>1, DayAt
    <2> QED BY <1>3, <2>1, <2>2 DEF Near
  <1> QED BY <1>2, <1>4 DEF Coming, Woken

(* It finds a row: of the hour of c, or over midnight. *)
LEMMA ComingPassesOver ==
  ASSUME PInv, NEW s \in Servers, NEW j \in Hourly, <<s, j>> \notin Skipped,
         NEW c \in 0..now, Rowed(j, c), Coming(s, j, c), PassesOver(s), now' = now
  PROVE  Coming(s, j, c)'
  <1>1. TypeOK /\ j # Backup /\ Paced(s) /\ now \in Nat /\ c \in Nat
    <2>1. TypeOK /\ j # Backup /\ Paced(s)
      BY JobsAssumption DEF PInv, IInv
    <2>2. now \in Nat
      BY <2>1, Times
    <2> QED BY <2>1, <2>2
  <1>2. /\ InPass(s) /\ InPass(s)' /\ SamePass(s) /\ ~HoldsKey(s)'
        /\ worker'[s].next = worker[s].next + 1
    BY DEF PassesOver, InPass, HoldsKey
  <1>3. CASE \/ worker[s].began <= c + Hour
             \/ /\ worker[s].began <= c + 2 * Hour + PassMax
                /\ (worker[s].day + 1) * DayLength <= now
    BY <1>2, <1>3, ComingPast
  <1>4. CASE ToCome(s, j) /\ Near(worker[s].began, worker[s].day, c)
    <2>1. CASE Jobs[worker[s].next] = j
      <3> DEFINE k == KeyOf(s, j)
                 d == worker[s].day
      <3>1. k \in claimed /\ k.job = j /\ k.mark = HourOf(now) /\ k.day = d
        BY <1>1, <2>1 DEF PassesOver, KeyOf
      <3>2. PICK t \in 0..c : HourOf(t) = HourOf(now) /\ d <= Day(t)
        BY <3>1 DEF Rowed
      <3>3. /\ t \in Nat /\ t <= now /\ d \in Nat /\ Day(t) \in Nat /\ Day(now) \in Nat
            /\ Day(t) <= Day(now)
        <4>1. t \in Nat /\ t <= now /\ d \in Nat
          BY <1>1, <3>2, Times
        <4> HIDE DEF d
        <4>2. Day(t) \in Nat /\ Day(now) \in Nat
          BY <1>1, <4>1, DayAt
        <4> QED BY <1>1, <4>1, <4>2, DayOrder
      <3> HIDE DEF k, d
      <3>4. CASE Day(now) = d
        <4>1. now < t + Hour
          BY <3>2, <3>3, <3>4, <1>1, SameHour
        <4>2. worker[s].began <= now
          BY <1>1, <1>2 DEF Paced
        <4>3. worker[s].began <= c + Hour
          BY <1>1, <3>2, <4>1, <4>2, Times
        <4> QED BY <1>2, <4>3, ComingPast
      <3>5. CASE Day(now) # d
        <4>1. (d + 1) * DayLength \in Nat /\ (d + 1) * DayLength <= now
          <5>1. d < Day(now)
            BY <3>2, <3>3, <3>5
          <5> QED BY <1>1, <3>3, <5>1, DayBegun
        <4>2. now <= worker[s].began + PassMax
          BY <1>1, <1>2 DEF Paced
        <4>3. worker[s].began <= c + 2 * Hour + PassMax
          BY <1>1, <1>4, <4>1, <4>2, Times DEF Near, d
        <4> QED BY <1>2, <4>1, <4>3, ComingPast DEF d
      <3> QED BY <3>4, <3>5
    <2>2. CASE Jobs[worker[s].next] # j
      <3>1. PICK i \in worker[s].next..Len(Jobs) : Jobs[i] = j
        BY <1>4 DEF ToCome
      <3>2. worker[s].next \in Nat /\ Len(Jobs) \in Nat
        BY <1>1, JobsAssumption, Times DEF Worker
      <3>3. i \in (worker[s].next + 1)..Len(Jobs)
        BY <2>2, <3>1, <3>2
      <3>4. ToCome(s, j)'
        BY <1>2, <3>1, <3>3 DEF ToCome
      <3> QED BY <1>2, <1>4, <3>4 DEF Coming, SamePass
    <2> QED BY <2>1, <2>2
  <1> QED BY <1>2, <1>3, <1>4 DEF Coming

(* It gives up a key, which is not the job's unless it is past it. *)
LEMMA ComingSettles ==
  ASSUME PInv, NEW s \in Servers, NEW j, NEW c, Coming(s, j, c), Settles(s), now' = now
  PROVE  Coming(s, j, c)'
  <1>1. TypeOK /\ Paced(s)
    BY DEF PInv, IInv
  <1>2. /\ InPass(s) /\ InPass(s)' /\ SamePass(s) /\ ~HoldsKey(s)' /\ HoldsKey(s)
        /\ worker'[s].next = worker[s].next + 1
    BY DEF Settles, InPass, HoldsKey
  <1>3. CASE \/ worker[s].began <= c + Hour
             \/ /\ worker[s].began <= c + 2 * Hour + PassMax
                /\ (worker[s].day + 1) * DayLength <= now
    BY <1>2, <1>3, ComingPast
  <1>4. CASE ToCome(s, j) /\ worker[s].key.job # j /\ Near(worker[s].began, worker[s].day, c)
    <2>1. Jobs[worker[s].next] # j
      BY <1>1, <1>2, <1>4 DEF Paced
    <2>2. PICK i \in worker[s].next..Len(Jobs) : Jobs[i] = j
      BY <1>4 DEF ToCome
    <2>3. worker[s].next \in Nat /\ Len(Jobs) \in Nat
      BY <1>1, JobsAssumption, Times DEF Worker
    <2>4. i \in (worker[s].next + 1)..Len(Jobs)
      BY <2>1, <2>2, <2>3
    <2>5. ToCome(s, j)'
      BY <1>2, <2>2, <2>4 DEF ToCome
    <2> QED BY <1>2, <1>4, <2>5 DEF Coming, SamePass
  <1> QED BY <1>2, <1>3, <1>4 DEF Coming

(* It lies down: an hour on the hour is another, or the day is.            *)
LEMMA ComingLiesDown ==
  ASSUME PInv, PInv', Hour + 2 * PassMax <= DayLength,
         NEW s \in Servers, NEW j, NEW c \in Nat, Coming(s, j, c), LiesDown(s), now' = now
  PROVE  Coming(s, j, c)'
  <1>1. TypeOK /\ TypeOK' /\ Paced(s)
    BY DEF PInv, IInv
  <1>2. InPass(s) /\ ~InPass(s)' /\ ~ToCome(s, j)
    <2>1. worker[s].next \in Nat /\ Len(Jobs) \in Nat
      BY <1>1, JobsAssumption, Times DEF Worker
    <2> QED BY <2>1 DEF LiesDown, Sleeps, InPass, ToCome
  <1> DEFINE b == worker[s].began + PassMax + Hour
  <1>3. /\ now \in Nat /\ Hour \in Nat /\ PassMax \in Nat /\ DayLength \in Nat
        /\ worker[s].began \in Nat /\ worker[s].day \in Nat /\ b \in Nat
    BY <1>1, Times
  <1>4. now' <= b /\ (worker'[s].pc = "asleep" => worker'[s].due <= b)
    <2>1. now <= worker[s].began + PassMax
      BY <1>1, <1>2 DEF Paced
    <2>2. worker'[s].pc = "asleep" => worker'[s].due <= now + Hour /\ worker'[s].due \in Nat
      BY <1>1 DEF LiesDown, Sleeps, TypeOK, Worker
    <2> QED BY <1>3, <2>1, <2>2
  <1>5. Near(b, Day(now), c) /\ b <= c + 3 * Hour + 2 * PassMax
    <2>1. CASE worker[s].began <= c + Hour
      BY <1>3, <2>1 DEF Near
    <2>2. CASE /\ worker[s].began <= c + 2 * Hour + PassMax
               /\ (worker[s].day + 1) * DayLength <= now
      <3> DEFINE d == worker[s].day
      <3>1. d = Day(worker[s].began)
        BY <1>1, <1>2 DEF Paced
      <3>2. worker[s].began < (d + 1) * DayLength
        BY <1>3, <3>1, DayAt
      <3>3. /\ d + 1 \in Nat /\ (d + 1) * DayLength \in Nat
            /\ (d + 2) * DayLength = (d + 1) * DayLength + DayLength
        <4>1. d + 1 \in Nat /\ d + 2 = (d + 1) + 1
          BY <1>3
        <4> HIDE DEF d
        <4> QED BY <1>3, <4>1, Products
      <3>4. /\ Day(now) \in Nat /\ (Day(now) + 1) * DayLength \in Nat
            /\ (d + 2) * DayLength <= (Day(now) + 1) * DayLength
        <4>1. Day(now) \in Nat /\ now < (Day(now) + 1) * DayLength /\ Day(now) + 1 \in Nat
          BY <1>3, DayAt
        <4>2. (Day(now) + 1) * DayLength \in Nat
          BY <1>3, DayAt
        <4>3. d < Day(now)
          <5>1. SUFFICES ASSUME Day(now) + 1 <= d + 1 PROVE FALSE
            BY <1>3, <4>1
          <5>2. (Day(now) + 1) * DayLength <= (d + 1) * DayLength
            BY <1>3, <3>3, <4>1, <5>1, Products
          <5> QED BY <1>3, <2>2, <3>3, <4>1, <4>2, <5>2
        <4>4. d + 2 \in Nat /\ d + 2 <= Day(now) + 1
          BY <1>3, <4>1, <4>3
        <4> QED BY <1>3, <4>1, <4>2, <4>4, Products
      <3> HIDE DEF d
      <3>5. (d + 2) * DayLength \in Nat
        BY <1>3, <3>3
      <3>6. b + PassMax < (Day(now) + 1) * DayLength
        BY <1>3, <3>2, <3>3, <3>4, <3>5
      <3> QED BY <1>3, <2>2, <3>6 DEF Near
    <2> QED BY <1>2, <2>1, <2>2 DEF Coming
  <1> HIDE DEF b
  <1>6. b \in 0..(c + 3 * Hour + 2 * PassMax)
    BY <1>3, <1>5
  <1>7. Near(b, Day(now'), c)
    BY <1>5
  <1> QED BY <1>2, <1>4, <1>6, <1>7 DEF Coming

(* What the server itself does, short of a setback or a claim of the job. *)
LEMMA ComingOwn ==
  ASSUME PInv, PInv', Hour + 2 * PassMax <= DayLength,
         NEW s \in Servers, NEW j \in Hourly, j \in JobNames, <<s, j>> \notin Skipped,
         NEW c \in 0..now, Rowed(j, c), Coming(s, j, c),
         Turn(s), now' = now, Setbacks' = Setbacks,
         ~(Claims(s) /\ worker'[s].key.job = j)
  PROVE  Coming(s, j, c)'
  <1>0. c \in Nat /\ fails \in Nat /\ faults \in Nat
    BY DEF PInv, IInv, TypeOK
  <1>1. CASE Woken(s)
    BY <1>0, <1>1, ComingWoken
  <1>2. CASE PassesOver(s)
    BY <1>2, ComingPassesOver
  <1>3. CASE Settles(s)
    BY <1>3, ComingSettles
  <1>4. CASE LiesDown(s)
    BY <1>0, <1>4, ComingLiesDown
  <1>5. CASE Claims(s)
    <2>1. /\ InPass(s) /\ InPass(s)' /\ SamePass(s) /\ worker'[s].next = worker[s].next
          /\ worker'[s].key.job # j
      BY <1>5 DEF Claims, InPass
    <2>2. ToCome(s, j)' = ToCome(s, j)
      BY <2>1 DEF ToCome
    <2> QED BY <2>1, <2>2 DEF Coming, SamePass
  <1>6. CASE Works(s)
    <2>1. /\ InPass(s) /\ InPass(s)' /\ SamePass(s) /\ worker'[s].next = worker[s].next
          /\ worker'[s].key = worker[s].key /\ HoldsKey(s) /\ HoldsKey(s)'
      BY <1>6 DEF Works, InPass, HoldsKey
    <2>2. ToCome(s, j)' = ToCome(s, j)
      BY <2>1 DEF ToCome
    <2> QED BY <2>1, <2>2 DEF Coming, SamePass
  <1>7. CASE Starts(s)
    <2>1. ~InPass(s) /\ ~InPass(s)' /\ worker'[s].due = now
      BY <1>7 DEF Starts, InPass
    <2>2. PICK b \in 0..(c + 3 * Hour + 2 * PassMax) : now <= b /\ Near(b, Day(now), c)
      BY <2>1 DEF Coming
    <2>3. now' <= b /\ worker'[s].due <= b /\ Near(b, Day(now'), c)
      BY <2>1, <2>2
    <2> QED BY <2>1, <2>3 DEF Coming
  <1>8. CASE Saves(s)
    BY <1>8, ComingKept DEF Saves
  <1>9. ~Struck(s)
    BY <1>0 DEF Struck, Setbacks
  <1> QED BY <1>1, <1>2, <1>3, <1>4, <1>5, <1>6, <1>7, <1>8, <1>9 DEF Turn

(* A tick later: a steady server is up, and asleep only until it is due. *)
LEMMA ComingTick ==
  ASSUME PInv, NEW s \in Steady, NEW j, NEW c \in Nat, Coming(s, j, c), Tick
  PROVE  Coming(s, j, c)'
  <1>0. TypeOK /\ s \in Servers
    BY ServersAssumption DEF PInv, IInv
  <1>1. /\ now' = now + 1 /\ worker' = worker /\ worker[s].pc # "off"
        /\ worker[s].pc = "asleep" => worker[s].due > now
    BY <1>0 DEF Tick
  <1>2. InPass(s)' = InPass(s) /\ HoldsKey(s)' = HoldsKey(s) /\ ToCome(s, j)' = ToCome(s, j)
    BY <1>1 DEF InPass, HoldsKey, ToCome
  <1>3. CASE ~InPass(s)
    <2>1. PICK b \in 0..(c + 3 * Hour + 2 * PassMax) :
            /\ now <= b /\ (worker[s].pc = "asleep" => worker[s].due <= b)
            /\ Near(b, Day(now), c)
      BY <1>3 DEF Coming
    <2>2. now + 1 <= b /\ worker[s].due <= b
      BY <1>0, <1>1, <1>3, <2>1, Times DEF InPass
    <2>3. Near(b, Day(now + 1), c)
      <3>1. now \in Nat /\ now + 1 \in Nat /\ now <= now + 1
        BY <1>0, Times
      <3>2. /\ Day(now) + 1 \in Nat /\ Day(now + 1) + 1 \in Nat /\ DayLength \in Nat
            /\ (Day(now) + 1) * DayLength \in Nat /\ (Day(now + 1) + 1) * DayLength \in Nat
        BY <3>1, DayAt, TimesAssumption
      <3>3. Day(now) + 1 <= Day(now + 1) + 1
        <4>1. Day(now) \in Nat /\ Day(now + 1) \in Nat
          BY <3>1, DayAt
        <4> QED BY <3>1, <4>1, DayOrder
      <3>4. (Day(now) + 1) * DayLength <= (Day(now + 1) + 1) * DayLength
        BY <3>2, <3>3, Products
      <3>5. b \in Nat /\ PassMax \in Nat
        BY <1>0, <2>1, Times
      <3> QED BY <2>1, <3>2, <3>4, <3>5 DEF Near
    <2>4. Near(b, Day(now'), c)
      BY <1>1, <2>3
    <2> QED BY <1>1, <1>2, <1>3, <2>2, <2>4 DEF Coming
  <1>4. CASE InPass(s)
    <2>1. ASSUME (worker[s].day + 1) * DayLength <= now
          PROVE  (worker[s].day + 1) * DayLength <= now'
      <3>1. worker[s].day + 1 \in Nat /\ DayLength \in Nat /\ now \in Nat
        BY <1>0, Times
      <3>2. (worker[s].day + 1) * DayLength \in Nat
        BY <3>1, Products
      <3> QED BY <1>1, <2>1, <3>1, <3>2
    <2>2. worker'[s] = worker[s]
      BY <1>1
    <2> QED BY <1>2, <1>4, <2>1, <2>2 DEF Coming
  <1> QED BY <1>3, <1>4

-----------------------------------------------------------------------------
(* A setback or a sweep: everything is counted from now. *)
LEMMA SweptAnew ==
  ASSUME PInv, PInv', NEW s \in Servers, NEW j \in Hourly, SweptBy(s, j), now' = now,
         claimed' = claimed,
         \/ swept'[j] = swept[j] /\ Setbacks' = Setbacks + 1
         \/ swept'[j] = now /\ Setbacks' = Setbacks
  PROVE  SweptBy(s, j)'
  <1>1. TypeOK /\ TypeOK' /\ now \in Nat
    BY Times DEF PInv, IInv
  <1>2. PICK c \in 0..now : Rowed(j, c) /\ Coming(s, j, c) /\ Owed(j, c)
    BY DEF SweptBy
  <1>3. c \in Nat /\ c <= now
    BY <1>1, <1>2
  <1>4. Rowed(j, now)'
    <2>1. 0..c \subseteq 0..now
      BY <1>1, <1>3
    <2> QED BY <1>2, <2>1 DEF Rowed
  <1>5. Coming(s, j, now)'
    BY ComingAnew
  <1>6. Owed(j, now)'
    <2>1. swept[j] \in Nat /\ Allowed(j) \in Nat /\ now <= Allowed(j) + Span
      BY <1>2, <1>3, AllowedNow
    <2>2. Allowed(j) = swept[j] + Setbacks * Span /\ Allowed(j)' = swept'[j] + Setbacks' * Span
      BY DEF Allowed, Span
    <2>3. now' <= Allowed(j)'
      <3>1. CASE swept'[j] = swept[j] /\ Setbacks' = Setbacks + 1
        BY <1>1, <2>1, <2>2, <3>1, SpanMoves
      <3>2. CASE swept'[j] = now /\ Setbacks' = Setbacks
        BY <1>1, <2>2, <3>2, SpanMoves
      <3> QED BY <3>1, <3>2
    <2> QED BY <2>3 DEF Owed
  <1> QED BY <1>1, <1>4, <1>5, <1>6 DEF SweptBy

(* A claim of the job: it is counted from now, and will be paid for. *)
LEMMA SweptClaimed ==
  ASSUME PInv, PInv', NEW s \in Servers, NEW j \in Hourly, SweptBy(s, j), now' = now,
         NEW q \in Servers, ActsAlone(q), Claims(q), worker'[q].key.job = j,
         swept'[j] = swept[j], Setbacks' = Setbacks
  PROVE  SweptBy(s, j)'
  <1>1. TypeOK /\ TypeOK' /\ now \in Nat /\ j # Backup /\ Paced(q) /\ IInv
    BY Times, JobsAssumption DEF PInv, IInv
  <1>2. PICK c \in 0..now : Rowed(j, c) /\ Coming(s, j, c) /\ Owed(j, c)
    BY DEF SweptBy
  <1>3. c \in Nat /\ c <= now
    BY <1>1, <1>2
  <1> DEFINE k == KeyOf(q, Jobs[worker[q].next])
  <1>4. claimed' = claimed \cup {k} /\ k = worker'[q].key
    BY DEF Claims
  <1>5. k.mark = HourOf(now) /\ k.day = worker[q].day
    <2>1. k.job = Jobs[worker[q].next]
      BY DEF KeyOf
    <2> QED BY <1>1, <1>4, <2>1 DEF KeyOf
  <1>6. k.day <= Day(now)
    <2>1. InPass(q) /\ worker[q].began \in Nat
      BY <1>1, Times DEF Claims, InPass
    <2>2. worker[q].began <= now /\ worker[q].day = Day(worker[q].began)
      BY <1>1, <2>1 DEF Paced
    <2> QED BY <1>1, <1>5, <2>1, <2>2, DayOrder
  <1> HIDE DEF k
  <1>7. Rowed(j, now)'
    <2>1. 0..c \subseteq 0..now /\ now \in 0..now
      BY <1>1, <1>3
    <2>2. \A l \in claimed \cup {k} :
            l.job = j => \E t \in 0..now : HourOf(t) = l.mark /\ l.day <= Day(t)
      BY <1>2, <1>5, <1>6, <2>1 DEF Rowed
    <2> QED BY <1>4, <2>2 DEF Rowed
  <1>8. Coming(s, j, now)'
    BY ComingAnew
  <1>9. Owed(j, now)'
    <2>1. swept[j] \in Nat /\ Allowed(j) \in Nat
      BY <1>2, <1>3, AllowedNow
    <2>2. Allowed(j)' = Allowed(j)
      BY DEF Allowed, Span
    <2>3. Sweeping(q, j)' /\ worker'[q].began = worker[q].began
      BY DEF Claims, Sweeping, SamePass
    <2>4. CASE c <= Allowed(j)
      <3>1. now <= c + 3 * Hour + 3 * PassMax
        BY <1>2, <1>3, ComingSoon
      <3>2. worker[q].began <= now
        BY <1>1 DEF Claims, InPass, Paced
      <3>3. worker[q].began + PassMax <= Allowed(j) + Span
        BY <1>1, <1>3, <2>1, <2>4, <3>1, <3>2, Times DEF Span
      <3> QED BY <2>2, <2>3, <3>3 DEF Owed, Span
    <2>5. ASSUME NEW r \in Servers, Sweeping(r, j),
                 worker[r].began + PassMax <= Allowed(j) + Span
          PROVE  Owed(j, now)'
      <3>1. r # q
        BY <2>5 DEF Sweeping, Claims
      <3>2. worker'[r] = worker[r]
        BY <1>1, <3>1, OthersStay
      <3> QED BY <2>2, <2>5, <3>2 DEF Owed, Sweeping, Span
    <2> QED BY <1>2, <2>4, <2>5 DEF Owed
  <1> QED BY <1>1, <1>7, <1>8, <1>9 DEF SweptBy


(* Neither: what was counted, and who pays for it, stay.                   *)
LEMMA SweptKept ==
  ASSUME PInv, PInv', Hour + 2 * PassMax <= DayLength,
         NEW s \in Servers, NEW j \in Hourly, j \in JobNames, <<s, j>> \notin Skipped,
         SweptBy(s, j), NEW q \in Servers, ActsAlone(q), Turn(q), now' = now,
         ~(Claims(q) /\ worker'[q].key.job = j),
         swept'[j] = swept[j], Setbacks' = Setbacks,
         Sweeping(q, j) => Sweeping(q, j)' /\ SamePass(q)
  PROVE  SweptBy(s, j)'
  <1>1. IInv /\ j # Backup /\ fails \in Nat /\ faults \in Nat /\ now \in Nat
    BY JobsAssumption DEF PInv, IInv, TypeOK
  <1>2. PICK c \in 0..now : Rowed(j, c) /\ Coming(s, j, c) /\ Owed(j, c)
    BY DEF SweptBy
  <1>3. \A r \in Servers \ {q} : worker'[r] = worker[r]
    BY <1>1, OthersStay
  <1>4. Rowed(j, c)'
    <2>1. \A k \in claimed' : k.job = j => k \in claimed
      <3>1. CASE Claims(q)
        BY <3>1 DEF Claims
      <3>2. CASE ~Claims(q)
        <4>1. claimed' \subseteq claimed
          BY <3>2 DEF Turn, Woken, PassesOver, Works, Settles, LiesDown, Starts, Saves, Struck,
                      SameClaims
        <4> QED BY <4>1
      <3> QED BY <3>1, <3>2
    <2> QED BY <1>2, <2>1 DEF Rowed
  <1>5. Coming(s, j, c)'
    <2>1. CASE q = s
      BY <1>2, <2>1, ComingOwn
    <2>2. CASE q # s
      <3>1. worker'[s] = worker[s]
        BY <1>3, <2>2
      <3> QED BY <1>2, <3>1, ComingKept DEF SamePass
    <2> QED BY <2>1, <2>2
  <1>6. Owed(j, c)'
    <2>1. Allowed(j)' = Allowed(j) /\ Span' = Span
      BY DEF Allowed, Span
    <2>2. ASSUME NEW r \in Servers, Sweeping(r, j),
                 worker[r].began + PassMax <= Allowed(j) + Span
          PROVE  Owed(j, c)'
      <3>1. Sweeping(r, j)' /\ worker'[r].began = worker[r].began
        BY <1>3, <2>2 DEF Sweeping, SamePass
      <3> QED BY <2>1, <2>2, <3>1 DEF Owed
    <2> QED BY <1>2, <2>1, <2>2 DEF Owed
  <1> QED BY <1>2, <1>4, <1>5, <1>6 DEF SweptBy

LEMMA InitSweptBy ==
  ASSUME Init, NEW s \in Steady, NEW j \in Hourly
  PROVE  SweptBy(s, j)
  <1>1. TypeOK /\ s \in Servers
    BY InitIInv, ServersAssumption DEF IInv
  <1>2. worker[s] \in {Fresh("asleep", 0), Fresh("off", 0)}
    BY <1>1 DEF Init
  <1>3. /\ ~InPass(s) /\ worker[s].due = 0 /\ now = 0 /\ claimed = {} /\ swept[j] = 0
        /\ fails = 0 /\ faults = 0
    BY <1>2 DEF Init, Fresh, InPass
  <1>4. Rowed(j, 0)
    BY <1>3 DEF Rowed
  <1>5. Coming(s, j, 0)
    <2>1. 0 \in 0..(0 + 3 * Hour + 2 * PassMax) /\ Near(0, Day(now), 0)
      BY TimesAssumption DEF Near
    <2> QED BY <1>3, <2>1 DEF Coming
  <1>6. Owed(j, 0)
    <2>1. 0 <= Allowed(j)
      BY <1>1, <1>3, SpanMoves DEF Allowed
    <2> QED BY <2>1 DEF Owed
  <1> QED BY <1>3, <1>4, <1>5, <1>6 DEF SweptBy

LEMMA NextSweptBy ==
  ASSUME PInv, [Next]_vars, Hour + 2 * PassMax <= DayLength,
         NEW s \in Steady, NEW j \in Hourly, j \in JobNames, <<s, j>> \notin Skipped,
         SweptBy(s, j)
  PROVE  SweptBy(s, j)'
  <1>0. PInv' /\ IInv /\ s \in Servers /\ now \in Nat
    BY NextPInv, ServersAssumption DEF PInv, IInv, TypeOK
  <1>1. ASSUME NEW q \in Servers, ActsAlone(q) PROVE SweptBy(s, j)'
    <2>1. Turn(q) /\ now' = now
      BY <1>0, <1>1, EachTurn
    <2>2. CASE \/ swept'[j] = swept[j] /\ Setbacks' = Setbacks + 1 /\ claimed' = claimed
               \/ swept'[j] = now /\ Setbacks' = Setbacks /\ claimed' = claimed
      BY <1>0, <2>1, <2>2, SweptAnew
    <2>3. CASE /\ swept'[j] = swept[j] /\ Setbacks' = Setbacks
               /\ Sweeping(q, j) => Sweeping(q, j)' /\ SamePass(q)
      <3>1. CASE Claims(q) /\ worker'[q].key.job = j
        BY <1>0, <1>1, <2>1, <2>3, <3>1, SweptClaimed
      <3>2. CASE ~(Claims(q) /\ worker'[q].key.job = j)
        BY <1>0, <1>1, <2>1, <2>3, <3>2, SweptKept
      <3> QED BY <3>1, <3>2
    <2> QED BY <1>0, <1>1, <2>2, <2>3, SweepMoves
  <1>2. PICK c \in 0..now : Rowed(j, c) /\ Coming(s, j, c) /\ Owed(j, c)
    BY DEF SweptBy
  <1>3. ASSUME swept' = swept, claimed' = claimed, worker' = worker, Setbacks' = Setbacks
        PROVE  Rowed(j, c)' /\ Owed(j, c)'
    <2>1. Allowed(j)' = Allowed(j)
      BY <1>3 DEF Allowed, Span
    <2>2. Owed(j, c)'
      BY <1>2, <1>3, <2>1 DEF Owed, Sweeping, Span
    <2>3. Rowed(j, c)'
      BY <1>2, <1>3 DEF Rowed
    <2> QED BY <2>2, <2>3
  <1>4. CASE Tick
    <2>1. /\ swept' = swept /\ claimed' = claimed /\ worker' = worker /\ Setbacks' = Setbacks
          /\ now' = now + 1
      BY <1>4 DEF Tick, Setbacks
    <2>2. c \in Nat /\ c \in 0..now'
      BY <1>0, <1>2, <2>1
    <2>3. Coming(s, j, c)'
      BY <1>2, <1>4, <2>2, ComingTick
    <2> QED BY <1>3, <2>1, <2>2, <2>3 DEF SweptBy
  <1>5. CASE UNCHANGED vars
    <2>1. /\ swept' = swept /\ claimed' = claimed /\ worker' = worker /\ Setbacks' = Setbacks
          /\ now' = now
      BY <1>5 DEF vars, Setbacks
    <2>2. Coming(s, j, c)'
      BY <1>0, <1>2, <2>1, ComingKept DEF SamePass
    <2> QED BY <1>2, <1>3, <2>1, <2>2 DEF SweptBy
  <1> QED BY <1>1, <1>4, <1>5 DEF Next, ActsAlone, Exhausted

LEMMA SweptByInTime ==
  ASSUME PInv, NEW s \in Steady, NEW j \in Hourly, SweptBy(s, j)
  PROVE  now - swept[j] <= (1 + fails + faults) * (3 * Hour + 4 * PassMax)
  <1>1. TypeOK /\ s \in Servers /\ now \in Nat
    BY ServersAssumption DEF PInv, IInv, TypeOK
  <1>2. PICK c \in 0..now : Coming(s, j, c) /\ Owed(j, c)
    BY DEF SweptBy
  <1>3. c \in Nat
    BY <1>1, <1>2
  <1>4. swept[j] \in Nat /\ now <= swept[j] + Setbacks * Span + Span
    <2>1. swept[j] \in Nat /\ now <= Allowed(j) + Span
      BY <1>1, <1>2, <1>3, AllowedNow
    <2> QED BY <2>1 DEF Allowed
  <1>5. /\ Setbacks \in Nat /\ Span \in Nat /\ Setbacks * Span \in Nat
        /\ (Setbacks + 1) * Span = Setbacks * Span + Span
    BY <1>1, SpanMoves, Products
  <1>6. 1 + fails + faults = Setbacks + 1
    BY <1>1 DEF Setbacks, TypeOK
  <1>7. now - swept[j] <= Setbacks * Span + Span
    BY <1>1, <1>4, <1>5
  <1> QED BY <1>5, <1>6, <1>7 DEF Span

(* Between two sweeps of an hour's job pass three hours and the passes     *)
(* around them at most, and as much again for every run that fails or is   *)
(* cut short, for any number of servers and jobs and wherever midnight     *)
(* falls in the hours: given, for each of the hour's jobs, one server that *)
(* is never switched off and runs it, and a day that an hour and two       *)
(* passes fit in.                                                          *)
THEOREM SweepsInTime ==
  ASSUME Hour + 2 * PassMax <= DayLength, Hourly \subseteq JobNames,
         \A j \in Hourly : \E s \in Steady : <<s, j>> \notin Skipped
  PROVE  Spec => []SweptInTime
  <1> DEFINE SInv == PInv /\ \A s \in Steady, j \in Hourly :
                               <<s, j>> \notin Skipped => SweptBy(s, j)
  <1>1. Init => SInv
    BY InitPInv, InitSweptBy
  <1>2. SInv /\ [Next]_vars => SInv'
    <2> SUFFICES ASSUME SInv, [Next]_vars PROVE SInv'
      OBVIOUS
    <2>1. PInv'
      BY NextPInv
    <2>2. ASSUME NEW s \in Steady, NEW j \in Hourly, <<s, j>> \notin Skipped
          PROVE  SweptBy(s, j)'
      <3>1. j \in JobNames /\ SweptBy(s, j)
        BY <2>2
      <3> QED BY <2>2, <3>1, NextSweptBy
    <2> QED BY <2>1, <2>2
  <1>3. SInv => SweptInTime
    BY SweptByInTime DEF SweptInTime
  <1> HIDE DEF SInv
  <1> QED BY <1>1, <1>2, <1>3, PTL DEF Spec


-----------------------------------------------------------------------------
(***************************************************************************)
(* The backup of a slot.  From the slot, from the save that moved it, or   *)
(* from the end of the day a wasted claim is for, a steady server comes to *)
(* its backup within the hour and the passes around it, or has passed it   *)
(* over in the pass that was under way: then it comes again.               *)
(***************************************************************************)
Ends(s) == {(k.day + 1) * DayLength : k \in Wasted(s)}

Since(s) == {moved, Slot(now)} \cup Ends(s)

Course == Hour + PassMax

(* Who holds the key of a backup is the server whose backup it is. *)
Owned(r) == HoldsKey(r) /\ worker[r].key.job = Backup => worker[r].key.by = r

Backing(s) == worker[s].pc \in {"work", "write"} /\ worker[s].key.job = Backup

Before(s) ==
  Backing(s) \/ (ToCome(s, Backup) /\ ~(HoldsKey(s) /\ worker[s].key.job = Backup))

(* Counted from z, and from the setbacks on: asleep, on its way, or past.  *)
Expected(s, z) ==
  \/ /\ ~InPass(s) /\ now <= z + Setbacks * Course + Course
     /\ worker[s].pc = "asleep" => worker[s].due <= z + Setbacks * Course + Course
  \/ InPass(s) /\ Before(s) /\ worker[s].began <= z + Setbacks * Course + Course
  \/ InPass(s) /\ worker[s].began <= z + Setbacks * Course

(* The invariant of a steady server that makes backups. *)
Backed(s) ==
  clock = Off \/ newest[s] >= Slot(now) \/ \E z \in Since(s) : Expected(s, z)

(* The slots are a period apart: a tick later it is the same, or due now. *)
LEMMA NextRemainder ==
  ASSUME NEW x \in Int, NEW p \in Nat \ {0}
  PROVE  /\ x % p \in 0..(p - 1) /\ (x + 1) % p \in 0..(p - 1)
         /\ (x + 1) % p = (x % p) + 1 \/ (x + 1) % p = 0
  <1>0. ASSUME NEW y \in Int
        PROVE  y % p \in 0..(p - 1) /\ y \div p \in Int /\ y = p * (y \div p) + (y % p)
    <2>1. y % p \in 0..(p - 1)
      BY SMT
    <2>2. y \div p \in Int
      BY SMT
    <2>3. y = p * (y \div p) + (y % p)
      BY SMT
    <2> QED BY <2>1, <2>2, <2>3
  <1>1. x % p \in 0..(p - 1) /\ x \div p \in Int /\ x = p * (x \div p) + (x % p)
    BY <1>0
  <1>2. /\ (x + 1) % p \in 0..(p - 1) /\ (x + 1) \div p \in Int
        /\ x + 1 = p * ((x + 1) \div p) + ((x + 1) % p)
    <2>1. x + 1 \in Int
      OBVIOUS
    <2> QED BY <1>0, <2>1
  <1> PICK a \in Int : a = x \div p
    BY <1>1
  <1> PICK b \in Int : b = (x + 1) \div p
    BY <1>2
  <1> PICK r \in 0..(p - 1) : r = x % p
    BY <1>1
  <1> PICK q \in 0..(p - 1) : q = (x + 1) % p
    BY <1>2
  <1>3. p * a + r + 1 = p * b + q /\ p * a \in Int /\ p * b \in Int
    BY <1>1, <1>2
  <1>4. CASE b = a
    BY <1>1, <1>2, <1>3, <1>4
  <1>5. CASE b >= a + 1
    <2>1. p * b >= p * a + p
      <3>1. PICK e \in Nat : b = a + 1 + e
        <4>1. b - a - 1 \in Nat /\ b = a + 1 + (b - a - 1)
          BY <1>5
        <4> QED BY <4>1
      <3>2. p * e \in Nat /\ p * b = p * a + p + p * e
        BY <3>1, SMT
      <3> QED BY <1>3, <3>2
    <2> QED BY <1>1, <1>2, <1>3, <2>1
  <1>6. CASE b + 1 <= a
    <2>1. p * a >= p * b + p
      <3>1. PICK e \in Nat : a = b + 1 + e
        <4>1. a - b - 1 \in Nat /\ a = b + 1 + (a - b - 1)
          BY <1>6
        <4> QED BY <4>1
      <3>2. p * e \in Nat /\ p * a = p * b + p + p * e
        BY <3>1, SMT
      <3> QED BY <1>3, <3>2
    <2> QED BY <1>1, <1>2, <1>3, <2>1
  <1> QED BY <1>1, <1>2, <1>4, <1>5, <1>6

LEMMA Slots ==
  ASSUME TypeOK, clock # Off, NEW t \in Nat
  PROVE  /\ Slot(t) \in Int /\ Slot(t) <= t
         /\ Slot(t + 1) = Slot(t) \/ Slot(t + 1) = t + 1
  <1>1. clock \in Int /\ Period \in Nat \ {0}
    BY TimesAssumption DEF TypeOK
  <1> PICK x \in Int : x = t - clock
    BY <1>1
  <1>2. /\ x % Period \in 0..(Period - 1) /\ (x + 1) % Period \in 0..(Period - 1)
        /\ (x + 1) % Period = (x % Period) + 1 \/ (x + 1) % Period = 0
    BY <1>1, NextRemainder
  <1> PICK r \in 0..(Period - 1), q \in 0..(Period - 1) :
        r = x % Period /\ q = (x + 1) % Period /\ (q = r + 1 \/ q = 0)
    BY <1>2
  <1>3. Slot(t) = t - r
    BY DEF Slot
  <1>4. Slot(t + 1) = (t + 1) - q
    <2>1. (t + 1) - clock = x + 1
      BY <1>1
    <2>2. ((t + 1) - clock) % Period = q
      BY <2>1
    <2> QED BY <2>2 DEF Slot
  <1> QED BY <1>1, <1>3, <1>4

LEMMA SinceTyped ==
  ASSUME TypeOK, clock # Off, NEW s
  PROVE  Since(s) \subseteq Int
  <1>1. moved \in Int /\ Slot(now) \in Int
    BY Slots DEF TypeOK
  <1>2. ASSUME NEW k \in Wasted(s) PROVE (k.day + 1) * DayLength \in Int
    <2>1. k.day \in Nat /\ k.day + 1 \in Nat /\ DayLength \in Nat
      BY TimesAssumption DEF Wasted, TypeOK, Keys
    <2> QED BY <2>1, Products
  <1> QED BY <1>1, <1>2 DEF Since, Ends

LEMMA CourseMoves ==
  ASSUME TypeOK
  PROVE  /\ Course \in Nat /\ Setbacks \in Nat /\ Setbacks * Course \in Nat
         /\ Setbacks' = Setbacks => Setbacks' * Course = Setbacks * Course
         /\ Setbacks' = Setbacks + 1 => Setbacks' * Course = Setbacks * Course + Course
  <1>1. Hour \in Nat /\ PassMax \in Nat /\ Setbacks \in Nat
    BY TimesAssumption DEF TypeOK, Setbacks
  <1>2. Course \in Nat
    BY <1>1 DEF Course
  <1> QED BY <1>1, <1>2, Products

LEMMA Sums == ASSUME NEW a \in Nat, NEW b \in Nat PROVE a + b \in Nat
  OBVIOUS

LEMMA Later ==
  ASSUME NEW a \in Int, NEW h \in Nat, NEW w \in Nat, NEW c \in Nat, c >= h
  PROVE  a <= a + w /\ a <= a + w + c /\ a + h <= a + w + c
  OBVIOUS

LEMMA CourseNext ==
  ASSUME TypeOK'
  PROVE  Setbacks' * Course \in Nat
  <1>1. Hour \in Nat /\ PassMax \in Nat /\ fails' \in Nat /\ faults' \in Nat
    BY TimesAssumption DEF TypeOK
  <1>2. Course \in Nat
    BY <1>1 DEF Course
  <1>3. fails' + faults' \in Nat
    BY <1>1, Sums
  <1>4. (fails' + faults') * Course \in Nat
    BY <1>2, <1>3, Products
  <1> QED BY <1>4 DEF Setbacks

-----------------------------------------------------------------------------
LEMMA ExpectedNow ==
  ASSUME PInv, NEW s \in Servers, NEW z \in Int, Expected(s, z)
  PROVE  now <= z + Setbacks * Course + Course + PassMax
  <1>1. TypeOK /\ Setbacks * Course \in Nat /\ Course \in Nat
    BY CourseMoves DEF PInv, IInv
  <1>2. InPass(s) => now <= worker[s].began + PassMax
    BY DEF PInv, Paced
  <1> QED BY <1>1, <1>2, Times DEF Expected

(* Counted from now, wherever the server is. *)
LEMMA ExpectedAnew ==
  ASSUME PInv', NEW s \in Servers
  PROVE  Expected(s, now)'
  <1>1. /\ now' \in Nat /\ Hour \in Nat /\ PassMax \in Nat
        /\ worker'[s].began \in Nat /\ worker'[s].due \in Nat
        /\ fails' \in Nat /\ faults' \in Nat
    BY TimesAssumption DEF PInv, IInv, TypeOK, Worker
  <1>2. /\ InPass(s)' => worker'[s].began <= now'
        /\ worker'[s].pc = "asleep" => worker'[s].due <= now' + Hour
    BY DEF PInv, Paced
  <1>3. Setbacks' \in Nat /\ Course \in Nat /\ Course >= Hour
    BY <1>1 DEF Setbacks, Course
  <1>4. Setbacks' * Course \in Nat
    BY <1>3, Products
  <1>0. PICK w \in Nat : w = Setbacks' * Course
    BY <1>4
  <1>5. now' <= now' + w /\ now' <= now' + w + Course /\ now' + Hour <= now' + w + Course
    <2>1. now' \in Int /\ Hour \in Nat /\ Course \in Nat /\ Course >= Hour
      BY <1>1, <1>3
    <2> QED BY <2>1, Later
  <1>6. CASE InPass(s)'
    <2>1. worker'[s].began <= now' + w
      BY <1>1, <1>2, <1>6
    <2>2. worker'[s].began <= now' + Setbacks' * Course
      BY <1>0, <2>1
    <2> QED BY <1>6, <2>2 DEF Expected, Course
  <1>7. CASE ~InPass(s)'
    <2>1. worker'[s].pc = "asleep" => worker'[s].due <= now' + w + Course
      BY <1>1, <1>2, <1>3
    <2>2. /\ now' <= now' + Setbacks' * Course + Course
          /\ worker'[s].pc = "asleep" => worker'[s].due <= now' + Setbacks' * Course + Course
      BY <1>0, <1>5, <2>1
    <2> QED BY <1>7, <2>2 DEF Expected, Course
  <1> QED BY <1>6, <1>7

(* The claims that are wasted stay so, while the slot is the same. *)
LEMMA WastedStays ==
  ASSUME IInv, NEW s, NEW q \in Servers, ActsAlone(q), Turn(q), now' = now, clock' = clock
  PROVE  Wasted(s) \subseteq Wasted(s)'
  <1> SUFFICES ASSUME NEW k \in Wasted(s) PROVE k \in Wasted(s)'
    OBVIOUS
  <1>1. /\ k \in claimed /\ k.job = Backup /\ k.by = s /\ k.mark = Slot(now) /\ ~InHand(k)
    BY DEF Wasted
  <1>2. k.mark = Slot(now)'
    BY <1>1 DEF Slot
  <1>3. k \in claimed'
    <2>1. CASE Settles(q)
      BY <1>1, <2>1 DEF Settles, InHand, HoldsKey
    <2>2. CASE ~Settles(q)
      BY <1>1, <2>2 DEF Turn, Woken, Claims, PassesOver, Works, LiesDown, Starts, Saves, Struck,
                        SameClaims
    <2> QED BY <2>1, <2>2
  <1>4. ASSUME NEW r \in Servers, HoldsKey(r)', worker'[r].key = k PROVE FALSE
    <2>1. CASE r # q
      <3>1. worker'[r] = worker[r]
        BY <2>1, OthersStay
      <3> QED BY <1>1, <1>4, <3>1 DEF InHand, HoldsKey
    <2>2. CASE r = q
      <3>1. Claims(q) \/ Works(q) \/ Saves(q)
        BY <1>4, <2>2 DEF Turn, Woken, PassesOver, Settles, LiesDown, Starts, Struck, Sleeps,
                          HoldsKey
      <3>2. ~Claims(q)
        BY <1>1, <1>4, <2>2 DEF Claims
      <3>3. HoldsKey(q) /\ worker[q].key = k
        BY <1>4, <2>2, <3>1, <3>2 DEF Works, Saves, HoldsKey
      <3> QED BY <1>1, <3>3 DEF InHand
    <2> QED BY <2>1, <2>2
  <1> QED BY <1>1, <1>2, <1>3, <1>4 DEF Wasted, InHand

LEMMA SinceStays ==
  ASSUME IInv, NEW s, NEW q \in Servers, ActsAlone(q), Turn(q), now' = now,
         clock' = clock, moved' = moved
  PROVE  Since(s) \subseteq Since(s)'
  <1>1. Wasted(s) \subseteq Wasted(s)'
    BY WastedStays
  <1>2. Ends(s) \subseteq Ends(s)'
    BY <1>1 DEF Ends
  <1>3. Slot(now)' = Slot(now)
    BY DEF Slot
  <1> QED BY <1>2, <1>3 DEF Since

(* A server that is where it was; the setbacks only add to its time. *)
LEMMA ExpectedKept ==
  ASSUME PInv, PInv', NEW s \in Servers, NEW z \in Int, Expected(s, z), now' = now, SamePass(s),
         worker'[s].pc = worker[s].pc, worker'[s].due = worker[s].due,
         worker'[s].next = worker[s].next, worker'[s].key = worker[s].key,
         Setbacks' \in {Setbacks, Setbacks + 1}
  PROVE  Expected(s, z)'
  <1>1. /\ InPass(s)' = InPass(s) /\ Before(s)' = Before(s)
    BY DEF InPass, HoldsKey, ToCome, Backing, Before
  <1>2. /\ Setbacks * Course \in Nat /\ Course \in Nat
        /\ Setbacks' * Course \in {Setbacks * Course, Setbacks * Course + Course}
    BY CourseMoves DEF PInv, IInv
  <1>3. /\ now \in Nat /\ worker[s].began \in Nat /\ worker[s].due \in Nat
    BY Times DEF PInv, IInv
  <1>4. Course' = Course
    BY DEF Course
  <1> PICK w \in Nat, v \in Nat : /\ w = Setbacks * Course /\ v = Setbacks' * Course
                                  /\ v \in {w, w + Course}
    BY <1>2
  <1> QED BY <1>1, <1>2, <1>3, <1>4 DEF Expected, SamePass

(* What the server itself does moves its time, or wastes a claim of the    *)
(* day, until the backup is made.                                          *)
LEMMA ExpectedOwn ==
  ASSUME PInv, PInv', NEW s \in Servers, Backup \in JobNames, <<s, Backup>> \notin Skipped,
         \A r \in Servers : Owned(r), clock # Off, clock' = clock, moved' = moved,
         NEW z \in Since(s), Expected(s, z), ActsAlone(s), Turn(s), now' = now
  PROVE  newest'[s] >= Slot(now) \/ newest[s] >= Slot(now) \/ \E y \in Since(s)' : Expected(s, y)'
  <1>1. /\ IInv /\ TypeOK /\ TypeOK' /\ Paced(s) /\ now \in Nat /\ Hour \in Nat /\ PassMax \in Nat
        /\ worker[s] \in Worker /\ worker'[s] \in Worker
    BY TimesAssumption DEF PInv, IInv, TypeOK
  <1>2. z \in Int /\ z \in Since(s)'
    BY <1>1, SinceTyped, SinceStays
  <1>3. /\ Setbacks * Course \in Nat /\ Course \in Nat /\ Course = Hour + PassMax
        /\ Setbacks' = Setbacks => Setbacks' * Course = Setbacks * Course
        /\ Setbacks' = Setbacks + 1 => Setbacks' * Course = Setbacks * Course + Course
    BY <1>1, CourseMoves DEF Course
  <1>0. Course \in Nat /\ Course = Hour + PassMax
    BY <1>3
  <1>4. /\ worker[s].began \in Nat /\ worker[s].due \in Nat /\ worker[s].day \in Nat
        /\ worker'[s].due \in Nat /\ worker[s].next \in Nat /\ Len(Jobs) \in Nat
    BY <1>1, JobsAssumption DEF Worker
  <1>5. PICK w \in Int : w = z + Setbacks * Course
    BY <1>2, <1>3
  <1>6. PICK v \in Int : v = z + Setbacks' * Course
    <2>1. Setbacks' * Course \in Nat
      BY <1>1, CourseNext
    <2> QED BY <1>2, <2>1
  <1>7. /\ Setbacks' = Setbacks => v = w
        /\ Setbacks' = Setbacks + 1 => v = w + Course
    BY <1>2, <1>3, <1>5, <1>6
  <1>8. \/ /\ ~InPass(s) /\ now <= w + Course
           /\ worker[s].pc = "asleep" => worker[s].due <= w + Course
        \/ InPass(s) /\ Before(s) /\ worker[s].began <= w + Course
        \/ InPass(s) /\ worker[s].began <= w
    BY <1>5 DEF Expected
  <1>9. ASSUME \/ /\ ~InPass(s)' /\ now <= v + Course
                  /\ worker'[s].pc = "asleep" => worker'[s].due <= v + Course
               \/ InPass(s)' /\ Before(s)' /\ worker'[s].began <= v + Course
               \/ InPass(s)' /\ worker'[s].began <= v
        PROVE  \E y \in Since(s)' : Expected(s, y)'
    <2>1. Expected(s, z)'
      BY <1>6, <1>9 DEF Expected, Course
    <2> QED BY <1>2, <2>1
  <1>10. now <= w + Course + PassMax
    <2>1. now <= z + Setbacks * Course + Course + PassMax
      BY <1>2, ExpectedNow
    <2> QED BY <1>5, <2>1
  <1>11. ASSUME InPass(s), InPass(s)', SamePass(s), worker[s].began <= w,
                Setbacks' \in {Setbacks, Setbacks + 1}
         PROVE  \E y \in Since(s)' : Expected(s, y)'
    <2>1. worker'[s].began = worker[s].began /\ w <= v
      BY <1>3, <1>7, <1>11 DEF SamePass
    <2>2. worker'[s].began <= v
      BY <1>4, <1>11, <2>1
    <2> QED BY <1>9, <1>11, <2>2
  <1>12. CASE Woken(s)
    <2>1. /\ ~InPass(s) /\ InPass(s)' /\ ~HoldsKey(s)' /\ ToCome(s, Backup)'
          /\ worker'[s].began = now /\ Setbacks' = Setbacks
      <3>1. PICK i \in 1..Len(Jobs) : Jobs[i] = Backup
        BY DEF JobNames
      <3> QED BY <1>12, <3>1 DEF Woken, InPass, HoldsKey, ToCome, SameClaims
    <2> QED BY <1>7, <1>8, <1>9, <2>1 DEF Before
  <1>13. CASE Claims(s)
    <2>1. /\ InPass(s) /\ InPass(s)' /\ SamePass(s) /\ worker'[s].next = worker[s].next
          /\ Setbacks' = Setbacks /\ worker'[s].pc = "work" /\ worker[s].pc = "claim"
      BY <1>13 DEF Claims, InPass
    <2>2. Before(s) => Before(s)'
      BY <2>1 DEF Before, Backing, ToCome
    <2> QED BY <1>7, <1>8, <1>9, <1>11, <2>1, <2>2 DEF SamePass
  <1>14. CASE PassesOver(s)
    <2>1. /\ InPass(s) /\ InPass(s)' /\ SamePass(s) /\ worker'[s].next = worker[s].next + 1
          /\ Setbacks' = Setbacks /\ claimed' = claimed /\ ~HoldsKey(s) /\ ~HoldsKey(s)'
      BY <1>14 DEF PassesOver, SameClaims, InPass, HoldsKey
    <2>2. CASE worker[s].began <= w
      BY <1>11, <2>1, <2>2
    <2>3. CASE Before(s) /\ worker[s].began <= w + Course /\ Jobs[worker[s].next] # Backup
      <3>1. PICK i \in worker[s].next..Len(Jobs) : Jobs[i] = Backup
        BY <2>1, <2>3 DEF Before, Backing, HoldsKey, ToCome
      <3>2. i \in (worker[s].next + 1)..Len(Jobs)
        BY <1>4, <2>3, <3>1
      <3>3. Before(s)'
        BY <2>1, <3>1, <3>2 DEF Before, ToCome
      <3> QED BY <1>7, <1>9, <2>1, <2>3, <3>3 DEF SamePass
    <2>4. CASE Jobs[worker[s].next] = Backup
      <3> DEFINE k == KeyOf(s, Backup)
      <3>1. /\ k \in claimed /\ k.job = Backup /\ k.by = s /\ k.mark = Slot(now)
            /\ k.day = worker[s].day
        BY <1>14, <2>4 DEF PassesOver, KeyOf
      <3> HIDE DEF k
      <3>2. ~InHand(k)
        <4> SUFFICES ASSUME NEW r \in Servers, HoldsKey(r), worker[r].key = k PROVE FALSE
          BY DEF InHand
        <4>1. r = s
          BY <3>1 DEF Owned
        <4> QED BY <2>1, <4>1
      <3>3. k \in Wasted(s)
        BY <3>1, <3>2 DEF Wasted
      <3>y. PICK y : y = (k.day + 1) * DayLength
        OBVIOUS
      <3>4. y \in Since(s) /\ y \in Since(s)'
        <4>1. y \in Since(s)
          BY <3>3, <3>y DEF Since, Ends
        <4> QED BY <1>1, <4>1, SinceStays
      <3>5. y \in Nat /\ worker[s].began < y
        <4>1. k.day = Day(worker[s].began)
          BY <1>1, <2>1, <3>1 DEF Paced
        <4> QED BY <1>4, <3>y, <4>1, DayAt
      <3>6. worker'[s].began <= y + Setbacks' * Course
        <4>1. worker'[s].began = worker[s].began /\ Setbacks' * Course \in Nat
          BY <1>3, <2>1 DEF SamePass
        <4> QED BY <1>4, <3>5, <4>1
      <3>7. Expected(s, y)'
        BY <2>1, <3>6 DEF Expected, Course
      <3> QED BY <3>4, <3>7
    <2> QED BY <1>8, <2>1, <2>2, <2>3, <2>4
  <1>15. CASE Settles(s)
    <2>1. /\ InPass(s) /\ InPass(s)' /\ SamePass(s) /\ worker'[s].next = worker[s].next + 1
          /\ Setbacks' = Setbacks /\ ~HoldsKey(s)' /\ HoldsKey(s)
          /\ worker[s].pc \in {"done", "undone"}
      BY <1>15 DEF Settles, InPass, HoldsKey
    <2>2. CASE worker[s].began <= w
      BY <1>11, <2>1, <2>2
    <2>3. CASE Before(s) /\ worker[s].began <= w + Course
      <3>1. Jobs[worker[s].next] # Backup
        BY <1>1, <2>1, <2>3 DEF Before, Backing, Paced
      <3>2. PICK i \in worker[s].next..Len(Jobs) : Jobs[i] = Backup
        BY <2>1, <2>3 DEF Before, Backing, ToCome
      <3>3. i \in (worker[s].next + 1)..Len(Jobs)
        BY <1>4, <3>1, <3>2
      <3>4. Before(s)'
        BY <2>1, <3>2, <3>3 DEF Before, ToCome
      <3> QED BY <1>7, <1>9, <2>1, <2>3, <3>4 DEF SamePass
    <2> QED BY <1>8, <2>1, <2>2, <2>3
  <1>16. CASE LiesDown(s)
    <2>1. /\ InPass(s) /\ ~InPass(s)' /\ Setbacks' = Setbacks
          /\ worker'[s].pc = "asleep" => worker'[s].due <= now + Hour
      BY <1>16 DEF LiesDown, Sleeps, SameClaims, InPass
    <2>2. ~Before(s)
      BY <1>4, <1>16 DEF LiesDown, Before, Backing, ToCome
    <2>3. now <= worker[s].began + PassMax
      BY <1>1, <2>1 DEF Paced
    <2>4. worker[s].began <= w
      BY <1>8, <2>1, <2>2
    <2>5. /\ now <= v + Course
          /\ worker'[s].pc = "asleep" => worker'[s].due <= v + Course
      <3>1. v = w /\ now <= w + PassMax /\ now + Hour <= w + Course /\ now <= w + Course
        BY <1>0, <1>1, <1>4, <1>7, <2>1, <2>3, <2>4
      <3>2. worker'[s].pc = "asleep" => worker'[s].due <= w + Course
        BY <1>0, <1>1, <1>4, <2>1, <3>1
      <3> QED BY <3>1, <3>2
    <2>6. ~InPass(s)'
      BY <2>1
    <2> QED BY <1>9, <2>5, <2>6
  <1>17. CASE Starts(s)
    <2>1. ~InPass(s) /\ ~InPass(s)' /\ worker'[s].due = now /\ Setbacks' = Setbacks
      BY <1>17 DEF Starts, SameClaims, InPass
    <2> QED BY <1>7, <1>8, <1>9, <2>1
  <1>18. CASE Saves(s)
    <2>1. /\ InPass(s)' = InPass(s) /\ Before(s)' = Before(s) /\ Setbacks' = Setbacks
          /\ worker'[s].pc = worker[s].pc /\ worker'[s].due = worker[s].due
          /\ worker'[s].began = worker[s].began
      BY <1>18 DEF Saves, SamePass, SameClaims, InPass, HoldsKey, ToCome, Backing, Before
    <2> QED BY <1>7, <1>8, <1>9, <2>1
  <1>19. CASE Struck(s)
    <2>1. /\ ~InPass(s)' /\ Setbacks' = Setbacks + 1
          /\ worker'[s].pc = "asleep" => worker'[s].due <= now + Hour
      BY <1>19 DEF Struck, Sleeps, InPass
    <2>2. v = w + Course
      BY <1>7, <2>1
    <2>3. now <= v + Course /\ now + Hour <= v + Course
      BY <1>0, <1>1, <1>10, <2>2
    <2>4. worker'[s].pc = "asleep" => worker'[s].due <= v + Course
      BY <1>0, <1>1, <1>4, <2>1, <2>3
    <2> QED BY <1>9, <2>1, <2>3, <2>4
  <1>20. CASE Works(s)
    <2>1. /\ InPass(s) /\ InPass(s)' /\ SamePass(s) /\ Setbacks' \in {Setbacks, Setbacks + 1}
          /\ worker'[s].key = worker[s].key /\ worker'[s].next = worker[s].next
          /\ worker[s].pc \in {"work", "write"} /\ worker'[s].began = worker[s].began
      BY <1>20 DEF Works, InPass, SamePass
    <2>2. CASE worker[s].began <= w
      BY <1>11, <2>1, <2>2
    <2>3. CASE Before(s) /\ worker[s].began <= w + Course
      <3>1. CASE Setbacks' = Setbacks + 1
        <4>1. worker'[s].began <= v
          BY <1>7, <2>1, <2>3, <3>1
        <4> QED BY <1>9, <2>1, <4>1
      <3>2. CASE Setbacks' = Setbacks /\ Before(s)'
        BY <1>7, <1>9, <2>1, <2>3, <3>2
      <3>3. CASE Setbacks' = Setbacks /\ ~Before(s)'
        <4>1. worker[s].key.job = Backup /\ Backing(s)
          BY <2>1, <2>3, <3>3 DEF Before, Backing, HoldsKey, ToCome
        <4>2. BackUp(s) \/ WriteBackup(s)
          <5>1. fails \in Nat /\ faults \in Nat
            BY <1>1 DEF TypeOK
          <5>2. /\ ~Wake(s) /\ ~Claim(s) /\ ~Settle(s) /\ ~Rest(s) /\ ~Boot(s)
            BY <2>1 DEF Wake, Claim, Settle, Rest, Boot
          <5>3. ~Fail(s) /\ ~Die(s) /\ ~LoseDatabase(s)
            BY <3>3, <5>1 DEF Fail, Die, LoseDatabase, Setbacks
          <5>4. ~Run(s)
            BY <4>1 DEF Run
          <5>5. \A c \in Clocks \cup {Off} : ~SaveSchedule(s, c)
            BY DEF SaveSchedule
          <5> QED BY <5>2, <5>3, <5>4, <5>5 DEF ActsAlone, Step
        <4>3. CASE BackUp(s)
          <5>1. worker'[s].pc = IF newest[s] >= Slot(now) THEN "undone" ELSE "write"
            BY <1>1, <4>3 DEF BackUp, TypeOK
          <5>2. worker'[s].pc # "write"
            BY <2>1, <3>3, <4>1 DEF Before, Backing
          <5> QED BY <5>1, <5>2
        <4>4. CASE WriteBackup(s)
          <5>1. newest'[s] = now
            BY <1>1, <4>4 DEF WriteBackup, TypeOK
          <5>2. Slot(now) <= now /\ Slot(now) \in Int
            BY <1>1, Slots
          <5> QED BY <1>1, <5>1, <5>2
        <4> QED BY <4>2, <4>3, <4>4
      <3> QED BY <2>1, <3>1, <3>2, <3>3
    <2> QED BY <1>8, <2>1, <2>2, <2>3
  <1> QED BY <1>12, <1>13, <1>14, <1>15, <1>16, <1>17, <1>18, <1>19, <1>20 DEF Turn

LEMMA InitBacked ==
  ASSUME Init, NEW s \in Steady
  PROVE  Backed(s)
  <1>1. TypeOK /\ s \in Servers
    BY InitIInv, ServersAssumption DEF IInv
  <1>2. worker[s] \in {Fresh("asleep", 0), Fresh("off", 0)}
    BY <1>1 DEF Init
  <1>3. ~InPass(s) /\ worker[s].due = 0 /\ now = 0 /\ moved = 0
    BY <1>2 DEF Init, Fresh, InPass
  <1>4. 0 <= 0 + Setbacks * Course + Course
    BY <1>1, CourseMoves
  <1>5. Expected(s, 0)
    BY <1>3, <1>4 DEF Expected
  <1> QED BY <1>3, <1>5 DEF Backed, Since

LEMMA InitOwned == ASSUME Init, NEW r \in Servers PROVE Owned(r)
  <1>1. worker[r] \in {Fresh("asleep", 0), Fresh("off", 0)}
    BY DEF Init
  <1> QED BY <1>1 DEF Owned, HoldsKey, Fresh

LEMMA NextOwned ==
  ASSUME PInv, [Next]_vars, \A r \in Servers : Owned(r), NEW r \in Servers
  PROVE  Owned(r)'
  <1>1. ASSUME NEW q \in Servers, ActsAlone(q) PROVE Owned(r)'
    <2>1. Turn(q)
      BY <1>1, EachTurn DEF PInv
    <2>2. CASE r # q
      <3>1. worker'[r] = worker[r]
        BY <1>1, <2>2, OthersStay DEF PInv
      <3> QED BY <3>1 DEF Owned, HoldsKey
    <2>3. CASE r = q
      <3>1. CASE Claims(q)
        <4>1. worker'[q].key = KeyOf(q, Jobs[worker[q].next])
          BY <3>1 DEF Claims
        <4>2. worker'[q].key.job = Backup => worker'[q].key.by = q
          BY <4>1 DEF KeyOf
        <4> QED BY <2>3, <4>2 DEF Owned
      <3>2. CASE Works(q) \/ Saves(q)
        BY <2>3, <3>2 DEF Works, Saves, Owned, HoldsKey
      <3>3. CASE ~(Claims(q) \/ Works(q) \/ Saves(q))
        BY <2>1, <2>3, <3>3 DEF Turn, Woken, PassesOver, Settles, LiesDown, Starts, Struck,
                                Sleeps, Owned, HoldsKey
      <3> QED BY <3>1, <3>2, <3>3
    <2> QED BY <2>2, <2>3
  <1>2. CASE worker' = worker
    BY <1>2 DEF Owned, HoldsKey
  <1> QED BY <1>1, <1>2 DEF Next, ActsAlone, Tick, Exhausted, vars

LEMMA NextBacked ==
  ASSUME PInv, [Next]_vars, NEW s \in Steady, Backup \in JobNames, <<s, Backup>> \notin Skipped,
         \A r \in Servers : Owned(r), Backed(s)
  PROVE  Backed(s)'
  <1>0. PInv' /\ IInv /\ TypeOK /\ TypeOK' /\ s \in Servers /\ now \in Nat
    BY NextPInv, ServersAssumption DEF PInv, IInv, TypeOK
  <1>1. ASSUME NEW y, y \in Since(s)', Expected(s, y)' PROVE Backed(s)'
    BY <1>1 DEF Backed
  <1>2. ASSUME NEW q \in Servers, ActsAlone(q), clock' = clock, moved' = moved, clock # Off
        PROVE  Backed(s)'
    <2>1. Turn(q) /\ now' = now
      BY <1>0, <1>2, EachTurn
    <2>2. Slot(now)' = Slot(now)
      BY <1>2, <2>1 DEF Slot
    <2>3. newest'[s] = newest[s] \/ newest'[s] = now
      BY <1>0, <1>2 DEF ActsAlone, Step, Wake, Claim, Fail, Run, BackUp, WriteBackup, Settle, Rest,
                        Die, LoseDatabase, Boot, SaveSchedule, TypeOK
    <2>4. Slot(now) <= now /\ Slot(now) \in Int
      BY <1>0, <1>2, Slots
    <2>5. CASE newest[s] >= Slot(now)
      <3>1. newest'[s] >= Slot(now)
        BY <1>0, <2>3, <2>4, <2>5
      <3> QED BY <2>2, <3>1 DEF Backed
    <2>6. CASE newest'[s] >= Slot(now)
      BY <2>2, <2>6 DEF Backed
    <2>7. ASSUME NEW z \in Since(s), Expected(s, z), ~(newest'[s] >= Slot(now)),
                 ~(newest[s] >= Slot(now))
          PROVE  Backed(s)'
      <3>1. CASE q = s
        <4>1. \E y \in Since(s)' : Expected(s, y)'
          BY <1>0, <1>2, <2>1, <2>7, <3>1, ExpectedOwn
        <4> QED BY <4>1 DEF Backed
      <3>2. CASE q # s
        <4>1. worker'[s] = worker[s]
          BY <1>0, <1>2, <3>2, OthersStay
        <4>2. Setbacks' \in {Setbacks, Setbacks + 1}
          BY <2>1 DEF Turn, Woken, Claims, PassesOver, Works, Settles, LiesDown, Starts, Saves,
                      Struck, SameClaims
        <4>3. z \in Int /\ z \in Since(s)'
          BY <1>0, <1>2, <2>1, SinceTyped, SinceStays
        <4>4. Expected(s, z)'
          BY <1>0, <2>1, <2>7, <4>1, <4>2, <4>3, ExpectedKept DEF SamePass
        <4> QED BY <4>3, <4>4 DEF Backed
      <3> QED BY <3>1, <3>2
    <2> QED BY <1>2, <2>5, <2>6, <2>7 DEF Backed
  <1>3. ASSUME NEW q \in Servers, NEW c \in Clocks \cup {Off}, SaveSchedule(q, c)
        PROVE  Backed(s)'
    <2>1. moved' = now /\ now' = now
      BY <1>3 DEF SaveSchedule
    <2>2. now' \in Since(s)'
      BY <2>1 DEF Since
    <2>3. Expected(s, now)'
      BY <1>0, ExpectedAnew
    <2> QED BY <2>2, <2>3 DEF Backed
  <1>4. ASSUME NEW q \in Servers, ActsAlone(q) PROVE Backed(s)'
    <2>1. CASE \E c \in Clocks \cup {Off} : SaveSchedule(q, c)
      BY <1>3, <2>1
    <2>2. CASE ~\E c \in Clocks \cup {Off} : SaveSchedule(q, c)
      <3>1. clock' = clock /\ moved' = moved
        BY <1>4, <2>2 DEF ActsAlone, Step, Wake, Claim, Fail, Run, BackUp, WriteBackup, Settle,
                          Rest, Die, LoseDatabase, Boot
      <3>2. CASE clock = Off
        BY <3>1, <3>2 DEF Backed
      <3> QED BY <1>2, <1>4, <3>1, <3>2
    <2> QED BY <2>1, <2>2
  <1>5. ASSUME clock' = clock, moved' = moved, newest' = newest, claimed' = claimed,
               worker' = worker, Setbacks' = Setbacks, Slot(now)' = Slot(now), clock # Off,
               NEW z \in Since(s), ~(newest[s] >= Slot(now)), Expected(s, z)
        PROVE  /\ z \in Int /\ z \in Since(s)'
               /\ InPass(s) => Expected(s, z)'
               /\ InPass(s)' = InPass(s)
    <2>1. z \in Int
      BY <1>0, <1>5, SinceTyped
    <2>2. Wasted(s)' = Wasted(s)
      BY <1>5 DEF Wasted, InHand, HoldsKey
    <2>3. Since(s)' = Since(s)
      BY <1>5, <2>2 DEF Since, Ends
    <2>4. InPass(s)' = InPass(s) /\ Before(s)' = Before(s)
      BY <1>5 DEF InPass, HoldsKey, ToCome, Backing, Before
    <2>5. InPass(s) => Expected(s, z)'
      BY <1>5, <2>4 DEF Expected, Course
    <2> QED BY <2>1, <2>3, <2>4, <2>5
  <1>6. CASE Tick
    <2>1. /\ clock' = clock /\ moved' = moved /\ newest' = newest /\ claimed' = claimed
          /\ worker' = worker /\ Setbacks' = Setbacks /\ now' = now + 1
          /\ worker[s].pc # "off" /\ (worker[s].pc = "asleep" => worker[s].due > now)
      BY <1>0, <1>6 DEF Tick, Setbacks
    <2>2. CASE clock = Off
      BY <2>1, <2>2 DEF Backed
    <2>3. CASE clock # Off /\ Slot(now)' = now'
      <3>1. now' \in Since(s)'
        BY <2>3 DEF Since
      <3>2. Expected(s, now)'
        BY <1>0, ExpectedAnew
      <3> QED BY <3>1, <3>2 DEF Backed
    <2>4. CASE clock # Off /\ Slot(now)' = Slot(now)
      <3>1. CASE newest[s] >= Slot(now)
        BY <2>1, <2>4, <3>1 DEF Backed
      <3>2. ASSUME NEW z \in Since(s), Expected(s, z), ~(newest[s] >= Slot(now))
            PROVE  Backed(s)'
        <4>1. z \in Int /\ z \in Since(s)' /\ InPass(s)' = InPass(s)
          BY <1>5, <2>1, <2>4, <3>2
        <4>2. CASE InPass(s)
          <5>1. Expected(s, z)'
            BY <1>5, <2>1, <2>4, <3>2, <4>2
          <5> QED BY <4>1, <5>1 DEF Backed
        <4>3. CASE ~InPass(s)
          <5>1. /\ worker[s].due > now /\ worker[s].due <= z + Setbacks * Course + Course
                /\ worker[s].due \in Nat
            BY <1>0, <2>1, <3>2, <4>3, Times DEF InPass, Expected
          <5>2. z + Setbacks * Course + Course \in Int
            BY <1>0, <4>1, CourseMoves
          <5>3. now + 1 <= z + Setbacks * Course + Course
            BY <1>0, <5>1, <5>2
          <5>4. Expected(s, z)'
            BY <2>1, <4>1, <4>3, <5>1, <5>3 DEF Expected, Course
          <5> QED BY <4>1, <5>4 DEF Backed
        <4> QED BY <4>2, <4>3
      <3> QED BY <2>4, <3>1, <3>2 DEF Backed
    <2>5. clock # Off => Slot(now)' = Slot(now) \/ Slot(now)' = now'
      <3>1. \A t : Slot(t)' = IF clock' = Off THEN Off ELSE t' - ((t' - clock') % Period)
        BY DEF Slot
      <3>2. Slot(now)' = Slot(now + 1)
        BY <2>1 DEF Slot
      <3> QED BY <1>0, <2>1, <3>2, Slots
    <2> QED BY <2>2, <2>3, <2>4, <2>5
  <1>7. CASE UNCHANGED vars
    <2>1. /\ clock' = clock /\ moved' = moved /\ newest' = newest /\ claimed' = claimed
          /\ worker' = worker /\ Setbacks' = Setbacks /\ now' = now /\ Slot(now)' = Slot(now)
      BY <1>7 DEF vars, Setbacks, Slot
    <2>2. CASE clock = Off \/ newest[s] >= Slot(now)
      BY <2>1, <2>2 DEF Backed
    <2>3. ASSUME NEW z \in Since(s), Expected(s, z), ~(newest[s] >= Slot(now)), clock # Off
          PROVE  Backed(s)'
      <3>1. z \in Since(s)' /\ InPass(s)' = InPass(s) /\ (InPass(s) => Expected(s, z)')
        BY <1>5, <2>1, <2>3
      <3>2. ~InPass(s) => Expected(s, z)'
        BY <2>1, <2>3, <3>1 DEF Expected, Course
      <3> QED BY <3>1, <3>2 DEF Backed
    <2> QED BY <2>2, <2>3 DEF Backed
  <1> QED BY <1>4, <1>6, <1>7 DEF Next, ActsAlone, Exhausted

(* A server that is never switched off and makes backups has the backup of *)
(* the slot within an hour and two passes of it, or of the save that moved *)
(* it, or of the end of the day that a wasted claim is for, and an hour    *)
(* and a pass later for every run that fails or is cut short: for any      *)
(* number of servers and saves, and any period of the schedule.            *)
THEOREM BackupsInTime ==
  ASSUME Backup \in JobNames, \A s \in Steady : <<s, Backup>> \notin Skipped
  PROVE  Spec => []BackedUpInTime
  <1> DEFINE BInv == PInv /\ (\A r \in Servers : Owned(r)) /\ \A s \in Steady : Backed(s)
  <1>1. Init => BInv
    BY InitPInv, InitOwned, InitBacked
  <1>2. BInv /\ [Next]_vars => BInv'
    BY NextPInv, NextOwned, NextBacked
  <1>3. BInv => BackedUpInTime
    <2> SUFFICES ASSUME BInv, NEW s \in Steady, clock # Off, ~(newest[s] >= Slot(now))
                 PROVE  \E since \in Since(s) :
                          now - since <= (1 + fails + faults) * (Hour + PassMax) + PassMax
      BY DEF BackedUpInTime, Since, Ends
    <2>1. TypeOK /\ s \in Servers /\ now \in Nat
      BY ServersAssumption DEF PInv, IInv, TypeOK
    <2>2. PICK z \in Since(s) : Expected(s, z)
      BY DEF Backed
    <2>3. z \in Int
      BY <2>1, SinceTyped
    <2>4. now <= z + Setbacks * Course + Course + PassMax
      BY <2>1, <2>2, <2>3, ExpectedNow
    <2>5. /\ Setbacks \in Nat /\ Course \in Nat /\ Setbacks * Course \in Nat
          /\ (Setbacks + 1) * Course = Setbacks * Course + Course /\ PassMax \in Nat
      BY <2>1, CourseMoves, Products, TimesAssumption
    <2>6. 1 + fails + faults = Setbacks + 1
      BY <2>1 DEF Setbacks, TypeOK
    <2>7. now - z <= Setbacks * Course + Course + PassMax
      BY <2>1, <2>3, <2>4, <2>5
    <2> QED BY <2>2, <2>5, <2>6, <2>7 DEF Course
  <1> HIDE DEF BInv
  <1> QED BY <1>1, <1>2, <1>3, PTL DEF Spec

=============================================================================
