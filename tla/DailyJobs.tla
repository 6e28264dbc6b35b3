------------------------------ MODULE DailyJobs ------------------------------
(***************************************************************************)
(* The scheduler thread of each server: it wakes every hour, or when a     *)
(* backup falls due, and runs each job that nobody has run yet today.  A   *)
(* run is claimed by inserting a row of DailyJobRun, unique in the job's   *)
(* key and the day, so that the threads of several servers share the work  *)
(* through the database; a failed run gives its claim back.                *)
(*                                                                         *)
(* Time is counted in ticks; a tick is a piece of an hour.  Marks of a key *)
(* are the hour of an hourly job, the slot of a backup, 0 for the others.  *)
(*                                                                         *)
(* vehicles/scheduler.py, vehicles/tasks.py, accounts/backup_utils.py.     *)
(***************************************************************************)
EXTENDS Integers, Sequences, FiniteSets

CONSTANTS
  Servers,    \* server processes, each with a scheduler thread and a disk
  Steady,     \* those that are restarted at once when they die
  Everyone,   \* whose claim a job is that needs to be run by one server only
  Jobs,       \* DAILY_JOBS, in order
  Backup,     \* scheduled_backup
  Hourly,     \* HOURLY_JOBS
  Skipped,    \* SCHEDULER_SKIP_JOBS: <<server, job>> for a job a server leaves out
  Hour,       \* CHECK_INTERVAL_SECONDS
  DayLength,  \* ticks in a day
  Period,     \* ticks from one slot of the backup schedule to the next
  Clocks,     \* where in the period the schedule may put its slot
  Off,        \* the schedule is off
  PassMax,    \* bound: how long a pass over the jobs takes
  MaxUpsets,  \* bound: runs that fail, passes cut short by a death or a lost
              \* database, and saves of the backup schedule, together
  MaxNow      \* bound: last tick of the clock

ASSUME TimesAssumption ==
  /\ Hour \in Nat \ {0} /\ DayLength \in Nat \ {0} /\ Period \in Nat \ {0}
  /\ PassMax \in Nat /\ MaxUpsets \in Nat
  /\ MaxNow \in Nat
  /\ Clocks \subseteq 0..(Period - 1) /\ Off \notin Int

ASSUME ServersAssumption == Steady \subseteq Servers /\ Everyone \notin Servers

ASSUME JobsAssumption == Jobs \in Seq(STRING) /\ Backup \in STRING /\ Hourly \subseteq STRING \ {Backup}

VARIABLES
  now,       \* the clock
  clock,     \* the backup schedule
  moved,     \* when it was last changed
  claimed,   \* DailyJobRun: the keys with a row
  finished,  \* those whose row has finished_at
  newest,    \* per server: the stamp in the name of its newest backup
  swept,     \* per hourly job: when it was last run
  worker,    \* per server: where its thread is
  fails,
  faults,
  moves

vars == <<now, clock, moved, claimed, finished, newest, swept, worker, fails, faults, moves>>

JobNames == {Jobs[i] : i \in 1..Len(Jobs)}

Keys == [job : JobNames, by : Servers \cup {Everyone}, mark : Int \cup {Off}, day : Nat]

NoKey == [job |-> "", by |-> Everyone, mark |-> 0, day |-> 0]

PCs == {"off", "asleep", "claim", "work", "write", "done", "undone"}

(* due: end of the sleep; day: the date of the pass.                       *)
Worker == [pc : PCs, due : Nat, wake : BOOLEAN, day : Nat, began : Nat,
           next : 1..(Len(Jobs) + 1), key : Keys \cup {NoKey}]

Fresh(pc, t) == [pc |-> pc, due |-> t, wake |-> FALSE, day |-> 0, began |-> 0,
                 next |-> 1, key |-> NoKey]

TypeOK ==
  /\ now \in Nat /\ moved \in Nat
  /\ clock \in Clocks \cup {Off}
  /\ claimed \subseteq Keys /\ finished \subseteq claimed
  /\ newest \in [Servers -> Int]
  /\ swept \in [Hourly -> Nat]
  /\ worker \in [Servers -> Worker]
  /\ fails \in Nat /\ faults \in Nat /\ moves \in Nat

-----------------------------------------------------------------------------
Day(t) == t \div DayLength

HourOf(t) == (t % DayLength) \div Hour

(* The latest slot the schedule called for. *)
Slot(t) == IF clock = Off THEN Off ELSE t - ((t - clock) % Period)

(* The file a server has none of is older than any slot. *)
NoFile == -Period

Upsets == fails + faults + moves

InPass(s) == worker[s].pc \notin {"off", "asleep"}

HoldsKey(s) == worker[s].pc \in {"work", "write", "done", "undone"}

InHand(k) == \E s \in Servers : HoldsKey(s) /\ worker[s].key = k

Goto(s, pc) == worker' = [worker EXCEPT ![s].pc = pc]

(* Faulty variant: a backup is keyed by the day, not by its slot. *)
KeyWithoutSlot(s, job) ==
  [job |-> job,
   by |-> IF job = Backup THEN s ELSE Everyone,
   mark |-> IF job \in Hourly THEN HourOf(now) ELSE 0,
   day |-> worker[s].day]

(* Faulty variant: an hourly job is keyed by the day. *)
KeyWithoutHour(s, job) ==
  [job |-> job,
   by |-> IF job = Backup THEN s ELSE Everyone,
   mark |-> IF job = Backup THEN Slot(now) ELSE 0,
   day |-> worker[s].day]

(* The key says what a run is a run of: every server's own backup for the  *)
(* slot, anybody's sweep of the hour, anybody's run of the day.  The day   *)
(* is the one the pass began on; the slot and the hour are read now.       *)
KeyOf(s, job) ==
  [job |-> job,
   by |-> IF job = Backup THEN s ELSE Everyone,
   mark |-> IF job = Backup THEN Slot(now) ELSE IF job \in Hourly THEN HourOf(now) ELSE 0,
   day |-> worker[s].day]

Init ==
  /\ now = 0 /\ moved = 0
  /\ clock \in Clocks \cup {Off}
  /\ claimed = {} /\ finished = {}
  /\ newest = [s \in Servers |-> NoFile]
  /\ swept = [j \in Hourly |-> 0]
  /\ worker \in [Servers -> {Fresh("asleep", 0), Fresh("off", 0)}]
  /\ \A s \in Steady : worker[s].pc = "asleep"
  /\ fails = 0 /\ faults = 0 /\ moves = 0

-----------------------------------------------------------------------------
(***************************************************************************)
(* A pass.                                                                 *)
(***************************************************************************)

(* The sleep is over, or was cut short: the date is read once. *)
Wake(s) ==
  /\ worker[s].pc = "asleep"
  /\ worker[s].due <= now \/ worker[s].wake
  /\ worker' = [worker EXCEPT ![s] = [Fresh("claim", 0) EXCEPT !.day = Day(now), !.began = now]]
  /\ UNCHANGED <<now, clock, moved, claimed, finished, newest, swept, fails, faults, moves>>

(* Faulty variant: only a finished run keeps others from the job. *)
ClaimUnfinished(s) ==
  /\ worker[s].pc = "claim" /\ worker[s].next <= Len(Jobs)
  /\ LET job == Jobs[worker[s].next] k == KeyOf(s, job) IN
       IF <<s, job>> \in Skipped \/ k \in finished
       THEN /\ worker' = [worker EXCEPT ![s].next = @ + 1]
            /\ UNCHANGED claimed
       ELSE /\ worker' = [worker EXCEPT ![s].pc = "work", ![s].key = k]
            /\ claimed' = claimed \cup {k}
  /\ UNCHANGED <<now, clock, moved, finished, newest, swept, fails, faults, moves>>

(* The next job's row is inserted, unless somebody has it. *)
Claim(s) ==
  /\ worker[s].pc = "claim" /\ worker[s].next <= Len(Jobs)
  /\ LET job == Jobs[worker[s].next] k == KeyOf(s, job) IN
       IF <<s, job>> \in Skipped \/ k \in claimed
       THEN /\ worker' = [worker EXCEPT ![s].next = @ + 1]
            /\ UNCHANGED claimed
       ELSE /\ worker' = [worker EXCEPT ![s].pc = "work", ![s].key = k]
            /\ claimed' = claimed \cup {k}
  /\ UNCHANGED <<now, clock, moved, finished, newest, swept, fails, faults, moves>>

(* The job raises: its own tables aside, nothing is kept of it. *)
Fail(s) ==
  /\ worker[s].pc \in {"work", "write"}
  /\ Upsets < MaxUpsets
  /\ fails' = fails + 1
  /\ Goto(s, "undone")
  /\ UNCHANGED <<now, clock, moved, claimed, finished, newest, swept, faults, moves>>

(* Any job but the backup. *)
Run(s) ==
  LET job == worker[s].key.job IN
  /\ worker[s].pc = "work" /\ job # Backup
  /\ swept' = IF job \in Hourly THEN [swept EXCEPT ![job] = now] ELSE swept
  /\ Goto(s, "done")
  /\ UNCHANGED <<now, clock, moved, claimed, finished, newest, fails, faults, moves>>

(* The backup is off, or not due, or begun: the data are read ... *)
BackUp(s) ==
  /\ worker[s].pc = "work" /\ worker[s].key.job = Backup
  /\ worker' = [worker EXCEPT
       ![s].pc = CASE clock = Off -> "done"
                   [] clock # Off /\ newest[s] >= Slot(now) -> "undone"
                   [] OTHER -> "write"]
  /\ UNCHANGED <<now, clock, moved, claimed, finished, newest, swept, fails, faults, moves>>

(* ... and then the file is named, written and renamed into place. *)
WriteBackup(s) ==
  /\ worker[s].pc = "write"
  /\ newest' = [newest EXCEPT ![s] = now]
  /\ Goto(s, "done")
  /\ UNCHANGED <<now, clock, moved, claimed, finished, swept, fails, faults, moves>>

(* Faulty variant: a failed run keeps its claim. *)
SettleForGood(s) ==
  /\ worker[s].pc \in {"done", "undone"}
  /\ IF worker[s].pc = "done"
     THEN finished' = finished \cup {worker[s].key} ELSE UNCHANGED finished
  /\ worker' = [worker EXCEPT ![s].pc = "claim", ![s].key = NoKey, ![s].next = @ + 1]
  /\ UNCHANGED <<now, clock, moved, claimed, newest, swept, fails, faults, moves>>

(* The row is finished, or deleted for the next pass to try again. *)
Settle(s) ==
  /\ worker[s].pc \in {"done", "undone"}
  /\ IF worker[s].pc = "done"
     THEN finished' = finished \cup {worker[s].key} /\ UNCHANGED claimed
     ELSE claimed' = claimed \ {worker[s].key} /\ UNCHANGED finished
  /\ worker' = [worker EXCEPT ![s].pc = "claim", ![s].key = NoKey, ![s].next = @ + 1]
  /\ UNCHANGED <<now, clock, moved, newest, swept, fails, faults, moves>>

(* An hour from now, or the next slot if that is sooner. *)
NextPass ==
  IF clock # Off /\ Slot(now) + Period < now + Hour THEN Slot(now) + Period ELSE now + Hour

(* All jobs have had their turn. *)
Rest(s) ==
  /\ worker[s].pc = "claim" /\ worker[s].next > Len(Jobs)
  /\ worker' = [worker EXCEPT ![s] = [Fresh("asleep", NextPass) EXCEPT !.wake = worker[s].wake]]
  /\ UNCHANGED <<now, clock, moved, claimed, finished, newest, swept, fails, faults, moves>>

-----------------------------------------------------------------------------
(***************************************************************************)
(* The environment.                                                        *)
(***************************************************************************)

(* The schedule is saved on one server, whose thread alone is woken. *)
SaveSchedule(s, c) ==
  /\ Upsets < MaxUpsets /\ worker[s].pc # "off"
  /\ c # clock
  /\ clock' = c /\ moved' = now /\ moves' = moves + 1
  /\ worker' = [worker EXCEPT ![s].wake = TRUE]
  /\ UNCHANGED <<now, claimed, finished, newest, swept, fails, faults>>

(* The server dies or is switched off: a claim it has stays behind. *)
Die(s) ==
  /\ Upsets < MaxUpsets /\ worker[s].pc # "off"
  /\ faults' = faults + 1
  /\ worker' = [worker EXCEPT ![s] = Fresh("off", 0)]
  /\ UNCHANGED <<now, clock, moved, claimed, finished, newest, swept, fails, moves>>

(* So it does when the database is lost: the row cannot be deleted either, *)
(* and without the settings the thread sleeps for an hour.                 *)
LoseDatabase(s) ==
  /\ Upsets < MaxUpsets /\ InPass(s)
  /\ faults' = faults + 1
  /\ \E due \in {now + Hour, NextPass} :
       worker' = [worker EXCEPT ![s] = [Fresh("asleep", due) EXCEPT !.wake = worker[s].wake]]
  /\ UNCHANGED <<now, clock, moved, claimed, finished, newest, swept, fails, moves>>

Boot(s) ==
  /\ worker[s].pc = "off"
  /\ worker' = [worker EXCEPT ![s] = Fresh("asleep", now)]
  /\ UNCHANGED <<now, clock, moved, claimed, finished, newest, swept, fails, faults, moves>>

(* Time passes; no pass takes longer than PassMax, no sleep longer than it *)
(* was meant to, and a steady server is up again within the tick.          *)
Tick ==
  /\ now < MaxNow
  /\ \A s \in Servers :
       /\ InPass(s) => now - worker[s].began < PassMax
       /\ worker[s].pc = "asleep" => worker[s].due > now /\ ~worker[s].wake
       /\ s \in Steady => worker[s].pc # "off"
  /\ now' = now + 1
  /\ UNCHANGED <<clock, moved, claimed, finished, newest, swept, worker, fails, faults, moves>>

Exhausted == now = MaxNow /\ UNCHANGED vars

Step(s) ==
  \/ Wake(s) \/ Claim(s) \/ Fail(s) \/ Run(s) \/ BackUp(s) \/ WriteBackup(s)
  \/ Settle(s) \/ Rest(s)

Next ==
  \/ \E s \in Servers :
       \/ Step(s) \/ Die(s) \/ LoseDatabase(s) \/ Boot(s)
       \/ \E c \in Clocks \cup {Off} : SaveSchedule(s, c)
  \/ Tick
  \/ Exhausted

Spec == Init /\ [][Next]_vars

-----------------------------------------------------------------------------
(***************************************************************************)
(* Properties.                                                             *)
(***************************************************************************)

(* No job is run twice for one key: never by two servers at once, and      *)
(* never again once it is finished, however the servers are restarted.     *)
NeverTwice ==
  \A s \in Servers : HoldsKey(s) =>
    /\ worker[s].key \notin finished
    /\ \A t \in Servers \ {s} : HoldsKey(t) => worker[t].key # worker[s].key

(* A day's job that nobody finished and nobody has in hand.                *)
Lost ==
  {k \in [job : JobNames \ (Hourly \cup {Backup}), by : {Everyone}, mark : {0},
          day : 0..(Day(now) - 1)] : k \notin finished /\ ~InHand(k)}

(* "One bad run does not cost a day": with a server that is never switched *)
(* off, a job that fails is run later that day, and only a run cut short   *)
(* by a death or a lost database, which leaves its claim behind, costs a   *)
(* day, one job's each.                                                    *)
OnlyFaultsCostADay == Cardinality(Lost) <= faults

(* Between two sweeps of unpaid applications pass three hours and the      *)
(* passes around them at most.  A pass finds the hour's key taken by a     *)
(* pass earlier in the hour; the next, over midnight, by the same hour a   *)
(* day earlier; the one after that sweeps.  A sweep that failed, or a pass *)
(* that was cut short, costs as much again.                                *)
SweptInTime ==
  \A j \in Hourly :
    now - swept[j] <= (1 + fails + faults) * (3 * Hour + 4 * PassMax)

(* Claims of runs that nobody finished and nobody has in hand.             *)
LeftBehind == {k \in claimed \ finished : ~InHand(k)}

(* A claim is never left behind by a job that fails, or is not due yet, or *)
(* is interrupted by a save: each one left is a death or a lost database.  *)
OnlyFaultsLeaveClaims == Cardinality(LeftBehind) <= faults

(* Claims for the slot that no backup comes of any more: left behind, or   *)
(* finished by a run that found the schedule switched off in between.      *)
Wasted(s) ==
  {k \in claimed : k.job = Backup /\ k.by = s /\ k.mark = Slot(now) /\ ~InHand(k)}

(* A server that is up has its backup within an hour and two passes of the *)
(* slot, or of the save that moved it: the pass under way may have looked  *)
(* already.  A pass that failed or was cut short costs as much again, and  *)
(* a wasted claim the rest of the day it is for.                           *)
BackedUpInTime ==
  \A s \in Steady :
    \/ clock = Off \/ newest[s] >= Slot(now)
    \/ \E since \in {moved, Slot(now)} \cup {(k.day + 1) * DayLength : k \in Wasted(s)} :
         now - since <= (1 + fails + faults) * (Hour + PassMax) + PassMax

=============================================================================
