------------------------------ MODULE AccessLog ------------------------------
(***************************************************************************)
(* The access log, the table every gate decision is read from and written  *)
(* to, and the questions the gate asks of it.  A row is never deleted      *)
(* while a shift runs, so the table is a sequence and a row's number is    *)
(* its primary key; scanned_at is stamped on insertion, so the sequence is *)
(* also ordered by it.                                                     *)
(*                                                                         *)
(* Time is counted in ticks.  A tick is the breathing window (60 s) cut in *)
(* as many pieces as Breathing says; rows written in one tick are within   *)
(* the 3 s grace period of each other when Grace = 0.                      *)
(***************************************************************************)
EXTENDS Integers, Sequences

CONSTANTS
  Registered,  \* plates with a Vehicle row
  Roster,      \* unregistered plates: supplier roster, event list, open campus
  NoPlate,     \* the empty plate of a hand-recorded vehicle
  Grace,       \* GRACE_PERIOD_SECONDS
  Breathing,   \* ENTRY_BREATHING_SECONDS, CAMERA_ENTRY_COOLDOWN_SECONDS
  Cooldown,    \* EXIT_COOLDOWN_SECONDS, NEGATIVE_SCAN_COOLDOWN_SECONDS
  DayLength    \* ticks in a campus day

ASSUME WindowAssumption ==
  /\ Grace \in Nat /\ Breathing \in Nat /\ Cooldown \in Nat
  /\ DayLength \in Nat \ {0}
  /\ Grace < Breathing

ASSUME PlateAssumption ==
  /\ Registered \cap Roster = {}
  /\ NoPlate \notin Registered \cup Roster

Plates == Registered \cup Roster

(* AUTHORIZED, EXITED, and every stored refusal (denied, wrong_day, ...). *)
Kinds == {"entry", "exit", "refused"}

(* paired is the row number of the entry an exit closes; 0 is NULL. *)
Row == [plate : Plates \cup {NoPlate}, kind : Kinds, at : Nat, paired : Nat]

NewRow(p, k, t, e) == [plate |-> p, kind |-> k, at |-> t, paired |-> e]

Day(t) == t \div DayLength

Today(log, i, t) == Day(log[i].at) = Day(t)

(* Some row points back at entry e: AccessLog.filter(paired_entry=e). *)
Closed(log, e) == \E i \in 1..Len(log) : log[i].paired = e

EntriesToday(log, p, t) ==
  {i \in 1..Len(log) :
     log[i].plate = p /\ log[i].kind = "entry" /\ Today(log, i, t)}

(* order_by('-scanned_at').first(): 0 stands for None. *)
Newest(S) ==
  IF \E i \in S : \A j \in S : j <= i
  THEN CHOOSE i \in S : \A j \in S : j <= i
  ELSE 0

(* Faulty variants: entries of any day; an exit of the plate, whichever    *)
(* entry it closed, ends every stay.                                       *)
EntriesAnyDay(log, p, t) ==
  {i \in 1..Len(log) : log[i].plate = p /\ log[i].kind = "entry"}

InsideStateByAnyExit(log, p, t) ==
  IF \/ EntriesToday(log, p, t) = {}
     \/ \E i \in 1..Len(log) : log[i].plate = p /\ log[i].kind = "exit"
  THEN "outside" ELSE "inside"

(* Only the most recent entry of the day describes where the plate is. *)
LastEntry(log, p, t) == Newest(EntriesToday(log, p, t))

InsideState(log, p, t) ==
  LET e == LastEntry(log, p, t) IN
  IF e = 0 \/ Closed(log, e) THEN "outside"
  ELSE IF t - log[e].at <= Grace THEN "duplicate"
  ELSE "inside"

InExitCooldown(log, p, t) ==
  \E i \in 1..Len(log) :
    log[i].plate = p /\ log[i].kind = "exit" /\ t - log[i].at < Cooldown

(* The live camera logs one refusal of a plate a minute. *)
RecentRefusal(log, p, t) ==
  \E i \in 1..Len(log) :
    log[i].plate = p /\ log[i].kind = "refused" /\ t - log[i].at <= Cooldown

(* The occupancy ledger's inside: today's entries no exit of today closed. *)
OpenToday(log, p, t) ==
  {e \in EntriesToday(log, p, t) :
     ~ \E i \in 1..Len(log) :
         log[i].kind = "exit" /\ log[i].paired = e /\ Today(log, i, t)}

(* Faulty variant: yesterday's open entries still count. *)
PlatesInsideEver(log, t) ==
  {p \in Plates : \E e \in EntriesAnyDay(log, p, t) : ~Closed(log, e)}

PlatesInside(log, t) == {p \in Plates : OpenToday(log, p, t) # {}}

(* Faulty variant: pairs with the newest open entry of any plate. *)
PairTargetAnyPlate(log, p, t) ==
  Newest({e \in 1..Len(log) : log[e].kind = "entry" /\ ~Closed(log, e)})

(* _pair_entry_exit: the most recent entry of the day nothing closed, 0 if *)
(* there is none.                                                          *)
PairTarget(log, p, t) ==
  Newest({e \in EntriesToday(log, p, t) : ~Closed(log, e)})

=============================================================================
