----------------------------- MODULE VisitorGate -----------------------------
(***************************************************************************)
(* One visitor's car over a campus day: passes are issued, slips printed   *)
(* and confirmed, the plate checked by camera and guard, the allowance     *)
(* changed, and the exit recorded from the slip or by plate.  A visit      *)
(* lives in five places - the pass, the log, the paper, the booking and    *)
(* the violations - and each request writes them one statement at a time   *)
(* from the pass it loaded at its start.                                   *)
(*                                                                         *)
(* Left out: the refusals of a check, and the second violation a check     *)
(* gives a confiscated car; both only keep the car from a pass and from    *)
(* being let in.                                                           *)
(*                                                                         *)
(* scanning/views.py, scanning/consumers.py, scanning/entry_logic.py,      *)
(* scanning/slips.py, scanning/signals.py, vehicles/scheduled_visits.py.   *)
(***************************************************************************)
EXTENDS AccessLog, FiniteSets

CONSTANTS
  Car,        \* the plate of the visitor
  Requests,   \* request threads of the servers
  Minutes,    \* bound: allowances given, in ticks; 0 is less than a tick
  Minute,     \* ticks in a minute
  Plated,     \* whether the visit may be booked with, or without, the plate
  Picked,     \* whether the guard may, or may not, pick the booking
  MaxPasses,  \* bound: passes issued
  MaxPrints,  \* bound: serials drawn
  MaxRows,    \* bound: rows the log may grow to
  MaxUpsets,  \* bound: requests begun during another, and servers killed in one
  MaxNow      \* bound: last tick of the day

ASSUME VisitorAssumption ==
  /\ Car \in Plates /\ Minutes \subseteq Nat
  /\ Plated \subseteq BOOLEAN /\ Picked \subseteq BOOLEAN
  /\ MaxPasses \in Nat /\ MaxPrints \in Nat /\ MaxRows \in Nat /\ MaxUpsets \in Nat
  /\ MaxNow \in Nat /\ Minute \in Nat \ {0}

VARIABLES
  now,       \* the clock
  log,       \* AccessLog
  of,        \* history, per row of the log: the pass an entry was written for
  passes,    \* VisitorPass
  serial,    \* the last slip serial drawn
  papers,    \* copies that came out of the printer: the pass and the serial
  handed,    \* serials drawn for a browser to print
  fines,     \* when each standing overstay violation was issued
  visit,     \* the ScheduledVisit of today
  upsets,    \* servers killed in a request
  requests   \* per thread: the request it handles

desk == <<serial, papers, handed>>
vars == <<now, log, of, passes, desk, fines, visit, upsets, requests>>

(* token: slip_token, 0 while blank.  History: smooth - no two requests    *)
(* overlapped and no server died while the pass was about; twice - two     *)
(* confirmations both found the slip unprinted; filmed - an uploaded frame *)
(* recorded an exit while the pass was active.                             *)
Pass == [active : BOOLEAN, printed : BOOLEAN, token : Nat, issued : Nat, expires : Nat,
         exited : Nat, booked : BOOLEAN, smooth : BOOLEAN, twice : BOOLEAN,
         filmed : BOOLEAN]

Visit == [plated : BOOLEAN, arrived : BOOLEAN]

Errands ==
  {"confirm", "thermal", "browser", "check", "upload", "slip", "typed", "allow", "report"}

PCs == {"idle", "stamp", "enter", "arrive", "draw", "keep", "admit", "lock", "close", "row",
        "seek", "fine", "save", "lift"}

(* expires: of the pass, as the request loaded it or is about to save it;  *)
(* left: when it recorded the exit; number: the serial it drew, or the     *)
(* entry row it is going to lock.                                          *)
Request == [errand : Errands, pc : PCs, pass : Nat, number : Nat, expires : Nat, left : Nat]

TypeOK ==
  /\ now \in Nat /\ serial \in Nat /\ upsets \in Nat
  /\ log \in Seq(Row) /\ of \in Seq(Nat) /\ fines \in SUBSET Nat
  /\ passes \in Seq(Pass)
  /\ papers \in SUBSET (Nat \X Nat) /\ handed \in SUBSET Nat
  /\ visit \in Visit
  /\ requests \in [Requests -> Request]

-----------------------------------------------------------------------------
Active == {p \in DOMAIN passes : passes[p].active}

(* order_by('-entered_at', '-pk').first() *)
ActivePass == Newest(Active)

Busy(r) == requests[r].pc # "idle"

Quiet == \A r \in Requests : ~Busy(r)

Idle == [errand |-> "confirm", pc |-> "idle", pass |-> 0, number |-> 0, expires |-> 0, left |-> 0]

Finish(r) == requests' = [requests EXCEPT ![r] = Idle]

Goto(r, pc) == requests' = [requests EXCEPT ![r].pc = pc]

Ruffled == [p \in DOMAIN passes |-> [passes[p] EXCEPT !.smooth = FALSE]]

Filmed ==
  [p \in DOMAIN passes |-> [passes[p] EXCEPT !.filmed = @ \/ passes[p].active]]

(* A request is noted: a pass stays smooth only if r has the desk to       *)
(* itself.                                                                 *)
Note(r) ==
  IF \A q \in Requests \ {r} : ~Busy(q) THEN UNCHANGED <<passes, upsets>>
  ELSE upsets < MaxUpsets /\ upsets' = upsets + 1 /\ passes' = Ruffled

(* A request begins at pc, with pass p as it is now. *)
Begin(r, errand, pc, p, number, expires) ==
  /\ ~Busy(r)
  /\ requests' = [requests EXCEPT
       ![r] = [Idle EXCEPT !.errand = errand, !.pc = pc, !.pass = p, !.number = number,
                           !.expires = expires]]

(* A bound: room for the rows of every request under way. *)
Room ==
  Len(log) + Cardinality({r \in Requests :
                            \/ requests[r].pc \in {"stamp", "enter", "admit", "lock", "row"}
                            \/ requests[r].pc = "close" /\ requests[r].errand = "slip"})
    < MaxRows

Init ==
  /\ now = 0 /\ log = <<>> /\ of = <<>> /\ passes = <<>> /\ fines = {}
  /\ serial = 0 /\ papers = {} /\ handed = {} /\ upsets = 0
  /\ visit \in [plated : Plated, arrived : {FALSE}]
  /\ requests = [r \in Requests |-> Idle]

-----------------------------------------------------------------------------
(***************************************************************************)
(* VisitorPassView.post: a visitor with a standing overstay gets no pass.  *)
(* The booking is found by its plate, or picked by the guard; nobody asks  *)
(* whether an earlier pass is still active.                                *)
(***************************************************************************)
Issue(minutes, picked) ==
  /\ Len(passes) < MaxPasses
  /\ fines = {}
  /\ Quiet \/ upsets < MaxUpsets
  /\ upsets' = IF Quiet THEN upsets ELSE upsets + 1
  /\ LET new == [active |-> TRUE, printed |-> FALSE, token |-> 0, issued |-> now,
                 expires |-> now + minutes, exited |-> 0,
                 booked |-> ~visit.arrived /\ (visit.plated \/ picked),
                 smooth |-> Active = {} /\ Quiet, twice |-> FALSE, filmed |-> FALSE]
     IN passes' = Append(IF new.smooth THEN passes ELSE Ruffled, new)
  /\ UNCHANGED <<now, log, of, desk, fines, visit, requests>>

-----------------------------------------------------------------------------
(***************************************************************************)
(* SlipPrintView: every print draws a serial, and keeps it once the paper  *)
(* is out of the printer.  A slip the browser is to print - the guard      *)
(* chose so, or the server has no printer - has its serial kept before the *)
(* answer goes out: whether the answer arrives and the dialog prints, the  *)
(* server never learns.                                                    *)
(***************************************************************************)
(* Faulty variant: the serial is saved before the printer is tried. *)
DrawAndKeep(r, p, errand) ==
  /\ passes[p].active /\ serial < MaxPrints
  /\ errand \in {"thermal", "browser"}
  /\ serial' = serial + 1
  /\ handed' = IF errand = "browser" THEN handed \cup {serial + 1} ELSE handed
  /\ Begin(r, errand, IF errand = "thermal" THEN "draw" ELSE "keep", p, serial + 1, 0)
  /\ passes' = [Ruffled EXCEPT ![p].token = serial + 1]
  /\ upsets' = upsets
  /\ UNCHANGED <<now, log, of, papers, fines, visit>>

Draw(r, p, errand) ==
  /\ passes[p].active /\ serial < MaxPrints
  /\ errand \in {"thermal", "browser"}
  /\ serial' = serial + 1
  /\ handed' = IF errand = "browser" THEN handed \cup {serial + 1} ELSE handed
  /\ Begin(r, errand, IF errand = "thermal" THEN "draw" ELSE "keep", p, serial + 1, 0)
  /\ Note(r)
  /\ UNCHANGED <<now, log, of, papers, fines, visit>>

(* The thermal printer prints, or reports that nothing came out. *)
PaperOut(r, jams) ==
  LET req == requests[r] IN
  /\ req.pc = "draw"
  /\ papers' = IF jams THEN papers ELSE papers \cup {<<req.pass, req.number>>}
  /\ IF jams THEN Finish(r) ELSE Goto(r, "keep")
  /\ UNCHANGED <<now, log, of, passes, serial, handed, fines, visit, upsets>>

(* keep_serial writes the one column; the answer, lost or not, changes     *)
(* nothing more.                                                           *)
Keep(r) ==
  LET req == requests[r] IN
  /\ req.pc = "keep"
  /\ passes' = [passes EXCEPT ![req.pass].token = req.number]
  /\ Finish(r)
  /\ UNCHANGED <<now, log, of, desk, fines, visit, upsets>>

-----------------------------------------------------------------------------
(***************************************************************************)
(* VisitorPassPrintedView: the slip printed is the entry.  It is stamped   *)
(* first and the row written after.  Confirming after the visitor left is  *)
(* not refused.                                                            *)
(***************************************************************************)
Confirm(r, p) ==
  /\ ~passes[p].printed /\ Room
  /\ Begin(r, "confirm", "stamp", p, 0, 0)
  /\ IF passes[p].active THEN Note(r) ELSE passes' = Ruffled /\ UNCHANGED upsets
  /\ UNCHANGED <<now, log, of, desk, fines, visit>>

(* Faulty variant: stamped on the object, never saved. *)
StampUnsaved(r) ==
  /\ requests[r].pc = "stamp"
  /\ Goto(r, "enter")
  /\ UNCHANGED <<now, log, of, passes, desk, fines, visit, upsets>>

Stamp(r) ==
  LET req == requests[r] IN
  /\ req.pc = "stamp"
  /\ passes' = [passes EXCEPT ![req.pass].printed = TRUE,
                               ![req.pass].twice = @ \/ passes[req.pass].printed]
  /\ Goto(r, "enter")
  /\ UNCHANGED <<now, log, of, desk, fines, visit, upsets>>

(* The entry row; its signal ticks off the visit booked for the plate. *)
Enter(r) ==
  LET req == requests[r] IN
  /\ req.pc = "enter"
  /\ log' = Append(log, NewRow(Car, "entry", now, 0))
  /\ of' = Append(of, req.pass)
  /\ visit' = [visit EXCEPT !.arrived = @ \/ visit.plated]
  /\ IF passes[req.pass].booked THEN Goto(r, "arrive") ELSE Finish(r)
  /\ UNCHANGED <<now, passes, desk, fines, upsets>>

(* mark_arrived: the booking the pass was issued for, plate and all. *)
Arrive(r) ==
  /\ requests[r].pc = "arrive"
  /\ visit' = [plated |-> TRUE, arrived |-> TRUE]
  /\ Finish(r)
  /\ UNCHANGED <<now, log, of, passes, desk, fines, upsets>>

-----------------------------------------------------------------------------
(***************************************************************************)
(* Plate checks of the car: by the live camera or a guard ("check"), or of *)
(* an uploaded frame ("upload").  A car inside on an active pass is only   *)
(* shown its slip, except that an uploaded frame records its exit all the  *)
(* same, at once, and leaves the pass active and the overstay unchecked.   *)
(***************************************************************************)
CheckInside(r, errand) ==
  LET e == LastEntry(log, Car, now) IN
  /\ errand \in {"check", "upload"} /\ Room
  /\ InsideState(log, Car, now) = "inside"
  /\ errand = "check" => Active = {} /\ now - log[e].at >= Breathing
  /\ Begin(r, errand, "lock", 0, e, 0)
  /\ Note(r)
  /\ UNCHANGED <<now, log, of, desk, fines, visit>>

(* The exit, written under the lock of the entry it closes. *)
LockedExit(r) ==
  LET req == requests[r] IN
  /\ req.pc = "lock"
  /\ IF Closed(log, req.number)
     THEN Finish(r) /\ UNCHANGED <<log, of, passes>>
     ELSE /\ log' = Append(log, NewRow(Car, "exit", now, req.number))
          /\ of' = Append(of, 0)
          /\ IF req.errand = "check"
             THEN Goto(r, "seek") /\ UNCHANGED passes
             ELSE /\ Finish(r)
                  /\ passes' = Filmed
  /\ UNCHANGED <<now, desk, fines, visit, upsets>>

(* check_entry: a visitor's car outside is let in on an active pass whose  *)
(* time is not over, whether or not its slip was confirmed.                *)
CheckOutside(r, errand) ==
  LET p == ActivePass IN
  /\ errand \in {"check", "upload"} /\ Room
  /\ InsideState(log, Car, now) = "outside"
  /\ ~InExitCooldown(log, Car, now)
  /\ fines = {} /\ p # 0 /\ now <= passes[p].expires
  /\ Begin(r, errand, "admit", 0, 0, 0)
  /\ Note(r)
  /\ UNCHANGED <<now, log, of, desk, fines, visit>>

(* An entry row of no slip; its signal ticks off the booking. *)
EntryRow ==
  /\ log' = Append(log, NewRow(Car, "entry", now, 0))
  /\ of' = Append(of, 0)
  /\ visit' = [visit EXCEPT !.arrived = @ \/ visit.plated]

Admit(r) ==
  /\ requests[r].pc = "admit"
  /\ EntryRow
  /\ Finish(r)
  /\ UNCHANGED <<now, passes, desk, fines, upsets>>

(* OverrideEntryView, and open campus mode: nobody asks for a pass, nor    *)
(* whether the car is inside already.                                      *)
Override(r) ==
  /\ ~Busy(r) /\ Room
  /\ EntryRow
  /\ Note(r)
  /\ UNCHANGED <<now, desk, fines, requests>>

-----------------------------------------------------------------------------
(***************************************************************************)
(* Exits.  From the slip (by its QR code, or by the number of the pass,    *)
(* which asks for no serial): the pass is closed, the exit row written and *)
(* paired, the overstay fined.  By plate: the row and its pairing first,   *)
(* then the newest active pass.                                            *)
(***************************************************************************)
SlipExit(r, p) ==
  /\ passes[p].active /\ Room
  /\ Begin(r, "slip", "close", p, 0, passes[p].expires)
  /\ Note(r)
  /\ UNCHANGED <<now, log, of, desk, fines, visit>>

TypedExit(r) ==
  /\ Room
  /\ Begin(r, "typed", "row", 0, 0, 0)
  /\ Note(r)
  /\ UNCHANGED <<now, log, of, desk, fines, visit>>

(* The exit row and its pairing, whose statements GateLedger takes apart. *)
ExitRow(r) ==
  LET req == requests[r] IN
  /\ req.pc = "row"
  /\ log' = Append(log, NewRow(Car, "exit", now, PairTarget(log, Car, now)))
  /\ of' = Append(of, 0)
  /\ Goto(r, IF req.errand = "slip" THEN "fine" ELSE "seek")
  /\ UNCHANGED <<now, passes, desk, fines, visit, upsets>>

(* _close_active_pass reads the newest active pass after the exit by plate. *)
Seek(r) ==
  LET p == ActivePass IN
  /\ requests[r].pc = "seek"
  /\ IF p = 0 THEN Finish(r)
     ELSE requests' = [requests EXCEPT ![r].pc = "close", ![r].pass = p,
                                       ![r].expires = passes[p].expires]
  /\ UNCHANGED <<now, log, of, passes, desk, fines, visit, upsets>>

Close(r) ==
  LET req == requests[r] IN
  /\ req.pc = "close"
  /\ passes' = [passes EXCEPT ![req.pass].active = FALSE, ![req.pass].exited = now]
  /\ requests' = [requests EXCEPT ![r].pc = IF req.errand = "slip" THEN "row" ELSE "fine",
                                   ![r].left = now]
  /\ UNCHANGED <<now, log, of, desk, fines, visit, upsets>>

(* The overstay, against the allowance loaded; one strike a day.  From the *)
(* slip it is counted in whole minutes, and less than one is none.         *)
Fine(r) ==
  LET req  == requests[r]
      late == IF req.errand = "slip" THEN req.left >= req.expires + Minute
              ELSE req.left > req.expires
  IN
  /\ req.pc = "fine"
  /\ fines' = IF late /\ ~\E t \in fines : Day(t) = Day(now)
              THEN fines \cup {now} ELSE fines
  /\ Finish(r)
  /\ UNCHANGED <<now, log, of, passes, desk, visit, upsets>>

(* AcknowledgeOverstayView: the guard fines a car that is inside and late  *)
(* by its newest pass.                                                     *)
Acknowledge(r) ==
  LET p == Len(passes) IN
  /\ OpenToday(log, Car, now) # {} /\ p > 0
  /\ passes[p].active /\ now > passes[p].expires
  /\ fines = {}
  /\ ~Busy(r)
  /\ requests' = [requests EXCEPT ![r] = [Idle EXCEPT
       !.errand = "report", !.pc = "fine", !.pass = p, !.expires = passes[p].expires, !.left = now]]
  /\ Note(r)
  /\ UNCHANGED <<now, log, of, desk, fines, visit>>

-----------------------------------------------------------------------------
(***************************************************************************)
(* More time: ExtendVisitorPassView adds to the allowance, and recording   *)
(* the details of an active pass sets it, from the time of issue.          *)
(***************************************************************************)
Allow(r, p, expires) ==
  /\ passes[p].active
  /\ Begin(r, "allow", "save", p, 0, expires)
  /\ Note(r)
  /\ UNCHANGED <<now, log, of, desk, fines, visit>>

(* A bound: an allowance no longer than the day. *)
Extend(r, p) ==
  passes[p].expires < MaxNow /\ Allow(r, p, passes[p].expires + 1)

RecordDetails(r, p, minutes) ==
  passes[p].issued + minutes <= MaxNow /\ Allow(r, p, passes[p].issued + minutes)

(* Faulty variant: every column is saved as it was loaded. *)
SaveWholePass(r) ==
  LET req == requests[r] IN
  /\ req.pc = "save"
  /\ passes' = [passes EXCEPT ![req.pass].expires = req.expires, ![req.pass].active = TRUE]
  /\ Goto(r, "lift")
  /\ UNCHANGED <<now, log, of, desk, fines, visit, upsets>>

(* Only the allowance is saved. *)
SaveAllowance(r) ==
  LET req == requests[r] IN
  /\ req.pc = "save"
  /\ passes' = [passes EXCEPT ![req.pass].expires = req.expires]
  /\ Goto(r, "lift")
  /\ UNCHANGED <<now, log, of, desk, fines, visit, upsets>>

(* Faulty variant: the overstays of earlier visits are lifted. *)
LiftEarlier(r) ==
  LET req == requests[r] IN
  /\ req.pc = "lift"
  /\ fines' = IF now > req.expires THEN fines
              ELSE {t \in fines : t >= passes[req.pass].issued}
  /\ Finish(r)
  /\ UNCHANGED <<now, log, of, passes, desk, visit, upsets>>

(* _lift_visit_overstays: this visit's overstays are lifted if it is now   *)
(* within its allowance.                                                   *)
Lift(r) ==
  LET req == requests[r] IN
  /\ req.pc = "lift"
  /\ fines' = IF now > req.expires THEN fines
              ELSE {t \in fines : t < passes[req.pass].issued}
  /\ Finish(r)
  /\ UNCHANGED <<now, log, of, passes, desk, visit, upsets>>

-----------------------------------------------------------------------------
(* A server dies in a request. *)
Die(r) ==
  /\ Busy(r) /\ upsets < MaxUpsets
  /\ upsets' = upsets + 1
  /\ passes' = Ruffled
  /\ Finish(r)
  /\ UNCHANGED <<now, log, of, desk, fines, visit>>

Tick ==
  /\ now < MaxNow
  /\ now' = now + 1
  /\ UNCHANGED <<log, of, passes, desk, fines, visit, upsets, requests>>

(* The day is over, or the instance used up. *)
Over == now = MaxNow /\ Quiet /\ UNCHANGED vars

Start(r) ==
  \/ TypedExit(r)
  \/ Acknowledge(r)
  \/ Override(r)
  \/ \E errand \in {"check", "upload"} : CheckInside(r, errand) \/ CheckOutside(r, errand)
  \/ \E p \in 1..Len(passes) :
       \/ \E errand \in {"thermal", "browser"} : Draw(r, p, errand)
       \/ Confirm(r, p)
       \/ SlipExit(r, p)
       \/ Extend(r, p)
       \/ \E minutes \in Minutes : RecordDetails(r, p, minutes)

Step(r) ==
  \/ \E jams \in BOOLEAN : PaperOut(r, jams)
  \/ Keep(r)
  \/ LockedExit(r) \/ Admit(r)
  \/ Stamp(r) \/ Enter(r) \/ Arrive(r)
  \/ ExitRow(r) \/ Seek(r) \/ Close(r) \/ Fine(r)
  \/ SaveAllowance(r) \/ Lift(r)

Next ==
  \/ \E r \in Requests : Start(r) \/ Step(r) \/ Die(r)
  \/ \E minutes \in Minutes, picked \in Picked : Issue(minutes, picked)
  \/ Tick
  \/ Over

Spec == Init /\ [][Next]_vars

-----------------------------------------------------------------------------
(***************************************************************************)
(* Properties.                                                             *)
(***************************************************************************)

(* The entries a pass's slip wrote. *)
Entries(p) == {i \in DOMAIN log : log[i].kind = "entry" /\ of[i] = p}

(* A slip logs its visitor in at most once, however often the confirmation *)
(* is repeated and whatever died in between: "stamped BEFORE the entry     *)
(* row, so a failure below cannot double-log on a retry".  Two             *)
(* confirmations that both read the slip unprinted are the exception; the  *)
(* entries of plate checks and overrides are not the slip's.               *)
EntryOnce ==
  \A p \in DOMAIN passes : passes[p].twice \/ Cardinality(Entries(p)) <= 1

(* The exit of a pass found entry e open, or one of the car written since. *)
Taken(e) == \E i \in DOMAIN log : i >= e /\ log[i].kind = "entry" /\ Closed(log, i)

(* Of a pass whose requests came one at a time, and in which no server     *)
(* died, the five places agree.  A confirmed slip has its one entry and    *)
(* its booking has arrived; once the pass is exited that entry (or a newer *)
(* one an override added) is closed, and only an uploaded frame closes it  *)
(* while the pass stays active.  After the exit an overstay stands (until  *)
(* the next pass) if the visitor left a minute or more after the allowance *)
(* last given, and none if the visitor left within it.                     *)
VisitRecorded ==
  Quiet =>
    \A p \in DOMAIN passes :
      passes[p].smooth =>
        /\ passes[p].printed =>
             /\ passes[p].booked => visit.arrived
             /\ \E e \in Entries(p) :
                  /\ Entries(p) = {e}
                  /\ ~passes[p].active => Taken(e)
                  /\ passes[p].active /\ Closed(log, e) => passes[p].filmed
        /\ p = Len(passes) /\ ~passes[p].active =>
             LET fined == \E t \in fines : t >= passes[p].issued IN
             /\ passes[p].exited >= passes[p].expires + Minute => fined
             /\ fined => passes[p].exited > passes[p].expires

(* A print that fails never retires the copy in the visitor's hand: the    *)
(* serial a pass keeps is on a paper that came out of the printer, or was  *)
(* drawn for a browser to print, however prints overlap, jam or die.       *)
CopyInHandWorks ==
  \A p \in DOMAIN passes :
    LET n == passes[p].token IN n = 0 \/ <<p, n>> \in papers \/ n \in handed

(* What a guard recorded no other request undoes: a pass that was exited   *)
(* stays exited and a stamped slip stamped, whatever copy of the pass a    *)
(* request under way saves.                                                *)
ExitStands ==
  [][\A p \in DOMAIN passes :
       /\ ~passes[p].active => ~passes'[p].active
       /\ passes[p].printed => passes'[p].printed]_vars

=============================================================================
