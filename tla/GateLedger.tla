----------------------------- MODULE GateLedger -----------------------------
(***************************************************************************)
(* The gate's plate checks and the hand-recorded entries and exits, run by *)
(* concurrent requests over one access log.  There is no transaction       *)
(* around a request: each statement commits on its own, so what a request  *)
(* read may be stale when it writes.  Only the toggle's exit takes a row   *)
(* lock, on the entry it is about to close.                                *)
(*                                                                         *)
(* A request is a record of where it is (pc), the plate it is about, the   *)
(* entry row it holds, and the exit row it wrote itself.                   *)
(*                                                                         *)
(* scanning/views.py, scanning/consumers.py, scanning/occupancy.py.        *)
(***************************************************************************)
EXTENDS AccessLog, FiniteSets

CONSTANTS
  Requests,   \* concurrent request handlers and camera workers
  Paths,      \* the code paths enabled in this instance
  MaxRows,    \* bound: rows the log may grow to
  MaxNow      \* bound: last tick of the clock

Toggles ==
  {"camera", "manual", "upload", "supplier_camera", "supplier_manual",
   "supplier_upload", "event", "open_campus"}

ByHand ==
  {"typed_exit", "slip_exit", "noplate_entry", "noplate_exit", "override",
   "deny", "unknown"}

(* The paths that write an exit without locking the entry it closes. *)
Unlocking == {"typed_exit", "slip_exit", "noplate_exit"}

ASSUME PathsAssumption == Paths \subseteq Toggles \cup ByHand

VARIABLES
  log,   \* AccessLog
  now,   \* the clock
  req    \* per request: [pc, plate, entry, row]

vars == <<log, now, req>>

PCs == {"idle", "admit", "refuse", "lock", "write", "pair", "save", "close"}

Request == [pc : PCs, plate : Plates \cup {NoPlate}, entry : Nat, row : Nat]

Idle == [pc |-> "idle", plate |-> NoPlate, entry |-> 0, row |-> 0]

TypeOK ==
  /\ log \in Seq(Row)
  /\ now \in Nat
  /\ req \in [Requests -> Request]

Init ==
  /\ log = <<>>
  /\ now = 0
  /\ req = [h \in Requests |-> Idle]

(* Row locks: SELECT ... FOR UPDATE holds the entry from the re-check to   *)
(* the commit, and the foreign key of an exit that points at the entry     *)
(* waits for it.                                                           *)
Unlocked(h, e) ==
  \A g \in Requests \ {h} : ~(req[g].pc = "write" /\ req[g].entry = e)

Goto(h, pc, p, e, r) ==
  req' = [req EXCEPT ![h] = [pc |-> pc, plate |-> p, entry |-> e, row |-> r]]

Finish(h) == req' = [req EXCEPT ![h] = Idle]

(* Bound: every request under way can still write its row. *)
Room ==
  Len(log) + Cardinality({h \in Requests : req[h].pc \notin {"idle", "pair", "save"}})
    < MaxRows

Start(h, path) == path \in Paths /\ req[h].pc = "idle" /\ Room

(***************************************************************************)
(* The toggle: one check action means entry, exit or nothing, according to *)
(* where the log says the plate is.                                        *)
(***************************************************************************)

(* Faulty variant: a car still in view of the camera is read as leaving. *)
ToExitAtOnce(h, p, breathes) ==
  /\ InsideState(log, p, now) = "inside"
  /\ Goto(h, "lock", p, LastEntry(log, p, now), 0)

(* Inside for long enough: go and lock the entry. *)
ToExit(h, p, breathes) ==
  LET e == LastEntry(log, p, now) IN
  /\ InsideState(log, p, now) = "inside"
  /\ breathes => now - log[e].at >= Breathing
  /\ Goto(h, "lock", p, e, 0)

(* Outside, past the exit cooldown, and the rules let it in. *)
ToEntry(h, p) ==
  /\ InsideState(log, p, now) = "outside"
  /\ ~InExitCooldown(log, p, now)
  /\ Goto(h, "admit", p, 0, 0)

(* Outside, past the exit cooldown, and refused. *)
ToRefusal(h, p, dedup) ==
  /\ InsideState(log, p, now) = "outside"
  /\ ~InExitCooldown(log, p, now)
  /\ dedup => ~RecentRefusal(log, p, now)
  /\ Goto(h, "refuse", p, 0, 0)

Reads(h, path) == Start(h, path) /\ UNCHANGED <<log, now>>

(* The live camera, a registered vehicle. *)
CheckVehicle(h, p) ==
  /\ Reads(h, "camera") /\ p \in Registered
  /\ ToExit(h, p, TRUE) \/ ToEntry(h, p) \/ ToRefusal(h, p, TRUE)

(* A guard types the plate of a registered vehicle. *)
ManualCheck(h, p) ==
  /\ Reads(h, "manual") /\ p \in Registered
  /\ ToExit(h, p, TRUE) \/ ToEntry(h, p) \/ ToRefusal(h, p, FALSE)

(* An uploaded frame, a registered vehicle: no breathing window. *)
UploadCheck(h, p) ==
  /\ Reads(h, "upload") /\ p \in Registered
  /\ ToExit(h, p, FALSE) \/ ToEntry(h, p) \/ ToRefusal(h, p, FALSE)

(* A supplier plate, in the same three editions. *)
CheckSupplier(h, p) ==
  /\ Reads(h, "supplier_camera") /\ p \in Roster
  /\ ToExit(h, p, TRUE) \/ ToEntry(h, p) \/ ToRefusal(h, p, TRUE)

ManualSupplier(h, p) ==
  /\ Reads(h, "supplier_manual") /\ p \in Roster
  /\ ToExit(h, p, TRUE) \/ ToEntry(h, p) \/ ToRefusal(h, p, FALSE)

UploadSupplier(h, p) ==
  /\ Reads(h, "supplier_upload") /\ p \in Roster
  /\ ToExit(h, p, FALSE) \/ ToEntry(h, p) \/ ToRefusal(h, p, FALSE)

(* An organizer's plate during its event, and any plate in open campus     *)
(* mode: never refused.                                                    *)
EventPlate(h, p) ==
  /\ Reads(h, "event") /\ p \in Roster
  /\ ToExit(h, p, TRUE) \/ ToEntry(h, p)

OpenCampusPlate(h, p) ==
  /\ Reads(h, "open_campus") /\ p \in Roster
  /\ ToExit(h, p, TRUE) \/ ToEntry(h, p)

(* The entry row, written on what was read before. *)
Admit(h) ==
  /\ req[h].pc = "admit"
  /\ log' = Append(log, NewRow(req[h].plate, "entry", now, 0))
  /\ Finish(h)
  /\ UNCHANGED now

Refuse(h) ==
  /\ req[h].pc = "refuse"
  /\ log' = Append(log, NewRow(req[h].plate, "refused", now, 0))
  /\ Finish(h)
  /\ UNCHANGED now

(* Faulty variants: the pairing is not asked again under the lock; the     *)
(* duplicate is noticed but not answered.                                  *)
LockEntryUnasked(h) ==
  /\ req[h].pc = "lock"
  /\ Unlocked(h, req[h].entry)
  /\ req' = [req EXCEPT ![h].pc = "write"]
  /\ UNCHANGED <<log, now>>

LockEntryUnanswered(h) ==
  /\ req[h].pc = "lock"
  /\ Unlocked(h, req[h].entry)
  /\ ~Closed(log, req[h].entry)
  /\ req' = [req EXCEPT ![h].pc = "write"]
  /\ UNCHANGED <<log, now>>

(* The lock is granted and the pairing asked again: already closed is      *)
(* answered as a duplicate.                                                *)
LockEntry(h) ==
  /\ req[h].pc = "lock"
  /\ Unlocked(h, req[h].entry)
  /\ IF Closed(log, req[h].entry)
     THEN Finish(h)
     ELSE req' = [req EXCEPT ![h].pc = "write"]
  /\ UNCHANGED <<log, now>>

(* The exit row is inserted and the transaction commits. *)
WriteExit(h) ==
  /\ req[h].pc = "write"
  /\ log' = Append(log, NewRow(req[h].plate, "exit", now, req[h].entry))
  /\ Finish(h)
  /\ UNCHANGED now

(***************************************************************************)
(* What a guard records by hand.                                           *)
(***************************************************************************)

(* Record Exit by plate: the exit row first, unpaired ... *)
TypedExit(h, p) ==
  /\ Start(h, "typed_exit") /\ p \in Plates
  /\ log' = Append(log, NewRow(p, "exit", now, 0))
  /\ Goto(h, "pair", p, 0, Len(log) + 1)
  /\ UNCHANGED now

(* ... then the entry it is to close is looked up ... *)
FindEntry(h) ==
  /\ req[h].pc = "pair"
  /\ LET e == PairTarget(log, req[h].plate, now) IN
     IF e = 0 THEN Finish(h)
     ELSE Goto(h, "save", req[h].plate, e, req[h].row)
  /\ UNCHANGED <<log, now>>

(* ... and the link is saved, whatever happened to the entry since. *)
SavePairing(h) ==
  /\ req[h].pc = "save"
  /\ Unlocked(h, req[h].entry)
  /\ log' = [log EXCEPT ![req[h].row].paired = req[h].entry]
  /\ Finish(h)
  /\ UNCHANGED now

(* An exit recorded against a row: the supplier and event slips, and the   *)
(* vehicles without a plate.  The check and the write are two statements.  *)
RowExit(h, path, e, who) ==
  /\ Start(h, path)
  /\ log[e].kind = "entry" /\ log[e].plate \in who
  /\ ~Closed(log, e)
  /\ Goto(h, "close", log[e].plate, e, 0)
  /\ UNCHANGED <<log, now>>

SlipExit(h, e) == RowExit(h, "slip_exit", e, Roster \cup {NoPlate})

UnrecognizedExit(h, e) == RowExit(h, "noplate_exit", e, {NoPlate})

RecordRowExit(h) ==
  /\ req[h].pc = "close"
  /\ Unlocked(h, req[h].entry)
  /\ log' = Append(log, NewRow(req[h].plate, "exit", now, req[h].entry))
  /\ Finish(h)
  /\ UNCHANGED now

(* Single-statement rows: an override asks nothing of the log. *)
Record(h, path, p, k) ==
  /\ Start(h, path)
  /\ log' = Append(log, NewRow(p, k, now, 0))
  /\ UNCHANGED <<now, req>>

OverrideEntry(h, p) == p \in Plates /\ Record(h, "override", p, "entry")

DenyEntry(h, p) == p \in Plates /\ Record(h, "deny", p, "refused")

(* No record, no roster, no event, no open campus: logged and turned away. *)
UnknownPlate(h, p) == p \in Roster /\ Record(h, "unknown", p, "refused")

UnrecognizedEntry(h) == Record(h, "noplate_entry", NoPlate, "entry")

(***************************************************************************)
(* The environment.                                                        *)
(***************************************************************************)

(* The request dies between two statements: what it committed stays, its   *)
(* transaction is rolled back and its lock released.                       *)
Abort(h) ==
  /\ req[h].pc # "idle"
  /\ Finish(h)
  /\ UNCHANGED <<log, now>>

Tick ==
  /\ now < MaxNow
  /\ now' = now + 1
  /\ UNCHANGED <<log, req>>

(* The instance has used up its bounds and nothing is under way. *)
Exhausted ==
  /\ now = MaxNow
  /\ \A h \in Requests : req[h].pc = "idle"
  /\ UNCHANGED vars

Check(h, p) ==
  \/ CheckVehicle(h, p)
  \/ ManualCheck(h, p)
  \/ UploadCheck(h, p)
  \/ CheckSupplier(h, p)
  \/ ManualSupplier(h, p)
  \/ UploadSupplier(h, p)
  \/ EventPlate(h, p)
  \/ OpenCampusPlate(h, p)

Hand(h, p) ==
  \/ TypedExit(h, p)
  \/ OverrideEntry(h, p)
  \/ DenyEntry(h, p)
  \/ UnknownPlate(h, p)

Step(h) ==
  \/ Admit(h)
  \/ Refuse(h)
  \/ LockEntry(h)
  \/ WriteExit(h)
  \/ FindEntry(h)
  \/ SavePairing(h)
  \/ RecordRowExit(h)

Next ==
  \/ \E h \in Requests :
       \/ \E p \in Plates : Check(h, p) \/ Hand(h, p)
       \/ \E e \in 1..Len(log) : SlipExit(h, e) \/ UnrecognizedExit(h, e)
       \/ UnrecognizedEntry(h)
       \/ Step(h)
       \/ Abort(h)
  \/ Tick
  \/ Exhausted

Spec == Init /\ [][Next]_vars

(* A request that has begun is run to its end, and PostgreSQL grants a     *)
(* contended row lock in the order it was asked for.                       *)
Fairness ==
  \A h \in Requests :
    /\ WF_vars(Step(h))
    /\ SF_vars(LockEntry(h) \/ SavePairing(h) \/ RecordRowExit(h))

FairSpec == Spec /\ Fairness

-----------------------------------------------------------------------------
(***************************************************************************)
(* Properties.                                                             *)
(***************************************************************************)

(* A request about to write its exit holds an entry that is still open,    *)
(* whatever the other requests, locking or not, did since it was read: the *)
(* re-check under the row lock of every toggle.                            *)
LockedEntryOpen ==
  \A h \in Requests : req[h].pc = "write" => ~Closed(log, req[h].entry)

(* An exit closes an entry of the same plate, and nothing but an exit      *)
(* closes anything: paired_entry, however it came to be set.               *)
PairingSound ==
  \A i \in 1..Len(log) : log[i].paired # 0 =>
    /\ log[i].kind = "exit"
    /\ log[i].paired \in 1..Len(log)
    /\ log[log[i].paired].kind = "entry"
    /\ log[log[i].paired].plate = log[i].plate

(* One drive out is one exit row: no two rows point at one entry.          *)
OneExitPerEntry ==
  \A i, j \in 1..Len(log) :
    log[i].paired # 0 /\ log[i].paired = log[j].paired => i = j

(* A car still in front of the camera is never read as leaving: an exit is *)
(* never recorded within the breathing window of the entry it closes.      *)
BreathingKept ==
  \A i \in 1..Len(log) : log[i].paired # 0 =>
    log[i].at - log[log[i].paired].at >= Breathing

(* A plate is not counted in twice: it has one open entry at most.         *)
AtMostOneOpen == \A p \in Plates : Cardinality(OpenToday(log, p, now)) <= 1

(* The two ways the code asks who is inside give one answer: the newest    *)
(* entry of the plate, and the entries of the day that nothing closed.     *)
InsideAgrees ==
  \A p \in Plates :
    (InsideState(log, p, now) # "outside") <=> (p \in PlatesInside(log, now))

OneStay == AtMostOneOpen /\ InsideAgrees

(* An entry is recorded of a plate that the gate would find inside: by an  *)
(* override, or on an answer gone stale.                                   *)
SecondEntry ==
  \E p \in Plates :
    InsideState(log, p, now) # "outside" /\ log' = Append(log, NewRow(p, "entry", now, 0))

(* An exit recorded by hand is linked to an entry recorded after it. *)
LateLink == \E i \in 1..Len(log) : log[i].paired = 0 /\ log'[i].paired > i

(* Who is inside is one answer, and stays one, with every path of the gate *)
(* overlapping, dying half-way and running over midnight.  Two steps only  *)
(* part the gate from the occupancy count: the second entry of a plate     *)
(* already in, and an exit linked to an arrival after it.                  *)
StayKept == [][OneStay => OneStay' \/ SecondEntry \/ LateLink]_vars

(* Every request ends: nobody waits for a row lock for ever.               *)
RequestsEnd ==
  \A h \in Requests : req[h].pc # "idle" ~> req[h].pc = "idle"

(* What the toggles promise together: a ledger of visits, each of which    *)
(* begins once and ends at most once.                                      *)
Visits == INSTANCE VisitLedger WITH
  arrived <- {i \in 1..Len(log) : log[i].kind = "entry"},
  left <- {<<i, log[i].paired>> : i \in {j \in 1..Len(log) : log[j].paired # 0}}

VisitsSpec == Visits!Spec

=============================================================================
