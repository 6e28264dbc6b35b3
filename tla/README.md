# Verification of the SLC vehicle management system

TLA+ models of the parts of the Saint Louis College vehicle management system
whose correctness depends on order: several gates, cameras, guards, officers,
applicants and two servers write one PostgreSQL database, mostly without a
transaction around a request.  TLC checks the models on small instances; TLAPS
proves the theorems in the `...Proofs` modules for every value of the constants.

All paths below are relative to `src/backend/`.

## 1. The system

Two servers (the campus PC and Railway) run the same Django program against one
database.  Requests come in over HTTP and websockets; each server also runs a
camera worker per gate, a detector per parking zone, a daily scheduler thread
and an e-mail worker thread.  PostgreSQL runs at READ COMMITTED and
`ATOMIC_REQUESTS` is off, so every ORM statement outside a
`transaction.atomic()` commits on its own: what a request read may be stale when
it writes.  Almost everything below is about that.

| Part | State | Operations | Talks to | Hard behaviour | Correct when |
|---|---|---|---|---|---|
| Gate access log and plate checks: `scanning/views.py`, `scanning/consumers.py`, `scanning/models.py`, `scanning/occupancy.py` | `AccessLog` rows: entry, exit (with `paired_entry`), refusal | camera, typed and uploaded checks of registered, supplier, event and open-campus plates; override; deny; typed, slip and no-plate exits | entry rules, passes, violations, scheduled visits | concurrent checks of one plate; read-then-write; the row lock of the toggle; midnight | one locked exit per entry, an exit closes its own plate's entry, a plate is in twice only after a second entry, the two definitions of "inside" agree |
| Entry rules: `scanning/entry_logic.py` | none (reads everything) | `check_entry` ladder | accounts, passes, visits, settings | order of the rules | first matching refusal wins |
| Visitor passes and slips: `scanning/views.py`, `scanning/slips.py` | `VisitorPass` (active, allowance, exit), `printed_at`, `slip_token`, overstay violations | issue, print, confirm, extend, acknowledge, plate checks of the car, exit from the slip or by plate | access log, printer, visits, violations | confirm twice, die between stamp and entry row, an answer lost after a serial was kept, exit by plate or by an uploaded frame, extend beside an exit | a slip logs in once, pass, log, booking and violations tell one visit, the copy in hand works, an exit stands |
| Slip printer: `scanning/slip_printer.py` | none | send to CUPS/Windows | visitor slips | I/O | not modelled |
| Live plate presence and streams: `scanning/consumers.py` (rest), `vehicles/ffmpeg_capture.py`, `vehicles/rtsp_probe.py` | presence registry, stream workers | sight, evict, hold a result, start and stop workers | gate checks | threads | not modelled |
| Plate detection and reading: `scanning/ml/` | model weights | detect, read, vote | presence | numeric | not modelled |
| Guard shifts: `scanning/models.py` (`GuardShift`) | open and closed shifts | clock in, out, `open_shift_for` | violations (attribution) | two gates, no lock | not modelled |
| Violations and penalties: `violations/` | `Violation` rows; four penalty fields and a ban flag on the account | issue (guard, gate), clear, lift, forgive, allow or forbid registration, archive with the account | gate, registration | count, create, apply in separate statements; renumbering beside an issue | the penalty is the one the standing record supports, a ban was earned or decided |
| Registrations and payment review: `vehicles/views.py`, `vehicles/registration_edits.py`, `vehicles/control_numbers.py` | `VehicleRegistration` (status, payment, receipt, plate), account, `Vehicle` | submit, file receipt, self-edit, accept, reject, walk-in, archive with the account | deadline sweep, daily jobs, mail | whole-row saves of rows read earlier | the gate knows what the desk accepted, a decision changes only as section 4 says, a payment stays recorded, a receipt is used once |
| Registration deadline: `vehicles/registration_deadline.py` | same rows, reminder claims | expire overdue, remind | registrations, mail, scheduler | two servers sweep; sweep against upload | nobody paid is expired by a deadline, one reminder per application |
| Change requests: `vehicles/views.py`, `vehicles/registration_edits.py` | `RegistrationChangeRequest` | file, withdraw, decline, approve, close | registrations, `Vehicle` | approve beside withdraw, two officers at once, whole-row save of a copy | the gate and the dashboard agree |
| E-mail outbox: `vehicles/email_outbox.py`, `config/email_backends.py` | `EmailOutbox` rows, wake flag | enqueue, queue, claim a batch, send, give up | every mail | leases, two servers, crash mid-send | delivered or given up, never forgotten |
| Daily jobs: `vehicles/scheduler.py`, `vehicles/tasks.py` | `DailyJobRun` claims | claim, run, release | backups, sweeps, archiving | crash mid-job, two servers, forced runs | once a day, and again after a failure |
| Backups and restore: `accounts/backup_utils.py`, `accounts/views.py` | backup files | write, prune, restore | scheduler | slot against file age | one file per slot |
| Scheduled visits: `vehicles/scheduled_visits.py`, `scanning/signals.py` | `ScheduledVisit` arrival | tick off on entry, archive | access log | signal after insert | arrived once, on its day |
| Parking bays: `vehicles/parking_camera.py`, `vehicles/vehicle_tracker.py`, `vehicles/bay_occupancy.py`, `vehicles/views.py` | the bay's row; per zone a thread with its copy of the row, streaks, clocks and tracks | score a frame, claim, hold, release, look, mark, note, edit | cameras, violations | an in-memory copy beside the row, thresholds, outages, writes that fail | a bay is claimed by a still vehicle only, the row comes to tell the truth, a free bay names nobody |
| Detector threads and shared streams: `vehicles/detection_supervisor.py`, `vehicles/parking_camera.py` | readers with reference counts | reconcile, acquire, release | parking bays | threads | not modelled |
| Parking capacity: `vehicles/capacity.py` | none | count | log, bays | - | not modelled |
| Accounts, sign-in and two-factor: `accounts/` | users, devices, tokens | login, enrol, step up | all | lockouts, expiry | not modelled |
| Realtime fan-out: `realtime/` | none | broadcast | clients | lossy by design | not modelled |
| Simulated clock: `sim_clock*.py` | clock offset | move | demo only | - | not modelled |
| Frontend, installers, removed code, reports | - | - | HTTP | presentation | not modelled |

## 2. The plan

Modelled, each with an MC module and its runs, and with a module of proofs: the
gate's log (`AccessLog`, `GateLedger`, `VisitLedger`), applications
(`RegistrationReview`, `PassRegister`), corrections after acceptance
(`ChangeRequests`, over the whole of `RegistrationReview`), the outbox
(`EmailOutbox`, `MailPromise`), the daily jobs (`DailyJobs`), penalties
(`PenaltyLadder`), visitors (`VisitorGate`, over the rows and questions of
`AccessLog`) and a parking bay (`BayWatch`).

Left, in the order a next step would take them:

1. `GuardShifts` - signing in at two gates at once; one open shift per guard.
2. `StreamReaders` - zones that share one camera's stream, the count of them and
   the loop that starts and stops detectors; a stream somebody reads stays open,
   one nobody reads is closed.
3. The reminders of `registration_deadline.py` (their claims share the ledger of
   `DailyJobs`) and the slots of a class schedule.

## 3. The modules and the code

A request, worker or command is a record with a program counter.  One action is
the code between two points where another process can interfere: statements
that run under one row lock, or between two reads whose order no other process
can tell, are one action.  The line of every definition is in `PROJECT.json`.

**Gate.**  `AccessLog` has the row and the pure questions asked of the log:
inside, outside or cooling down (`InsideState`), the newest entry of the day
(`LastEntry`), who is in (`PlatesInside`), the pairing of a hand-recorded exit
(`PairTarget`).  `GateLedger` has the requests.  `CheckVehicle`, `ManualCheck`,
`UploadCheck`, the three supplier checks, `EventPlate` and `OpenCampusPlate` are
the eight toggles; each ends in `Admit` (the entry row), `Refuse`, or
`LockEntry` then `WriteExit` (`SELECT ... FOR UPDATE`, the re-check, the exit
row).  `TypedExit`, `SlipExit` and `UnrecognizedExit` are the exits recorded by
hand, which take no lock: `FindEntry`, `SavePairing` and `RecordRowExit` are
their later statements.  `OverrideEntry`, `DenyEntry`, `UnknownPlate` and
`UnrecognizedEntry` insert a row and are done.  `VisitLedger` is the promise:
visits begin once and end at most once.
Abstracted: what `check_entry` decides is a free choice between admit and
refuse; the queries of `_inside_state` and the cooldown read are one step; all
refusals are one kind of row; a plate is a model value, one per way it came to
be known (registered, on a supplier roster, none).

**Registration.**  `RegistrationReview` keeps the application rows (status,
payment, receipt, plate), whose account a plate is authorised for (`owner`,
account and `Vehicle` together), which deadlines have passed and whose account
is archived.  A request
loads a row (`FileReceipt`, `SelfEdit`, `Accept`, `Reject`), may lock and ask
again (`LockUpload`, `LockDecision`), takes the advisory lock on the receipt
(`SealReceipt`) and saves: the changed columns (`RecordReceipt`) or the whole
copy (`SaveEdit`, `Grant`, `SaveRejection`) exactly where the code does.
`Submit`/`Insert` file an application, `WalkIn` registers at the counter,
`OpenDeadLink` and `Sweep` expire what is unpaid, and `Archive`, the daily job
that archives expired accounts, everything they had, paid or accepted too.
`PassRegister` is the promise: one pass per application, plate and receipt, not
altered while it is in force, and none given to an application once closed.  A
change of plate after the acceptance is not the desk's but `ChangeRequests`'.
Abstracted: each application has an e-mail address of its own; the rules for
fields, documents, bans and schedule slots; the sweep is atomic (it is one
transaction over the rows it locks with SKIP LOCKED); a submission's own sweep
and its conflict check are one step; a deadline once passed stays passed (an
administrator lengthening the period is not modelled).

**Outbox.**  `EmailOutbox` keeps the rows, one worker per server and one process
per run of `retry_emails`, how often the provider took each message, and what
the CDSO was told of it.  `Enqueue`/`Commit`/`RollBack` are the caller's
transaction, `SendNow` the path without a worker; `BeginPass`, `Claim`,
`Attempt`, `Delivered`/`Refused`/`Fails`, `PutOff`, `GiveUp`, `Report`, `Remove`,
`NextBatch`, `Rest` are a pass; `Die`, `Restart`, `LoseDatabase`, `Tick` the
environment.  `slips` is a history: which messages lost their lease while a pass
held them, were sent without anybody writing it down, or had a delay told that
was not noted.  `MailPromise` is the promise: an accepted message leaves only
delivered or given up.
Abstracted: timers are distances from now, so time has no bound; the order
within a batch is free; the notice that a late message has arrived and the
delete that follows it are one step; a
corrupt message and the "delayed" threshold are free choices; the query for the
next due row and the sleep are one step (the wake flag survives it); the
attempts beyond the last retry delay are not told apart; the servers' clocks
agree; the 5 s least wait is dropped.

**Daily jobs.**  `DailyJobs` keeps the claim ledger (`claimed`, `finished`), the
stamp of each server's newest backup, when each hourly job last ran, the backup
schedule, and each server's thread.  `Wake` reads the date; for each job in
order `Claim` inserts its row or passes on, `Run`, `BackUp` and `WriteBackup`
do the job, `Fail` is its exception, `Settle` finishes the row or deletes it;
`Rest` computes the sleep.  `SaveSchedule` is the settings page, which wakes the
thread of the server that serves it; `Die`, `LoseDatabase`, `Boot` and `Tick`
are the environment.
Abstracted: what the archiving and purging jobs do to their rows; the calendar
of the backup schedule is a period with a slot in it; pruning and the folder the
backups go to; the removal of hourly rows a week old; runs forced by hand or by
the simulated clock, and `run_maintenance`, which asks no ledger; the reminders'
claims, which share the table and nothing else.

**Change requests.**  `ChangeRequests` extends `RegistrationReview` and adds the
requests (`asks`) and the threads of owners and officers (`act`).  `File` asks
whether one is open and whether the plate is to be had, `InsertAsk` meets the
partial unique index; `Cancel`, `Decline`, `Approve` and `Satisfied` load a
pending request and the registration with it, `SaveVerdict` saves the status
alone, `Apply` is the one transaction: the whole registration as it was loaded
with the new plate in it, the vehicle adopted, the old one released, the request
approved.  Nothing of it is asked again, so that two officers may apply two
requests to one registration.  `Drop` is a killed server.
Abstracted: corrections of other columns than the plate; the officers' swap of a
plate without a request; notices.

**Penalties.**  `PenaltyLadder` is one owner's account and its violation rows.
`Sight`, `GuardIssue`, `CountAll`, `Count`, `Insert`, `Impose` are an issue at
the gate (where one violation a day is enough) or by a guard; `Open`, `Close`,
`List`, `Renumber`, `Recount`, `Amend` clear or lift a row, renumber what stands
and set the penalty again; `Forgive` and `Permit` are the officer's decisions on
the account, `Due` and `Archive` the daily job that archives it with its record,
`Die` a killed server, `Midnight` the calendar.  A request that renumbers
remembers which columns of which rows it found wrong and writes only those, as
the code does.
Abstracted: one account, with one plate; the penalty of a visitor without an
account, which is derived and never stored; old violation types with a fee;
settling by PATCH of `is_resolved`; reports and notices.

**Visitors.**  `VisitorGate` is one visitor's car and the five places a visit is
kept in.  `Issue` is one step (nothing another request writes is asked twice);
`Draw`, `PaperOut`, `Keep` are a print, on the thermal printer or in the browser,
whose serial is kept before the answer goes out: whether the answer arrives
changes nothing in the database, so the model has no step for it; `Confirm`, `Stamp`, `Enter`, `Arrive` the confirmation (the stamp
is saved before the entry row, the booking is ticked off after it); `SlipExit`
and `TypedExit` begin an exit, `Close`, `ExitRow`, `Seek`, `Fine` are its
statements in the order either route has them, and `Fine` counts the slip's
overstay in whole minutes, the other's not.  `CheckInside` with `LockedExit` and
`CheckOutside` with `Admit` are the plate checks of the visitor's own car: the
live camera and the guard only act when no pass is active, an uploaded frame
records the exit all the same and leaves the pass as it is; `Override` lets the
car in whatever the log says.  `Allow` with `Extend` and `RecordDetails`,
`SaveAllowance` and `Lift` are more time, `Acknowledge` the overstay a guard
fines on the spot; `Die` and `Tick` the environment.
Abstracted: the log of one car; the refusals of a check, and the second violation
a check gives a confiscated car; supplier, event and no-plate slips (their exits
are in `GateLedger`); the name and office recorded later; the confiscation of a
licence, of which only "a standing overstay blocks a new pass" is left; booking,
editing and archiving a scheduled visit.

**A parking bay.**  `BayWatch` is one bay: its row, the detector thread's copy
of it with every clock (`det`), and what is really in the bay.  `Frame` scores
one frame: the copy is read again when it is old (`Reloaded`), the bay looks
filled or not (`Filled`, `Counted`, `ApplyHits`, `Claims`), the vehicle detector
is asked when it is time (`LookNow`, `Looks`), two bays under one vehicle are
claimed (`Blocked`), what changed is written.  `Score` is a frame in rhythm,
`Stumble` one that comes late, after an outage, or whose write fails, `Restart`
a new thread; `Change` is the world; `BeginNote`, `WriteNote`, `ClearNote`,
`Mark`, `BeginEdit`, `EndEdit` are the guard and the CDSO.  What is compared
with the empty lot is a choice among what a bay in that state can look like.
Abstracted: time in ticks of a fifth of a second; the half second of
`TRACK_FRESH_SECONDS` and `PASSING_MOVE_WINDOW`, which no frame falls on, is
rounded apart (`Fresh` < `StillFor`); one forgotten track at a time (`ghost`);
vehicles a frame apart; the detector sees a vehicle when it looks, and a
`shadow` stands for a change it does not see; persons over a bay (off by
default), what the baseline learns, the geometry, the violation of a double
parking; the last frame of a thread that is being replaced.

## 4. The runs

| Run | Asks | Instance | Distinct states |
|---|---|---|---|
| `gate_toggles` | do the locking paths keep one exit per entry, outside the breathing window, and implement `VisitLedger`? | 2 requests, all locking paths beside overrides and hand-recorded entries | 300 thousand |
| `gate_all_paths` | is every pairing sound, what parts the gate from the occupancy count, and does every request end, the unlocked exits included? | 2 requests, all 15 paths | 135 thousand |
| `gate_serial` | without concurrency, is a plate in at most once and do the two definitions of "inside" agree? | 1 request, longer log and clock | 380 thousand |
| `review_locking` | do the checks made under the locks hold up to the commit? | 3 applications, 2 plates, 2 receipts, 3 requests that may die, accounts archived; rejections alone | 926 thousand |
| `review_desk` | what do stale saves, late rejections and the archiving of accounts leave standing, is `PassRegister` implemented, is an unpaid plate released? | 2 applications, 1 receipt, 2 requests of any kind but a walk-in, fair | 680 thousand |
| `outbox_two_servers` | one sender per message, notices true and closed, no worker asleep past a message, and what a lost lease, answer or process may cost of it | 1 message, 2 servers, 2 faults, lost answers, passes that may outlive the lease | 1.2 million |
| `outbox_rough_going` | is `MailPromise` kept and does every message end, with faults, lost answers and the command? | 1 message, server and command, 1 fault, pass as long as the lease | 1.3 million |
| `daily_jobs` | does every job run once for its key, and in time, and what may a failure, a death or a lost database cost? | 2 servers, 3 jobs (a backup, an hourly and a daily one), 1 upset, across midnight | 8.9 million |
| `change_requests` | do corrections, decided by two officers at once, leave the gate and the record agreed, beside the desk? | 2 applications, 3 plates, 2 requests for a change, 1 owner, 2 officers, 1 desk request, accounts archived, any may die | 2.7 million |
| `penalty_races` | does a request left alone settle the penalty the record supports, and is nobody banned for fewer than three violations unless an officer said so? | 3 violations, 2 requests, 2 days, a death or a decision | 7.6 million |
| `visitor_gate` | does a slip log in once, do the five places tell one visit, is the copy in hand good, an exit never undone? | 1 pass, 2 prints, 3 rows, 2 requests, 1 overlap or death, 3 ticks, a booking without plate | 3.2 million |
| `parking` | does a free bay name nobody, does the row come to tell the truth, is a bay never taken by a vehicle driving past? | 1 bay, a frame a tick, 1 upset of any kind | 1.04 million |

Bounds.  *Gate*: a tick is half the breathing window and half the exit cooldown
(`Breathing` = `Cooldown` = 2), a day is 4 ticks and the clock runs to 5 (to 4,
with three rows, in `gate_all_paths`, to keep its 15 paths small), so
both sides of each window and of midnight occur.  `Grace` is 0: the code's 3 s
are less than a tick, so only rows of one tick are duplicates.  Four rows are two entries and two exits of one plate, or two exits that
race for one entry; a third request can only repeat what two do, since every
lock and re-check is between two.  *Registration*: three applications for two
plates and two receipts make every pair of them contend, with a third that
waits; two applications are enough for the stale saves, which are about one row.
In `review_locking` a rejection, which saves a whole copy with no lock, is
explored with no other request under way (`RejectsAlone`), to keep three
applications and three requests small; `review_desk` has it beside everything
else but a walk-in.
*Outbox*: a tick is the first retry delay and the delays are 1 and 2, so each of
them, a lease and a deadline can run out in the middle of a pass or between two.
`PassMax` bounds how long a pass runs; `MaxFaults` how many times something
dies.  One message is enough for two servers to meet over; a second only makes
one pass longer, and a pass may be long anyway (the proofs have no such bound).
*Daily jobs*: an hour is 2 ticks, so that the backup slot may fall inside
a sleep; a pass may last a tick, so that it may cross midnight (tick 8) and the
slot; one upset, a failed run, a fault or a save, beside either server at any
point; the clock runs to 13, past the 10 ticks between two sweeps and the 4 ticks
to a backup that are allowed without an upset, so that both bounds can be
broken.  What an upset may add to them, and more upsets than one, a longer hour
or a schedule in which midnight cuts an hour elsewhere, are left to the proofs.
A failure and a fault together are not explored.  Symmetry is used in runs with no liveness property only.  Deadlock is
checked in every run; where an instance is used up (full log, all applications
decided, the day over) an explicit step (`Exhausted`, `Closed`, `Over`) says so.

*Change requests*: two applications and three plates leave one to be asked for by
both; two officers decide at once, on one request, on two of one registration or
on two registrations, with two requests in all; one owner and one desk request
(a submission, an acceptance or a rejection), since a third actor only repeats
what two can interleave; the proof has no such bound.
*Penalties*: three violations are the whole ladder; two days let an early
penalty end and an account expire; two requests, since what they share is asked
and written by statements of each; `Week` is a day.  *Visitors*: one pass,
two requests and one overlap or death, which may fall anywhere; the visit is
booked without the plate and the guard picks the booking, so that only the
confirmation can tick it off (with the plate, the entry row's signal does, and a
walk-in has none to tick off: both are left to the proof); three rows are an
entry, one more by a check or an override, and an exit.  An allowance may be
shorter than a tick and is made a tick longer by an extension; a minute is two
ticks (`Minute`), so that a visitor can leave late and yet less than a minute
late, which the two exits fine differently, and the day ends at two.  The proofs
of all four properties have no such bound.  *Parking*: the thresholds
keep their order (a few that differ in the code fall on one tick) and are as
short as that allows; a claim, a
grace, a hold, a look and a forgotten track all run out within `ToldBy`, and 14
ticks would be too few for it; one upset of any kind at any frame, before which
and after which the bay may change at any time.

Fairness.  A request under way is run to its end (WF on its steps; Django has no
request that stops by itself), and a contended row lock is granted in the order
asked (SF on the steps that wait for one; PostgreSQL's lock queue).  The sweep
needs SF: it skips rows that are locked, so weak fairness would let a row be
locked each time it looks - in the code the hourly pass comes back until it
finds the row free (`SweptInTime` of the daily jobs bounds how soon).  In the
outbox time passes, a worker that can step does and
a dead server is started again (the campus service and
Railway restart after a failure); commits
and roll-backs, which a caller decides, are not fair.  The daily jobs need no
fairness: their deadlines are invariants over a clock that waits for a thread
that is due.  `TruthInTime` of a bay is a deadline too, counted in frames that
come in their rhythm.

## 5. What is proved

All of it for every value of the constants the named assumptions allow, with no
bound on rows, clock, requests or messages other than those the module itself
states.  Where a theorem holds under a condition only, the condition is its
`ASSUME` and is said here.

*Gate* (`GateLedgerProofs`).  `GateTypes`, `RecheckHolds` (an entry re-checked
under its lock stays open until the exit is written, whatever unlocked paths do
beside it) and `PairingIsSound` hold for all paths.  The invariant is
`LockedEntryOpen` with who holds which row: a request that holds an entry holds
one of its own plate (`Held`), a hand-recorded exit points at a row it wrote
(`Own`), and no two requests hold one lock (`LockExclusive`); `PairingSound` is
inductive beside them.  For the locking paths alone, `NoHandExits` joins them
and `OneExit` and `TogglesImplementVisits` follow: each step of the log is an
arrival, an end of an open visit, or a stutter.
`WindowKept` (no path that takes no lock, none that reads an uploaded frame,
which keeps no window): a request that goes for the lock found its entry older
than the window, and the clock does not go back; `Seasoned` carries that from
the look to the exit.  `OneStayKept`,
for all paths and with nothing assumed of what overlaps: while a plate has one
open entry at most and the two questions of who is inside agree, only an entry
of a plate already in, or a hand-recorded exit linked to an entry later than
itself, ends it.  Its invariant says that rows are in the order of their times
(`Timed`), that a day's entries of a plate have a newest (`NewestThere`), and
that an exit about to be linked is its request's own and not linked yet
(`OwnsAlone`); then a plate with no entry open but the newest is what both
questions mean (`Tidy`).

*Registration* (`RegistrationProofs`).  For any mix of jobs: `ReviewTypes`,
`NeverHalf`, `PaidStays`, `NoUnpaid`.  The invariant says the same of the rows
and of the copies in flight (`RowSound`, `RequestSound`), since a stale copy is
what is saved later, and that a locked row still is what its holder loaded
(`Held`), no two requests lock one row or one receipt (`Apart`).  From the same
invariant and what a step can be - one that leaves the decided rows alone
(`QuietStep`), a grant, a rejection, or the archiving of accounts (`Moves`) -
`PassesKept` and `DecisionsStand`: what each names as its exception is the only
step there is that does it.  `ImplementsRegister` adds `SpentApart` (accepted
rows, and those about to become so, have different receipts), and needs no
exception: a late rejection closes an application, which a register may.
`PaymentsStand` is from `FeesKnown` (whether a fee is owed at all never changes,
so what a request loaded of that still holds).  One theorem needs a choice of
jobs: `ReceiptsOnce`, when every writer of a receipt number takes its lock, from
`SealedUnused` (a receipt under its lock is on no other row); a self-edit and a
rejection save an old receipt without it.

*Change requests* (`ChangeProofs`).  For any applications, plates, owners,
officers and desk requests of every kind: `ChangesTypes` and `SwapsKept`.  The
invariant `SwapInv` is the desk's own (`CInv`) with what each clerk knows while
it waits (`Knowing`): a request is about an application that was decided, which
none ever ceases to be (`DecidedKept`).  A step of the desk does to the gate what
`PassesKept` says; of the clerks' steps only the approval touches a registration,
and one whose registration is still as it was loaded, and accepted, takes the
plate off one row of the gate and puts it on another.

*Outbox* (`OutboxProofs`).  For any processes, faults, lost answers, lengths of
a pass and runs of the command: `OutboxTypes`, `NeverLate`, `ImplementsPromise`;
the invariant relates the row in hand to the age of the pass (`InTime`) and says
what a pass may hold (`HeldBy`).  What a lost lease costs is not assumed away but
written in the history of the message (`Loose`), which only grows
(`HistoryGrows`).  `SentOnceAtATime` is from `Leased` (what is in a batch is
leased for at least the rest of the pass, or is loose) and `Apart` (a message in
two hands is loose).  `AlarmIsClosed` is from `AllHanded` (a row in hand is as
its copy says, still waiting or just given up, and between the notice of a delay
and the save the copy knows more) and `AllKnown` (a delay the CDSO was told of is
noted on the row, or is about to be in the hand of the pass that told it, until
the message is settled).  `NothingSentIsGivenUp` is from `Accounted` (what the
provider took and said so is gone, or in the hand of the pass that sent it).
`NoMessageSleptPast`, while nobody runs the command, from `Up`.

*Daily jobs* (`DailyJobsProofs`).  For any servers, jobs, schedule and faults:
`JobTypes`; `RunOnce`, from `Holder` (a key in hand is claimed and not finished)
and `Alone` (no two threads hold one key), which together are inductive; and
`FewLeftBehind`, from the same and the finiteness of `LeftBehind`: a step of a
thread adds no claim to it unless the thread dies or loses the database, and
then one.  `DaysCostFaults` asks for a steady server that leaves out none of the
day's jobs, and for a day longer than
`MaxUpsets * (Hour + 3 * PassMax) + Hour + 2 * PassMax`.  Its invariant is a
deadline per day, job and setback (`Deadline`): until then the job is claimed, or
the steady server's thread will come to it in time (`OnTime`); what is claimed
and given back moves the deadline by a lap, and that is a setback counted.  The
code's numbers (an hour's sleep in a day of 24 hours) leave room for some twenty
setbacks.  The run's day of 8 ticks is tighter than the condition (9 ticks at one
upset), so that the run is not an instance of the theorem, and shows that the
condition is sufficient rather than necessary.

`SweepsInTime` and `BackupsInTime` are the two deadlines.  A sweep is paid for
by a claim, so the invariant (`SweptBy`) follows the time `c` of the last claim
of the job: every row of the job is of an hour up to `c` (`Rowed`); the steady
server comes to the job again, asleep, before its turn or past it (`Coming`);
and the claim was made in the time the last sweep and the setbacks since allow,
or by a thread that is about to sweep (`Owed`).  A thread can pass the job over
twice: once because `c` was within the hour, and once because its pass began
before midnight and asks for the same hour of the day before.  After the first
it lies down for an hour; after the second, half the argument, it cannot find
itself over midnight again, as a day is longer than an hour and two passes
(`Near`): hence three hours in the bound.  The condition is `Hour + 2 * PassMax
<= DayLength` and a steady server that runs the job.  `BackupsInTime` has no
condition on the times.  It counts from the slot, from the save that moved it,
or from the end of the day of a wasted claim (`Since`): when the server's key is
found taken, `Owned` says that nobody else can hold it, so it is wasted, and the
next pass that begins on another day has a new key.  What is counted from only
grows while the slot is the same (`WastedStays`), and when it changes the count
begins at that tick (`ExpectedAnew`); an upset adds an hour and a pass.

*Penalties* (`PenaltyProofs`).  For any number of violations, requests,
decisions and deaths, any length of a term and any calendar: `LadderTypes`;
`BansEarned`, from `Earned` (a request that is about to ban carries a third
strike, however old); `LadderHeals`, from `Healing`, which says what a request
nobody disturbed knows at each of its statements (`Knows`): its count is the
record's, the rows it will renumber are exactly the wrong ones.  A request that
finds the rows in disorder and is left alone leaves them right.

*Visitors* (`VisitorProofs`).  For any passes, prints, rows, requests, overlaps
and deaths: `VisitorTypes`; `ExitsStand`, from the types and `Aimed` (a request
points at a pass there is): no statement puts back what another wrote, since
each saves only its own columns (`PassesKept`).  `OneEntryPerPass` from
`Logged`: a pass with an entry row of its slip is stamped, a request about to
write the row stamped it, and two such requests are `twice`.  `PrintsSafe` from
`Serials`: a request about to keep a serial has its paper out, or drew it for a
browser.  Most steps change none of this (`Calm`); the proofs go step by step
through those that do (`Telling`).  `VisitsRecorded`, on a clock that stays
within a day (its one condition; every check reads the day's rows): while some
pass is smooth, the newest is, one request at most is under way, and every place
of the visit can be told from the passes and that request (`Told`).  `Tale` says
how: what the request knows of its pass, and that a check about to write an exit
found no pass active (`Duty`), which overstays may stand or are still to be
recorded (`Overstays`), whether the exit is written (`Shut`), and what of each
smooth visit is (`Stays`).  `Rows` gives the exit its entry: the rows are of one
day, no row is paired with one that is not there, and the row a request is going
to lock is; what a pairing finds is then the newest entry (`HasNewest`, by
well-founded induction over the rows) and therefore the visit's own or a newer
one.

*Parking* (`BayProofs`).  For any thresholds, gaps and number of upsets:
`BayTypes`, where a clock's type is the range up to its threshold; and
`FreeBayNamesNobody`, inductive with the types alone: each writer that frees the
bay removes the note in the same statement, and a note is written only where the
row is taken.  `NotTakenInPassing` needs the order of the thresholds (`Prompt`):
a look at least as often as a claim asks for one, a track forgotten no sooner
than it is believed, more than one hit to a claim, and `2 * Fresh < ClaimAfter +
2 * Pause`, where `Pause` is what the thread sleeps after each frame.  In the code
that is 1.0 s against 0.8 s and two sleeps of 0.1 s with the frames' own time on
top (`vehicles/parking_camera.py:898`): it holds because of the sleep, and by as
much as a frame takes to score.  The invariant dates a vehicle on the move against the
detector's clocks: a claim is never forming without a look (`Looking`), a vehicle
with no track came after the last look (`Unseen`), one with a track was seen to
move (`Moving`), or the track is of a vehicle that left before the run of hits
began (`Left`).

`TruthComesInTime` bounds how long a bay can stay as it is before the row says
so, for frames no more than `Rhythm` apart.  Its condition (`Steadily`) is that a
look taken for a claim is believed until the next (`ClaimLook + Rhythm` within
`Fresh`: 0.25 s and a frame, 0.1 s of sleep and 91 ms of inference at
`vehicles/parking_camera.py:270`, within 0.5 s), that such a frame is no outage, that
a vehicle which blocks two bays is settled and still, and that `ToldBy` is no
less than what the steps take, each at its worst.  In seconds of the code that is
18 and a frame for an empty bay (a track is forgotten after 6 and by the next
look, 2 later; then the grace of 10), 16 and a frame for a vehicle across the
line, 11 and a few frames for one in the bay.  The invariant (`Telling`) has one
conjunct for each step still to come, an upper bound on the time the bay has been
as it is: a copy that differs from the row is older than the disturbance
(`CopyTrue`), a track from before lives until the look that forgets it
(`TracksLeft`), an empty bay that is taken is in its grace (`Emptying`), a
vehicle at rest is at rest in its track from the first look on (`Resting`), one
across the line takes the bay at the first look that sees it stay
(`TakingBoth`), and once nothing keeps one from being claimed a run of hits
begins and is not broken off (`Forming`).  The last is why the condition on
`Fresh` matters: with slower frames a look is out of date before the next, each
hit is set aside, and nothing bounds the wait.  The run asks more of its instance
than the theorem does, 15 ticks where the sum of each step's worst is 19: there a
frame falls on every tick, so that some of those cannot meet.

## 6. What is only model-checked, and what is not modelled

TLC only: all liveness (`RequestsEnd`, `OverdueReleased`, `Settled`), which is
out of the prover's reach.  So are `AtMostOneOpen` and
`InsideAgrees`, which hold when one request runs at a time, a condition on the
behaviour and not on the constants; `OneStayKept` says of them what holds
without it.  Every other safety property and action property that a run checks
is stated by a theorem.

Not modelled: what section 2 lists as left.  Guard shifts are attribution: no
check reads who is on duty.  Stream readers and the detectors' supervisor decide
when a frame comes; a bay knows that as a lapse or a restart.  The presence
registry lives in one process under one lock.  The slot limit of a class
schedule is counted without a lock and may be exceeded by an officer, so that
the code promises nothing of it.  Not to be modelled: the reading of plates
(numeric), the printer and the live streams' I/O, sign-in and two-factor
(standard library flows over one row), control numbers (one statement under an
advisory lock), parking capacity (a sum that is read), the realtime fan-out
(lossy by design; every screen re-reads), the simulated clock (demonstrations),
reports, the frontend and the installers (presentation).

## 7. What modelling the code brought up

Where a comment says one thing and the code may do another, or where the code
has an edge its readers should know.  Every one was met while a model was
written; the properties of section 4 are stated around them.

*The gate.*  The comment at `scanning/consumers.py:856` says the row lock stops
one drive out from producing two exit rows.  The supplier slip asks whether the
entry is closed and inserts the exit in a later statement with neither lock nor
second look: `OneExit` holds of the locking paths alone.  Every check asks
whether a plate is inside and writes the entry later, with no lock
(`scanning/views.py:1117`): a camera and a guard can admit one arrival twice, and
the plate then has two open entries.  An exit typed just before midnight, or
slowly, is linked by a later statement to whatever entry is newest by then
(`scanning/views.py:2561`), an arrival after it among them.  `StayKept` has both as its exceptions.

*Registration.*  `vehicles/registration_edits.py:17` says an edit cannot reach a
field the review owns.  The self-edit saves its whole copy of a row loaded before
the lock: a receipt filed in between is unpaid again, which `PaymentKept` names
as its exception.  The comment at `vehicles/views.py:2326` says
rejecting releases the plate.  Saved over an acceptance that committed in
between, it leaves the account and the authorised vehicle standing: the
exception of `DecisionFinal` and `PassKept`.  Saved over the expiry or the
archiving of an application, it turns that into a rejection.

*Change requests.*  An approval checks that the request is pending on a copy, and
saves in a transaction that asks again nothing but the unique index: a request
withdrawn in between is approved all the same, or is left "cancelled" in the
record while applied in the registration, against the comment at
`vehicles/views.py:3799`.  The whole registration is saved from the copy.  The comment at line 3870 has two
reviewers with the queue open as the usual case.  When both approve one request,
the second lets go of the old plate once more, which may be somebody else's by
then; and an approval loaded before another request for the registration was
filed and approved is saved over it, whose plate stays let in at the gate with no
registration (lines 3936 to 3945).  One loaded before the account was archived
brings the registration back and authorises a plate for it.  `SwapKept` names all
of them (`StaleApproval`).

*Penalties.*  The archiving job sets the ban flag from the record, over an
officer's word either way (`violations/penalty.py:163` calls it the CDSO's); a further third strike bans
again an owner whom an officer had allowed.  Clearing a violation counts the
term from today, so that a penalty can end later than it would have, against the
comment at `violations/penalty.py:183` ("shortening a penalty cannot extend it").
Two overlapping renumberings of four violations can leave a second offence that
holds the registration, against `violations/models.py:368`.

*Visitors.*  Two confirmations that both find a slip unprinted write two entries
(`twice`); a confirmation that comes after the exit logs an entry that stays
open.  A plate check before the confirmation lets the car in, the confirmation
then logs a second entry, and the exit closes the newer of them.  A visitor whose
exit an uploaded frame records keeps an active pass and an unchecked overstay, as
the comment at `scanning/views.py:1070` says (`filmed`).  An exit from the slip
fines whole minutes, one by plate any lateness (lines 1678 and 623).  The serial of a
slip the browser prints is kept before the answer goes out (lines 1499 to 1515):
if the answer is lost, or the dialog closed, the pass has a serial that is on no
paper and the copy printed before is refused at the exit.  `CopyInHandWorks` asks
of such a serial only that a browser was to print it.  Two exits of one visit at once write two exit rows, one of them unpaired.
Two overlapping extensions lose one of them, since the allowance is added to as
it was loaded.  The number typed at the exit is the pass's: an old copy of the
slip opens it too.  The exit by plate closes the pass from `ExitLogView`, not
through the function that `scanning/views.py:1651` calls the one place.  A pass is never marked
expired; a second active pass for one plate is possible, and an exit closes the
newest.

*Parking.*  The comment at `vehicles/parking_camera.py:98` says the detector
may never claim a bay; `_check_double_parking` (line 1733) does.  Frames that come slower
than `TRACK_FRESH_SECONDS` keep restarting the clock of a claim, so that a car
that parked may go unreported as long as they do.  A steady box on a plant holds
a bay for as long as it lasts, not "a few seconds longer" (line 1044).  A run of hits begun
while a bay was taken goes on when the CDSO marks it free, and may then claim it
for a vehicle driving past (`carried`).  Editing any field of a bay that was
loaded free clears the note a guard has written since.  A note begun for one
vehicle lands on the next if the bay was freed and taken in between.

*E-mail and daily jobs.*  `vehicles/email_outbox.py:33` says leases keep two
servers from sending one row at once; a pass reads the clock once and leases up
to twenty rows from it, so a slow pass outlives its lease, and `retry_emails`
makes the rows of a running pass due again: `OneSender` says so.  The CDSO is
told of a delay before the row that notes it is saved (lines 304 and 309): a
worker that dies in between leaves an alarm that the arrival of the message does
not close.  In the scheduler, a pass that crosses midnight asks
for the new day's hour under the old date, and finds it taken.  A pass that found
the hour swept before, and then this, sweeps at the third turn: the sweeps of
unpaid applications can be three hours apart though nothing went wrong
(`SweptInTime`).  A backup's claim is finished too when the job finds the
schedule switched off; if it is switched on again within the day, the slot has
no backup until the next slot or the next day (`Wasted`).  A slot that passes while a pass is under way is not
what the thread then sleeps for, and waits an hour: the bound of
`BackedUpInTime`.  A file is stamped when it is written, after its data were read
(`BackUp`, then `WriteBackup`).

## 8. Running

`tlc -config GateToggles.cfg MCGateLedger` and likewise for the other
configurations; `tlapm GateLedgerProofs.tla` and likewise for the other proofs.
Definitions commented "Faulty variant" stand before the definition they would
replace: they are the bugs each property is known to catch.
