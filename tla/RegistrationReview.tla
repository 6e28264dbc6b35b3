------------------------- MODULE RegistrationReview -------------------------
(***************************************************************************)
(* From an application to a vehicle pass: the applicant submits, files the *)
(* Official Receipt and corrects the details; the CDSO accepts or rejects, *)
(* or registers a walk-in at the counter; a sweep expires what is still    *)
(* unpaid after its deadline, and a daily job archives expired accounts    *)
(* and closes their applications.  All of them run concurrently.           *)
(*                                                                         *)
(* A request loads the row, decides on that copy, and saves later.  Some   *)
(* lock the row and ask again before they save, some do not; some save the *)
(* columns they changed, some save the whole copy.  A request is a record  *)
(* of its job, how far it is (pc), the application, and the row it is      *)
(* going to save.                                                          *)
(*                                                                         *)
(* vehicles/views.py, vehicles/registration_deadline.py.                   *)
(***************************************************************************)
EXTENDS Naturals, FiniteSets

CONSTANTS
  Apps,       \* applications: rows, each with an e-mail address of its own
  Plates,     \* plates or conduction numbers
  Receipts,   \* Official Receipt numbers
  NoPlate, NoReceipt, Nobody,
  Handlers,   \* concurrent request handlers
  Jobs,       \* the requests enabled in this instance
  MayDie      \* whether a request may die half-way

AllJobs == {"submit", "pay", "edit", "accept", "reject", "walkin"}

(* The jobs that decide or record a payment under the row lock. *)
LockingJobs == {"submit", "pay", "accept", "walkin"}

ASSUME JobsAssumption == Jobs \subseteq AllJobs
ASSUME MayDieAssumption == MayDie \in BOOLEAN
ASSUME NullsAssumption ==
  NoPlate \notin Plates /\ NoReceipt \notin Receipts /\ Nobody \notin Apps

VARIABLES
  reg,       \* VehicleRegistration: the rows
  owner,     \* Vehicle: whose account a plate is authorised for
  overdue,   \* the applications whose deadline, and its grace, have passed
  archived,  \* the applications whose owner's account is archived
  req        \* per handler: [job, pc, app, row]

vars == <<reg, owner, overdue, archived, req>>

Statuses == {"absent", "pending", "accepted", "rejected", "expired"}

Row == [status : Statuses, pay : {"unpaid", "paid", "exempt"},
        receipt : Receipts \cup {NoReceipt}, plate : Plates \cup {NoPlate}]

NewRow(s, pay, r, p) == [status |-> s, pay |-> pay, receipt |-> r, plate |-> p]

Absent == NewRow("absent", "unpaid", NoReceipt, NoPlate)

Request == [job : AllJobs \cup {"none"}, pc : {"idle", "begun", "locked", "sealed"},
            app : Apps \cup {Nobody}, row : Row]

Idle == [job |-> "none", pc |-> "idle", app |-> Nobody, row |-> Absent]

TypeOK ==
  /\ reg \in [Apps -> Row]
  /\ owner \in [Plates -> Apps \cup {Nobody}]
  /\ overdue \in SUBSET Apps
  /\ archived \in SUBSET Apps
  /\ req \in [Handlers -> Request]

Init ==
  /\ reg = [a \in Apps |-> Absent]
  /\ owner = [p \in Plates |-> Nobody]
  /\ overdue = {}
  /\ archived = {}
  /\ req = [h \in Handlers |-> Idle]

-----------------------------------------------------------------------------
(* Pending and accepted rows hold their plate. *)
Active(row) == row.status \in {"pending", "accepted"}

(* payment_overdue(): asked of a copy as well as of the row. *)
Overdue(a, row) == a \in overdue /\ row.status = "pending" /\ row.pay = "unpaid"

(* The unique index over the plates of active rows. *)
PlateFree(rows, a, p) == \A b \in Apps \ {a} : Active(rows[b]) => rows[b].plate # p

(* The conflict check of a form: no active row and no pass for the plate. *)
Available(rows, a, p) == PlateFree(rows, a, p) /\ owner[p] = Nobody

(* The receipt is on no other row, whatever became of that row. *)
Unused(a, r) == r = NoReceipt \/ \A b \in Apps \ {a} : reg[b].receipt # r

Locked(a) == \E g \in Handlers : req[g].app = a /\ req[g].pc \in {"locked", "sealed"}

(* The row lock, and the advisory lock on a receipt number. *)
RowFree(h, a) ==
  \A g \in Handlers \ {h} : ~(req[g].app = a /\ req[g].pc \in {"locked", "sealed"})

ReceiptFree(h, r) ==
  r = NoReceipt \/ \A g \in Handlers \ {h} : ~(req[g].pc = "sealed" /\ req[g].row.receipt = r)

Start(h, job) == job \in Jobs /\ req[h].pc = "idle"

Begin(h, job, a, row) ==
  req' = [req EXCEPT ![h] = [job |-> job, pc |-> "begun", app |-> a, row |-> row]]

Finish(h) == req' = [req EXCEPT ![h] = Idle]

At(h, job, pc) == req[h].job = job /\ req[h].pc = pc

(* A row nobody has inserted or is about to insert. *)
Fresh(a) == reg[a] = Absent /\ \A g \in Handlers : req[g].app # a

-----------------------------------------------------------------------------
(***************************************************************************)
(* The sweep.  It takes the overdue rows nobody has locked, and holds them *)
(* until it commits.                                                       *)
(***************************************************************************)

(* Faulty variant: the sweep does not heed the lock of an upload. *)
SweptThroughLocks ==
  [a \in Apps |-> IF Overdue(a, reg[a]) THEN [reg[a] EXCEPT !.status = "expired"]
                  ELSE reg[a]]

Swept ==
  [a \in Apps |-> IF Overdue(a, reg[a]) /\ ~Locked(a)
                  THEN [reg[a] EXCEPT !.status = "expired"]
                  ELSE reg[a]]

(* Faulty variant: the hourly sweep does nothing. *)
NoSweep == FALSE /\ UNCHANGED vars

Sweep ==
  /\ Swept # reg
  /\ reg' = Swept
  /\ UNCHANGED <<owner, overdue, archived, req>>

(* An application's deadline and its grace pass; only a pending one is     *)
(* ever asked for it.                                                      *)
DeadlinePasses(a) ==
  /\ reg[a].status = "pending"
  /\ overdue' = overdue \cup {a}
  /\ UNCHANGED <<reg, owner, archived, req>>

(* The daily job archives the accounts that have expired: their active     *)
(* applications end, paid or not, and their plates are let go of.  It      *)
(* waits for a row that is locked.  An account may be older than the       *)
(* application its address is on.                                          *)
Archive(S) ==
  /\ S # {} /\ \A a \in S : Active(reg[a]) /\ ~Locked(a)
  /\ reg' = [a \in Apps |-> IF a \in S THEN [reg[a] EXCEPT !.status = "expired"] ELSE reg[a]]
  /\ owner' = [p \in Plates |-> IF owner[p] \in S THEN Nobody ELSE owner[p]]
  /\ archived' = archived \cup S
  /\ UNCHANGED <<overdue, req>>

-----------------------------------------------------------------------------
(***************************************************************************)
(* The applicant.                                                          *)
(***************************************************************************)

(* The form: sweep first, then check, then insert. *)
Submit(h, a, p, pay) ==
  /\ Start(h, "submit") /\ Fresh(a)
  /\ reg' = Swept
  /\ IF Available(Swept, a, p)
     THEN Begin(h, "submit", a, NewRow("pending", pay, NoReceipt, p))
     ELSE UNCHANGED req
  /\ UNCHANGED <<owner, overdue, archived>>

(* The insert: the unique index may refuse it. *)
Insert(h) ==
  LET a == req[h].app row == req[h].row IN
  /\ At(h, "submit", "begun")
  /\ IF PlateFree(reg, a, row.plate)
     THEN reg' = [reg EXCEPT ![a] = row]
     ELSE UNCHANGED reg
  /\ Finish(h)
  /\ UNCHANGED <<owner, overdue, archived>>

(* A payment or edit link opened too late expires its own application. *)
OpenDeadLink(a) ==
  /\ Overdue(a, reg[a]) /\ ~Locked(a)
  /\ reg' = [reg EXCEPT ![a].status = "expired"]
  /\ UNCHANGED <<owner, overdue, archived, req>>

LinkAlive(a) == reg[a].status = "pending" /\ ~Overdue(a, reg[a])

(* The receipt is filed: checked on a copy ... *)
FileReceipt(h, a, r) ==
  /\ Start(h, "pay") /\ LinkAlive(a)
  /\ reg[a].pay # "exempt"
  /\ Unused(a, r)
  /\ Begin(h, "pay", a, [reg[a] EXCEPT !.pay = "paid", !.receipt = r])
  /\ UNCHANGED <<reg, owner, overdue, archived>>

(* ... the row locked and read again ... *)
LockUpload(h) ==
  LET a == req[h].app IN
  /\ At(h, "pay", "begun")
  /\ RowFree(h, a)
  /\ IF LinkAlive(a) THEN req' = [req EXCEPT ![h].pc = "locked"] ELSE Finish(h)
  /\ UNCHANGED <<reg, owner, overdue, archived>>

(* Faulty variant: the receipt is not asked again under its lock. *)
SealReceiptUnasked(h) ==
  /\ req[h].pc = "locked"
  /\ ReceiptFree(h, req[h].row.receipt)
  /\ req' = [req EXCEPT ![h].pc = "sealed"]
  /\ UNCHANGED <<reg, owner, overdue, archived>>

(* ... the receipt number locked and asked again (an acceptance and a      *)
(* walk-in do the same) ...                                                *)
SealReceipt(h) ==
  /\ req[h].pc = "locked"
  /\ ReceiptFree(h, req[h].row.receipt)
  /\ IF Unused(req[h].app, req[h].row.receipt)
     THEN req' = [req EXCEPT ![h].pc = "sealed"]
     ELSE Finish(h)
  /\ UNCHANGED <<reg, owner, overdue, archived>>

(* Faulty variant: the status of the payment is left for later. *)
RecordReceiptHalf(h) ==
  /\ At(h, "pay", "sealed")
  /\ reg' = [reg EXCEPT ![req[h].app].receipt = req[h].row.receipt]
  /\ Finish(h)
  /\ UNCHANGED <<owner, overdue, archived>>

(* ... and the payment columns saved together, and no other. *)
RecordReceipt(h) ==
  LET a == req[h].app IN
  /\ At(h, "pay", "sealed")
  /\ reg' = [reg EXCEPT ![a].pay = "paid", ![a].receipt = req[h].row.receipt]
  /\ Finish(h)
  /\ UNCHANGED <<owner, overdue, archived>>

(* The applicant corrects the details, the plate among them: checked on a  *)
(* copy ...                                                                *)
SelfEdit(h, a, p) ==
  /\ Start(h, "edit") /\ LinkAlive(a)
  /\ p # reg[a].plate => Available(reg, a, p)
  /\ Begin(h, "edit", a, [reg[a] EXCEPT !.plate = p])
  /\ UNCHANGED <<reg, owner, overdue, archived>>

(* Faulty variant: the row is not locked and its status not asked again. *)
SaveEditUnasked(h) ==
  LET a == req[h].app row == req[h].row IN
  /\ At(h, "edit", "begun")
  /\ IF PlateFree(reg, a, row.plate)
     THEN reg' = [reg EXCEPT ![a] = row] ELSE UNCHANGED reg
  /\ Finish(h)
  /\ UNCHANGED <<owner, overdue, archived>>

(* ... and the whole copy saved, if the row is still pending. *)
SaveEdit(h) ==
  LET a == req[h].app row == req[h].row IN
  /\ At(h, "edit", "begun")
  /\ RowFree(h, a)
  /\ IF reg[a].status = "pending" /\ ~Overdue(a, row) /\ PlateFree(reg, a, row.plate)
     THEN reg' = [reg EXCEPT ![a] = row]
     ELSE UNCHANGED reg
  /\ Finish(h)
  /\ UNCHANGED <<owner, overdue, archived>>

-----------------------------------------------------------------------------
(***************************************************************************)
(* The CDSO.                                                               *)
(***************************************************************************)

(* A receipt typed by the reviewer wins over the one on file. *)
ReceiptFor(a, typed) ==
  IF reg[a].pay = "exempt" THEN NoReceipt
  ELSE IF typed = NoReceipt THEN reg[a].receipt ELSE typed

(* Faulty variant: the payment is saved as it was loaded. *)
GrantedAsLoaded(a, r) == [reg[a] EXCEPT !.status = "accepted", !.receipt = r]

(* What an acceptance is going to save. *)
Granted(a, r) ==
  [reg[a] EXCEPT !.status = "accepted", !.receipt = r,
                 !.pay = IF @ = "exempt" THEN @ ELSE "paid"]

(* Faulty variant: an unsettled fee does not stop the acceptance. *)
SettledAnyway(a, r) == TRUE

Settled(a, r) == reg[a].pay # "unpaid" \/ r # NoReceipt

(* The acceptance: every gate is asked of a copy ... *)
Accept(h, a, typed) ==
  LET r == ReceiptFor(a, typed) IN
  /\ Start(h, "accept")
  /\ reg[a].status = "pending"
  /\ owner[reg[a].plate] = Nobody
  /\ Unused(a, r)
  /\ Settled(a, r)
  /\ Begin(h, "accept", a, Granted(a, r))
  /\ UNCHANGED <<reg, owner, overdue, archived>>

(* Faulty variant: the row is locked but its status is not asked again. *)
LockDecisionUnasked(h) ==
  /\ At(h, "accept", "begun")
  /\ RowFree(h, req[h].app)
  /\ req' = [req EXCEPT ![h].pc = "locked"]
  /\ UNCHANGED <<reg, owner, overdue, archived>>

(* ... the row locked and its status asked again ... *)
LockDecision(h) ==
  /\ At(h, "accept", "begun")
  /\ RowFree(h, req[h].app)
  /\ IF reg[req[h].app].status = "pending"
     THEN req' = [req EXCEPT ![h].pc = "locked"]
     ELSE Finish(h)
  /\ UNCHANGED <<reg, owner, overdue, archived>>

(* Faulty variant: nothing keeps two active rows off one plate. *)
GrantUnindexed(h) ==
  LET a == req[h].app row == req[h].row IN
  /\ req[h].job \in {"accept", "walkin"} /\ req[h].pc = "sealed"
  /\ owner' = [owner EXCEPT ![row.plate] = a]
  /\ reg' = [reg EXCEPT ![a] = row]
  /\ Finish(h)
  /\ UNCHANGED <<overdue, archived>>

(* ... then account, vehicle and row in one transaction, the row from the  *)
(* copy.  A walk-in is inserted the same way.                              *)
Grant(h) ==
  LET a == req[h].app row == req[h].row IN
  /\ req[h].job \in {"accept", "walkin"} /\ req[h].pc = "sealed"
  /\ IF PlateFree(reg, a, row.plate)
     THEN /\ owner' = [owner EXCEPT ![row.plate] = a]
          /\ reg' = [reg EXCEPT ![a] = row]
     ELSE UNCHANGED <<reg, owner>>
  /\ Finish(h)
  /\ UNCHANGED <<overdue, archived>>

(* A walk-in at the counter, receipt in hand or exempt. *)
WalkIn(h, a, p, r) ==
  /\ Start(h, "walkin") /\ Fresh(a)
  /\ Unused(a, r)
  /\ Available(reg, a, p)
  /\ req' = [req EXCEPT ![h] =
       [job |-> "walkin", pc |-> "locked", app |-> a,
        row |-> NewRow("accepted", IF r = NoReceipt THEN "exempt" ELSE "paid", r, p)]]
  /\ UNCHANGED <<reg, owner, overdue, archived>>

(* The rejection: the status is asked of a copy ... *)
Reject(h, a) ==
  /\ Start(h, "reject")
  /\ reg[a].status = "pending"
  /\ Begin(h, "reject", a, [reg[a] EXCEPT !.status = "rejected"])
  /\ UNCHANGED <<reg, owner, overdue, archived>>

(* ... and the whole copy saved, whatever the row has become. *)
SaveRejection(h) ==
  /\ At(h, "reject", "begun")
  /\ RowFree(h, req[h].app)
  /\ reg' = [reg EXCEPT ![req[h].app] = req[h].row]
  /\ Finish(h)
  /\ UNCHANGED <<owner, overdue, archived>>

-----------------------------------------------------------------------------
(* A request dies: its transaction is rolled back and its locks released. *)
Abort(h) ==
  /\ MayDie
  /\ req[h].pc # "idle"
  /\ Finish(h)
  /\ UNCHANGED <<reg, owner, overdue, archived>>

(* Every application of the instance has been decided. *)
Exhausted ==
  /\ \A h \in Handlers : req[h].pc = "idle"
  /\ \A a \in Apps : reg[a].status \notin {"absent", "pending"}
  /\ UNCHANGED vars

Arrival(h) ==
  \E a \in Apps :
    \/ \E p \in Plates :
         \/ \E pay \in {"unpaid", "exempt"} : Submit(h, a, p, pay)
         \/ SelfEdit(h, a, p)
         \/ \E r \in Receipts \cup {NoReceipt} : WalkIn(h, a, p, r)
    \/ \E r \in Receipts : FileReceipt(h, a, r)
    \/ \E typed \in Receipts \cup {NoReceipt} : Accept(h, a, typed)
    \/ Reject(h, a)

Step(h) ==
  \/ Insert(h)
  \/ LockUpload(h)
  \/ SealReceipt(h)
  \/ RecordReceipt(h)
  \/ SaveEdit(h)
  \/ LockDecision(h)
  \/ Grant(h)
  \/ SaveRejection(h)

Next ==
  \/ \E h \in Handlers : Arrival(h) \/ Step(h) \/ Abort(h)
  \/ \E a \in Apps : OpenDeadLink(a) \/ DeadlinePasses(a)
  \/ Sweep
  \/ \E S \in SUBSET Apps : Archive(S)
  \/ Exhausted

Spec == Init /\ [][Next]_vars

(* The hourly pass always runs again, and does not find a row locked every *)
(* time; a request that has begun is run to its end, and PostgreSQL grants *)
(* a contended lock on a receipt number in the order asked.                *)
Fairness ==
  /\ SF_vars(Sweep)
  /\ \A h \in Handlers : WF_vars(Step(h)) /\ SF_vars(SealReceipt(h))

FairSpec == Spec /\ Fairness

-----------------------------------------------------------------------------
(***************************************************************************)
(* Properties.                                                             *)
(***************************************************************************)

(* An Official Receipt is on one application at most, whatever became of   *)
(* that application: "can only be used once".                              *)
ReceiptUsedOnce ==
  \A a, b \in Apps :
    reg[a].receipt # NoReceipt /\ reg[a].receipt = reg[b].receipt => a = b

(* A row is never half-paid: it has a receipt exactly when it is paid.     *)
NeverHalfPaid ==
  \A a \in Apps : reg[a].receipt # NoReceipt <=> reg[a].pay = "paid"

(* The step saves the whole copy of a request, of one of these jobs.       *)
SavedWhole(a, jobs) ==
  \E h \in Handlers :
    req[h].job \in jobs /\ req[h].app = a /\ reg' = [reg EXCEPT ![a] = req[h].row]

(* A plate is let in at the gate exactly when an accepted application      *)
(* holds it, and for that application's account.                           *)
PassBacked ==
  \A p \in Plates, a \in Apps :
    owner[p] = a <=> reg[a].status = "accepted" /\ reg[a].plate = p

(* What the gate lets in and what the desk accepted stay matched, whatever *)
(* is saved from a stale copy: only a rejection may part them, because it  *)
(* is saved over an acceptance without a second look.                      *)
PassKept ==
  [][PassBacked => PassBacked' \/ \E a \in Apps : SavedWhole(a, {"reject"})]_vars

(* No pass against money that was never collected: whoever owed the fee    *)
(* has a receipt on file.                                                  *)
NoUnpaidPass ==
  \A a \in Apps : reg[a].status = "accepted" /\ reg[a].pay # "exempt"
                    => reg[a].receipt # NoReceipt

(* Whoever has paid never loses the application to the deadline, however   *)
(* close the upload and the sweep come to each other; only the end of the  *)
(* account takes a paid application with it.                               *)
PaidNeverExpired ==
  \A a \in Apps \ archived : reg[a].status = "expired" => reg[a].pay = "unpaid"

(* A payment once recorded stays recorded, unless the applicant's own      *)
(* correction or a rejection, which save every column of the copy they     *)
(* loaded, is saved over it.                                               *)
PaymentKept ==
  [][\A a \in Apps : reg[a].pay = "paid" =>
       reg'[a].pay = "paid" \/ SavedWhole(a, {"edit", "reject"})]_vars

(* A decision stands: what was accepted, rejected or expired stays so,     *)
(* whatever races it.  Two things only change one: the end of the account  *)
(* ends an accepted application, and a rejection loaded before the         *)
(* decision is saved over it.                                              *)
DecisionFinal ==
  [][\A a \in Apps : reg[a].status \notin {"absent", "pending"} =>
       \/ reg'[a].status = reg[a].status
       \/ reg[a].status = "accepted" /\ reg'[a].status = "expired" /\ a \in archived'
       \/ SavedWhole(a, {"reject"})]_vars

(* An application nobody pays for does not hold its plate for ever.        *)
OverdueReleased ==
  \A a \in Apps : Overdue(a, reg[a]) ~> ~Overdue(a, reg[a])

(* What the desk promises: a register of passes.                           *)
Register == INSTANCE PassRegister WITH
  passes <- {[app |-> a, plate |-> reg[a].plate, receipt |-> reg[a].receipt] :
               a \in {b \in Apps : reg[b].status = "accepted"}},
  closed <- {a \in Apps : reg[a].status \in {"rejected", "expired"}}

RegisterSpec == Register!Spec

=============================================================================
