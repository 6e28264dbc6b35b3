--------------------------- MODULE ChangeRequests ---------------------------
(***************************************************************************)
(* After the acceptance: the owner of a pass files a correction of the     *)
(* registration, here of its plate, and may withdraw it; the CDSO declines *)
(* it, or approves it and carries it out to the vehicle the gate knows.    *)
(* All of it runs beside the registration desk of RegistrationReview, on   *)
(* the same rows.  The status of a request is asked of a copy and saved    *)
(* later, without a lock; only the approval is a transaction.              *)
(*                                                                         *)
(* vehicles/views.py, vehicles/models.py, vehicles/registration_edits.py.  *)
(***************************************************************************)
EXTENDS RegistrationReview, Sequences

CONSTANTS
  Owners,    \* request threads of owners
  Officers,  \* request threads of the CDSO
  MaxAsks    \* bound: change requests filed

ASSUME ClerksAssumption ==
  Owners \cap Officers = {} /\ (Owners \cup Officers) \cap Handlers = {} /\ MaxAsks \in Nat

VARIABLES
  asks,   \* RegistrationChangeRequest, in the order filed
  act     \* per owner and officer: the request it handles

desk == <<reg, owner, overdue, archived, req>>
allVars == <<desk, asks, act>>

Clerks == Owners \cup Officers

(* plate: the change asked for. *)
Ask == [app : Apps, plate : Plates, status : {"pending", "approved", "rejected", "cancelled"}]

(* row: the registration as it was loaded, for an approval.                *)
Act == [job : {"none", "file", "cancel", "decline", "approve", "close"}, ask : Nat,
        app : Apps \cup {Nobody}, plate : Plates \cup {NoPlate}, row : Row]

NoAct == [job |-> "none", ask |-> 0, app |-> Nobody, plate |-> NoPlate, row |-> Absent]

ChangesTypeOK == asks \in Seq(Ask) /\ act \in [Clerks -> Act]

ChangesInit == Init /\ asks = <<>> /\ act = [c \in Clerks |-> NoAct]

-----------------------------------------------------------------------------
Pending(a) == \E i \in DOMAIN asks : asks[i].app = a /\ asks[i].status = "pending"

Free(c) == act[c].job = "none"

Done(c) == act' = [act EXCEPT ![c] = NoAct]

(* clean_changes: the plate differs, and is nobody else's.                 *)
Clean(a, p) == p # reg[a].plate /\ Available(reg, a, p)

(* The owner files a change: one open request at a time, asked first ...   *)
File(c, a, p) ==
  /\ c \in Owners /\ Free(c) /\ Len(asks) < MaxAsks
  /\ reg[a].status = "accepted"
  /\ ~Pending(a)
  /\ Clean(a, p)
  /\ act' = [act EXCEPT ![c] = [NoAct EXCEPT !.job = "file", !.app = a, !.plate = p]]
  /\ UNCHANGED <<desk, asks>>

(* ... and held to by the partial unique index.                            *)
InsertAsk(c) ==
  /\ act[c].job = "file"
  /\ asks' = IF Pending(act[c].app) THEN asks
             ELSE Append(asks, [app |-> act[c].app, plate |-> act[c].plate, status |-> "pending"])
  /\ Done(c)
  /\ UNCHANGED desk

Load(c, job, i) ==
  /\ Free(c)
  /\ asks[i].status = "pending"
  /\ act' = [act EXCEPT ![c] = [NoAct EXCEPT !.job = job, !.ask = i, !.app = asks[i].app,
                                  !.plate = asks[i].plate, !.row = reg[asks[i].app]]]
  /\ UNCHANGED <<desk, asks>>

(* The owner withdraws it, the officer declines it ... *)
Cancel(c, i) == c \in Owners /\ Load(c, "cancel", i)
Decline(c, i) == c \in Officers /\ Load(c, "decline", i)

(* ... the officer approves it, if the plate is still to be had, or finds  *)
(* the registration as asked and closes the request.                       *)
Approve(c, i) ==
  /\ c \in Officers
  /\ Clean(asks[i].app, asks[i].plate)
  /\ Load(c, "approve", i)

Satisfied(c, i) ==
  /\ c \in Officers
  /\ asks[i].plate = reg[asks[i].app].plate
  /\ Load(c, "close", i)

Verdict == [cancel |-> "cancelled", decline |-> "rejected", close |-> "approved"]

(* The status alone is saved, whatever it has become. *)
SaveVerdict(c) ==
  /\ act[c].job \in DOMAIN Verdict
  /\ asks' = [asks EXCEPT ![act[c].ask].status = Verdict[act[c].job]]
  /\ Done(c)
  /\ UNCHANGED desk

(* Faulty variant: the old plate is not let go of. *)
ApplyAndKeepOld(c) ==
  LET a == act[c].app p == act[c].plate row == act[c].row IN
  /\ act[c].job = "approve" /\ ~Locked(a)
  /\ IF PlateFree(reg, a, p)
     THEN /\ reg' = [reg EXCEPT ![a] = [row EXCEPT !.plate = p]]
          /\ owner' = [owner EXCEPT ![p] = a]
          /\ asks' = [asks EXCEPT ![act[c].ask].status = "approved"]
     ELSE UNCHANGED <<reg, owner, asks>>
  /\ Done(c)
  /\ UNCHANGED <<overdue, archived, req>>

(* One transaction: the whole registration as loaded, with the change; the *)
(* vehicle of the new plate adopted, that of the old one released, which a *)
(* row that was saved as rejected does not know; the request approved.     *)
(* Nothing is asked again, the unique index may refuse all of it.          *)
Apply(c) ==
  LET a == act[c].app p == act[c].plate row == act[c].row IN
  /\ act[c].job = "approve" /\ ~Locked(a)
  /\ IF PlateFree(reg, a, p)
     THEN /\ reg' = [reg EXCEPT ![a] = [row EXCEPT !.plate = p]]
          /\ owner' = [owner EXCEPT ![p] = a,
                        ![row.plate] = IF row.status = "rejected" THEN @ ELSE Nobody]
          /\ asks' = [asks EXCEPT ![act[c].ask].status = "approved"]
     ELSE UNCHANGED <<reg, owner, asks>>
  /\ Done(c)
  /\ UNCHANGED <<overdue, archived, req>>

(* A clerk's request dies; the transaction is rolled back. *)
Drop(c) ==
  /\ MayDie /\ ~Free(c)
  /\ Done(c)
  /\ UNCHANGED <<desk, asks>>

Clerk(c) ==
  \/ \E a \in Apps, p \in Plates : File(c, a, p)
  \/ \E i \in 1..Len(asks) : Cancel(c, i) \/ Decline(c, i) \/ Approve(c, i) \/ Satisfied(c, i)
  \/ InsertAsk(c) \/ SaveVerdict(c) \/ Apply(c) \/ Drop(c)

ChangesNext ==
  \/ Next /\ UNCHANGED <<asks, act>>
  \/ \E c \in Clerks : Clerk(c)

ChangesSpec == ChangesInit /\ [][ChangesNext]_allVars

-----------------------------------------------------------------------------
(* An approval is carried out on a registration that has changed since it  *)
(* was loaded, or that is not in force any more.                           *)
StaleApproval(c) ==
  /\ act[c].job = "approve" /\ act'[c].job = "none"
  /\ act[c].row # reg[act[c].app] \/ act[c].row.status # "accepted"

(* Corrections never part the gate from the registrations: a plate is let  *)
(* in exactly when an accepted application holds it, before a step and     *)
(* after it, whatever is filed, withdrawn, decided and archived beside it. *)
(* Two saves only may part them: a rejection over an acceptance, and an    *)
(* approval over a registration that another approval, a rejection or the  *)
(* end of the account has changed since it was loaded.                     *)
SwapKept ==
  [][PassBacked => \/ PassBacked'
                   \/ \E a \in Apps : SavedWhole(a, {"reject"})
                   \/ \E c \in Officers : StaleApproval(c)]_allVars

=============================================================================
