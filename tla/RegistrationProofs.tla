------------------------- MODULE RegistrationProofs -------------------------
(***************************************************************************)
(* Proofs about RegistrationReview, for every set of applications, plates, *)
(* receipts and concurrent requests.                                       *)
(***************************************************************************)
EXTENDS RegistrationReview, TLAPS

(***************************************************************************)
(* The inductive invariant.  A row is sound on its own; what a request is  *)
(* going to save is sound on its own; a request that holds the lock of a   *)
(* row, or is about to insert one, knows its status; and requests that     *)
(* hold the same lock, or the row to be inserted, are one.                 *)
(***************************************************************************)
RowSound(row) ==
  /\ row.receipt # NoReceipt <=> row.pay = "paid"
  /\ row.status \in {"pending", "accepted"} => row.plate \in Plates
  /\ row.status = "accepted" => row.pay # "unpaid"

Inserting(r) == r.job \in {"submit", "walkin"}

Locking(r) == r.pc \in {"locked", "sealed"}

RequestSound(r) ==
  /\ r.pc = "idle" <=> r.job = "none"
  /\ r.pc # "idle" => r.app \in Apps /\ RowSound(r.row)
  /\ r.job = "submit" => r.row.status = "pending" /\ r.row.receipt = NoReceipt
  /\ r.job = "pay" => r.row.receipt # NoReceipt
  /\ r.job = "edit" => r.row.status = "pending"
  /\ r.job = "reject" => r.row.status = "rejected"
  /\ r.job \in {"accept", "walkin"} => r.row.status = "accepted"
  /\ Locking(r) => r.job \in {"pay", "accept", "walkin"}

Held(r, rows) ==
  /\ Inserting(r) => rows[r.app] = Absent
  /\ Locking(r) /\ ~Inserting(r) => rows[r.app].status = "pending"

Apart(r, s) ==
  /\ Inserting(r) => s.app # r.app
  /\ Locking(r) /\ Locking(s) => r.app # s.app
  /\ r.pc = "sealed" /\ s.pc = "sealed"
       => r.row.receipt = NoReceipt \/ r.row.receipt # s.row.receipt

CInv ==
  /\ TypeOK
  /\ \A a \in Apps : RowSound(reg[a])
  /\ \A h \in Handlers : RequestSound(req[h]) /\ Held(req[h], reg)
  /\ \A g, h \in Handlers : g # h => Apart(req[g], req[h])

LEMMA InitCInv == Init => CInv
  <1> SUFFICES ASSUME Init PROVE CInv
    OBVIOUS
  <1>1. Absent \in Row /\ RowSound(Absent)
    BY DEF Absent, NewRow, Row, Statuses, RowSound
  <1>2. Idle \in Request
    BY <1>1 DEF Idle, Request, AllJobs
  <1>3. TypeOK
    BY <1>1, <1>2 DEF TypeOK, Init
  <1>4. \A a \in Apps : RowSound(reg[a])
    BY <1>1 DEF Init
  <1>5. \A h \in Handlers : RequestSound(req[h]) /\ Held(req[h], reg)
    BY DEF Init, Idle, RequestSound, Held, Inserting, Locking
  <1>6. \A g, h \in Handlers : g # h => Apart(req[g], req[h])
    BY DEF Init, Idle, Apart, Inserting, Locking
  <1>7. QED
    BY <1>3, <1>4, <1>5, <1>6 DEF CInv

(* What another request relies on: a row it has locked or will insert. *)
Claimed(h, a) ==
  \E g \in Handlers \ {h} : req[g].app = a /\ (Locking(req[g]) \/ Inserting(req[g]))

(* A request moves, and rows nobody else claims may change. *)
LEMMA RequestMoves ==
  ASSUME CInv, NEW h \in Handlers, NEW r \in Request,
         req' = [req EXCEPT ![h] = r],
         reg' \in [Apps -> Row], owner' \in [Plates -> Apps \cup {Nobody}],
         overdue' \in SUBSET Apps, archived' \in SUBSET Apps,
         RequestSound(r), Held(r, reg'),
         \A g \in Handlers \ {h} : Apart(r, req[g]) /\ Apart(req[g], r),
         \A a \in Apps : \/ reg'[a] = reg[a]
                         \/ RowSound(reg'[a]) /\ ~Claimed(h, a)
  PROVE  CInv'
  <1>1. TypeOK'
    BY DEF CInv, TypeOK
  <1>2. \A g \in Handlers : req'[g] = IF g = h THEN r ELSE req[g]
    BY DEF CInv, TypeOK
  <1>3. (\A a \in Apps : RowSound(reg[a]))'
    BY DEF CInv
  <1>4. ASSUME NEW g \in Handlers
        PROVE  (RequestSound(req[g]) /\ Held(req[g], reg))'
    <2>1. CASE g = h
      BY <1>2, <2>1
    <2>2. CASE g # h
      <3>1. req'[g] = req[g] /\ RequestSound(req[g]) /\ Held(req[g], reg)
        BY <1>2, <2>2 DEF CInv
      <3>2. Inserting(req[g]) \/ Locking(req[g]) => req[g].app \in Apps
        BY <3>1 DEF RequestSound, Inserting, Locking
      <3>3. Inserting(req[g]) \/ Locking(req[g]) => reg'[req[g].app] = reg[req[g].app]
        BY <2>2, <3>2 DEF Claimed
      <3>4. QED
        BY <3>1, <3>3 DEF Held
    <2>3. QED
      BY <2>1, <2>2
  <1>5. (\A f, g \in Handlers : f # g => Apart(req[f], req[g]))'
    BY <1>2 DEF CInv
  <1>6. QED
    BY <1>1, <1>3, <1>4, <1>5 DEF CInv

(* A request that ends claims nothing. *)
LEMMA IdleIsApart ==
  ASSUME CInv
  PROVE  /\ Idle \in Request /\ RequestSound(Idle)
         /\ \A rows : Held(Idle, rows)
         /\ \A g \in Handlers : Apart(Idle, req[g]) /\ Apart(req[g], Idle)
  <1>1. Idle \in Request
    BY DEF Idle, Request, Row, Absent, NewRow, Statuses, AllJobs
  <1>2. RequestSound(Idle) /\ \A rows : Held(Idle, rows)
    BY DEF Idle, RequestSound, Held, Inserting, Locking
  <1>3. \A g \in Handlers : Apart(Idle, req[g])
    BY DEF Idle, Apart, Inserting, Locking
  <1>4. ASSUME NEW g \in Handlers PROVE Apart(req[g], Idle)
    <2>1. Inserting(req[g]) => req[g].app \in Apps
      BY DEF CInv, RequestSound, Inserting
    <2>2. QED
      BY <2>1, NullsAssumption DEF Idle, Apart, Locking
  <1>5. QED
    BY <1>1, <1>2, <1>3, <1>4

(* Unpaid applications expire, none of them locked. *)
ExpiresOnly ==
  \A a \in Apps :
    \/ reg'[a] = reg[a]
    \/ Overdue(a, reg[a]) /\ ~Locked(a) /\ reg'[a] = [reg[a] EXCEPT !.status = "expired"]

LEMMA ExpiredRows ==
  ASSUME CInv, reg' \in [Apps -> Row], ExpiresOnly, NEW a \in Apps, reg'[a] # reg[a]
  PROVE  /\ RowSound(reg'[a])
         /\ \A g \in Handlers : ~(req[g].app = a /\ (Locking(req[g]) \/ Inserting(req[g])))
  <1>1. Overdue(a, reg[a]) /\ ~Locked(a) /\ reg'[a] = [reg[a] EXCEPT !.status = "expired"]
    BY DEF ExpiresOnly
  <1>2. reg[a] \in Row /\ RowSound(reg[a])
    BY DEF CInv, TypeOK
  <1>3. RowSound(reg'[a])
    BY <1>1, <1>2 DEF RowSound, Row, Overdue
  <1>4. ASSUME NEW g \in Handlers, req[g].app = a
        PROVE  ~Locking(req[g]) /\ ~Inserting(req[g])
    <2>1. ~Locking(req[g])
      BY <1>1, <1>4 DEF Locked, Locking
    <2>2. ~Inserting(req[g])
      BY <1>1, <1>4 DEF CInv, Held, Overdue, Absent, NewRow
    <2>3. QED
      BY <2>1, <2>2
  <1>5. QED
    BY <1>3, <1>4

LEMMA RowsExpire ==
  ASSUME CInv, reg' \in [Apps -> Row], ExpiresOnly, UNCHANGED <<owner, overdue, archived, req>>
  PROVE  CInv'
  <1>1. TypeOK'
    BY DEF CInv, TypeOK
  <1>2. (\A a \in Apps : RowSound(reg[a]))'
    BY ExpiredRows DEF CInv
  <1>3. ASSUME NEW g \in Handlers
        PROVE  (RequestSound(req[g]) /\ Held(req[g], reg))'
    <2>1. RequestSound(req[g]) /\ Held(req[g], reg)
      BY DEF CInv
    <2>2. Inserting(req[g]) \/ Locking(req[g]) => req[g].app \in Apps
      BY <2>1 DEF RequestSound, Inserting, Locking
    <2>3. Inserting(req[g]) \/ Locking(req[g]) => reg'[req[g].app] = reg[req[g].app]
      BY <2>2, ExpiredRows
    <2>4. QED
      BY <2>1, <2>3 DEF Held
  <1>4. (\A f, g \in Handlers : f # g => Apart(req[f], req[g]))'
    BY DEF CInv
  <1>5. QED
    BY <1>1, <1>2, <1>3, <1>4 DEF CInv

LEMMA SweptExpires ==
  ASSUME CInv, reg' = Swept
  PROVE  reg' \in [Apps -> Row] /\ ExpiresOnly
  <1>1. \A a \in Apps : reg[a] \in Row /\ [reg[a] EXCEPT !.status = "expired"] \in Row
    BY DEF CInv, TypeOK, Row, Statuses
  <1>2. reg' \in [Apps -> Row]
    BY <1>1 DEF Swept
  <1>3. ExpiresOnly
    BY DEF Swept, ExpiresOnly
  <1>4. QED
    BY <1>2, <1>3

-----------------------------------------------------------------------------
(* The actions, one by one. *)

(* A request ends and a row changes that nobody else claims. *)
LEMMA RequestEnds ==
  ASSUME CInv, NEW h \in Handlers, Finish(h),
         reg' \in [Apps -> Row], owner' \in [Plates -> Apps \cup {Nobody}],
         overdue' = overdue, archived' = archived,
         \A a \in Apps : \/ reg'[a] = reg[a]
                         \/ RowSound(reg'[a]) /\ ~Claimed(h, a)
  PROVE  CInv'
  <1>1. req' = [req EXCEPT ![h] = Idle] /\ overdue' \in SUBSET Apps /\ archived' \in SUBSET Apps
    BY DEF Finish, CInv, TypeOK
  <1>2. QED
    BY <1>1, IdleIsApart, RequestMoves

(* A request begins on a row nobody is about to insert. *)
LEMMA RequestBegins ==
  ASSUME CInv, NEW h \in Handlers, NEW job \in AllJobs, NEW a \in Apps, NEW row \in Row,
         Begin(h, job, a, row), reg[a].status = "pending", job \notin {"submit", "walkin"},
         RequestSound([job |-> job, pc |-> "begun", app |-> a, row |-> row]),
         UNCHANGED <<reg, owner, overdue, archived>>
  PROVE  CInv'
  <1> DEFINE r == [job |-> job, pc |-> "begun", app |-> a, row |-> row]
  <1>1. r \in Request /\ req' = [req EXCEPT ![h] = r]
    BY DEF Request, Begin
  <1>2. ASSUME NEW g \in Handlers \ {h} PROVE Apart(r, req[g]) /\ Apart(req[g], r)
    <2>1. Inserting(req[g]) => reg[req[g].app] = Absent
      BY DEF CInv, Held
    <2>2. Absent.status # "pending"
      BY DEF Absent, NewRow
    <2>3. QED
      BY <2>1, <2>2 DEF Apart, Locking, Inserting
  <1>3. Held(r, reg')
    BY DEF Held, Inserting, Locking
  <1>4. /\ reg' \in [Apps -> Row] /\ owner' \in [Plates -> Apps \cup {Nobody}]
        /\ overdue' \in SUBSET Apps /\ archived' \in SUBSET Apps
    BY DEF CInv, TypeOK
  <1>5. \A b \in Apps : reg'[b] = reg[b]
    OBVIOUS
  <1>6. QED
    BY <1>1, <1>2, <1>3, <1>4, <1>5, RequestMoves

LEMMA SubmitKeeps ==
  ASSUME CInv, NEW h \in Handlers, NEW a \in Apps, NEW p \in Plates,
         NEW pay \in {"unpaid", "exempt"}, Submit(h, a, p, pay)
  PROVE  CInv'
  <1>1. reg' = Swept /\ UNCHANGED <<owner, overdue, archived>> /\ Fresh(a)
    BY DEF Submit
  <1>2. reg' \in [Apps -> Row] /\ ExpiresOnly
    BY <1>1, SweptExpires
  <1>3. CASE UNCHANGED req
    BY <1>1, <1>2, <1>3, RowsExpire
  <1>4. CASE Begin(h, "submit", a, NewRow("pending", pay, NoReceipt, p))
    <2> DEFINE row == NewRow("pending", pay, NoReceipt, p)
               r == [job |-> "submit", pc |-> "begun", app |-> a, row |-> row]
    <2>1. row \in Row /\ RowSound(row) /\ row.status = "pending" /\ row.receipt = NoReceipt
      BY DEF NewRow, Row, Statuses, RowSound
    <2>2. r \in Request /\ req' = [req EXCEPT ![h] = r]
      BY <1>4, <2>1 DEF Begin, Request, AllJobs
    <2>3. RequestSound(r)
      BY <2>1 DEF RequestSound, Locking
    <2>4. reg'[a] = Absent
      BY <1>1, <1>2 DEF Fresh, ExpiresOnly, Overdue, Absent, NewRow
    <2>5. Held(r, reg')
      BY <2>4 DEF Held, Inserting, Locking
    <2>6. \A g \in Handlers \ {h} : Apart(r, req[g]) /\ Apart(req[g], r)
      BY <1>1 DEF Fresh, Apart, Locking, Inserting
    <2>7. \A b \in Apps : \/ reg'[b] = reg[b]
                          \/ RowSound(reg'[b]) /\ ~Claimed(h, b)
      BY <1>2, ExpiredRows DEF Claimed
    <2>8. /\ owner' \in [Plates -> Apps \cup {Nobody}] /\ overdue' \in SUBSET Apps /\ archived' \in SUBSET Apps
      BY <1>1 DEF CInv, TypeOK
    <2>9. QED
      BY <1>2, <2>2, <2>3, <2>5, <2>6, <2>7, <2>8, RequestMoves
  <1>5. QED
    BY <1>3, <1>4 DEF Submit

(* What is known of a request under way. *)
LEMMA UnderWay ==
  ASSUME CInv, NEW h \in Handlers, req[h].pc # "idle"
  PROVE  /\ req[h] \in Request /\ req[h].app \in Apps /\ req[h].row \in Row
         /\ RequestSound(req[h]) /\ RowSound(req[h].row)
         /\ Held(req[h], reg)
         /\ reg[req[h].app] \in Row /\ RowSound(reg[req[h].app])
         /\ reg \in [Apps -> Row] /\ owner \in [Plates -> Apps \cup {Nobody}]
  <1>1. req[h] \in Request /\ RequestSound(req[h]) /\ Held(req[h], reg)
    BY DEF CInv, TypeOK
  <1>2. req[h].app \in Apps /\ req[h].row \in Row /\ RowSound(req[h].row)
    BY <1>1 DEF RequestSound, Request
  <1>3. QED
    BY <1>1, <1>2 DEF CInv, TypeOK

(* Nobody claims the row of a request that inserts it or holds its lock. *)
LEMMA OwnRow ==
  ASSUME CInv, NEW h \in Handlers, req[h].pc # "idle",
         Inserting(req[h]) \/ (Locking(req[h]) /\ reg[req[h].app] # Absent)
  PROVE  ~Claimed(h, req[h].app)
  <1> SUFFICES ASSUME NEW g \in Handlers \ {h}, req[g].app = req[h].app,
                      Locking(req[g]) \/ Inserting(req[g])
               PROVE  FALSE
    BY DEF Claimed
  <1>1. Apart(req[h], req[g]) /\ Apart(req[g], req[h]) /\ Held(req[g], reg)
    BY DEF CInv
  <1>2. QED
    BY <1>1 DEF Apart, Held

(* Nobody claims the row of a request for which its lock is free. *)
LEMMA FreeRow ==
  ASSUME CInv, NEW h \in Handlers, RowFree(h, req[h].app)
  PROVE  ~Claimed(h, req[h].app)
  <1> SUFFICES ASSUME NEW g \in Handlers \ {h}, req[g].app = req[h].app,
                      Locking(req[g]) \/ Inserting(req[g])
               PROVE  FALSE
    BY DEF Claimed
  <1>1. Apart(req[g], req[h])
    BY DEF CInv
  <1>2. QED
    BY <1>1 DEF RowFree, Apart, Locking

LEMMA InsertKeeps ==
  ASSUME CInv, NEW h \in Handlers, Insert(h)
  PROVE  CInv'
  <1>1. At(h, "submit", "begun") /\ Finish(h) /\ UNCHANGED <<owner, overdue, archived>>
    BY DEF Insert
  <1>2. req[h].pc # "idle" /\ Inserting(req[h])
    BY <1>1 DEF At, Inserting
  <1>3. reg' = reg \/ reg' = [reg EXCEPT ![req[h].app] = req[h].row]
    BY DEF Insert
  <1>4. QED
    BY <1>1, <1>2, <1>3, UnderWay, OwnRow, RequestEnds

(* A request gets one lock further. *)
LEMMA LockMoves ==
  ASSUME CInv, NEW h \in Handlers, NEW pc \in {"locked", "sealed"},
         req' = [req EXCEPT ![h].pc = pc], UNCHANGED <<reg, owner, overdue, archived>>,
         req[h].job \in {"pay", "accept", "walkin"}, req[h].pc # "idle",
         ~Inserting(req[h]) => reg[req[h].app].status = "pending",
         \A g \in Handlers \ {h} : Locking(req[g]) => req[g].app # req[h].app,
         pc = "sealed" => ReceiptFree(h, req[h].row.receipt)
  PROVE  CInv'
  <1> DEFINE r == [req[h] EXCEPT !.pc = pc]
  <1>1. /\ req[h] \in Request /\ RequestSound(req[h]) /\ Held(req[h], reg)
        /\ req \in [Handlers -> Request]
    BY UnderWay DEF CInv, TypeOK
  <1>2. /\ r \in Request /\ req' = [req EXCEPT ![h] = r]
        /\ r.pc = pc /\ r.job = req[h].job /\ r.app = req[h].app /\ r.row = req[h].row
    BY <1>1 DEF Request
  <1>3. RequestSound(r)
    BY <1>1, <1>2 DEF RequestSound, Locking
  <1>4. Held(r, reg')
    BY <1>1, <1>2 DEF Held, Inserting, Locking
  <1>5. ASSUME NEW g \in Handlers \ {h} PROVE Apart(r, req[g]) /\ Apart(req[g], r)
    <2>1. Apart(req[h], req[g]) /\ Apart(req[g], req[h])
      BY DEF CInv
    <2>2. QED
      BY <1>2, <2>1 DEF Apart, Inserting, Locking, ReceiptFree
  <1>6. /\ reg' \in [Apps -> Row] /\ owner' \in [Plates -> Apps \cup {Nobody}]
        /\ overdue' \in SUBSET Apps /\ archived' \in SUBSET Apps /\ \A b \in Apps : reg'[b] = reg[b]
    BY DEF CInv, TypeOK
  <1>7. QED
    BY <1>2, <1>3, <1>4, <1>5, <1>6, RequestMoves

(* A request that gives up leaves everything as it was. *)
LEMMA GivesUp ==
  ASSUME CInv, NEW h \in Handlers, Finish(h), UNCHANGED <<reg, owner, overdue, archived>>
  PROVE  CInv'
  BY RequestEnds DEF CInv, TypeOK

LEMMA LockUploadKeeps ==
  ASSUME CInv, NEW h \in Handlers, LockUpload(h)
  PROVE  CInv'
  <1>1. /\ req[h].job = "pay" /\ req[h].pc = "begun" /\ RowFree(h, req[h].app)
        /\ UNCHANGED <<reg, owner, overdue, archived>>
    BY DEF LockUpload, At
  <1>2. CASE Finish(h)
    BY <1>1, <1>2, GivesUp
  <1>3. CASE LinkAlive(req[h].app) /\ req' = [req EXCEPT ![h].pc = "locked"]
    BY <1>1, <1>3, LockMoves DEF LinkAlive, RowFree, Locking
  <1>4. QED
    BY <1>2, <1>3 DEF LockUpload

LEMMA LockDecisionKeeps ==
  ASSUME CInv, NEW h \in Handlers, LockDecision(h)
  PROVE  CInv'
  <1>1. /\ req[h].job = "accept" /\ req[h].pc = "begun" /\ RowFree(h, req[h].app)
        /\ UNCHANGED <<reg, owner, overdue, archived>>
    BY DEF LockDecision, At
  <1>2. CASE Finish(h)
    BY <1>1, <1>2, GivesUp
  <1>3. CASE reg[req[h].app].status = "pending" /\ req' = [req EXCEPT ![h].pc = "locked"]
    BY <1>1, <1>3, LockMoves DEF RowFree, Locking
  <1>4. QED
    BY <1>2, <1>3 DEF LockDecision

LEMMA SealReceiptKeeps ==
  ASSUME CInv, NEW h \in Handlers, SealReceipt(h)
  PROVE  CInv'
  <1>1. /\ req[h].pc = "locked" /\ ReceiptFree(h, req[h].row.receipt)
        /\ UNCHANGED <<reg, owner, overdue, archived>>
    BY DEF SealReceipt
  <1>2. CASE Finish(h)
    BY <1>1, <1>2, GivesUp
  <1>3. CASE req' = [req EXCEPT ![h].pc = "sealed"]
    <2>1. RequestSound(req[h]) /\ Held(req[h], reg) /\ Locking(req[h])
      BY <1>1, UnderWay DEF Locking
    <2>2. /\ req[h].job \in {"pay", "accept", "walkin"}
          /\ ~Inserting(req[h]) => reg[req[h].app].status = "pending"
      BY <2>1 DEF RequestSound, Held
    <2>3. \A g \in Handlers \ {h} : Locking(req[g]) => req[g].app # req[h].app
      BY <2>1 DEF CInv, Apart
    <2>4. QED
      BY <1>1, <1>3, <2>2, <2>3, LockMoves
  <1>4. QED
    BY <1>2, <1>3 DEF SealReceipt

(* The applicant's and the reviewer's requests begin. *)
LEMMA FileReceiptKeeps ==
  ASSUME CInv, NEW h \in Handlers, NEW a \in Apps, NEW r \in Receipts, FileReceipt(h, a, r)
  PROVE  CInv'
  <1> DEFINE row == [reg[a] EXCEPT !.pay = "paid", !.receipt = r]
  <1>1. reg[a] \in Row /\ RowSound(reg[a]) /\ reg[a].status = "pending"
    BY DEF CInv, TypeOK, FileReceipt, LinkAlive
  <1>2. /\ row \in Row /\ RowSound(row) /\ row.receipt # NoReceipt
    BY <1>1, NullsAssumption DEF Row, RowSound
  <1>3. RequestSound([job |-> "pay", pc |-> "begun", app |-> a, row |-> row])
    BY <1>2 DEF RequestSound, Locking
  <1>4. Begin(h, "pay", a, row) /\ UNCHANGED <<reg, owner, overdue, archived>>
    BY DEF FileReceipt
  <1>5. QED
    BY <1>1, <1>2, <1>3, <1>4, RequestBegins DEF AllJobs

LEMMA SelfEditKeeps ==
  ASSUME CInv, NEW h \in Handlers, NEW a \in Apps, NEW p \in Plates, SelfEdit(h, a, p)
  PROVE  CInv'
  <1> DEFINE row == [reg[a] EXCEPT !.plate = p]
  <1>1. reg[a] \in Row /\ RowSound(reg[a]) /\ reg[a].status = "pending"
    BY DEF CInv, TypeOK, SelfEdit, LinkAlive
  <1>2. row \in Row /\ RowSound(row) /\ row.status = "pending"
    BY <1>1 DEF Row, RowSound
  <1>3. RequestSound([job |-> "edit", pc |-> "begun", app |-> a, row |-> row])
    BY <1>2 DEF RequestSound, Locking
  <1>4. Begin(h, "edit", a, row) /\ UNCHANGED <<reg, owner, overdue, archived>>
    BY DEF SelfEdit
  <1>5. QED
    BY <1>1, <1>2, <1>3, <1>4, RequestBegins DEF AllJobs

LEMMA AcceptKeeps ==
  ASSUME CInv, NEW h \in Handlers, NEW a \in Apps, NEW typed \in Receipts \cup {NoReceipt},
         Accept(h, a, typed)
  PROVE  CInv'
  <1> DEFINE r == ReceiptFor(a, typed)
             row == Granted(a, r)
  <1>1. /\ reg[a] \in Row /\ RowSound(reg[a]) /\ reg[a].status = "pending"
        /\ Settled(a, r)
    BY DEF CInv, TypeOK, Accept
  <1>2. r \in Receipts \cup {NoReceipt}
    BY <1>1 DEF ReceiptFor, Row
  <1>3. /\ row.status = "accepted" /\ row.receipt = r /\ row.plate = reg[a].plate
        /\ row.pay = IF reg[a].pay = "exempt" THEN "exempt" ELSE "paid"
        /\ row \in Row
    BY <1>1, <1>2 DEF Granted, Row, Statuses
  <1>4. reg[a].pay = "exempt" => r = NoReceipt
    BY DEF ReceiptFor
  <1>5. reg[a].pay # "exempt" => r # NoReceipt
    BY <1>1 DEF ReceiptFor, Settled, RowSound, Row
  <1>6. RowSound(row)
    BY <1>1, <1>3, <1>4, <1>5 DEF RowSound
  <1>7. RequestSound([job |-> "accept", pc |-> "begun", app |-> a, row |-> row])
    BY <1>3, <1>6 DEF RequestSound, Locking
  <1>8. Begin(h, "accept", a, row) /\ UNCHANGED <<reg, owner, overdue, archived>>
    BY DEF Accept
  <1>9. QED
    BY <1>1, <1>3, <1>7, <1>8, RequestBegins DEF AllJobs

LEMMA RejectKeeps ==
  ASSUME CInv, NEW h \in Handlers, NEW a \in Apps, Reject(h, a)
  PROVE  CInv'
  <1> DEFINE row == [reg[a] EXCEPT !.status = "rejected"]
  <1>1. reg[a] \in Row /\ RowSound(reg[a]) /\ reg[a].status = "pending"
    BY DEF CInv, TypeOK, Reject
  <1>2. row \in Row /\ RowSound(row) /\ row.status = "rejected"
    BY <1>1 DEF Row, RowSound, Statuses
  <1>3. RequestSound([job |-> "reject", pc |-> "begun", app |-> a, row |-> row])
    BY <1>2 DEF RequestSound, Locking
  <1>4. Begin(h, "reject", a, row) /\ UNCHANGED <<reg, owner, overdue, archived>>
    BY DEF Reject
  <1>5. QED
    BY <1>1, <1>2, <1>3, <1>4, RequestBegins DEF AllJobs

LEMMA WalkInKeeps ==
  ASSUME CInv, NEW h \in Handlers, NEW a \in Apps, NEW p \in Plates,
         NEW rc \in Receipts \cup {NoReceipt}, WalkIn(h, a, p, rc)
  PROVE  CInv'
  <1> DEFINE row == NewRow("accepted", IF rc = NoReceipt THEN "exempt" ELSE "paid", rc, p)
             r == [job |-> "walkin", pc |-> "locked", app |-> a, row |-> row]
  <1>1. /\ req' = [req EXCEPT ![h] = r] /\ Fresh(a)
        /\ UNCHANGED <<reg, owner, overdue, archived>>
    BY DEF WalkIn
  <1>2. row \in Row /\ RowSound(row) /\ row.status = "accepted"
    BY DEF NewRow, Row, Statuses, RowSound
  <1>3. r \in Request /\ RequestSound(r)
    BY <1>2 DEF Request, AllJobs, RequestSound, Locking
  <1>4. Held(r, reg')
    BY <1>1 DEF Held, Inserting, Fresh
  <1>5. \A g \in Handlers \ {h} : Apart(r, req[g]) /\ Apart(req[g], r)
    BY <1>1 DEF Fresh, Apart, Inserting
  <1>6. /\ reg' \in [Apps -> Row] /\ owner' \in [Plates -> Apps \cup {Nobody}]
        /\ overdue' \in SUBSET Apps /\ archived' \in SUBSET Apps /\ \A b \in Apps : reg'[b] = reg[b]
    BY <1>1 DEF CInv, TypeOK
  <1>7. QED
    BY <1>1, <1>3, <1>4, <1>5, <1>6, RequestMoves

(* The writes. *)
LEMMA RecordReceiptKeeps ==
  ASSUME CInv, NEW h \in Handlers, RecordReceipt(h)
  PROVE  CInv'
  <1> DEFINE a == req[h].app
             row == [reg[a] EXCEPT !.pay = "paid", !.receipt = req[h].row.receipt]
  <1>1. /\ req[h].job = "pay" /\ req[h].pc = "sealed" /\ Finish(h)
        /\ UNCHANGED <<owner, overdue, archived>>
    BY DEF RecordReceipt, At
  <1>2. /\ a \in Apps /\ req[h].row \in Row /\ reg[a] \in Row /\ RowSound(reg[a])
        /\ req[h].row.receipt # NoReceipt /\ reg[a].status = "pending"
        /\ reg \in [Apps -> Row] /\ owner' \in [Plates -> Apps \cup {Nobody}]
    BY <1>1, UnderWay DEF RequestSound, Held, Locking, Inserting
  <1>3. reg' = [reg EXCEPT ![a] = row]
    BY <1>2 DEF RecordReceipt
  <1>4. row \in Row /\ RowSound(row)
    BY <1>2 DEF Row, RowSound
  <1>5. ~Claimed(h, a)
    BY <1>1, <1>2, OwnRow DEF Locking, Absent, NewRow
  <1>6. QED
    BY <1>1, <1>2, <1>3, <1>4, <1>5, RequestEnds

LEMMA SaveEditKeeps ==
  ASSUME CInv, NEW h \in Handlers, SaveEdit(h)
  PROVE  CInv'
  <1>1. /\ req[h].pc # "idle" /\ RowFree(h, req[h].app) /\ Finish(h)
        /\ UNCHANGED <<owner, overdue, archived>>
        /\ reg' = reg \/ reg' = [reg EXCEPT ![req[h].app] = req[h].row]
    BY DEF SaveEdit, At
  <1>2. QED
    BY <1>1, UnderWay, FreeRow, RequestEnds

LEMMA SaveRejectionKeeps ==
  ASSUME CInv, NEW h \in Handlers, SaveRejection(h)
  PROVE  CInv'
  <1>1. /\ req[h].pc # "idle" /\ RowFree(h, req[h].app) /\ Finish(h)
        /\ UNCHANGED <<owner, overdue, archived>>
        /\ reg' = [reg EXCEPT ![req[h].app] = req[h].row]
    BY DEF SaveRejection, At
  <1>2. QED
    BY <1>1, UnderWay, FreeRow, RequestEnds

LEMMA GrantKeeps ==
  ASSUME CInv, NEW h \in Handlers, Grant(h)
  PROVE  CInv'
  <1>1. /\ req[h].job \in {"accept", "walkin"} /\ req[h].pc = "sealed" /\ Finish(h)
        /\ overdue' = overdue /\ archived' = archived
        /\ \/ UNCHANGED <<reg, owner>>
           \/ /\ owner' = [owner EXCEPT ![req[h].row.plate] = req[h].app]
              /\ reg' = [reg EXCEPT ![req[h].app] = req[h].row]
    BY DEF Grant
  <1>2. ~Claimed(h, req[h].app)
    BY <1>1, UnderWay, OwnRow DEF Held, Locking, Inserting, Absent, NewRow
  <1>3. QED
    BY <1>1, <1>2, UnderWay, RequestEnds

(* The archiving of accounts closes rows no request has claimed. *)
LEMMA ArchiveKeeps ==
  ASSUME CInv, NEW S \in SUBSET Apps, Archive(S)
  PROVE  CInv'
  <1>1. /\ \A a \in S : Active(reg[a]) /\ ~Locked(a)
        /\ reg' = [a \in Apps |-> IF a \in S THEN [reg[a] EXCEPT !.status = "expired"] ELSE reg[a]]
        /\ owner' = [p \in Plates |-> IF owner[p] \in S THEN Nobody ELSE owner[p]]
        /\ archived' = archived \cup S /\ UNCHANGED <<overdue, req>>
    BY DEF Archive
  <1>2. \A a \in Apps : reg[a] \in Row /\ RowSound(reg[a])
    BY DEF CInv, TypeOK
  <1>3. ASSUME NEW a \in Apps
        PROVE  [reg[a] EXCEPT !.status = "expired"] \in Row
               /\ RowSound([reg[a] EXCEPT !.status = "expired"])
    BY <1>2 DEF Row, Statuses, RowSound
  <1>4. \A a \in Apps : reg'[a] \in Row /\ RowSound(reg'[a])
    BY <1>1, <1>2, <1>3
  <1>5. TypeOK'
    <2>1. reg' \in [Apps -> Row]
      BY <1>1, <1>2, <1>3
    <2>2. owner' \in [Plates -> Apps \cup {Nobody}]
      BY <1>1 DEF CInv, TypeOK
    <2>3. archived' \in SUBSET Apps /\ overdue' \in SUBSET Apps /\ req' \in [Handlers -> Request]
      BY <1>1 DEF CInv, TypeOK
    <2> QED BY <2>1, <2>2, <2>3 DEF TypeOK
  <1>6. ASSUME NEW g \in Handlers
        PROVE  (RequestSound(req[g]) /\ Held(req[g], reg))'
    <2>1. RequestSound(req[g]) /\ Held(req[g], reg) /\ req'[g] = req[g]
      BY <1>1 DEF CInv
    <2>2. Inserting(req[g]) \/ Locking(req[g]) => req[g].app \in Apps \ S
      <3>1. Inserting(req[g]) \/ Locking(req[g]) => req[g].app \in Apps
        BY <2>1 DEF RequestSound, Inserting, Locking
      <3>2. Locking(req[g]) => req[g].app \notin S
        BY <1>1 DEF Locked, Locking
      <3>3. Inserting(req[g]) => req[g].app \notin S
        BY <1>1, <2>1 DEF Held, Active, Absent, NewRow
      <3> QED BY <3>1, <3>2, <3>3
    <2>3. Inserting(req[g]) \/ Locking(req[g]) => reg'[req[g].app] = reg[req[g].app]
      BY <1>1, <2>2
    <2> QED BY <2>1, <2>3 DEF Held
  <1>7. (\A f, g \in Handlers : f # g => Apart(req[f], req[g]))'
    BY <1>1 DEF CInv
  <1>8. (\A a \in Apps : RowSound(reg[a]))'
    BY <1>4
  <1> QED BY <1>5, <1>6, <1>7, <1>8 DEF CInv

LEMMA NextKeepsCInv == CInv /\ [Next]_vars => CInv'
  <1> SUFFICES ASSUME CInv, [Next]_vars PROVE CInv'
    OBVIOUS
  <1>1. ASSUME NEW h \in Handlers, Arrival(h) PROVE CInv'
    BY <1>1, SubmitKeeps, SelfEditKeeps, WalkInKeeps, FileReceiptKeeps, AcceptKeeps,
       RejectKeeps DEF Arrival
  <1>2. ASSUME NEW h \in Handlers, Step(h) PROVE CInv'
    BY <1>2, InsertKeeps, LockUploadKeeps, SealReceiptKeeps, RecordReceiptKeeps,
       SaveEditKeeps, LockDecisionKeeps, GrantKeeps, SaveRejectionKeeps DEF Step
  <1>3. ASSUME NEW h \in Handlers, Abort(h) PROVE CInv'
    BY <1>3, GivesUp DEF Abort
  <1>4. ASSUME NEW a \in Apps, OpenDeadLink(a) PROVE CInv'
    <2>1. [reg[a] EXCEPT !.status = "expired"] \in Row
      BY DEF CInv, TypeOK, Row, Statuses
    <2>2. /\ reg' = [reg EXCEPT ![a] = [reg[a] EXCEPT !.status = "expired"]]
          /\ reg \in [Apps -> Row]
      BY <1>4 DEF OpenDeadLink, CInv, TypeOK
    <2>3. reg' \in [Apps -> Row] /\ ExpiresOnly
      BY <1>4, <2>1, <2>2 DEF OpenDeadLink, ExpiresOnly
    <2>4. QED
      BY <1>4, <2>3, RowsExpire DEF OpenDeadLink
  <1>5. CASE Sweep
    BY <1>5, SweptExpires, RowsExpire DEF Sweep
  <1>6. ASSUME NEW a \in Apps, DeadlinePasses(a) PROVE CInv'
    BY <1>6 DEF DeadlinePasses, CInv, TypeOK
  <1>7. CASE UNCHANGED vars
    BY <1>7 DEF vars, CInv, TypeOK
  <1>8. QED
    BY <1>1, <1>2, <1>3, <1>4, <1>5, <1>6, <1>7, ArchiveKeeps DEF Next, Exhausted

(* The rows, the vehicles and the requests keep their types. *)
THEOREM ReviewTypes == Spec => []TypeOK
  <1>1. CInv => TypeOK
    BY DEF CInv
  <1>2. QED
    BY <1>1, InitCInv, NextKeepsCInv, PTL DEF Spec

(* Whatever requests interleave, stale saves and rejections included, a    *)
(* row is never half-paid: receipt and payment are written together.       *)
THEOREM NeverHalf == Spec => []NeverHalfPaid
  <1>1. CInv => NeverHalfPaid
    BY DEF CInv, RowSound, NeverHalfPaid
  <1>2. QED
    BY <1>1, InitCInv, NextKeepsCInv, PTL DEF Spec

(* Nobody who owes the fee gets a pass without a receipt on file.          *)
THEOREM NoUnpaid == Spec => []NoUnpaidPass
  <1>1. CInv => NoUnpaidPass
    BY DEF CInv, TypeOK, Row, RowSound, NoUnpaidPass
  <1>2. QED
    BY <1>1, InitCInv, NextKeepsCInv, PTL DEF Spec

-----------------------------------------------------------------------------
(***************************************************************************)
(* What a step does to the rows: it leaves the decided ones alone, it      *)
(* grants one pass, it saves a rejection, or it archives accounts.         *)
(***************************************************************************)
Undecided(row) == row.status \in {"absent", "pending"}

QuietStep ==
  /\ owner' = owner /\ archived' = archived
  /\ \A a \in Apps :
       \/ reg'[a] = reg[a]
       \/ /\ Undecided(reg[a])
          /\ \/ reg'[a].status = "pending"
             \/ reg'[a].status = "expired" /\ reg'[a].pay = "unpaid"

GrantStep(h) ==
  /\ req[h].job \in {"accept", "walkin"} /\ req[h].pc = "sealed"
  /\ PlateFree(reg, req[h].app, req[h].row.plate)
  /\ owner' = [owner EXCEPT ![req[h].row.plate] = req[h].app]
  /\ reg' = [reg EXCEPT ![req[h].app] = req[h].row]
  /\ archived' = archived
  /\ Finish(h)

RejectStep(h) ==
  /\ req[h].job = "reject" /\ req[h].pc # "idle"
  /\ reg' = [reg EXCEPT ![req[h].app] = req[h].row]
  /\ owner' = owner /\ archived' = archived

ArchiveStep == \E S \in SUBSET Apps : Archive(S)

Moves == QuietStep \/ (\E h \in Handlers : GrantStep(h) \/ RejectStep(h)) \/ ArchiveStep

(* Whatever holds a receipt lock held it before, or has just asked. *)
SealsAsked ==
  \A g \in Handlers : req'[g].pc = "sealed" =>
    \/ req'[g] = req[g]
    \/ reg' = reg /\ Unused(req'[g].app, req'[g].row.receipt)

(* How a step changes the requests. *)
LEMMA RequestsChange ==
  ASSUME CInv, NEW h \in Handlers
  PROVE  /\ Finish(h) => SealsAsked
         /\ \A job \in AllJobs : \A a, row : Begin(h, job, a, row) => SealsAsked
         /\ UNCHANGED req => SealsAsked
         /\ req' = [req EXCEPT ![h].pc = "locked"] => SealsAsked
  <1>1. req \in [Handlers -> Request]
    BY DEF CInv, TypeOK
  <1>2. QED
    BY <1>1 DEF Finish, Begin, Idle, SealsAsked, Request

LEMMA Effects ==
  ASSUME CInv, [Next]_vars
  PROVE  SealsAsked /\ Moves
  <1> DEFINE Goal == SealsAsked /\ Moves
  <1>0. QuietStep => Moves
    BY DEF Moves
  <1>1. ASSUME NEW h \in Handlers, NEW a \in Apps, NEW p \in Plates,
               NEW pay \in {"unpaid", "exempt"}, Submit(h, a, p, pay)
        PROVE  Goal
    <2>1. ExpiresOnly /\ reg' \in [Apps -> Row]
      BY <1>1, SweptExpires DEF Submit
    <2>2. QuietStep
      BY <1>1, <2>1 DEF Submit, QuietStep, ExpiresOnly, Overdue, Undecided, CInv, TypeOK, Row
    <2>3. QED
      BY <1>0, <1>1, <2>2, RequestsChange DEF Submit, AllJobs
  <1>2. ASSUME NEW h \in Handlers, NEW a \in Apps,
               \/ \E p \in Plates : SelfEdit(h, a, p)
               \/ \E r \in Receipts : FileReceipt(h, a, r)
               \/ \E typed \in Receipts \cup {NoReceipt} : Accept(h, a, typed)
               \/ Reject(h, a)
        PROVE  Goal
    <2>1. QuietStep
      BY <1>2 DEF SelfEdit, FileReceipt, Accept, Reject, QuietStep
    <2>2. QED
      BY <1>0, <1>2, <2>1, RequestsChange DEF SelfEdit, FileReceipt, Accept, Reject, AllJobs
  <1>3. ASSUME NEW h \in Handlers, NEW a \in Apps, NEW p \in Plates,
               NEW r \in Receipts \cup {NoReceipt}, WalkIn(h, a, p, r)
        PROVE  Goal
    <2>1. QuietStep
      BY <1>3 DEF WalkIn, QuietStep
    <2>2. req \in [Handlers -> Request]
      BY DEF CInv, TypeOK
    <2>3. SealsAsked
      BY <1>3, <2>2 DEF WalkIn, SealsAsked
    <2>4. QED
      BY <1>0, <2>1, <2>3
  <1>4. ASSUME NEW h \in Handlers, Insert(h) \/ SaveEdit(h)
        PROVE  Goal
    <2>1. /\ Finish(h) /\ owner' = owner /\ archived' = archived /\ req[h].pc # "idle"
          /\ \/ reg' = reg
             \/ /\ reg' = [reg EXCEPT ![req[h].app] = req[h].row]
                /\ req[h].job \in {"submit", "edit"}
                /\ req[h].job = "edit" => reg[req[h].app].status = "pending"
      BY <1>4 DEF Insert, SaveEdit, At
    <2>2. QuietStep
      BY <2>1, UnderWay DEF QuietStep, RequestSound, Held, Inserting, Undecided, Absent, NewRow
    <2>3. QED
      BY <1>0, <2>1, <2>2, RequestsChange
  <1>5. ASSUME NEW h \in Handlers, LockUpload(h) \/ LockDecision(h)
        PROVE  Goal
    <2>1. QuietStep
      BY <1>5 DEF LockUpload, LockDecision, QuietStep
    <2>2. QED
      BY <1>0, <1>5, <2>1, RequestsChange DEF LockUpload, LockDecision
  <1>6. ASSUME NEW h \in Handlers, SealReceipt(h)
        PROVE  Goal
    <2>1. QuietStep /\ reg' = reg
      BY <1>6 DEF SealReceipt, QuietStep
    <2>2. CASE Finish(h)
      BY <1>0, <2>1, <2>2, RequestsChange
    <2>3. CASE /\ Unused(req[h].app, req[h].row.receipt)
               /\ req' = [req EXCEPT ![h].pc = "sealed"]
      <3>1. \A g \in Handlers : /\ g # h => req'[g] = req[g]
                                /\ req'[g].app = req[g].app /\ req'[g].row = req[g].row
                                /\ req'[g].job = req[g].job
        BY <2>3 DEF CInv, TypeOK, Request
      <3>2. QED
        BY <1>0, <2>1, <2>3, <3>1 DEF SealsAsked
    <2>4. QED
      BY <1>6, <2>2, <2>3 DEF SealReceipt
  <1>7. ASSUME NEW h \in Handlers, RecordReceipt(h)
        PROVE  Goal
    <2>1. /\ Finish(h) /\ owner' = owner /\ archived' = archived
          /\ req[h].job = "pay" /\ req[h].pc = "sealed"
      BY <1>7 DEF RecordReceipt, At
    <2>2. /\ reg \in [Apps -> Row] /\ req[h].app \in Apps
          /\ reg[req[h].app].status = "pending"
      BY <2>1, UnderWay DEF Held, Locking, Inserting
    <2>3. \A a \in Apps : reg'[a] = reg[a] \/ (a = req[h].app /\ reg'[a].status = reg[a].status)
      BY <1>7, <2>2 DEF RecordReceipt, Row
    <2>4. QuietStep
      BY <2>1, <2>2, <2>3 DEF QuietStep, Undecided
    <2>5. QED
      BY <1>0, <2>1, <2>4, RequestsChange
  <1>8. ASSUME NEW h \in Handlers, Grant(h)
        PROVE  Goal
    <2>1. Finish(h) /\ (QuietStep \/ GrantStep(h))
      BY <1>8 DEF Grant, GrantStep, QuietStep
    <2>2. QED
      BY <2>1, RequestsChange DEF Moves
  <1>9. ASSUME NEW h \in Handlers, SaveRejection(h)
         PROVE  Goal
    <2>1. Finish(h) /\ RejectStep(h)
      BY <1>9 DEF SaveRejection, At, RejectStep
    <2>2. QED
      BY <2>1, RequestsChange DEF Moves
  <1>10. ASSUME NEW h \in Handlers, Abort(h)
         PROVE  Goal
    BY <1>0, <1>10, RequestsChange DEF Abort, QuietStep
  <1>11. CASE Sweep \/ \E a \in Apps : OpenDeadLink(a)
    <2>1. owner' = owner /\ archived' = archived /\ UNCHANGED req
      BY <1>11 DEF Sweep, OpenDeadLink
    <2>2. QuietStep
      BY <1>11, <2>1 DEF Sweep, OpenDeadLink, Swept, QuietStep, Undecided, Overdue, CInv,
         TypeOK, Row
    <2>3. QED
      BY <1>0, <2>1, <2>2 DEF SealsAsked
  <1>12. CASE UNCHANGED vars \/ \E a \in Apps : DeadlinePasses(a)
    BY <1>0, <1>12 DEF vars, DeadlinePasses, QuietStep, SealsAsked
  <1>13. ASSUME NEW S \in SUBSET Apps, Archive(S)
         PROVE  Goal
    BY <1>13 DEF Archive, SealsAsked, Moves, ArchiveStep
  <1>14. QED
    BY <1>1, <1>2, <1>3, <1>4, <1>5, <1>6, <1>7, <1>8, <1>9, <1>10, <1>11, <1>12, <1>13
       DEF Next, Arrival, Step, Exhausted

-----------------------------------------------------------------------------
(***************************************************************************)
(* Decisions, passes and payments of decided applications.                 *)
(***************************************************************************)
AcceptedRow(a) == reg[a].status = "accepted"

ClosedRow(a) == reg[a].status \in {"rejected", "expired"}

(* Where a rejection is saved, and what an archived account does to rows.  *)
LEMMA Rejecting ==
  ASSUME CInv, NEW h \in Handlers, RejectStep(h)
  PROVE  /\ req[h].app \in Apps /\ req[h].row.status = "rejected"
         /\ \A a \in Apps : reg'[a] = IF a = req[h].app THEN req[h].row ELSE reg[a]
         /\ SavedWhole(req[h].app, {"reject"})
  BY UnderWay DEF RejectStep, RequestSound, SavedWhole

LEMMA Archiving ==
  ASSUME CInv, NEW S \in SUBSET Apps, Archive(S), NEW a \in Apps
  PROVE  /\ a \in S => /\ Active(reg[a]) /\ a \in archived'
                       /\ reg'[a].status = "expired"
         /\ a \notin S => reg'[a] = reg[a]
         /\ archived \subseteq archived'
  BY DEF Archive, CInv, TypeOK, Row

(* What is known of a request that grants its pass. *)
LEMMA Granting ==
  ASSUME CInv, NEW h \in Handlers, GrantStep(h)
  PROVE  /\ req[h].app \in Apps /\ req[h].row \in Row /\ req[h].row.plate \in Plates
         /\ req[h].row.status = "accepted"
         /\ Undecided(reg[req[h].app])
         /\ \A a \in Apps : reg'[a] = IF a = req[h].app THEN req[h].row ELSE reg[a]
         /\ \A p \in Plates : owner'[p] = IF p = req[h].row.plate THEN req[h].app ELSE owner[p]
         /\ \A g \in Handlers : req'[g] = IF g = h THEN Idle ELSE req[g]
  <1>1. req[h].job \in {"accept", "walkin"} /\ req[h].pc = "sealed" /\ Finish(h)
    BY DEF GrantStep
  <1>2. /\ req[h].app \in Apps /\ req[h].row \in Row /\ RequestSound(req[h])
        /\ RowSound(req[h].row) /\ Held(req[h], reg)
        /\ reg \in [Apps -> Row] /\ owner \in [Plates -> Apps \cup {Nobody}]
        /\ req \in [Handlers -> Request]
    BY <1>1, UnderWay DEF CInv, TypeOK
  <1>3. req[h].row.status = "accepted" /\ req[h].row.plate \in Plates
    BY <1>1, <1>2 DEF RequestSound, RowSound
  <1>4. Undecided(reg[req[h].app])
    BY <1>1, <1>2 DEF Held, Inserting, Locking, Undecided, Absent, NewRow
  <1>5. /\ \A a \in Apps : reg'[a] = IF a = req[h].app THEN req[h].row ELSE reg[a]
        /\ \A p \in Plates : owner'[p] = IF p = req[h].row.plate THEN req[h].app ELSE owner[p]
    BY <1>2, <1>3 DEF GrantStep
  <1>6. \A g \in Handlers : req'[g] = IF g = h THEN Idle ELSE req[g]
    BY <1>1, <1>2 DEF Finish
  <1>7. QED
    BY <1>2, <1>3, <1>4, <1>5, <1>6

(* However an upload and the sweep race, nobody who has paid expires,      *)
(* except with the account.                                                *)
THEOREM PaidStays == Spec => []PaidNeverExpired
  <1>1. Init => PaidNeverExpired
    BY DEF Init, PaidNeverExpired, Absent, NewRow
  <1>2. ASSUME CInv, PaidNeverExpired, [Next]_vars PROVE PaidNeverExpired'
    <2> SUFFICES ASSUME NEW a \in Apps, a \notin archived', reg'[a].status = "expired"
                 PROVE  reg'[a].pay = "unpaid"
      BY DEF PaidNeverExpired
    <2>1. reg'[a] = reg[a] /\ a \notin archived => reg'[a].pay = "unpaid"
      BY <1>2 DEF PaidNeverExpired
    <2>2. CASE QuietStep
      BY <2>1, <2>2 DEF QuietStep
    <2>3. ASSUME NEW h \in Handlers, GrantStep(h) PROVE reg'[a].pay = "unpaid"
      BY <1>2, <2>1, <2>3, Granting DEF GrantStep
    <2>4. ASSUME NEW h \in Handlers, RejectStep(h) PROVE reg'[a].pay = "unpaid"
      BY <1>2, <2>1, <2>4, Rejecting DEF RejectStep
    <2>5. CASE ArchiveStep
      BY <1>2, <2>1, <2>5, Archiving DEF ArchiveStep
    <2> QED BY <1>2, <2>2, <2>3, <2>4, <2>5, Effects DEF Moves
  <1>3. QED
    BY <1>1, <1>2, InitCInv, NextKeepsCInv, PTL DEF Spec

(* No interleaving undoes a decision, but for the two steps the property   *)
(* names: a rejection saved late, and the end of the account.              *)
THEOREM DecisionsStand == Spec => DecisionFinal
  <1> DEFINE Stands == \A a \in Apps : reg[a].status \notin {"absent", "pending"} =>
               \/ reg'[a].status = reg[a].status
               \/ reg[a].status = "accepted" /\ reg'[a].status = "expired" /\ a \in archived'
               \/ SavedWhole(a, {"reject"})
  <1>1. ASSUME CInv, [Next]_vars PROVE Stands
    <2> SUFFICES ASSUME NEW a \in Apps, ~Undecided(reg[a])
                 PROVE  \/ reg'[a].status = reg[a].status
                        \/ /\ reg[a].status = "accepted" /\ reg'[a].status = "expired"
                           /\ a \in archived'
                        \/ SavedWhole(a, {"reject"})
      BY DEF Undecided
    <2>1. CASE QuietStep
      BY <2>1 DEF QuietStep
    <2>2. ASSUME NEW h \in Handlers, GrantStep(h) PROVE reg'[a] = reg[a]
      BY <1>1, <2>2, Granting
    <2>3. ASSUME NEW h \in Handlers, RejectStep(h)
          PROVE  reg'[a] = reg[a] \/ SavedWhole(a, {"reject"})
      BY <1>1, <2>3, Rejecting
    <2>4. ASSUME NEW S \in SUBSET Apps, Archive(S)
          PROVE  \/ reg'[a] = reg[a]
                 \/ /\ reg[a].status = "accepted" /\ reg'[a].status = "expired"
                    /\ a \in archived'
      BY <1>1, <2>4, Archiving DEF Active, Undecided
    <2> QED BY <1>1, <2>1, <2>2, <2>3, <2>4, Effects DEF Moves, ArchiveStep
  <1>2. CInv /\ [Next]_vars => [Stands]_vars
    BY <1>1
  <1>3. QED
    BY <1>2, InitCInv, NextKeepsCInv, PTL DEF Spec, DecisionFinal

(* No step touches an accepted row, and only a grant makes one. *)
LEMMA QuietRows ==
  ASSUME QuietStep, NEW a \in Apps
  PROVE  /\ AcceptedRow(a) <=> reg'[a].status = "accepted"
         /\ AcceptedRow(a) => reg'[a] = reg[a]
  BY DEF QuietStep, Undecided, AcceptedRow

LEMMA PassesStayBacked ==
  ASSUME CInv, PassBacked,
         QuietStep \/ (\E h \in Handlers : GrantStep(h)) \/ ArchiveStep
  PROVE  PassBacked'
  <1> SUFFICES ASSUME NEW p \in Plates, NEW a \in Apps
               PROVE  owner'[p] = a <=> reg'[a].status = "accepted" /\ reg'[a].plate = p
    BY DEF PassBacked
  <1>1. \A b \in Apps, q \in Plates : owner[q] = b <=> AcceptedRow(b) /\ reg[b].plate = q
    BY DEF PassBacked, AcceptedRow
  <1>2. CASE QuietStep
    BY <1>1, <1>2, QuietRows DEF QuietStep, AcceptedRow
  <1>3. ASSUME NEW h \in Handlers, GrantStep(h)
        PROVE  owner'[p] = a <=> reg'[a].status = "accepted" /\ reg'[a].plate = p
    <2>1. CASE a = req[h].app
      BY <1>1, <1>3, <2>1, Granting DEF Undecided, AcceptedRow
    <2>2. CASE a # req[h].app /\ p = req[h].row.plate
      <3>1. Active(reg[a]) => reg[a].plate # p
        BY <1>3, <2>2 DEF GrantStep, PlateFree
      <3>2. QED
        BY <1>3, <2>2, <3>1, Granting DEF Active
    <2>3. CASE a # req[h].app /\ p # req[h].row.plate
      BY <1>1, <1>3, <2>3, Granting DEF AcceptedRow
    <2>4. QED
      BY <2>1, <2>2, <2>3
  <1>4. ASSUME NEW S \in SUBSET Apps, Archive(S)
        PROVE  owner'[p] = a <=> reg'[a].status = "accepted" /\ reg'[a].plate = p
    <2>1. owner'[p] = IF owner[p] \in S THEN Nobody ELSE owner[p]
      BY <1>4 DEF Archive
    <2>2. CASE a \in S
      BY <1>4, <2>1, <2>2, Archiving, NullsAssumption
    <2>3. CASE a \notin S
      <3>1. reg'[a] = reg[a]
        BY <1>4, <2>3, Archiving
      <3>2. owner'[p] = a <=> owner[p] = a
        BY <2>1, <2>3, NullsAssumption
      <3> QED BY <1>1, <3>1, <3>2 DEF AcceptedRow
    <2> QED BY <2>2, <2>3
  <1>5. QED
    BY <1>2, <1>3, <1>4 DEF ArchiveStep

(* A step keeps passes backed, or saves a rejection. *)
KeepsPasses == PassBacked => PassBacked' \/ \E a \in Apps : SavedWhole(a, {"reject"})

LEMMA StepKeepsPasses ==
  ASSUME CInv, [Next]_vars
  PROVE  KeepsPasses
  <1>1. ASSUME NEW h \in Handlers, RejectStep(h)
        PROVE  \E a \in Apps : SavedWhole(a, {"reject"})
    BY <1>1, Rejecting
  <1> QED BY <1>1, Effects, PassesStayBacked DEF Moves, KeepsPasses

(* Whatever is saved from a stale copy, only a rejection parts what the    *)
(* gate lets in from what the desk accepted.                               *)
THEOREM PassesKept == Spec => PassKept
  <1>1. CInv /\ [Next]_vars => [KeepsPasses]_vars
    BY StepKeepsPasses
  <1>2. QED
    BY <1>1, InitCInv, NextKeepsCInv, PTL DEF Spec, PassKept, KeepsPasses

-----------------------------------------------------------------------------
(***************************************************************************)
(* The register of passes.                                                 *)
(***************************************************************************)
Differ(r, s) == r = NoReceipt \/ s # r

(* Receipts of passes differ, also from those about to become one's. *)
SpentApart ==
  /\ \A a, b \in Apps :
       a # b /\ AcceptedRow(a) /\ AcceptedRow(b) => Differ(reg[a].receipt, reg[b].receipt)
  /\ \A h \in Handlers :
       req[h].job \in {"accept", "walkin"} /\ req[h].pc = "sealed" =>
         \A b \in Apps \ {req[h].app} :
           AcceptedRow(b) => Differ(req[h].row.receipt, reg[b].receipt)

GInv == CInv /\ SpentApart

LEMMA InitGInv == Init => GInv
  <1> SUFFICES ASSUME Init PROVE GInv
    OBVIOUS
  <1>1. SpentApart
    BY DEF Init, Idle, Absent, NewRow, SpentApart, AcceptedRow
  <1>2. QED
    BY <1>1, InitCInv DEF GInv

(* A step that grants nothing closes applications: no pass is altered, and *)
(* one that goes is that of an application that is closed with it.         *)
ClosingStep ==
  \A a \in Apps :
    /\ AcceptedRow(a)' => AcceptedRow(a) /\ reg'[a] = reg[a]
    /\ AcceptedRow(a) => AcceptedRow(a)' \/ ClosedRow(a)'
    /\ ClosedRow(a) => ClosedRow(a)'

LEMMA Closing ==
  ASSUME CInv, QuietStep \/ (\E h \in Handlers : RejectStep(h)) \/ ArchiveStep
  PROVE  ClosingStep
  <1>1. CASE QuietStep
    BY <1>1 DEF QuietStep, Undecided, ClosingStep, AcceptedRow, ClosedRow
  <1>2. ASSUME NEW h \in Handlers, RejectStep(h) PROVE ClosingStep
    BY <1>2, Rejecting DEF ClosingStep, AcceptedRow, ClosedRow
  <1>3. ASSUME NEW S \in SUBSET Apps, Archive(S) PROVE ClosingStep
    BY <1>3, Archiving DEF Active, ClosingStep, AcceptedRow, ClosedRow
  <1> QED BY <1>1, <1>2, <1>3 DEF ArchiveStep

LEMMA ReceiptsStayApart ==
  ASSUME GInv, SealsAsked, ClosingStep \/ \E h \in Handlers : GrantStep(h)
  PROVE  SpentApart'
  <1>1. /\ \A a, b \in Apps :
              a # b /\ AcceptedRow(a) /\ AcceptedRow(b)
                => Differ(reg[a].receipt, reg[b].receipt)
        /\ \A g \in Handlers :
              req[g].job \in {"accept", "walkin"} /\ req[g].pc = "sealed" =>
                \A b \in Apps \ {req[g].app} :
                  AcceptedRow(b) => Differ(req[g].row.receipt, reg[b].receipt)
    BY DEF GInv, SpentApart
  <1>2. CASE ClosingStep
    <2>1. \A a \in Apps : reg'[a].status = "accepted" => AcceptedRow(a) /\ reg'[a] = reg[a]
      BY <1>2 DEF ClosingStep, AcceptedRow
    <2>2. ASSUME NEW g \in Handlers,
                 req'[g].job \in {"accept", "walkin"}, req'[g].pc = "sealed",
                 NEW b \in Apps \ {req'[g].app}, AcceptedRow(b)'
          PROVE  Differ(req'[g].row.receipt, reg'[b].receipt)
      <3>1. CASE req'[g] = req[g]
        BY <1>1, <2>1, <2>2, <3>1 DEF AcceptedRow
      <3>2. CASE reg' = reg /\ Unused(req'[g].app, req'[g].row.receipt)
        BY <2>2, <3>2 DEF Unused, Differ
      <3>3. QED
        BY <2>2, <3>1, <3>2 DEF SealsAsked
    <2>3. \A a, b \in Apps :
            a # b /\ AcceptedRow(a)' /\ AcceptedRow(b)'
              => Differ(reg'[a].receipt, reg'[b].receipt)
      BY <1>1, <2>1 DEF AcceptedRow
    <2>4. QED
      BY <2>2, <2>3 DEF SpentApart, Differ
  <1>3. ASSUME NEW h \in Handlers, GrantStep(h) PROVE SpentApart'
    <2> DEFINE c == req[h].app
    <2>1. /\ req[h].job \in {"accept", "walkin"} /\ req[h].pc = "sealed"
          /\ \A a \in Apps : reg'[a] = IF a = c THEN req[h].row ELSE reg[a]
          /\ \A g \in Handlers : req'[g] = IF g = h THEN Idle ELSE req[g]
          /\ Idle.pc # "sealed"
      BY <1>3, Granting DEF GrantStep, Idle, GInv
    <2>2. \A b \in Apps \ {c} : AcceptedRow(b) => Differ(req[h].row.receipt, reg[b].receipt)
      BY <1>1, <2>1
    <2>3. ASSUME NEW a \in Apps, NEW b \in Apps, a # b, AcceptedRow(a)', AcceptedRow(b)'
          PROVE  Differ(reg'[a].receipt, reg'[b].receipt)
      BY <1>1, <2>1, <2>2, <2>3 DEF AcceptedRow, Differ
    <2>4. ASSUME NEW g \in Handlers,
                 req'[g].job \in {"accept", "walkin"}, req'[g].pc = "sealed",
                 NEW b \in Apps \ {req'[g].app}, AcceptedRow(b)'
          PROVE  Differ(req'[g].row.receipt, reg'[b].receipt)
      <3>1. g # h /\ req'[g] = req[g]
        BY <2>1, <2>4
      <3>2. Apart(req[g], req[h])
        BY <3>1 DEF GInv, CInv
      <3>3. QED
        BY <1>1, <2>1, <2>4, <3>1, <3>2 DEF AcceptedRow, Differ, Apart
    <2>5. QED
      BY <2>3, <2>4 DEF SpentApart, Differ
  <1>4. QED
    BY <1>2, <1>3

LEMMA NextKeepsGInv == GInv /\ [Next]_vars => GInv'
  <1> SUFFICES ASSUME GInv, [Next]_vars PROVE GInv'
    OBVIOUS
  <1>1. CInv
    BY DEF GInv
  <1>2. CInv'
    BY <1>1, NextKeepsCInv
  <1>3. SealsAsked /\ (ClosingStep \/ \E h \in Handlers : GrantStep(h))
    BY <1>1, Effects, Closing DEF Moves
  <1>4. QED
    BY <1>2, <1>3, ReceiptsStayApart DEF GInv

(* The desk implements the register of passes: a grant issues one pass,    *)
(* and every other step closes applications, their passes with them, or    *)
(* stutters.  Stale saves, late rejections and the end of accounts are all *)
(* among the steps.                                                        *)
THEOREM ImplementsRegister == Spec => RegisterSpec
  <1> DEFINE Passes == {[app |-> a, plate |-> reg[a].plate, receipt |-> reg[a].receipt] :
                          a \in {b \in Apps : reg[b].status = "accepted"}}
             Closed == {a \in Apps : reg[a].status \in {"rejected", "expired"}}
             Holding == {x.app : x \in Passes}
  <1>1. Init => Register!Init
    <2> SUFFICES ASSUME Init PROVE Register!Init
      OBVIOUS
    <2>1. \A a \in Apps : reg[a].status = "absent"
      BY DEF Init, Absent, NewRow
    <2>2. QED
      BY <2>1 DEF Register!Init
  <1>2. ASSUME GInv, [Next]_vars PROVE [Register!Next]_(Register!vars)
    <2>1. ClosingStep \/ \E h \in Handlers : GrantStep(h)
      BY <1>2, Effects, Closing DEF GInv, Moves
    <2>2. \A a : a \in Holding <=> a \in Apps /\ AcceptedRow(a)
      <3>1. ASSUME NEW x \in Passes
            PROVE  x.app \in Apps /\ AcceptedRow(x.app)
        BY DEF AcceptedRow
      <3>2. ASSUME NEW a \in Apps, AcceptedRow(a)
            PROVE  a \in Holding
        <4> DEFINE x == [app |-> a, plate |-> reg[a].plate, receipt |-> reg[a].receipt]
        <4>1. x \in Passes /\ x.app = a
          BY <3>2 DEF AcceptedRow
        <4> HIDE DEF x, Passes
        <4>2. QED
          BY <4>1
      <3>3. \A a \in Holding : a \in Apps /\ AcceptedRow(a)
        <4> HIDE DEF Passes
        <4>1. QED
          BY <3>1
      <3>4. QED
        BY <3>2, <3>3
    <2>3. CASE ClosingStep
      <3> DEFINE S == Closed' \ Closed
      <3>1. \A a \in Apps : AcceptedRow(a)' <=> AcceptedRow(a) /\ a \notin S
        BY <2>3 DEF ClosingStep, AcceptedRow, ClosedRow
      <3>2. \A a \in Apps : AcceptedRow(a)' => reg'[a] = reg[a]
        BY <2>3 DEF ClosingStep
      <3>3. Passes' = {x \in Passes : x.app \notin S}
        BY <3>1, <3>2 DEF AcceptedRow
      <3>4. Closed' = Closed \cup S
        BY <2>3 DEF ClosingStep, ClosedRow
      <3>5. S \in SUBSET Apps /\ S \cap Closed = {}
        OBVIOUS
      <3>6. PICK T : T = S
        OBVIOUS
      <3>7. Register!Close(T)
        BY <3>3, <3>4, <3>5, <3>6 DEF Register!Close
      <3>8. QED
        BY <3>5, <3>6, <3>7 DEF Register!Next
    <2>4. ASSUME NEW h \in Handlers, GrantStep(h) PROVE Register!Next
      <3> DEFINE a == req[h].app
                 p == req[h].row.plate
                 r == req[h].row.receipt
                 pass == [app |-> a, plate |-> p, receipt |-> r]
      <3>1. /\ a \in Apps /\ p \in Plates /\ r \in Receipts \cup {NoReceipt}
            /\ req[h].row.status = "accepted" /\ Undecided(reg[a])
            /\ \A b \in Apps : reg'[b] = IF b = a THEN req[h].row ELSE reg[b]
        BY <1>2, <2>4, Granting DEF Row, GInv
      <3>2. a \notin Holding \cup Closed
        BY <2>2, <3>1 DEF Undecided, AcceptedRow
      <3>3. ASSUME NEW b \in Apps, AcceptedRow(b)
            PROVE  reg[b].plate # p /\ Differ(r, reg[b].receipt)
        <4>1. b # a
          BY <3>1, <3>3 DEF Undecided, AcceptedRow
        <4>2. Active(reg[b]) => reg[b].plate # p
          BY <2>4, <4>1 DEF GrantStep, PlateFree
        <4>3. Differ(r, reg[b].receipt)
          BY <1>2, <2>4, <3>3, <4>1 DEF GInv, SpentApart, GrantStep
        <4>4. QED
          BY <3>3, <4>2, <4>3 DEF Active, AcceptedRow
      <3>4. \A x \in Passes : x.plate # p /\ (r = NoReceipt \/ x.receipt # r)
        BY <3>3 DEF AcceptedRow, Differ
      <3>5. Passes' = Passes \cup {pass}
        <4>1. {b \in Apps : reg'[b].status = "accepted"}
                = {b \in Apps : AcceptedRow(b)} \cup {a}
          BY <3>1 DEF AcceptedRow
        <4>2. ~AcceptedRow(a)
          BY <3>1 DEF Undecided, AcceptedRow
        <4>3. QED
          BY <3>1, <4>1, <4>2 DEF AcceptedRow
      <3>6. Closed' = Closed
        BY <3>1 DEF Undecided
      <3>7. PICK A, P, R : A = a /\ P = p /\ R = r
        OBVIOUS
      <3>8. Register!Issue(A, P, R)
        BY <3>2, <3>4, <3>5, <3>6, <3>7 DEF Register!Issue, Register!Holders
      <3>9. QED
        BY <3>1, <3>7, <3>8 DEF Register!Next
    <2>5. QED
      BY <2>1, <2>3, <2>4
  <1>3. GInv /\ [Next]_vars => GInv'
    BY NextKeepsGInv
  <1>4. QED
    BY <1>1, <1>2, <1>3, InitGInv, PTL DEF Spec, RegisterSpec, Register!Spec

-----------------------------------------------------------------------------
(***************************************************************************)
(* Official Receipts, when every writer of one takes its lock: neither     *)
(* rejections nor the applicant's corrections, which save stale copies.    *)
(***************************************************************************)
Stale(job) == job \in {"edit", "reject"}

NoStale == \A h \in Handlers : ~Stale(req[h].job)

(* Whoever holds the lock of a receipt is the only one to use it. *)
SealedUnused ==
  \A h \in Handlers : req[h].pc = "sealed" => Unused(req[h].app, req[h].row.receipt)

LInv == CInv /\ NoStale /\ SealedUnused /\ ReceiptUsedOnce

(* Receipts disappear or stay, or the one a request has sealed is written. *)
ReceiptsStay == \A a \in Apps : reg'[a].receipt \in {reg[a].receipt, NoReceipt}

SpendStep(h) ==
  /\ req[h].pc = "sealed" /\ req[h].app \in Apps /\ Finish(h)
  /\ \A a \in Apps :
       reg'[a].receipt = IF a = req[h].app THEN req[h].row.receipt ELSE reg[a].receipt

LEMMA InitLInv == Init => LInv
  <1> SUFFICES ASSUME Init PROVE LInv
    OBVIOUS
  <1>1. NoStale /\ SealedUnused /\ ReceiptUsedOnce
    BY DEF Init, Idle, Absent, NewRow, NoStale, Stale, SealedUnused, ReceiptUsedOnce
  <1>2. QED
    BY <1>1, InitCInv DEF LInv

(* Which jobs a step leaves running. *)
LEMMA JobsStayLocking ==
  ASSUME CInv, Jobs \subseteq LockingJobs, NoStale, [Next]_vars
  PROVE  NoStale'
  <1>1. req \in [Handlers -> Request] /\ ~Stale("none")
    BY DEF CInv, TypeOK, Stale
  <1>2. ASSUME NEW h \in Handlers, NEW r \in Request, req' = [req EXCEPT ![h] = r],
               ~Stale(r.job)
        PROVE  NoStale'
    BY <1>1, <1>2 DEF NoStale
  <1>3. ASSUME NEW h \in Handlers, Finish(h) PROVE NoStale'
    BY <1>1, <1>3 DEF Finish, Idle, NoStale
  <1>4. ASSUME NEW h \in Handlers, NEW job \in Jobs, NEW a, NEW row, Begin(h, job, a, row)
        PROVE  NoStale'
    BY <1>1, <1>4 DEF Begin, NoStale, Stale, LockingJobs
  <1>5. ASSUME NEW h \in Handlers, NEW pc, req' = [req EXCEPT ![h].pc = pc]
        PROVE  NoStale'
    BY <1>1, <1>5 DEF NoStale, Request
  <1>6. CASE UNCHANGED req
    BY <1>6 DEF NoStale
  <1>7. ASSUME NEW h \in Handlers, Arrival(h) PROVE NoStale'
    <2>1. ASSUME NEW a \in Apps, NEW p \in Plates, NEW r \in Receipts \cup {NoReceipt},
                 WalkIn(h, a, p, r)
          PROVE  NoStale'
      BY <1>1, <2>1 DEF WalkIn, NoStale, Stale
    <2>2. QED
      BY <1>4, <1>6, <1>7, <2>1 DEF Arrival, Submit, SelfEdit, FileReceipt, Accept, Reject, Start
  <1>8. ASSUME NEW h \in Handlers, Step(h) \/ Abort(h) PROVE NoStale'
    BY <1>3, <1>5, <1>8 DEF Step, Abort, Insert, LockUpload, SealReceipt, RecordReceipt,
       SaveEdit, LockDecision, Grant, SaveRejection
  <1>9. QED
    BY <1>6, <1>7, <1>8 DEF Next, Exhausted, OpenDeadLink, DeadlinePasses, Sweep, Archive, vars

(* How a step changes the receipts on file. *)
LEMMA ReceiptsChange ==
  ASSUME CInv, NoStale, Jobs \subseteq LockingJobs, [Next]_vars
  PROVE  ReceiptsStay \/ \E h \in Handlers : SpendStep(h)
  <1>1. reg \in [Apps -> Row]
    BY DEF CInv, TypeOK
  <1>2. ASSUME ExpiresOnly PROVE ReceiptsStay
    BY <1>1, <1>2 DEF ExpiresOnly, ReceiptsStay, Row
  <1>3. ASSUME reg' = reg PROVE ReceiptsStay
    BY <1>3 DEF ReceiptsStay
  <1>4. ASSUME NEW h \in Handlers, Arrival(h) PROVE ReceiptsStay
    <2>1. reg' = reg \/ reg' = Swept
      BY <1>4, Zenon DEF Arrival, Submit, SelfEdit, WalkIn, FileReceipt, Accept, Reject
    <2>2. QED
      BY <1>2, <1>3, <2>1, SweptExpires
  <1>5. ASSUME NEW h \in Handlers, Insert(h) PROVE ReceiptsStay
    <2>1. /\ req[h].job = "submit" /\ req[h].pc # "idle"
          /\ reg' = reg \/ reg' = [reg EXCEPT ![req[h].app] = req[h].row]
      BY <1>5 DEF Insert, At
    <2>2. req[h].row.receipt = NoReceipt
      BY <2>1, UnderWay DEF RequestSound
    <2>3. QED
      BY <1>1, <2>1, <2>2 DEF ReceiptsStay
  <1>6. ASSUME NEW h \in Handlers, RecordReceipt(h) PROVE SpendStep(h)
    <2>1. req[h].pc = "sealed" /\ Finish(h)
      BY <1>6 DEF RecordReceipt, At
    <2>2. req[h].app \in Apps
      BY <2>1, UnderWay
    <2>3. \A a \in Apps : reg'[a] =
            IF a = req[h].app THEN [reg[a] EXCEPT !.pay = "paid", !.receipt = req[h].row.receipt]
            ELSE reg[a]
      BY <1>1, <1>6 DEF RecordReceipt
    <2>4. QED
      BY <1>1, <2>1, <2>2, <2>3 DEF SpendStep, Row
  <1>7. ASSUME NEW h \in Handlers, Grant(h) PROVE ReceiptsStay \/ SpendStep(h)
    <2>1. /\ req[h].pc = "sealed" /\ Finish(h)
          /\ reg' = reg \/ reg' = [reg EXCEPT ![req[h].app] = req[h].row]
      BY <1>7 DEF Grant
    <2>2. req[h].app \in Apps
      BY <2>1, UnderWay
    <2>3. QED
      BY <1>1, <1>3, <2>1, <2>2 DEF SpendStep
  <1>8. ASSUME NEW h \in Handlers, SaveEdit(h) \/ SaveRejection(h) PROVE FALSE
    BY <1>8 DEF SaveEdit, SaveRejection, At, NoStale, Stale
  <1>9. ASSUME NEW a \in Apps, OpenDeadLink(a) PROVE ReceiptsStay
    BY <1>1, <1>9 DEF OpenDeadLink, ReceiptsStay, Row
  <1>10. CASE Sweep
    BY <1>2, <1>10, SweptExpires DEF Sweep
  <1>11. ASSUME NEW S \in SUBSET Apps, Archive(S) PROVE ReceiptsStay
    BY <1>1, <1>11 DEF Archive, ReceiptsStay, Row
  <1>12. QED
    BY <1>3, <1>4, <1>5, <1>6, <1>7, <1>8, <1>9, <1>10, <1>11
       DEF Next, Step, LockUpload, SealReceipt, LockDecision, Abort, DeadlinePasses, Exhausted, vars

LEMMA NextKeepsLInv ==
  ASSUME Jobs \subseteq LockingJobs
  PROVE  LInv /\ [Next]_vars => LInv'
  <1> SUFFICES ASSUME LInv, [Next]_vars PROVE LInv'
    OBVIOUS
  <1>1. CInv /\ NoStale /\ SealedUnused /\ ReceiptUsedOnce
    BY DEF LInv
  <1>2. CInv' /\ NoStale'
    BY <1>1, NextKeepsCInv, JobsStayLocking
  <1>3. SealsAsked
    BY <1>1, Effects
  <1>4. CASE ReceiptsStay
    <2>1. ReceiptUsedOnce'
      BY <1>1, <1>4 DEF ReceiptUsedOnce, ReceiptsStay
    <2>2. ASSUME NEW g \in Handlers, req'[g].pc = "sealed"
          PROVE  Unused(req[g].app, req[g].row.receipt)'
      <3>1. Unused(req'[g].app, req'[g].row.receipt)
        BY <1>1, <1>3, <2>2 DEF SealsAsked, SealedUnused
      <3>2. QED
        BY <1>4, <3>1 DEF Unused, ReceiptsStay
    <2>3. QED
      BY <1>2, <2>1, <2>2 DEF LInv, SealedUnused
  <1>5. ASSUME NEW h \in Handlers, SpendStep(h) PROVE LInv'
    <2> DEFINE a == req[h].app
               r == req[h].row.receipt
    <2>1. /\ req[h].pc = "sealed" /\ a \in Apps /\ Unused(a, r)
          /\ \A b \in Apps : reg'[b].receipt = IF b = a THEN r ELSE reg[b].receipt
          /\ \A g \in Handlers : req'[g] = IF g = h THEN Idle ELSE req[g]
      BY <1>1, <1>5 DEF SpendStep, SealedUnused, Finish, CInv, TypeOK
    <2>2. ReceiptUsedOnce'
      BY <1>1, <2>1 DEF ReceiptUsedOnce, Unused
    <2>3. ASSUME NEW g \in Handlers, req'[g].pc = "sealed"
          PROVE  Unused(req[g].app, req[g].row.receipt)'
      <3>1. g # h /\ req'[g] = req[g]
        BY <2>1, <2>3 DEF Idle
      <3>2. Apart(req[g], req[h]) /\ Unused(req[g].app, req[g].row.receipt)
        BY <1>1, <2>3, <3>1 DEF CInv, SealedUnused
      <3>3. req[g].row.receipt = NoReceipt \/ req[g].row.receipt # r
        BY <2>1, <2>3, <3>1, <3>2 DEF Apart
      <3>4. QED
        BY <2>1, <3>1, <3>2, <3>3 DEF Unused
    <2>4. QED
      BY <1>2, <2>2, <2>3 DEF LInv, SealedUnused
  <1>6. QED
    BY <1>1, <1>4, <1>5, ReceiptsChange

(* An Official Receipt is used once, by any number of applications and     *)
(* requests, as long as every writer of a receipt asks under its lock.     *)
THEOREM ReceiptsOnce ==
  ASSUME Jobs \subseteq LockingJobs
  PROVE  Spec => []ReceiptUsedOnce
  <1>1. LInv => ReceiptUsedOnce
    BY DEF LInv
  <1>2. LInv /\ [Next]_vars => LInv'
    BY NextKeepsLInv
  <1>3. QED
    BY <1>1, <1>2, InitLInv, PTL DEF Spec

-----------------------------------------------------------------------------
(***************************************************************************)
(* Payments, whatever the jobs.  Whether a fee is owed never changes once  *)
(* the row is inserted, so what a request loaded of it still holds when    *)
(* the request saves.                                                      *)
(***************************************************************************)
FeeKnown(r, rows) ==
  /\ r.job = "pay" => rows[r.app].pay # "exempt"
  /\ r.job \in {"accept", "edit", "reject"} => (r.row.pay = "exempt" <=> rows[r.app].pay = "exempt")

FeesKnown == \A h \in Handlers : FeeKnown(req[h], reg)

PInv == CInv /\ FeesKnown

(* The row is inserted by the one request that is about it. *)
Inserts(a) == \E h \in Handlers : Inserting(req[h]) /\ req[h].app = a /\ Finish(h)

(* A payment stays as it is or is made, once the row is there, or a stale  *)
(* copy is saved over it, which agrees about the exemption.                *)
PaymentsMove ==
  \A a \in Apps :
    \/ reg'[a].pay = reg[a].pay
    \/ reg[a].pay = "unpaid" /\ reg'[a].pay = "paid"
    \/ Inserts(a)
    \/ /\ SavedWhole(a, {"edit", "reject"})
       /\ reg'[a].pay = "exempt" <=> reg[a].pay = "exempt"

(* A request goes on with what it loaded, or has just loaded it, or has no *)
(* need of it.                                                             *)
GoesOn(r, s) ==
  \/ s.job = r.job /\ s.app = r.app /\ s.row = r.row
  \/ s.job \notin {"pay", "accept", "edit", "reject"}
  \/ reg' = reg /\ FeeKnown(s, reg)

LEMMA OthersGoOn ==
  ASSUME CInv, NEW h \in Handlers
  PROVE  /\ Finish(h) \/ UNCHANGED req => \A g \in Handlers : GoesOn(req[g], req'[g])
         /\ \A pc : req' = [req EXCEPT ![h].pc = pc] =>
              \A g \in Handlers : GoesOn(req[g], req'[g])
         /\ \A r \in Request : req' = [req EXCEPT ![h] = r] /\ GoesOn(req[h], r) =>
              \A g \in Handlers : GoesOn(req[g], req'[g])
  <1>1. req \in [Handlers -> Request]
    BY DEF CInv, TypeOK
  <1>2. Idle.job = "none"
    BY DEF Idle
  <1> QED BY <1>1, <1>2 DEF Finish, GoesOn, Request

LEMMA RequestsGoOn ==
  ASSUME CInv, [Next]_vars, NEW g \in Handlers
  PROVE  GoesOn(req[g], req'[g])
  <1>0. req \in [Handlers -> Request] /\ reg \in [Apps -> Row]
    BY DEF CInv, TypeOK
  <1>1. ASSUME NEW h \in Handlers, NEW a \in Apps,
               \/ \E p \in Plates, pay \in {"unpaid", "exempt"} : Submit(h, a, p, pay)
               \/ \E p \in Plates, r \in Receipts \cup {NoReceipt} : WalkIn(h, a, p, r)
        PROVE  GoesOn(req[g], req'[g])
    <2>1. CASE UNCHANGED req
      BY <2>1, OthersGoOn
    <2>2. CASE ~UNCHANGED req
      <3>1. \A f \in Handlers : f # h => req'[f] = req[f]
        BY <1>0, <1>1, <2>2 DEF Submit, WalkIn, Begin
      <3>2. req'[h].job \notin {"pay", "accept", "edit", "reject"}
        BY <1>0, <1>1, <2>2 DEF Submit, WalkIn, Begin
      <3> QED BY <3>1, <3>2 DEF GoesOn
    <2> QED BY <2>1, <2>2
  <1>2. ASSUME NEW h \in Handlers, NEW a \in Apps, NEW r \in Receipts, FileReceipt(h, a, r)
        PROVE  GoesOn(req[g], req'[g])
    <2> DEFINE new == [job |-> "pay", pc |-> "begun", app |-> a,
                       row |-> [reg[a] EXCEPT !.pay = "paid", !.receipt = r]]
    <2>1. req'[g] = IF g = h THEN new ELSE req[g]
      BY <1>0, <1>2 DEF FileReceipt, Begin
    <2>2. reg' = reg /\ FeeKnown(new, reg)
      BY <1>2 DEF FileReceipt, FeeKnown
    <2> QED BY <2>1, <2>2 DEF GoesOn
  <1>3. ASSUME NEW h \in Handlers, NEW a \in Apps, NEW typed \in Receipts \cup {NoReceipt},
               Accept(h, a, typed)
        PROVE  GoesOn(req[g], req'[g])
    <2> DEFINE row == Granted(a, ReceiptFor(a, typed))
               new == [job |-> "accept", pc |-> "begun", app |-> a, row |-> row]
    <2>1. req'[g] = IF g = h THEN new ELSE req[g]
      BY <1>0, <1>3 DEF Accept, Begin
    <2>2. row.pay = IF reg[a].pay = "exempt" THEN reg[a].pay ELSE "paid"
      BY <1>0 DEF Granted, Row
    <2>3. reg' = reg /\ FeeKnown(new, reg)
      <3>1. reg' = reg
        BY <1>3 DEF Accept
      <3>2. new.app = a /\ new.row = row /\ new.job = "accept"
        OBVIOUS
      <3> HIDE DEF row, new
      <3> QED BY <2>2, <3>1, <3>2 DEF FeeKnown
    <2> QED BY <2>1, <2>3 DEF GoesOn
  <1>4. ASSUME NEW h \in Handlers, NEW a \in Apps, NEW job \in {"edit", "reject"}, NEW row,
               Begin(h, job, a, row), row.pay = reg[a].pay, reg' = reg
        PROVE  GoesOn(req[g], req'[g])
    <2> DEFINE new == [job |-> job, pc |-> "begun", app |-> a, row |-> row]
    <2>1. req'[g] = IF g = h THEN new ELSE req[g]
      BY <1>0, <1>4 DEF Begin
    <2>2. FeeKnown(new, reg)
      BY <1>4 DEF FeeKnown
    <2> QED BY <1>4, <2>1, <2>2 DEF GoesOn
  <1>5. ASSUME NEW h \in Handlers, NEW a \in Apps, NEW p \in Plates, SelfEdit(h, a, p)
        PROVE  GoesOn(req[g], req'[g])
    <2> DEFINE row == [reg[a] EXCEPT !.plate = p]
    <2>1. row.pay = reg[a].pay
      BY <1>0 DEF Row
    <2>2. Begin(h, "edit", a, row) /\ reg' = reg
      BY <1>5 DEF SelfEdit
    <2> QED BY <1>4, <2>1, <2>2
  <1>6. ASSUME NEW h \in Handlers, NEW a \in Apps, Reject(h, a)
        PROVE  GoesOn(req[g], req'[g])
    <2> DEFINE row == [reg[a] EXCEPT !.status = "rejected"]
    <2>1. row.pay = reg[a].pay
      BY <1>0 DEF Row
    <2>2. Begin(h, "reject", a, row) /\ reg' = reg
      BY <1>6 DEF Reject
    <2> QED BY <1>4, <2>1, <2>2
  <1>7. ASSUME NEW h \in Handlers, Step(h) \/ Abort(h)
        PROVE  GoesOn(req[g], req'[g])
    <2>1. Finish(h) \/ \E pc : req' = [req EXCEPT ![h].pc = pc]
      BY <1>7 DEF Step, Abort, Insert, LockUpload, SealReceipt, RecordReceipt, SaveEdit,
                  LockDecision, Grant, SaveRejection
    <2> QED BY <2>1, OthersGoOn
  <1>8. CASE UNCHANGED req
    BY <1>8 DEF GoesOn
  <1> QED
    BY <1>1, <1>2, <1>3, <1>5, <1>6, <1>7, <1>8
    DEF Next, Arrival, Exhausted, OpenDeadLink, DeadlinePasses, Sweep, Archive, vars

LEMMA PaymentsChange ==
  ASSUME PInv, [Next]_vars
  PROVE  PaymentsMove
  <1>1. CInv /\ reg \in [Apps -> Row]
    BY DEF PInv, CInv, TypeOK
  <1>2. ASSUME ExpiresOnly PROVE PaymentsMove
    BY <1>1, <1>2 DEF ExpiresOnly, PaymentsMove, Row
  <1>3. ASSUME reg' = reg PROVE PaymentsMove
    BY <1>3 DEF PaymentsMove
  <1>4. ASSUME NEW h \in Handlers, Arrival(h) PROVE PaymentsMove
    <2>1. reg' = reg \/ reg' = Swept
      BY <1>4, Zenon DEF Arrival, Submit, SelfEdit, WalkIn, FileReceipt, Accept, Reject
    <2>2. QED
      BY <1>1, <1>2, <1>3, <2>1, SweptExpires
  <1>5. ASSUME NEW h \in Handlers, Inserting(req[h]), Insert(h) \/ Grant(h)
        PROVE  PaymentsMove
    <2>1. Finish(h) /\ (reg' = reg \/ reg' = [reg EXCEPT ![req[h].app] = req[h].row])
      BY <1>5 DEF Insert, Grant
    <2>2. \A a \in Apps : a # req[h].app => reg'[a] = reg[a]
      BY <1>1, <2>1
    <2>3. Inserts(req[h].app)
      BY <1>5, <2>1 DEF Inserts
    <2> QED BY <2>2, <2>3 DEF PaymentsMove
  <1>6. ASSUME NEW h \in Handlers, RecordReceipt(h) PROVE PaymentsMove
    <2>1. req[h].job = "pay" /\ req[h].pc # "idle"
      BY <1>6 DEF RecordReceipt, At
    <2>2. req[h].app \in Apps /\ reg[req[h].app].pay \in {"unpaid", "paid"}
      BY <1>1, <2>1, UnderWay DEF PInv, FeesKnown, FeeKnown, Row
    <2>3. \A a \in Apps : reg'[a] =
            IF a = req[h].app THEN [reg[a] EXCEPT !.pay = "paid", !.receipt = req[h].row.receipt]
            ELSE reg[a]
      BY <1>1, <1>6 DEF RecordReceipt
    <2> QED BY <1>1, <2>2, <2>3 DEF PaymentsMove, Row
  <1>7. ASSUME NEW h \in Handlers, req[h].job = "accept", Grant(h) PROVE PaymentsMove
    <2>1. /\ req[h].pc # "idle" /\ (reg' = reg \/ reg' = [reg EXCEPT ![req[h].app] = req[h].row])
      BY <1>7 DEF Grant
    <2>2. /\ req[h].app \in Apps /\ RequestSound(req[h]) /\ RowSound(req[h].row)
      BY <1>1, <2>1, UnderWay DEF RequestSound
    <2>3. /\ req[h].row.pay \in {"exempt", "paid"}
          /\ req[h].row.pay = "exempt" <=> reg[req[h].app].pay = "exempt"
      <3>1. req[h].row.status = "accepted" /\ req[h].row \in Row
        BY <1>1, <1>7, <2>2 DEF RequestSound, CInv, TypeOK, Request
      <3> QED BY <1>7, <2>2, <3>1 DEF RowSound, Row, PInv, FeesKnown, FeeKnown
    <2>4. reg[req[h].app].pay \in {"unpaid", "paid", "exempt"}
      BY <1>1, <2>2 DEF Row
    <2>5. \A a \in Apps : reg'[a] = reg[a] \/ (a = req[h].app /\ reg'[a] = req[h].row)
      BY <1>1, <2>1
    <2> QED BY <2>3, <2>4, <2>5 DEF PaymentsMove
  <1>8. ASSUME NEW h \in Handlers, SaveEdit(h) \/ SaveRejection(h) PROVE PaymentsMove
    <2>1. /\ req[h].pc # "idle" /\ req[h].job \in {"edit", "reject"}
          /\ reg' = reg \/ reg' = [reg EXCEPT ![req[h].app] = req[h].row]
      BY <1>8 DEF SaveEdit, SaveRejection, At
    <2>2. CASE reg' = reg
      BY <1>3, <2>2
    <2>3. CASE reg' = [reg EXCEPT ![req[h].app] = req[h].row]
      <3>1. /\ req[h].app \in Apps
            /\ req[h].row.pay = "exempt" <=> reg[req[h].app].pay = "exempt"
        BY <1>1, <2>1, UnderWay DEF PInv, FeesKnown, FeeKnown
      <3>2. SavedWhole(req[h].app, {"edit", "reject"})
        BY <2>1, <2>3 DEF SavedWhole
      <3>3. \A a \in Apps : reg'[a] = IF a = req[h].app THEN req[h].row ELSE reg[a]
        BY <1>1, <2>3
      <3> QED BY <3>1, <3>2, <3>3 DEF PaymentsMove
    <2> QED BY <2>1, <2>2, <2>3
  <1>9. ASSUME NEW a \in Apps, OpenDeadLink(a) PROVE PaymentsMove
    BY <1>1, <1>9 DEF OpenDeadLink, PaymentsMove, Row
  <1>10. CASE Sweep
    BY <1>1, <1>2, <1>10, SweptExpires DEF Sweep
  <1>11. ASSUME NEW h \in Handlers, Insert(h) \/ Grant(h)
         PROVE  Inserting(req[h]) \/ (req[h].job = "accept" /\ Grant(h))
    BY <1>11 DEF Insert, Grant, At, Inserting
  <1>12. ASSUME NEW h \in Handlers, Step(h) \/ Abort(h) PROVE PaymentsMove
    <2>1. CASE Insert(h) \/ Grant(h)
      <3>1. CASE Inserting(req[h])
        BY <1>5, <2>1, <3>1
      <3>2. CASE req[h].job = "accept" /\ Grant(h)
        BY <1>7, <3>2
      <3> QED BY <1>11, <2>1, <3>1, <3>2
    <2>2. CASE ~(Insert(h) \/ Grant(h))
      BY <1>3, <1>6, <1>8, <1>12, <2>2 DEF Step, LockUpload, SealReceipt, LockDecision, Abort
    <2> QED BY <2>1, <2>2
  <1>13. ASSUME NEW S \in SUBSET Apps, Archive(S) PROVE PaymentsMove
    BY <1>1, <1>13 DEF Archive, PaymentsMove, Row
  <1> QED
    BY <1>3, <1>4, <1>9, <1>10, <1>12, <1>13 DEF Next, DeadlinePasses, Exhausted, vars

LEMMA InsertedAlone ==
  ASSUME CInv, NEW a \in Apps, Inserts(a)
  PROVE  /\ reg[a] = Absent
         /\ \A g \in Handlers : req[g].app = a => req'[g] = Idle
  <1>1. PICK h \in Handlers : Inserting(req[h]) /\ req[h].app = a /\ Finish(h)
    BY DEF Inserts
  <1>2. reg[a] = Absent /\ req'[h] = Idle
    BY <1>1 DEF CInv, Held, Finish, TypeOK
  <1>3. \A g \in Handlers : g # h => req[g].app # a
    BY <1>1 DEF CInv, Apart
  <1> QED BY <1>2, <1>3

LEMMA NextKeepsPInv ==
  ASSUME PInv, [Next]_vars
  PROVE  PInv'
  <1>1. CInv'
    BY NextKeepsCInv DEF PInv
  <1>2. PaymentsMove /\ CInv
    BY PaymentsChange DEF PInv
  <1>3. ASSUME NEW g \in Handlers, req'[g].job \in {"pay", "accept", "edit", "reject"}
        PROVE  FeeKnown(req'[g], reg')
    <2>1. CASE reg' = reg /\ FeeKnown(req'[g], reg)
      BY <2>1
    <2>2. CASE req'[g].job = req[g].job /\ req'[g].app = req[g].app /\ req'[g].row = req[g].row
      <3>1. FeeKnown(req[g], reg) /\ req[g].app \in Apps
        BY <1>2, <1>3, <2>2 DEF PInv, FeesKnown, CInv, RequestSound
      <3>2. ~Inserts(req[g].app)
        BY <1>2, <1>3, <3>1, InsertedAlone DEF Idle
      <3>3. reg'[req[g].app].pay = "exempt" <=> reg[req[g].app].pay = "exempt"
        BY <1>2, <3>1, <3>2 DEF PaymentsMove
      <3> QED BY <2>2, <3>1, <3>3 DEF FeeKnown
    <2> QED BY <1>2, <1>3, <2>1, <2>2, RequestsGoOn DEF GoesOn
  <1>4. FeesKnown'
    BY <1>3 DEF FeesKnown, FeeKnown
  <1> QED BY <1>1, <1>4 DEF PInv

(* Once a row says paid, nothing makes it say anything else but the two    *)
(* saves the property names: the stale copies of uploads and acceptances   *)
(* agree with the row about the fee, whatever else is under way.           *)
THEOREM PaymentsStand == Spec => PaymentKept
  <1> DEFINE Kept == \A a \in Apps : reg[a].pay = "paid" =>
                       reg'[a].pay = "paid" \/ SavedWhole(a, {"edit", "reject"})
  <1>1. Init => PInv
    <2> SUFFICES ASSUME Init PROVE PInv
      OBVIOUS
    <2>1. FeesKnown
      BY DEF Init, Idle, FeesKnown, FeeKnown
    <2> QED BY <2>1, InitCInv DEF PInv
  <1>2. PInv /\ [Next]_vars => PInv'
    BY NextKeepsPInv
  <1>3. ASSUME PInv, [Next]_vars PROVE Kept
    <2> SUFFICES ASSUME NEW a \in Apps, reg[a].pay = "paid"
                 PROVE  reg'[a].pay = "paid" \/ SavedWhole(a, {"edit", "reject"})
      OBVIOUS
    <2>1. PaymentsMove /\ CInv
      BY <1>3, PaymentsChange DEF PInv
    <2>2. ~Inserts(a)
      BY <2>1, InsertedAlone DEF Absent, NewRow
    <2> QED BY <2>1, <2>2 DEF PaymentsMove
  <1>4. PInv /\ [Next]_vars => [Kept]_vars
    BY <1>3
  <1>5. QED
    BY <1>1, <1>2, <1>4, PTL DEF Spec, PaymentKept

=============================================================================
