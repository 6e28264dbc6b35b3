---------------------------- MODULE ChangeProofs ----------------------------
(***************************************************************************)
(* Proofs about ChangeRequests, for every set of applications, plates,     *)
(* owners, officers and concurrent requests of the desk.                   *)
(***************************************************************************)
EXTENDS ChangeRequests, RegistrationProofs, SequenceTheorems

(* Change requests are about applications that were accepted once, which   *)
(* are never open again, and so in nobody's hands.                         *)
Closable(a) == reg[a].status \notin {"absent", "pending"}

(* What a clerk knows while it holds m.                                    *)
Knowing(c, m) ==
  /\ m.job \in {"file", "approve"} =>
       m.app \in Apps /\ m.plate \in Plates /\ Closable(m.app)
  /\ m.job \in {"cancel", "decline", "close", "approve"} => m.ask \in 1..Len(asks)
  /\ m.job = "approve" => c \in Officers /\ m.row \in Row /\ RowSound(m.row)
                            /\ m.plate # m.row.plate
                            /\ m.row.status \notin {"absent", "pending"}

AskedOfDecided == \A i \in 1..Len(asks) : Closable(asks[i].app)

SwapInv ==
  /\ CInv /\ ChangesTypeOK /\ AskedOfDecided
  /\ \A c \in Clerks : Knowing(c, act[c])

-----------------------------------------------------------------------------
(* What no step may undo. *)
DecidedKept == \A a \in Apps : Closable(a) => Closable(a)'

AsksKept ==
  /\ Len(asks) <= Len(asks')
  /\ \A i \in 1..Len(asks) : asks'[i].app = asks[i].app /\ asks'[i].plate = asks[i].plate

LEMMA AskTyped ==
  ASSUME ChangesTypeOK, NEW i \in 1..Len(asks)
  PROVE  asks[i] \in Ask /\ asks[i].app \in Apps /\ asks[i].plate \in Plates
<1>1. asks[i] \in Ask
  BY ElementOfSeq DEF ChangesTypeOK
<1> QED
  BY <1>1 DEF Ask

(* What a clerk knows outlives the steps of others. *)
LEMMA KnowingKept ==
  ASSUME SwapInv, AsksKept, DecidedKept, Len(asks') \in Nat, NEW c, NEW m, Knowing(c, m)
  PROVE  Knowing(c, m)'
<1>1. Len(asks) \in Nat
  BY DEF SwapInv, ChangesTypeOK
<1>2. m.ask \in 1..Len(asks) => m.ask \in 1..Len(asks')
  BY <1>1 DEF AsksKept
<1> QED
  BY <1>2 DEF Knowing, DecidedKept

(* The desk never opens an application again. *)
LEMMA DeskDecides ==
  ASSUME CInv, [Next]_vars
  PROVE  DecidedKept
<1> SUFFICES ASSUME NEW a \in Apps, Closable(a) PROVE Closable(a)'
  BY DEF DecidedKept
<1>1. CASE QuietStep
  BY <1>1 DEF QuietStep, Undecided, Closable
<1>2. ASSUME NEW h \in Handlers, GrantStep(h) PROVE Closable(a)'
  BY <1>2, Granting DEF Closable
<1>3. ASSUME NEW h \in Handlers, RejectStep(h) PROVE Closable(a)'
  BY <1>3, Rejecting DEF Closable
<1>4. ASSUME NEW S \in SUBSET Apps, Archive(S) PROVE Closable(a)'
  BY <1>4, Archiving DEF Closable
<1> QED
  BY <1>1, <1>2, <1>3, <1>4, Effects DEF Moves, ArchiveStep

LEMMA DeskKeeps ==
  ASSUME SwapInv, [Next]_vars, UNCHANGED <<asks, act>>
  PROVE  SwapInv'
<1>1. CInv /\ CInv' /\ DecidedKept
  BY NextKeepsCInv, DeskDecides DEF SwapInv
<1>2. AsksKept /\ Len(asks') \in Nat
  BY DEF AsksKept, SwapInv, ChangesTypeOK
<1>3. ASSUME NEW c \in Clerks PROVE Knowing(c, act[c])'
  <2>1. Knowing(c, act[c])
    BY DEF SwapInv
  <2>2. \A m : Knowing(c, m) => Knowing(c, m)'
    BY <1>1, <1>2, KnowingKept
  <2> QED
    BY <2>1, <2>2 DEF Knowing
<1>4. AskedOfDecided'
  BY <1>1, AskTyped DEF SwapInv, AskedOfDecided, DecidedKept, Closable
<1> QED
  BY <1>1, <1>3, <1>4 DEF SwapInv, ChangesTypeOK

-----------------------------------------------------------------------------
(* A clerk goes from what it holds to m; decisions and requests stand. *)
Turns(c, m) == act' = [act EXCEPT ![c] = m]

LEMMA ClerkMoves ==
  ASSUME SwapInv, CInv', DecidedKept, AsksKept, asks' \in Seq(Ask), AskedOfDecided',
         NEW c \in Clerks, NEW m \in Act, Turns(c, m), Knowing(c, m)'
  PROVE  SwapInv'
<1>1. act' \in [Clerks -> Act] /\ \A d \in Clerks : act'[d] = IF d = c THEN m ELSE act[d]
  BY DEF SwapInv, ChangesTypeOK, Turns
<1>2. ASSUME NEW d \in Clerks PROVE Knowing(d, act[d])'
  <2>1. CASE d = c
    BY <1>1, <2>1 DEF Knowing
  <2>2. CASE d # c
    <3>1. Knowing(d, act[d]) /\ Len(asks') \in Nat
      BY DEF SwapInv
    <3>2. \A n : Knowing(d, n) => Knowing(d, n)'
      BY <3>1, KnowingKept
    <3> QED
      BY <1>1, <2>2, <3>1, <3>2 DEF Knowing
  <2> QED
    BY <2>1, <2>2
<1> QED
  BY <1>1, <1>2 DEF SwapInv, ChangesTypeOK

(* Nothing to do, nothing to know. *)
LEMMA NoActKnows ==
  NoAct \in Act /\ \A c : Knowing(c, NoAct) /\ Knowing(c, NoAct)'
<1>1. NoAct \in Act
  BY DEF NoAct, Act, Absent, NewRow, Row, Statuses
<1> QED
  BY <1>1 DEF NoAct, Knowing

(* A clerk that leaves the desk and the requests alone. *)
LEMMA ClerkOnly ==
  ASSUME SwapInv, UNCHANGED <<desk, asks>>, NEW c \in Clerks, NEW m \in Act,
         Turns(c, m), Knowing(c, m)
  PROVE  SwapInv'
<1>1. UNCHANGED vars /\ CInv'
  BY NextKeepsCInv DEF desk, vars, SwapInv
<1>2. DecidedKept /\ AsksKept /\ asks' \in Seq(Ask)
  BY <1>1 DEF DecidedKept, AsksKept, SwapInv, ChangesTypeOK, vars, Closable
<1>3. AskedOfDecided' /\ Knowing(c, m)'
  BY <1>1 DEF SwapInv, AskedOfDecided, Closable, Knowing, vars
<1> QED
  BY <1>1, <1>2, <1>3, ClerkMoves

-----------------------------------------------------------------------------
(* Filing, loading, giving up. *)
LEMMA FileKeeps ==
  ASSUME SwapInv, NEW c \in Clerks, NEW a \in Apps, NEW p \in Plates, File(c, a, p)
  PROVE  SwapInv'
<1> DEFINE m == [NoAct EXCEPT !.job = "file", !.app = a, !.plate = p]
<1>1. m \in Act /\ m.job = "file" /\ m.app = a /\ m.plate = p
  BY NoActKnows DEF NoAct, Act
<1>2. Knowing(c, m)
  BY <1>1 DEF File, Knowing, Closable
<1>3. Turns(c, m) /\ UNCHANGED <<desk, asks>>
  BY DEF File, Turns
<1> HIDE DEF m
<1> QED
  BY <1>1, <1>2, <1>3, ClerkOnly

LEMMA LoadKeeps ==
  ASSUME SwapInv, NEW c \in Clerks, NEW i \in 1..Len(asks),
         Cancel(c, i) \/ Decline(c, i) \/ Approve(c, i) \/ Satisfied(c, i)
  PROVE  SwapInv'
<1>1. PICK job \in {"cancel", "decline", "approve", "close"} :
        /\ Load(c, job, i)
        /\ job = "approve" => c \in Officers /\ asks[i].plate # reg[asks[i].app].plate
  BY DEF Cancel, Decline, Approve, Satisfied, Clean
<1> DEFINE m == [NoAct EXCEPT !.job = job, !.ask = i, !.app = asks[i].app,
                              !.plate = asks[i].plate, !.row = reg[asks[i].app]]
<1>2. /\ asks[i].app \in Apps /\ asks[i].plate \in Plates /\ i \in Nat
      /\ reg[asks[i].app] \in Row /\ RowSound(reg[asks[i].app]) /\ Closable(asks[i].app)
  BY AskTyped DEF SwapInv, CInv, TypeOK, AskedOfDecided
<1>3. /\ m \in Act /\ m.job = job /\ m.ask = i /\ m.app = asks[i].app
      /\ m.plate = asks[i].plate /\ m.row = reg[asks[i].app]
  BY <1>2, NoActKnows DEF NoAct, Act
<1>4. Knowing(c, m)
  <2> HIDE DEF m
  <2> QED
    BY <1>1, <1>2, <1>3 DEF Knowing, Closable
<1>5. Turns(c, m) /\ UNCHANGED <<desk, asks>>
  BY <1>1 DEF Load, Turns
<1> HIDE DEF m
<1> QED
  BY <1>3, <1>4, <1>5, ClerkOnly

LEMMA DropKeeps ==
  ASSUME SwapInv, NEW c \in Clerks, Drop(c)
  PROVE  SwapInv'
<1>1. Turns(c, NoAct) /\ UNCHANGED <<desk, asks>>
  BY DEF Drop, Done, Turns
<1>2. NoAct \in Act /\ Knowing(c, NoAct)
  BY NoActKnows
<1> QED
  BY <1>1, <1>2, ClerkOnly

-----------------------------------------------------------------------------
(* A clerk writes the requests, not the desk. *)
LEMMA AsksWritten ==
  ASSUME SwapInv, UNCHANGED desk, NEW c \in Clerks, Turns(c, NoAct),
         AsksKept, asks' \in Seq(Ask),
         \A i \in 1..Len(asks') : i > Len(asks) => Closable(asks'[i].app)
  PROVE  SwapInv'
<1>1. UNCHANGED vars /\ CInv'
  BY NextKeepsCInv DEF desk, vars, SwapInv
<1>2. DecidedKept
  BY <1>1 DEF DecidedKept, vars, Closable
<1>3. AskedOfDecided'
  <2>1. Len(asks) \in Nat /\ Len(asks') \in Nat
    BY DEF SwapInv, ChangesTypeOK
  <2>2. \A i \in 1..Len(asks') : Closable(asks'[i].app)
    BY <2>1 DEF AsksKept, SwapInv, AskedOfDecided
  <2> QED
    BY <1>1, <2>2 DEF AskedOfDecided, Closable, vars
<1> QED
  BY <1>1, <1>2, <1>3, NoActKnows, ClerkMoves

LEMMA InsertAskKeeps ==
  ASSUME SwapInv, NEW c \in Clerks, InsertAsk(c)
  PROVE  SwapInv'
<1>1. Turns(c, NoAct) /\ UNCHANGED desk /\ asks \in Seq(Ask)
  BY DEF InsertAsk, Done, Turns, SwapInv, ChangesTypeOK
<1>2. act[c].app \in Apps /\ act[c].plate \in Plates /\ Closable(act[c].app)
  BY DEF InsertAsk, SwapInv, Knowing
<1>3. CASE asks' = asks
  BY <1>1, <1>3, AsksWritten DEF AsksKept
<1>4. ASSUME NEW ask, ask = [app |-> act[c].app, plate |-> act[c].plate, status |-> "pending"],
             asks' = Append(asks, ask)
      PROVE  SwapInv'
  <2>1. ask \in Ask
    BY <1>2, <1>4 DEF Ask
  <2>2. asks' \in Seq(Ask) /\ Len(asks') = Len(asks) + 1 /\ asks'[Len(asks) + 1] = ask
        /\ \A i \in 1..Len(asks) : asks'[i] = asks[i]
    BY <1>1, <1>4, <2>1
  <2>3. AsksKept /\ \A i \in 1..Len(asks') : i > Len(asks) => asks'[i] = ask
    BY <1>1, <2>2 DEF AsksKept
  <2> QED
    BY <1>1, <1>2, <1>4, <2>2, <2>3, AsksWritten
<1> QED
  BY <1>3, <1>4 DEF InsertAsk

(* A status is saved: the request is the one that was loaded. *)
Marked(i, status) == asks' = [asks EXCEPT ![i].status = status]

LEMMA MarkedKeeps ==
  ASSUME ChangesTypeOK, NEW i \in 1..Len(asks),
         NEW status \in {"pending", "approved", "rejected", "cancelled"}, Marked(i, status)
  PROVE  /\ asks' \in Seq(Ask) /\ Len(asks') = Len(asks) /\ AsksKept
         /\ \A j \in 1..Len(asks) : asks'[j] = IF j = i THEN [asks[j] EXCEPT !.status = status]
                                               ELSE asks[j]
<1> DEFINE ask == [asks[i] EXCEPT !.status = status]
<1>1. ask \in Ask /\ ask.app = asks[i].app /\ ask.plate = asks[i].plate
  BY AskTyped DEF Ask
<1>2. asks' = [asks EXCEPT ![i] = ask]
  BY Zenon DEF Marked
<1>3. asks \in Seq(Ask)
  BY DEF ChangesTypeOK
<1>0. ask = [asks[i] EXCEPT !.status = status]
  OBVIOUS
<1> HIDE DEF ask
<1>4. asks' \in Seq(Ask) /\ Len(asks') = Len(asks)
      /\ \A j \in 1..Len(asks) : asks'[j] = IF j = i THEN ask ELSE asks[j]
  BY <1>1, <1>2, <1>3
<1>5. AsksKept
  BY <1>1, <1>3, <1>4 DEF AsksKept
<1>6. ASSUME NEW j \in 1..Len(asks)
      PROVE  asks'[j] = IF j = i THEN [asks[j] EXCEPT !.status = status] ELSE asks[j]
  <2>1. CASE j = i
    BY <1>0, <1>4, <2>1, Zenon
  <2>2. CASE j # i
    BY <1>4, <2>2
  <2> QED
    BY <2>1, <2>2
<1> QED
  BY <1>4, <1>5, <1>6

LEMMA SaveVerdictKeeps ==
  ASSUME SwapInv, NEW c \in Clerks, SaveVerdict(c)
  PROVE  SwapInv'
<1>1. act[c].job \in {"cancel", "decline", "close"} /\ Turns(c, NoAct) /\ UNCHANGED desk
  BY DEF SaveVerdict, Verdict, Done, Turns
<1>2. act[c].ask \in 1..Len(asks)
  BY <1>1 DEF SwapInv, Knowing
<1>3. Verdict[act[c].job] \in {"pending", "approved", "rejected", "cancelled"}
  BY <1>1 DEF Verdict
<1>4. Marked(act[c].ask, Verdict[act[c].job])
  BY DEF SaveVerdict, Marked
<1>5. asks' \in Seq(Ask) /\ Len(asks') = Len(asks) /\ AsksKept
  BY <1>2, <1>3, <1>4, MarkedKeeps DEF SwapInv
<1>6. Len(asks) \in Nat
  BY DEF SwapInv, ChangesTypeOK
<1> QED
  BY <1>1, <1>5, <1>6, AsksWritten

-----------------------------------------------------------------------------
(***************************************************************************)
(* The approval.  No request under way counts on the row of a decided      *)
(* application, so that a row saved over it, stale or not, leaves them all *)
(* sound.                                                                  *)
(***************************************************************************)
LEMMA RowSaved ==
  ASSUME CInv, NEW a \in Apps, NEW row \in Row, RowSound(row), Closable(a), ~Locked(a),
         reg' = [reg EXCEPT ![a] = row], owner' \in [Plates -> Apps \cup {Nobody}],
         UNCHANGED <<overdue, archived, req>>
  PROVE  CInv'
<1>1. TypeOK' /\ \A b \in Apps : reg'[b] = IF b = a THEN row ELSE reg[b]
  BY DEF CInv, TypeOK
<1>2. (\A b \in Apps : RowSound(reg[b]))'
  BY <1>1 DEF CInv
<1>3. ASSUME NEW g \in Handlers PROVE (RequestSound(req[g]) /\ Held(req[g], reg))'
  <2>1. RequestSound(req[g]) /\ Held(req[g], reg)
    BY DEF CInv
  <2>2. Inserting(req[g]) \/ Locking(req[g]) => req[g].app \in Apps /\ req[g].app # a
    BY <2>1 DEF RequestSound, Held, Inserting, Locking, Locked, Closable, Absent, NewRow
  <2>3. Inserting(req[g]) \/ Locking(req[g]) => reg'[req[g].app] = reg[req[g].app]
    BY <1>1, <2>2
  <2> QED
    BY <2>1, <2>3 DEF Held
<1>4. (\A g, h \in Handlers : g # h => Apart(req[g], req[h]))'
  BY DEF CInv
<1> QED
  BY <1>1, <1>2, <1>3, <1>4 DEF CInv

(* What an approval writes: nothing, or the row, the vehicles, the status. *)
LEMMA Approving ==
  ASSUME SwapInv, NEW c \in Clerks, Apply(c)
  PROVE  /\ act[c].job = "approve" /\ act[c].app \in Apps /\ act[c].plate \in Plates
         /\ act[c].row \in Row /\ RowSound(act[c].row) /\ Closable(act[c].app)
         /\ act[c].ask \in 1..Len(asks) /\ act[c].plate # act[c].row.plate
         /\ c \in Officers /\ ~Locked(act[c].app) /\ Turns(c, NoAct)
         /\ UNCHANGED <<overdue, archived, req>>
<1>1. act[c].job = "approve" /\ ~Locked(act[c].app) /\ Turns(c, NoAct)
      /\ UNCHANGED <<overdue, archived, req>>
  BY Zenon DEF Apply, Done, Turns
<1>2. Knowing(c, act[c])
  BY DEF SwapInv
<1> QED
  BY <1>1, <1>2 DEF Knowing

Written(c) ==
  /\ PlateFree(reg, act[c].app, act[c].plate)
  /\ reg' = [reg EXCEPT ![act[c].app] = [act[c].row EXCEPT !.plate = act[c].plate]]
  /\ owner' = [owner EXCEPT ![act[c].plate] = act[c].app,
                 ![act[c].row.plate] = IF act[c].row.status = "rejected" THEN @ ELSE Nobody]
  /\ Marked(act[c].ask, "approved")

LEMMA WrittenRow ==
  ASSUME SwapInv, NEW c \in Clerks, Apply(c), Written(c)
  PROVE  /\ reg' \in [Apps -> Row] /\ owner' \in [Plates -> Apps \cup {Nobody}]
         /\ \A b \in Apps \ {act[c].app} : reg'[b] = reg[b]
         /\ reg'[act[c].app] = [act[c].row EXCEPT !.plate = act[c].plate]
         /\ reg'[act[c].app].plate = act[c].plate
         /\ reg'[act[c].app].status = act[c].row.status
         /\ RowSound(reg'[act[c].app])
         /\ act[c].row.status = "accepted" =>
              \A q \in Plates : owner'[q] = IF q = act[c].row.plate THEN Nobody
                                             ELSE IF q = act[c].plate THEN act[c].app
                                             ELSE owner[q]
<1> DEFINE a == act[c].app
           p == act[c].plate
           row == [act[c].row EXCEPT !.plate = p]
<1>1. /\ a \in Apps /\ p \in Plates /\ act[c].row \in Row /\ RowSound(act[c].row)
      /\ p # act[c].row.plate
  BY Approving
<1>2. reg \in [Apps -> Row] /\ owner \in [Plates -> Apps \cup {Nobody}]
  BY DEF SwapInv, CInv, TypeOK
<1>3. /\ row \in Row /\ row.plate = p /\ row.status = act[c].row.status
      /\ row.pay = act[c].row.pay /\ row.receipt = act[c].row.receipt
  BY <1>1 DEF Row
<1>4. RowSound(row)
  BY <1>1, <1>3 DEF RowSound
<1>5. reg' = [reg EXCEPT ![a] = row]
  BY Zenon DEF Written
<1>6. reg' \in [Apps -> Row] /\ reg'[a] = row /\ \A b \in Apps \ {a} : reg'[b] = reg[b]
  <2> HIDE DEF row
  <2> QED
    BY <1>1, <1>2, <1>3, <1>5
<1>7. owner' = [owner EXCEPT ![p] = a,
                  ![act[c].row.plate] = IF act[c].row.status = "rejected" THEN @ ELSE Nobody]
  BY Zenon DEF Written
<1>8. owner' \in [Plates -> Apps \cup {Nobody}]
  BY <1>1, <1>2, <1>7
<1>9. ASSUME act[c].row.status = "accepted", NEW q \in Plates
      PROVE  owner'[q] = IF q = act[c].row.plate THEN Nobody
                         ELSE IF q = p THEN a ELSE owner[q]
  BY <1>1, <1>2, <1>7, <1>9
<1> QED
  BY <1>3, <1>4, <1>6, <1>8, <1>9

LEMMA ApplyKeeps ==
  ASSUME SwapInv, NEW c \in Clerks, Apply(c)
  PROVE  SwapInv'
<1>1. Turns(c, NoAct) /\ UNCHANGED <<overdue, archived, req>>
  BY Approving
<1>2. CASE UNCHANGED <<reg, owner, asks>>
  BY <1>1, <1>2, NoActKnows, ClerkOnly DEF desk
<1>3. CASE Written(c)
  <2> DEFINE a == act[c].app
             row == [act[c].row EXCEPT !.plate = act[c].plate]
  <2>1. /\ a \in Apps /\ Closable(a) /\ ~Locked(a) /\ act[c].ask \in 1..Len(asks)
    BY Approving
  <2>2. /\ reg' \in [Apps -> Row] /\ owner' \in [Plates -> Apps \cup {Nobody}]
        /\ \A b \in Apps \ {a} : reg'[b] = reg[b]
        /\ reg'[a] = row /\ RowSound(reg'[a]) /\ reg'[a].status = act[c].row.status
    BY <1>3, WrittenRow
  <2>3. row \in Row /\ RowSound(row)
    BY <2>1, <2>2
  <2>4. reg' = [reg EXCEPT ![a] = row]
    BY <1>3, Zenon DEF Written
  <2>5. CInv'
    <3> HIDE DEF row
    <3> QED
      BY <1>1, <2>1, <2>2, <2>3, <2>4, RowSaved DEF SwapInv
  <2>6. DecidedKept
    <3>1. act[c].row.status \notin {"absent", "pending"}
      BY Approving DEF SwapInv, Knowing
    <3> QED
      BY <2>1, <2>2, <3>1 DEF DecidedKept, Closable
  <2>7. /\ asks' \in Seq(Ask) /\ Len(asks') = Len(asks) /\ AsksKept
    BY <1>3, <2>1, MarkedKeeps DEF Written, SwapInv
  <2>8. AskedOfDecided'
    <3>1. \A i \in 1..Len(asks) : asks'[i].app = asks[i].app /\ Closable(asks[i].app)
                                    /\ asks[i].app \in Apps
      BY <2>7, AskTyped DEF AsksKept, SwapInv, AskedOfDecided
    <3> QED
      BY <2>6, <2>7, <3>1 DEF AskedOfDecided, DecidedKept, Closable
  <2> QED
    BY <1>1, <2>5, <2>6, <2>7, <2>8, NoActKnows, ClerkMoves
<1> QED
  BY <1>2, <1>3 DEF Apply, Written, Marked

(* An approval of the registration as it is moves the pass from the old    *)
(* plate to the new one.                                                   *)
LEMMA ApplyKeepsPasses ==
  ASSUME SwapInv, PassBacked, NEW c \in Clerks, Apply(c), ~StaleApproval(c)
  PROVE  PassBacked'
<1> DEFINE a == act[c].app
           p == act[c].plate
<1>1. /\ a \in Apps /\ p \in Plates /\ act[c].row \in Row /\ RowSound(act[c].row)
      /\ p # act[c].row.plate /\ act[c].job = "approve" /\ Turns(c, NoAct)
  BY Approving
<1>2. act'[c].job = "none"
  BY <1>1 DEF Turns, SwapInv, ChangesTypeOK, NoAct
<1>3. act[c].row = reg[a] /\ reg[a].status = "accepted"
  BY <1>1, <1>2 DEF StaleApproval
<1>4. CASE UNCHANGED <<reg, owner, asks>>
  BY <1>4 DEF PassBacked
<1>5. CASE Written(c)
  <2> SUFFICES ASSUME NEW q \in Plates, NEW b \in Apps
               PROVE  owner'[q] = b <=> reg'[b].status = "accepted" /\ reg'[b].plate = q
    BY DEF PassBacked
  <2>1. \A x \in Plates, y \in Apps :
          owner[x] = y <=> reg[y].status = "accepted" /\ reg[y].plate = x
    BY DEF PassBacked
  <2>2. /\ \A y \in Apps \ {a} : reg'[y] = reg[y]
        /\ reg'[a].plate = p /\ reg'[a].status = "accepted"
        /\ \A x \in Plates : owner'[x] = IF x = reg[a].plate THEN Nobody
                                           ELSE IF x = p THEN a ELSE owner[x]
    <3>1. act[c].row.status = "accepted" /\ act[c].row.plate = reg[a].plate
      BY <1>3
    <3>2. /\ \A y \in Apps \ {a} : reg'[y] = reg[y]
          /\ reg'[a].plate = p /\ reg'[a].status = act[c].row.status
          /\ act[c].row.status = "accepted" =>
               \A x \in Plates : owner'[x] = IF x = act[c].row.plate THEN Nobody
                                              ELSE IF x = p THEN a ELSE owner[x]
      BY <1>5, WrittenRow, Zenon
    <3> QED
      BY <3>1, <3>2
  <2>3. \A y \in Apps \ {a} : reg[y].status = "accepted" => reg[y].plate # p
    BY <1>5 DEF Written, PlateFree, Active
  <2>4. CASE b = a
    BY <1>1, <1>3, <2>1, <2>2, <2>4, NullsAssumption
  <2>5. CASE b # a
    <3>1. q = reg[a].plate => ~(reg[b].status = "accepted" /\ reg[b].plate = q)
      BY <1>1, <1>3, <2>1, <2>5
    <3> QED
      BY <2>1, <2>2, <2>3, <2>5, <3>1, NullsAssumption
  <2> QED
    BY <2>4, <2>5
<1> QED
  BY <1>4, <1>5 DEF Apply, Written, Marked

-----------------------------------------------------------------------------
LEMMA BeginsSwapInv == ChangesInit => SwapInv
<1> SUFFICES ASSUME ChangesInit PROVE SwapInv
  OBVIOUS
<1>1. CInv
  BY InitCInv DEF ChangesInit
<1>2. ChangesTypeOK /\ AskedOfDecided
  BY NoActKnows DEF ChangesInit, ChangesTypeOK, AskedOfDecided
<1>3. \A c \in Clerks : Knowing(c, act[c])
  BY DEF ChangesInit, NoAct, Knowing
<1> QED
  BY <1>1, <1>2, <1>3 DEF SwapInv

LEMMA NextKeepsSwapInv == SwapInv /\ [ChangesNext]_allVars => SwapInv'
<1> SUFFICES ASSUME SwapInv, [ChangesNext]_allVars PROVE SwapInv'
  OBVIOUS
<1>1. CASE (Next /\ UNCHANGED <<asks, act>>) \/ UNCHANGED allVars
  BY <1>1, DeskKeeps DEF allVars, desk, vars
<1>2. ASSUME NEW c \in Clerks, Clerk(c) PROVE SwapInv'
  BY <1>2, FileKeeps, LoadKeeps, InsertAskKeeps, SaveVerdictKeeps, ApplyKeeps, DropKeeps
     DEF Clerk
<1> QED
  BY <1>1, <1>2 DEF ChangesNext

(* Whatever a step writes, requests, their rows and the desk's keep their  *)
(* types: stale approvals by any number of officers are among the steps.   *)
THEOREM ChangesTypes == ChangesSpec => [](TypeOK /\ ChangesTypeOK)
<1>1. SwapInv => TypeOK /\ ChangesTypeOK
  BY DEF SwapInv, CInv
<1> QED
  BY <1>1, BeginsSwapInv, NextKeepsSwapInv, PTL DEF ChangesSpec

(* However corrections, their withdrawal, the decisions of any number of   *)
(* officers, the desk and the end of accounts overlap, only a rejection    *)
(* saved over an acceptance, or an approval saved over a registration that *)
(* has changed, parts the gate from the registrations.                     *)
THEOREM SwapsKept == ChangesSpec => SwapKept
<1> DEFINE Kept == PassBacked => \/ PassBacked'
                                 \/ \E a \in Apps : SavedWhole(a, {"reject"})
                                 \/ \E c \in Officers : StaleApproval(c)
<1>1. ASSUME SwapInv, [ChangesNext]_allVars PROVE Kept
  <2>1. CASE (Next /\ UNCHANGED <<asks, act>>) \/ UNCHANGED allVars
    BY <1>1, <2>1, StepKeepsPasses DEF allVars, desk, vars, SwapInv, KeepsPasses
  <2>2. ASSUME NEW c \in Clerks, Clerk(c) PROVE Kept
    <3>1. CASE Apply(c)
      BY <1>1, <3>1, ApplyKeepsPasses, Approving
    <3>2. CASE ~Apply(c)
      <4>1. UNCHANGED desk
        BY <2>2, <3>2 DEF Clerk, File, InsertAsk, Cancel, Decline, Approve, Satisfied, Load,
           SaveVerdict, Drop
      <4> QED
        BY <4>1 DEF desk, PassBacked
    <3> QED
      BY <3>1, <3>2
  <2> QED
    BY <1>1, <2>1, <2>2 DEF ChangesNext
<1>2. SwapInv /\ [ChangesNext]_allVars => [Kept]_allVars
  BY <1>1
<1> QED
  BY <1>2, BeginsSwapInv, NextKeepsSwapInv, PTL DEF ChangesSpec, SwapKept

=============================================================================
