---------------------------- MODULE VisitorProofs ----------------------------
(***************************************************************************)
(* What holds of VisitorGate for any number of passes, prints, rows,       *)
(* overlapping requests and servers killed in the middle of one.           *)
(***************************************************************************)
EXTENDS VisitorGate, FiniteSetTheorems, WellFoundedInduction, TLAPS

(* A request that will touch its pass again points at one. *)
Pointing == {"stamp", "enter", "arrive", "draw", "keep", "close", "save", "lift"}

Pointed(req) == req.pc \in Pointing => req.pass \in 1..Len(passes)

Aimed == \A r \in Requests : Pointed(requests[r])

Sound == TypeOK /\ Aimed

(* What no step may undo of the passes there are. *)
PassesKept ==
  /\ Len(passes) <= Len(passes')
  /\ \A p \in 1..Len(passes) :
       /\ ~passes[p].active => ~passes'[p].active
       /\ passes[p].printed => passes'[p].printed
       /\ passes[p].twice => passes'[p].twice

(* The serial of a pass stays what it was, and a new pass has none. *)
TokensKept ==
  \A p \in 1..Len(passes') :
    passes'[p].token = IF p <= Len(passes) THEN passes[p].token ELSE 0

-----------------------------------------------------------------------------
(* Small facts about the data. *)

LEMMA Indices == ASSUME TypeOK PROVE DOMAIN passes = 1..Len(passes) /\ Len(passes) \in Nat
BY DEF TypeOK

LEMMA PassFields ==
  ASSUME TypeOK, NEW p \in 1..Len(passes)
  PROVE  /\ passes[p] \in Pass
         /\ {passes[p].active, passes[p].printed, passes[p].booked, passes[p].smooth,
             passes[p].twice, passes[p].filmed} \subseteq BOOLEAN
         /\ {passes[p].token, passes[p].issued, passes[p].expires, passes[p].exited} \subseteq Nat
<1>1. passes[p] \in Pass
  BY DEF TypeOK
<1> QED
  BY <1>1 DEF Pass

LEMMA IdleType == Idle \in Request /\ Idle.pc = "idle"
BY DEF Idle, Request, Errands, PCs

LEMMA RequestFields ==
  ASSUME TypeOK, NEW r \in Requests
  PROVE  /\ requests[r] \in Request
         /\ requests[r].errand \in Errands /\ requests[r].pc \in PCs
         /\ {requests[r].pass, requests[r].number, requests[r].expires, requests[r].left}
              \subseteq Nat
BY DEF TypeOK, Request

(* One pass is replaced. *)
LEMMA OnePass ==
  ASSUME TypeOK, NEW p \in 1..Len(passes), NEW x \in Pass, passes' = [passes EXCEPT ![p] = x]
  PROVE  /\ passes' \in Seq(Pass) /\ Len(passes') = Len(passes)
         /\ passes'[p] = x
         /\ \A q \in 1..Len(passes) : q # p => passes'[q] = passes[q]
BY DEF TypeOK

(* The marks of the history change in place. *)
LEMMA RuffledType ==
  ASSUME TypeOK
  PROVE  /\ Ruffled \in Seq(Pass) /\ Len(Ruffled) = Len(passes)
         /\ \A p \in 1..Len(passes) : Ruffled[p] = [passes[p] EXCEPT !.smooth = FALSE]
<1> DEFINE f == [p \in 1..Len(passes) |-> [passes[p] EXCEPT !.smooth = FALSE]]
<1>1. Ruffled = f
  BY Indices DEF Ruffled
<1>2. \A p \in 1..Len(passes) : f[p] \in Pass
  BY PassFields DEF Pass
<1>3. f \in Seq(Pass) /\ Len(f) = Len(passes)
  BY <1>2, Indices
<1> QED
  BY <1>1, <1>3

LEMMA FilmedType ==
  ASSUME TypeOK
  PROVE  /\ Filmed \in Seq(Pass) /\ Len(Filmed) = Len(passes)
         /\ \A p \in 1..Len(passes) :
              Filmed[p] = [passes[p] EXCEPT !.filmed = passes[p].filmed \/ passes[p].active]
<1> DEFINE f == [p \in 1..Len(passes) |->
                   [passes[p] EXCEPT !.filmed = passes[p].filmed \/ passes[p].active]]
<1>1. Filmed = f
  BY Indices DEF Filmed
<1>2. ASSUME NEW p \in 1..Len(passes) PROVE f[p] \in Pass
  <2>1. (passes[p].filmed \/ passes[p].active) \in BOOLEAN
    OBVIOUS
  <2> QED
    BY <2>1, PassFields DEF Pass
<1>3. f \in Seq(Pass) /\ Len(f) = Len(passes)
  BY <1>2, Indices
<1> QED
  BY <1>1, <1>3

(* One request moves on, and what it is now. *)
Moves(r, req) == requests' = [requests EXCEPT ![r] = req]

LEMMA OneRequest ==
  ASSUME TypeOK, NEW r \in Requests, NEW req \in Request, Moves(r, req)
  PROVE  /\ requests' \in [Requests -> Request]
         /\ requests'[r] = req
         /\ \A q \in Requests : q # r => requests'[q] = requests[q]
BY DEF TypeOK, Moves

LEMMA FinishMoves == ASSUME NEW r \in Requests, Finish(r) PROVE Moves(r, Idle)
BY DEF Finish, Moves

LEMMA GotoMoves ==
  ASSUME TypeOK, NEW r \in Requests, NEW pc \in PCs, Goto(r, pc)
  PROVE  /\ Moves(r, [requests[r] EXCEPT !.pc = pc])
         /\ [requests[r] EXCEPT !.pc = pc] \in Request
<1>1. [requests[r] EXCEPT !.pc = pc] \in Request
  BY RequestFields DEF Request
<1> QED
  BY <1>1 DEF Goto, Moves

LEMMA BeginMoves ==
  ASSUME TypeOK, NEW r \in Requests, NEW errand \in Errands, NEW pc \in PCs,
         NEW p \in Nat, NEW number \in Nat, NEW expires \in Nat,
         Begin(r, errand, pc, p, number, expires)
  PROVE  \E req \in Request :
           /\ Moves(r, req) /\ req.errand = errand /\ req.pc = pc /\ req.pass = p
           /\ req.number = number /\ req.expires = expires
<1> DEFINE x == [Idle EXCEPT !.errand = errand, !.pc = pc, !.pass = p, !.number = number,
                             !.expires = expires]
<1>1. Moves(r, x)
  BY Zenon DEF Begin, Moves
<1>2. /\ x \in Request /\ x.errand = errand /\ x.pc = pc /\ x.pass = p
      /\ x.number = number /\ x.expires = expires
  BY IdleType DEF Request
<1> QED
  BY <1>1, <1>2, Zenon

-----------------------------------------------------------------------------
(* What every step does, whatever else: types, aim, passes.                *)

(* The marks of the history may change with a step. *)
Marked == passes' \in {passes, Ruffled, Filmed} /\ upsets' \in {upsets, upsets + 1}

LEMMA NoteMarks ==
  ASSUME TypeOK, NEW r \in Requests, Note(r) PROVE Marked
BY DEF Note, Marked

LEMMA MarksKeep ==
  ASSUME TypeOK, Marked
  PROVE  /\ passes' \in Seq(Pass) /\ Len(passes') = Len(passes) /\ upsets' \in Nat
         /\ PassesKept /\ TokensKept
<1>1. upsets' \in Nat
  BY DEF Marked, TypeOK
<1>2. CASE passes' = passes
  BY <1>1, <1>2, Indices, PassFields DEF PassesKept, TokensKept, TypeOK
<1>3. CASE passes' = Ruffled
  <2>1. \A p \in 1..Len(passes) :
          /\ passes'[p].active = passes[p].active /\ passes'[p].printed = passes[p].printed
          /\ passes'[p].twice = passes[p].twice /\ passes'[p].token = passes[p].token
    BY <1>3, RuffledType, PassFields DEF Pass
  <2>2. passes' \in Seq(Pass) /\ Len(passes') = Len(passes)
    BY <1>3, RuffledType
  <2> QED
    BY <1>1, <2>1, <2>2, Indices DEF PassesKept, TokensKept
<1>4. CASE passes' = Filmed
  <2>1. \A p \in 1..Len(passes) :
          /\ passes'[p].active = passes[p].active /\ passes'[p].printed = passes[p].printed
          /\ passes'[p].twice = passes[p].twice /\ passes'[p].token = passes[p].token
    BY <1>4, FilmedType, PassFields DEF Pass
  <2>2. passes' \in Seq(Pass) /\ Len(passes') = Len(passes)
    BY <1>4, FilmedType
  <2> QED
    BY <1>1, <2>1, <2>2, Indices DEF PassesKept, TokensKept
<1> QED
  BY <1>2, <1>3, <1>4 DEF Marked

(* The rest of the types, when one request moves. *)
LEMMA MoveSound ==
  ASSUME Sound, NEW r \in Requests, NEW req \in Request, Moves(r, req),
         now' = now, serial' \in Nat, upsets' \in Nat,
         log' \in Seq(Row), of' \in Seq(Nat), fines' \in SUBSET Nat,
         passes' \in Seq(Pass), Len(passes') = Len(passes),
         papers' \in SUBSET (Nat \X Nat), handed' \in SUBSET Nat, visit' \in Visit,
         Pointed(req)
  PROVE  Sound'
<1>1. TypeOK'
  BY OneRequest DEF Sound, TypeOK
<1>2. Aimed'
  <2> SUFFICES ASSUME NEW q \in Requests, requests'[q].pc \in Pointing
               PROVE  requests'[q].pass \in 1..Len(passes')
    BY DEF Aimed, Pointed
  <2> QED
    BY OneRequest DEF Sound, Aimed, Pointed
<1> QED
  BY <1>1, <1>2 DEF Sound

(* What a step of the ordinary kind does: it writes no row and no paper,   *)
(* and the requests that are about to enter, or have drawn a serial, are   *)
(* those that were.                                                        *)
Drawing == {"draw", "keep"}

Calm ==
  /\ UNCHANGED desk /\ TokensKept
  /\ \A q \in Requests :
       requests'[q].pc \in Drawing \cup {"enter"} => requests'[q] = requests[q]

LEMMA MoveCalm ==
  ASSUME TypeOK, NEW r \in Requests, NEW req \in Request, Moves(r, req),
         req.pc \notin Drawing \cup {"enter"},
         UNCHANGED desk, TokensKept
  PROVE  Calm
BY OneRequest DEF Calm

(* The passes stay as they are. *)
LEMMA PassesSame ==
  ASSUME TypeOK, passes' = passes
  PROVE  passes' \in Seq(Pass) /\ Len(passes') = Len(passes) /\ PassesKept /\ TokensKept
BY Indices DEF TypeOK, PassesKept, TokensKept

(* One pass changes, and loses nothing. *)
LEMMA PassChanges ==
  ASSUME TypeOK, NEW p \in 1..Len(passes), NEW x \in Pass, passes' = [passes EXCEPT ![p] = x],
         passes[p].printed => x.printed, passes[p].twice => x.twice,
         x.active => passes[p].active
  PROVE  /\ passes' \in Seq(Pass) /\ Len(passes') = Len(passes) /\ PassesKept
         /\ x.token = passes[p].token => TokensKept
<1>1. /\ passes' \in Seq(Pass) /\ Len(passes') = Len(passes) /\ passes'[p] = x
      /\ \A q \in 1..Len(passes) : q # p => passes'[q] = passes[q]
  BY OnePass
<1>2. {x.active, x.printed, x.twice} \subseteq BOOLEAN
  BY DEF Pass
<1>3. PassesKept
  BY <1>1, <1>2, Indices, PassFields DEF PassesKept
<1> QED
  BY <1>1, <1>3, Indices DEF TokensKept

-----------------------------------------------------------------------------
(* The actions, one by one. *)

(* Issue inserts a pass and moves no request. *)
LEMMA IssueKeeps ==
  ASSUME Sound, NEW minutes \in Minutes, NEW picked \in Picked, Issue(minutes, picked)
  PROVE  /\ Sound' /\ PassesKept /\ Calm /\ UNCHANGED <<log, of>>
<1> DEFINE new == [active |-> TRUE, printed |-> FALSE, token |-> 0, issued |-> now,
                   expires |-> now + minutes, exited |-> 0,
                   booked |-> ~visit.arrived /\ (visit.plated \/ picked),
                   smooth |-> Active = {} /\ Quiet, twice |-> FALSE,
                   filmed |-> FALSE]
           before == IF new.smooth THEN passes ELSE Ruffled
<1>1. new \in Pass
  <2>1. now \in Nat /\ now + minutes \in Nat
    BY VisitorAssumption DEF Sound, TypeOK
  <2> QED
    BY <2>1 DEF Pass
<1>2. /\ before \in Seq(Pass) /\ Len(before) = Len(passes)
      /\ \A p \in 1..Len(passes) :
           /\ before[p].active = passes[p].active /\ before[p].printed = passes[p].printed
           /\ before[p].twice = passes[p].twice /\ before[p].token = passes[p].token
  BY RuffledType, PassFields DEF Sound, TypeOK, Pass
<1>3. passes' = Append(before, new)
  BY DEF Issue
<1>4. new.token = 0
  OBVIOUS
<1> HIDE DEF new, before
<1>5. /\ passes' \in Seq(Pass) /\ Len(passes') = Len(passes) + 1
      /\ passes'[Len(passes) + 1] = new
      /\ \A p \in 1..Len(passes) : passes'[p] = before[p]
  BY <1>1, <1>2, <1>3
<1>6. Len(passes) \in Nat
  BY DEF Sound, TypeOK
<1>7. PassesKept /\ TokensKept
  BY <1>2, <1>4, <1>5, <1>6 DEF PassesKept, TokensKept
<1>8. UNCHANGED <<now, log, of, desk, fines, visit, requests>> /\ upsets' \in Nat
  BY DEF Issue, Sound, TypeOK
<1>9. TypeOK'
  BY <1>5, <1>8 DEF Sound, TypeOK, desk
<1>10. Aimed'
  BY <1>5, <1>6, <1>8, RequestFields DEF Sound, Aimed, Pointed
<1> QED
  BY <1>7, <1>8, <1>9, <1>10 DEF Sound, Calm

(* A request that began or was cut short, and touched nothing but the     *)
(* marks of the history.                                                   *)
LEMMA BeginKeeps ==
  ASSUME Sound, NEW r \in Requests, NEW req \in Request, Moves(r, req), Pointed(req),
         req.pc \notin Drawing \cup {"enter"}, Marked,
         UNCHANGED <<now, log, of, desk, fines, visit>>
  PROVE  /\ Sound' /\ PassesKept /\ Calm /\ UNCHANGED <<log, of>>
<1>1. /\ passes' \in Seq(Pass) /\ Len(passes') = Len(passes) /\ upsets' \in Nat
      /\ PassesKept /\ TokensKept
  BY MarksKeep DEF Sound
<1>2. Sound'
  BY <1>1, MoveSound DEF Sound, TypeOK, desk
<1> QED
  BY <1>1, <1>2, MoveCalm DEF Sound

(* A request that moved, the passes as they were. *)
LEMMA QuietKeeps ==
  ASSUME Sound, NEW r \in Requests, NEW req \in Request, Moves(r, req), Pointed(req),
         req.pc \notin Drawing \cup {"enter"},
         UNCHANGED <<now, passes, desk, upsets>>,
         log' \in Seq(Row), of' \in Seq(Nat), fines' \in SUBSET Nat, visit' \in Visit
  PROVE  /\ Sound' /\ PassesKept /\ Calm
<1>1. passes' \in Seq(Pass) /\ Len(passes') = Len(passes) /\ PassesKept /\ TokensKept
  BY PassesSame DEF Sound
<1>2. Sound'
  BY <1>1, MoveSound DEF Sound, TypeOK, desk
<1> QED
  BY <1>1, <1>2, MoveCalm DEF Sound

(* A request that moved and changed its pass, losing nothing of it. *)
LEMMA ChangeKeeps ==
  ASSUME Sound, NEW r \in Requests, NEW req \in Request, Moves(r, req), Pointed(req),
         NEW p \in 1..Len(passes), NEW x \in Pass, passes' = [passes EXCEPT ![p] = x],
         passes[p].printed => x.printed, passes[p].twice => x.twice,
         x.active => passes[p].active,
         UNCHANGED <<now, log, of, desk, fines, visit, upsets>>
  PROVE  /\ Sound' /\ PassesKept
         /\ x.token = passes[p].token /\ req.pc \notin Drawing \cup {"enter"} => Calm
<1>1. /\ passes' \in Seq(Pass) /\ Len(passes') = Len(passes) /\ PassesKept
      /\ x.token = passes[p].token => TokensKept
  BY PassChanges DEF Sound
<1>2. Sound'
  BY <1>1, MoveSound DEF Sound, TypeOK, desk
<1> QED
  BY <1>1, <1>2, MoveCalm DEF Sound

LEMMA ConfirmKeeps ==
  ASSUME Sound, NEW r \in Requests, NEW p \in 1..Len(passes), Confirm(r, p)
  PROVE  Sound' /\ PassesKept /\ Calm /\ UNCHANGED <<log, of>>
<1>1. TypeOK /\ p \in Nat /\ "confirm" \in Errands /\ "stamp" \in PCs
  BY Indices DEF Sound, Errands, PCs
<1>2. PICK req \in Request : Moves(r, req) /\ req.pc = "stamp" /\ req.pass = p
  BY <1>1, BeginMoves DEF Confirm
<1>3. Marked
  BY <1>1, NoteMarks DEF Confirm, Marked
<1> QED
  BY <1>2, <1>3, BeginKeeps DEF Confirm, Pointed, Drawing

LEMMA SlipExitKeeps ==
  ASSUME Sound, NEW r \in Requests, NEW p \in 1..Len(passes), SlipExit(r, p)
  PROVE  Sound' /\ PassesKept /\ Calm /\ UNCHANGED <<log, of>>
<1>1. TypeOK /\ p \in Nat /\ passes[p].expires \in Nat /\ "slip" \in Errands /\ "close" \in PCs
  BY Indices, PassFields DEF Sound, Errands, PCs
<1>2. PICK req \in Request : Moves(r, req) /\ req.pc = "close" /\ req.pass = p
  <2>1. Begin(r, "slip", "close", p, 0, passes[p].expires)
    BY DEF SlipExit
  <2> QED
    BY <1>1, <2>1, BeginMoves
<1>3. Marked
  BY <1>1, NoteMarks DEF SlipExit
<1> QED
  BY <1>2, <1>3, BeginKeeps DEF SlipExit, Pointed, Drawing

LEMMA TypedExitKeeps ==
  ASSUME Sound, NEW r \in Requests, TypedExit(r)
  PROVE  Sound' /\ PassesKept /\ Calm /\ UNCHANGED <<log, of>>
<1>1. TypeOK /\ "typed" \in Errands /\ "row" \in PCs
  BY DEF Sound, Errands, PCs
<1>2. PICK req \in Request : Moves(r, req) /\ req.pc = "row"
  BY <1>1, BeginMoves DEF TypedExit
<1>3. Marked
  BY <1>1, NoteMarks DEF TypedExit
<1> QED
  BY <1>2, <1>3, BeginKeeps DEF TypedExit, Pointed, Pointing, Drawing

LEMMA AllowKeeps ==
  ASSUME Sound, NEW r \in Requests, NEW p \in 1..Len(passes), NEW expires \in Nat,
         Allow(r, p, expires)
  PROVE  Sound' /\ PassesKept /\ Calm /\ UNCHANGED <<log, of>>
<1>1. TypeOK /\ p \in Nat /\ "allow" \in Errands /\ "save" \in PCs
  BY Indices DEF Sound, Errands, PCs
<1>2. PICK req \in Request : Moves(r, req) /\ req.pc = "save" /\ req.pass = p
  BY <1>1, BeginMoves DEF Allow
<1>3. Marked
  BY <1>1, NoteMarks DEF Allow
<1> QED
  BY <1>2, <1>3, BeginKeeps DEF Allow, Pointed, Drawing

LEMMA AcknowledgeKeeps ==
  ASSUME Sound, NEW r \in Requests, Acknowledge(r)
  PROVE  Sound' /\ PassesKept /\ Calm /\ UNCHANGED <<log, of>>
<1> DEFINE p == Len(passes)
           req == [Idle EXCEPT !.errand = "report", !.pc = "fine", !.pass = p,
                               !.expires = passes[p].expires, !.left = now]
<1>1. TypeOK /\ p \in 1..Len(passes) /\ passes[p].expires \in Nat /\ now \in Nat /\ p \in Nat
  BY Indices, PassFields DEF Sound, Acknowledge, TypeOK
<1>2. req \in Request /\ req.pc = "fine"
  BY <1>1, IdleType DEF Request, Errands, PCs
<1>3. Moves(r, req)
  BY Zenon DEF Acknowledge, Moves
<1>4. Marked
  BY <1>1, NoteMarks DEF Acknowledge
<1> HIDE DEF req
<1>5. Pointed(req) /\ req.pc \notin Drawing \cup {"enter"}
  BY <1>2 DEF Pointed, Pointing, Drawing
<1>6. UNCHANGED <<now, log, of, desk, fines, visit>>
  BY DEF Acknowledge
<1> QED
  BY <1>2, <1>3, <1>4, <1>5, <1>6, BeginKeeps

LEMMA DieKeeps ==
  ASSUME Sound, NEW r \in Requests, Die(r)
  PROVE  Sound' /\ PassesKept /\ Calm /\ UNCHANGED <<log, of>>
<1>1. Moves(r, Idle) /\ Idle \in Request /\ Pointed(Idle) /\ Idle.pc \notin Drawing \cup {"enter"}
  BY FinishMoves, IdleType DEF Die, Pointed, Pointing, Drawing
<1> QED
  BY <1>1, BeginKeeps DEF Die, Marked

(* A new row is a row. *)
LEMMA RowInserted ==
  ASSUME TypeOK, NEW kind \in Kinds, NEW e \in Nat, NEW p \in Nat,
         log' = Append(log, NewRow(Car, kind, now, e)), of' = Append(of, p)
  PROVE  /\ log' \in Seq(Row) /\ of' \in Seq(Nat)
         /\ Len(log') = Len(log) + 1 /\ Len(of') = Len(of) + 1
         /\ \A i \in 1..Len(log) : log'[i] = log[i]
         /\ \A i \in 1..Len(of) : of'[i] = of[i]
         /\ log'[Len(log) + 1].kind = kind /\ of'[Len(of) + 1] = p
<1>1. NewRow(Car, kind, now, e) \in Row /\ NewRow(Car, kind, now, e).kind = kind
  BY VisitorAssumption DEF NewRow, Row, TypeOK
<1>2. log \in Seq(Row) /\ of \in Seq(Nat)
  BY DEF TypeOK
<1> QED
  BY <1>1, <1>2

LEMMA NewestType == ASSUME NEW S, S \subseteq Nat PROVE Newest(S) \in Nat
BY DEF Newest

LEMMA TargetType == ASSUME TypeOK PROVE PairTarget(log, Car, now) \in Nat
<1>1. {e \in EntriesToday(log, Car, now) : ~Closed(log, e)} \subseteq Nat
  BY DEF EntriesToday, TypeOK
<1> QED
  BY <1>1, NewestType DEF PairTarget

LEMMA VisitType == ASSUME TypeOK PROVE visit.plated \in BOOLEAN /\ visit.arrived \in BOOLEAN
BY DEF TypeOK, Visit

LEMMA ArriveKeeps ==
  ASSUME Sound, NEW r \in Requests, Arrive(r)
  PROVE  Sound' /\ PassesKept /\ Calm /\ UNCHANGED <<log, of>>
<1>1. Moves(r, Idle) /\ Idle \in Request /\ Pointed(Idle) /\ Idle.pc \notin Drawing \cup {"enter"}
  BY FinishMoves, IdleType DEF Arrive, Pointed, Pointing, Drawing
<1>2. visit' \in Visit /\ log' \in Seq(Row) /\ of' \in Seq(Nat) /\ fines' \in SUBSET Nat
  BY DEF Arrive, Visit, Sound, TypeOK
<1>3. UNCHANGED <<now, log, of, passes, desk, upsets>>
  BY DEF Arrive
<1> QED
  BY <1>1, <1>2, <1>3, QuietKeeps

LEMMA FineKeeps ==
  ASSUME Sound, NEW r \in Requests, Fine(r) \/ Lift(r)
  PROVE  Sound' /\ PassesKept /\ Calm /\ UNCHANGED <<log, of>>
<1>1. Moves(r, Idle) /\ Idle \in Request /\ Pointed(Idle) /\ Idle.pc \notin Drawing \cup {"enter"}
  BY FinishMoves, IdleType DEF Fine, Lift, Pointed, Pointing, Drawing
<1>2. visit' \in Visit /\ log' \in Seq(Row) /\ of' \in Seq(Nat)
  BY DEF Fine, Lift, Sound, TypeOK
<1>3. fines' \in SUBSET Nat
  BY DEF Fine, Lift, Sound, TypeOK
<1>4. UNCHANGED <<now, log, of, passes, desk, upsets>>
  BY DEF Fine, Lift
<1> QED
  BY <1>1, <1>2, <1>3, <1>4, QuietKeeps

LEMMA ExitRowKeeps ==
  ASSUME Sound, NEW r \in Requests, ExitRow(r)
  PROVE  Sound' /\ PassesKept /\ Calm
<1>1. PICK pc \in {"fine", "seek"} : Goto(r, pc)
  BY DEF ExitRow
<1>2. pc \in PCs /\ pc \notin Pointing /\ pc \notin Drawing \cup {"enter"}
  BY <1>1 DEF PCs, Pointing, Drawing
<1> DEFINE req == [requests[r] EXCEPT !.pc = pc]
<1>3. Moves(r, req) /\ req \in Request /\ req.pc = pc
  BY <1>1, <1>2, GotoMoves, RequestFields DEF Sound, Request
<1> HIDE DEF req
<1>4. Pointed(req)
  BY <1>2, <1>3 DEF Pointed
<1>5. log' \in Seq(Row) /\ of' \in Seq(Nat) /\ "exit" \in Kinds
  BY RowInserted, TargetType DEF ExitRow, Kinds, Sound
<1>6. fines' \in SUBSET Nat /\ visit' \in Visit
      /\ UNCHANGED <<now, passes, desk, upsets>>
  BY DEF ExitRow, Sound, TypeOK
<1> QED
  BY <1>2, <1>3, <1>4, <1>5, <1>6, QuietKeeps

(* Plate checks. *)
LEMMA CheckKeeps ==
  ASSUME Sound, NEW r \in Requests, NEW errand,
         CheckInside(r, errand) \/ CheckOutside(r, errand)
  PROVE  Sound' /\ PassesKept /\ Calm /\ UNCHANGED <<log, of>>
<1>1. /\ TypeOK /\ errand \in Errands /\ {"lock", "admit"} \subseteq PCs
      /\ LastEntry(log, Car, now) \in Nat
  <2>1. EntriesToday(log, Car, now) \subseteq Nat
    BY DEF EntriesToday, Sound, TypeOK
  <2> QED
    BY <2>1, NewestType DEF CheckInside, CheckOutside, Sound, Errands, PCs, LastEntry
<1>2. PICK req \in Request : Moves(r, req) /\ req.pc \in {"lock", "admit"}
  <2>1. CASE CheckInside(r, errand)
    BY <1>1, <2>1, BeginMoves DEF CheckInside
  <2>2. CASE CheckOutside(r, errand)
    BY <1>1, <2>2, BeginMoves DEF CheckOutside
  <2> QED
    BY <2>1, <2>2
<1>3. Marked /\ UNCHANGED <<now, log, of, desk, fines, visit>>
  BY <1>1, NoteMarks DEF CheckInside, CheckOutside
<1>4. Pointed(req) /\ req.pc \notin Drawing \cup {"enter"}
  BY <1>2 DEF Pointed, Pointing, Drawing
<1> QED
  BY <1>2, <1>3, <1>4, BeginKeeps

(* An exit or an entry row of no slip, the passes marked at most.          *)
LEMMA RowKeeps ==
  ASSUME Sound, NEW r \in Requests, NEW req \in Request, Moves(r, req), Pointed(req),
         req.pc \notin Drawing \cup {"enter"}, Marked,
         UNCHANGED <<now, desk, fines>>, visit' \in Visit,
         log' \in Seq(Row), of' \in Seq(Nat)
  PROVE  Sound' /\ PassesKept /\ Calm
<1>1. /\ passes' \in Seq(Pass) /\ Len(passes') = Len(passes) /\ upsets' \in Nat
      /\ PassesKept /\ TokensKept
  BY MarksKeep DEF Sound
<1>2. Sound'
  BY <1>1, MoveSound DEF Sound, TypeOK, desk
<1> QED
  BY <1>1, <1>2, MoveCalm DEF Sound

LEMMA LockedExitKeeps ==
  ASSUME Sound, NEW r \in Requests, LockedExit(r)
  PROVE  /\ Sound' /\ PassesKept /\ Calm
         /\ \/ UNCHANGED <<log, of>>
            \/ /\ log' = Append(log, NewRow(Car, "exit", now, requests[r].number))
               /\ of' = Append(of, 0) /\ requests[r].number \in Nat
<1>1. /\ UNCHANGED <<now, desk, fines>> /\ visit' \in Visit /\ "seek" \in PCs
      /\ requests[r].number \in Nat /\ TypeOK
  BY RequestFields DEF LockedExit, Sound, TypeOK, PCs
<1>2. Marked
  BY DEF LockedExit, Marked
<1>3. PICK req \in Request : Moves(r, req) /\ req.pc \in {"idle", "seek"}
  <2>1. CASE Finish(r)
    BY <2>1, FinishMoves, IdleType
  <2>2. CASE Goto(r, "seek")
    BY <1>1, <2>2, GotoMoves, RequestFields DEF Request
  <2> QED
    BY <2>1, <2>2 DEF LockedExit
<1>4. Pointed(req) /\ req.pc \notin Drawing \cup {"enter"}
  BY <1>3 DEF Pointed, Pointing, Drawing
<1>5. \/ UNCHANGED <<log, of>>
      \/ /\ log' = Append(log, NewRow(Car, "exit", now, requests[r].number))
         /\ of' = Append(of, 0)
  BY DEF LockedExit
<1>6. log' \in Seq(Row) /\ of' \in Seq(Nat)
  <2>1. CASE UNCHANGED <<log, of>>
    BY <1>1, <2>1 DEF TypeOK
  <2>2. CASE /\ log' = Append(log, NewRow(Car, "exit", now, requests[r].number))
             /\ of' = Append(of, 0)
    BY <1>1, <2>2, RowInserted DEF Kinds
  <2> QED
    BY <1>5, <2>1, <2>2
<1> QED
  BY <1>1, <1>2, <1>3, <1>4, <1>5, <1>6, RowKeeps

LEMMA EntryRowType ==
  ASSUME Sound, EntryRow
  PROVE  log' \in Seq(Row) /\ of' \in Seq(Nat) /\ visit' \in Visit
<1>1. log' \in Seq(Row) /\ of' \in Seq(Nat)
  BY RowInserted DEF EntryRow, Kinds, Sound
<1>2. visit' \in Visit
  <2>1. (visit.arrived \/ visit.plated) \in BOOLEAN
    OBVIOUS
  <2> QED
    BY <2>1 DEF EntryRow, Visit, Sound, TypeOK
<1> QED
  BY <1>1, <1>2

LEMMA AdmitKeeps ==
  ASSUME Sound, NEW r \in Requests, Admit(r)
  PROVE  Sound' /\ PassesKept /\ Calm /\ EntryRow
<1>1. Moves(r, Idle) /\ Idle \in Request /\ Pointed(Idle) /\ Idle.pc \notin Drawing \cup {"enter"}
  BY FinishMoves, IdleType DEF Admit, Pointed, Pointing, Drawing
<1>2. Marked /\ UNCHANGED <<now, desk, fines>> /\ EntryRow
  BY DEF Admit, Marked
<1> QED
  BY <1>1, <1>2, EntryRowType, RowKeeps

LEMMA OverrideKeeps ==
  ASSUME Sound, NEW r \in Requests, Override(r)
  PROVE  Sound' /\ PassesKept /\ Calm /\ EntryRow
<1>1. Marked /\ UNCHANGED <<now, desk, fines, requests>> /\ EntryRow /\ TypeOK
  BY NoteMarks DEF Override, Sound
<1>2. requests[r] \in Request /\ requests[r].pc = "idle"
  BY <1>1, RequestFields DEF Override, Busy
<1>3. Moves(r, requests[r])
  BY <1>1 DEF Moves, TypeOK
<1>4. Pointed(requests[r]) /\ requests[r].pc \notin Drawing \cup {"enter"}
  BY <1>2 DEF Pointed, Pointing, Drawing
<1> QED
  BY <1>1, <1>2, <1>3, <1>4, EntryRowType, RowKeeps

LEMMA SeekKeeps ==
  ASSUME Sound, NEW r \in Requests, Seek(r)
  PROVE  Sound' /\ PassesKept /\ Calm /\ UNCHANGED <<log, of>>
<1>0. /\ UNCHANGED <<now, log, of, passes, desk, upsets>>
      /\ log' \in Seq(Row) /\ of' \in Seq(Nat) /\ fines' \in SUBSET Nat /\ visit' \in Visit
  BY DEF Seek, Sound, TypeOK
<1>1. CASE ActivePass = 0
  <2>1. Moves(r, Idle) /\ Idle \in Request /\ Pointed(Idle) /\ Idle.pc \notin Drawing \cup {"enter"}
    BY <1>1, FinishMoves, IdleType DEF Seek, Pointed, Pointing, Drawing
  <2> QED
    BY <1>0, <2>1, QuietKeeps
<1>2. CASE ActivePass # 0
  <2> DEFINE p == ActivePass
             req == [requests[r] EXCEPT !.pc = "close", !.pass = p, !.expires = passes[p].expires]
  <2>1. p \in 1..Len(passes)
    BY <1>2, Indices DEF ActivePass, Newest, Active, Sound
  <2>2. p \in Nat /\ passes[p].expires \in Nat /\ "close" \in PCs
    BY <2>1, PassFields, Indices DEF Sound, PCs
  <2> HIDE DEF p
  <2>3. req \in Request /\ req.pc = "close" /\ req.pass = p
    BY <2>2, RequestFields DEF Sound, Request
  <2>4. Moves(r, req)
    BY <1>2, Zenon DEF Seek, Moves, p
  <2> HIDE DEF req
  <2>5. Pointed(req) /\ req.pc \notin Drawing \cup {"enter"}
    BY <2>1, <2>3 DEF Pointed, Drawing
  <2> QED
    BY <1>0, <2>3, <2>4, <2>5, QuietKeeps
<1> QED
  BY <1>1, <1>2

LEMMA CloseKeeps ==
  ASSUME Sound, NEW r \in Requests, Close(r)
  PROVE  Sound' /\ PassesKept /\ Calm /\ UNCHANGED <<log, of>>
<1> DEFINE p == requests[r].pass
           x == [passes[p] EXCEPT !.active = FALSE, !.exited = now]
<1>1. TypeOK /\ p \in 1..Len(passes) /\ now \in Nat /\ requests[r].pc = "close"
  BY DEF Close, Sound, Aimed, Pointed, Pointing, TypeOK
<1>2. /\ x \in Pass /\ ~x.active /\ x.printed = passes[p].printed /\ x.twice = passes[p].twice
      /\ x.token = passes[p].token
  BY <1>1, PassFields DEF Pass
<1>3. passes' = [passes EXCEPT ![p] = x]
  BY Zenon DEF Close
<1> DEFINE pc == IF requests[r].errand = "slip" THEN "row" ELSE "fine"
<1>4. requests' = [requests EXCEPT ![r].pc = pc, ![r].left = now]
  BY Zenon DEF Close
<1>5. pc \in PCs /\ pc \notin Pointing /\ pc \notin Drawing \cup {"enter"}
  BY DEF PCs, Pointing, Drawing
<1> HIDE DEF pc
<1> DEFINE req == [requests[r] EXCEPT !.pc = pc, !.left = now]
<1>6. req \in Request /\ req.pc = pc
  BY <1>1, <1>5, RequestFields DEF Request
<1>7. Moves(r, req)
  BY <1>4, Zenon DEF Moves
<1> HIDE DEF p, x, req
<1>8. Pointed(req)
  BY <1>5, <1>6 DEF Pointed
<1>9. UNCHANGED <<now, log, of, desk, fines, visit, upsets>>
  BY <1>1 DEF Close
<1> QED
  BY <1>1, <1>2, <1>3, <1>5, <1>6, <1>7, <1>8, <1>9, ChangeKeeps

LEMMA SaveKeeps ==
  ASSUME Sound, NEW r \in Requests, SaveAllowance(r)
  PROVE  Sound' /\ PassesKept /\ Calm /\ UNCHANGED <<log, of>>
<1> DEFINE p == requests[r].pass
           x == [passes[p] EXCEPT !.expires = requests[r].expires]
           req == [requests[r] EXCEPT !.pc = "lift"]
<1>1. /\ TypeOK /\ p \in 1..Len(passes) /\ requests[r].pc = "save"
      /\ requests[r].expires \in Nat /\ "lift" \in PCs
  BY RequestFields DEF SaveAllowance, Sound, Aimed, Pointed, Pointing, PCs
<1>2. /\ x \in Pass /\ x.active = passes[p].active /\ x.printed = passes[p].printed
      /\ x.twice = passes[p].twice /\ x.token = passes[p].token
  BY <1>1, PassFields DEF Pass
<1>3. passes' = [passes EXCEPT ![p] = x]
  BY Zenon DEF SaveAllowance
<1>4. Moves(r, req) /\ req \in Request /\ req.pc = "lift" /\ req.pass = p
  BY <1>1, GotoMoves, RequestFields DEF SaveAllowance, Request
<1> HIDE DEF p, x, req
<1>5. Pointed(req) /\ req.pc \notin Drawing \cup {"enter"}
  BY <1>1, <1>4 DEF Pointed, Drawing
<1>6. UNCHANGED <<now, log, of, desk, fines, visit, upsets>>
  BY <1>1 DEF SaveAllowance
<1> QED
  BY <1>1, <1>2, <1>3, <1>4, <1>5, <1>6, ChangeKeeps

-----------------------------------------------------------------------------
(* The actions that write an entry, a paper or a serial. *)

LEMMA StampKeeps ==
  ASSUME Sound, NEW r \in Requests, Stamp(r)
  PROVE  /\ Sound' /\ PassesKept /\ TokensKept /\ UNCHANGED <<log, of, desk>>
         /\ requests[r].pc = "stamp" /\ requests[r].pass \in 1..Len(passes)
         /\ requests'[r].pc = "enter" /\ requests'[r].pass = requests[r].pass
         /\ \A q \in Requests : q # r => requests'[q] = requests[q]
         /\ Len(passes') = Len(passes) /\ passes'[requests[r].pass].printed
         /\ passes[requests[r].pass].printed => passes'[requests[r].pass].twice
<1> DEFINE p == requests[r].pass
           saved == [passes[p] EXCEPT !.printed = TRUE, !.twice = @ \/ passes[p].printed]
           req == [requests[r] EXCEPT !.pc = "enter"]
<1>1. TypeOK /\ p \in 1..Len(passes) /\ requests[r].pc = "stamp" /\ "enter" \in PCs
  BY DEF Stamp, Sound, Aimed, Pointed, Pointing, PCs
<1>2. PICK x \in Pass :
        /\ passes' = [passes EXCEPT ![p] = x]
        /\ x.printed = TRUE /\ x.active = passes[p].active /\ x.token = passes[p].token
        /\ passes[p].twice => x.twice
        /\ passes[p].printed => x.twice
  <2>1. passes' = [passes EXCEPT ![p] = saved]
    BY Zenon DEF Stamp
  <2>2. /\ saved \in Pass /\ saved.printed = TRUE
        /\ saved.active = passes[p].active /\ saved.token = passes[p].token
        /\ passes[p].twice => saved.twice
        /\ passes[p].printed => saved.twice
    BY <1>1, PassFields DEF Pass
  <2> HIDE DEF saved
  <2> QED
    BY <2>1, <2>2
<1>3. /\ passes[p].printed => x.printed
      /\ x.active => passes[p].active
  BY <1>2
<1>4. Moves(r, req) /\ req \in Request /\ req.pc = "enter" /\ req.pass = p
  BY <1>1, GotoMoves, RequestFields DEF Stamp, Request
<1> HIDE DEF p, req
<1>5. Pointed(req)
  BY <1>1, <1>4 DEF Pointed
<1>6. UNCHANGED <<now, log, of, desk, fines, visit, upsets>>
  BY <1>1 DEF Stamp
<1>7. Sound' /\ PassesKept
  BY <1>1, <1>2, <1>3, <1>4, <1>5, <1>6, ChangeKeeps
<1>8. TokensKept /\ Len(passes') = Len(passes) /\ passes'[p] = x
  BY <1>1, <1>2, <1>3, OnePass, PassChanges
<1>9. requests'[r] = req /\ \A q \in Requests : q # r => requests'[q] = requests[q]
  BY <1>1, <1>4, OneRequest
<1> QED
  BY <1>1, <1>2, <1>4, <1>6, <1>7, <1>8, <1>9 DEF p

LEMMA EnterKeeps ==
  ASSUME Sound, NEW r \in Requests, Enter(r)
  PROVE  /\ Sound' /\ PassesKept /\ Calm
         /\ requests[r].pc = "enter" /\ requests[r].pass \in 1..Len(passes)
         /\ requests'[r].pc # "enter" /\ passes' = passes
<1> DEFINE p == requests[r].pass
<1>1. TypeOK /\ p \in 1..Len(passes) /\ requests[r].pc = "enter" /\ "arrive" \in PCs
  BY DEF Enter, Sound, Aimed, Pointed, Pointing, PCs
<1>2. log' \in Seq(Row) /\ of' \in Seq(Nat)
  BY <1>1, RowInserted, Indices DEF Enter, Kinds
<1>3. visit' \in Visit /\ fines' \in SUBSET Nat
  <2>1. (visit.arrived \/ visit.plated) \in BOOLEAN
    OBVIOUS
  <2> QED
    BY <1>1, <2>1 DEF Enter, Visit, TypeOK
<1>4. PICK req \in Request :
        /\ Moves(r, req) /\ req.pc \in {"arrive", "idle"}
        /\ req.pc \in Pointing => req.pass = p
  <2>1. CASE Goto(r, "arrive")
    BY <1>1, <2>1, GotoMoves, RequestFields DEF Request
  <2>2. CASE Finish(r)
    BY <2>2, FinishMoves, IdleType DEF Pointing
  <2> QED
    BY <2>1, <2>2 DEF Enter
<1>5. Pointed(req) /\ req.pc \notin Drawing \cup {"enter"}
  BY <1>1, <1>4 DEF Pointed, Drawing
<1>6. UNCHANGED <<now, passes, desk, upsets>>
  BY <1>1 DEF Enter
<1>7. Sound' /\ PassesKept /\ Calm
  BY <1>2, <1>3, <1>4, <1>5, <1>6, QuietKeeps
<1> QED
  BY <1>1, <1>4, <1>5, <1>6, <1>7, OneRequest

LEMMA DrawKeeps ==
  ASSUME Sound, NEW r \in Requests, NEW p \in 1..Len(passes), NEW errand, Draw(r, p, errand)
  PROVE  /\ Sound' /\ PassesKept /\ TokensKept /\ UNCHANGED <<log, of, papers>>
         /\ requests[r].pc = "idle" /\ handed \subseteq handed'
         /\ \/ requests'[r].pc = "draw"
            \/ requests'[r].pc = "keep" /\ requests'[r].number \in handed'
         /\ \A q \in Requests : q # r => requests'[q] = requests[q]
<1> DEFINE pc == IF errand = "thermal" THEN "draw" ELSE "keep"
<1>1. /\ TypeOK /\ p \in Nat /\ serial + 1 \in Nat /\ errand \in Errands /\ pc \in PCs
      /\ requests[r].pc = "idle" /\ errand \in {"thermal", "browser"}
  BY Indices DEF Draw, Begin, Busy, Sound, TypeOK, Errands, PCs
<1>2. Begin(r, errand, pc, p, serial + 1, 0)
  BY Zenon DEF Draw
<1>3. pc \in {"draw", "keep"} /\ (pc = "keep" => errand = "browser")
  BY <1>1
<1> HIDE DEF pc
<1>4. PICK req \in Request :
        Moves(r, req) /\ req.errand = errand /\ req.pc = pc /\ req.pass = p /\ req.number = serial + 1
  BY <1>1, <1>2, BeginMoves
<1>5. /\ passes' \in Seq(Pass) /\ Len(passes') = Len(passes) /\ upsets' \in Nat
      /\ PassesKept /\ TokensKept
  BY <1>1, NoteMarks, MarksKeep DEF Draw
<1>6. /\ UNCHANGED <<now, log, of, papers, fines, visit>> /\ serial' = serial + 1
      /\ handed' \in SUBSET Nat /\ handed \subseteq handed'
      /\ errand = "browser" => serial + 1 \in handed'
  BY <1>1 DEF Draw, TypeOK
<1>7. Sound'
  BY <1>1, <1>4, <1>5, <1>6, MoveSound DEF Pointed, Sound, TypeOK
<1>8. requests'[r] = req /\ \A q \in Requests : q # r => requests'[q] = requests[q]
  BY <1>1, <1>4, OneRequest
<1> QED
  BY <1>1, <1>3, <1>4, <1>5, <1>6, <1>7, <1>8

LEMMA PaperKeeps ==
  ASSUME Sound, NEW r \in Requests, NEW jams \in BOOLEAN, PaperOut(r, jams)
  PROVE  /\ Sound' /\ PassesKept /\ TokensKept
         /\ UNCHANGED <<log, of, passes, serial, handed>>
         /\ requests[r].pc = "draw"
         /\ \A q \in Requests : q # r => requests'[q] = requests[q]
         /\ papers \subseteq papers'
         /\ \/ requests'[r].pc = "idle"
            \/ /\ requests'[r].pc = "keep" /\ requests'[r].number = requests[r].number
               /\ requests'[r].pass = requests[r].pass
               /\ <<requests[r].pass, requests[r].number>> \in papers'
<1>1. /\ TypeOK /\ requests[r].pc = "draw" /\ "keep" \in PCs
      /\ requests[r].pass \in 1..Len(passes) /\ requests[r].number \in Nat
  BY RequestFields DEF PaperOut, Sound, Aimed, Pointed, Pointing, PCs
<1>2. <<requests[r].pass, requests[r].number>> \in Nat \X Nat
  BY <1>1, RequestFields
<1>3. papers' \in SUBSET (Nat \X Nat) /\ papers \subseteq papers'
  BY <1>1, <1>2 DEF PaperOut, TypeOK
<1>4. UNCHANGED <<now, log, of, passes, serial, handed, fines, visit, upsets>>
  BY DEF PaperOut
<1>5. passes' \in Seq(Pass) /\ Len(passes') = Len(passes) /\ PassesKept /\ TokensKept
  BY <1>1, <1>4, PassesSame
<1>6. CASE jams
  <2>1. Moves(r, Idle) /\ Idle \in Request /\ Pointed(Idle) /\ Idle.pc = "idle"
    BY <1>6, FinishMoves, IdleType DEF PaperOut, Pointed, Pointing
  <2>2. Sound'
    BY <1>1, <1>3, <1>4, <1>5, <2>1, MoveSound DEF Sound, TypeOK
  <2> QED
    BY <1>1, <1>3, <1>4, <1>5, <2>1, <2>2, OneRequest
<1>7. CASE ~jams
  <2> DEFINE req == [requests[r] EXCEPT !.pc = "keep"]
  <2>1. /\ Moves(r, req) /\ req \in Request /\ req.pc = "keep"
        /\ req.pass = requests[r].pass /\ req.number = requests[r].number
    BY <1>1, <1>7, GotoMoves, RequestFields DEF PaperOut, Request
  <2> HIDE DEF req
  <2>2. Sound'
    BY <1>1, <1>3, <1>4, <1>5, <2>1, MoveSound DEF Sound, TypeOK, Pointed
  <2>3. <<requests[r].pass, requests[r].number>> \in papers'
    BY <1>7 DEF PaperOut
  <2> QED
    BY <1>1, <1>3, <1>4, <1>5, <2>1, <2>2, <2>3, OneRequest
<1> QED
  BY <1>6, <1>7

LEMMA KeepKeeps ==
  ASSUME Sound, NEW r \in Requests, Keep(r)
  PROVE  /\ Sound' /\ PassesKept /\ UNCHANGED <<log, of, desk>>
         /\ requests[r].pc = "keep" /\ requests[r].pass \in 1..Len(passes)
         /\ \A q \in Requests : q # r => requests'[q] = requests[q]
         /\ Len(passes') = Len(passes)
         /\ \A p \in 1..Len(passes) :
              passes'[p].token = IF p = requests[r].pass THEN requests[r].number
                                                         ELSE passes[p].token
         /\ requests'[r].pc = "idle"
<1> DEFINE p == requests[r].pass
           x == [passes[p] EXCEPT !.token = requests[r].number]
<1>1. /\ TypeOK /\ p \in 1..Len(passes) /\ requests[r].pc = "keep"
      /\ requests[r].number \in Nat
  BY RequestFields DEF Keep, Sound, Aimed, Pointed, Pointing, PCs
<1>2. /\ x \in Pass /\ x.active = passes[p].active /\ x.printed = passes[p].printed
      /\ x.twice = passes[p].twice /\ x.token = requests[r].number
  BY <1>1, PassFields DEF Pass
<1>3. passes' = [passes EXCEPT ![p] = x]
  BY Zenon DEF Keep
<1> HIDE DEF x
<1>4. /\ Len(passes') = Len(passes) /\ passes'[p] = x
      /\ \A q \in 1..Len(passes) : q # p => passes'[q] = passes[q]
  BY <1>1, <1>2, <1>3, OnePass
<1>5. UNCHANGED <<now, log, of, desk, fines, visit, upsets>>
  BY <1>1 DEF Keep
<1>6. Moves(r, Idle) /\ Idle \in Request /\ Pointed(Idle) /\ Idle.pc = "idle"
  BY FinishMoves, IdleType DEF Keep, Pointed, Pointing
<1>8. Sound' /\ PassesKept
  BY <1>1, <1>2, <1>3, <1>5, <1>6, ChangeKeeps
<1>9. requests'[r] = Idle /\ \A q \in Requests : q # r => requests'[q] = requests[q]
  BY <1>1, <1>6, OneRequest
<1> QED
  BY <1>1, <1>2, <1>4, <1>5, <1>6, <1>8, <1>9

-----------------------------------------------------------------------------
(* Every step is one of these, or calm.                                    *)
Telling ==
  \E r \in Requests :
    \/ Stamp(r) \/ Enter(r) \/ ExitRow(r) \/ Keep(r)
    \/ LockedExit(r) \/ Admit(r) \/ Override(r)
    \/ \E p \in 1..Len(passes), errand \in {"thermal", "browser"} : Draw(r, p, errand)
    \/ \E jams \in BOOLEAN : PaperOut(r, jams)

LEMMA EveryStep ==
  ASSUME Sound, [Next]_vars
  PROVE  Sound' /\ PassesKept /\ (Telling \/ (Calm /\ UNCHANGED <<log, of>>))
<1>1. ASSUME NEW r \in Requests, Start(r)
      PROVE  Sound' /\ PassesKept /\ (Telling \/ (Calm /\ UNCHANGED <<log, of>>))
  <2>1. CASE TypedExit(r)
    BY <2>1, TypedExitKeeps
  <2>2. CASE Acknowledge(r)
    BY <2>2, AcknowledgeKeeps
  <2>3. ASSUME NEW p \in 1..Len(passes), NEW errand \in {"thermal", "browser"}, Draw(r, p, errand)
        PROVE  Sound' /\ PassesKept /\ Telling
    BY <2>3, DrawKeeps DEF Telling
  <2>4. ASSUME NEW p \in 1..Len(passes), Confirm(r, p)
        PROVE  Sound' /\ PassesKept /\ Calm /\ UNCHANGED <<log, of>>
    BY <2>4, ConfirmKeeps
  <2>5. ASSUME NEW p \in 1..Len(passes), SlipExit(r, p)
        PROVE  Sound' /\ PassesKept /\ Calm /\ UNCHANGED <<log, of>>
    BY <2>5, SlipExitKeeps
  <2>6. ASSUME NEW p \in 1..Len(passes), Extend(r, p)
        PROVE  Sound' /\ PassesKept /\ Calm /\ UNCHANGED <<log, of>>
    <3>1. passes[p].expires + 1 \in Nat
      BY PassFields DEF Sound
    <3> QED
      BY <2>6, <3>1, AllowKeeps DEF Extend
  <2>7. ASSUME NEW p \in 1..Len(passes), NEW minutes \in Minutes, RecordDetails(r, p, minutes)
        PROVE  Sound' /\ PassesKept /\ Calm /\ UNCHANGED <<log, of>>
    <3>1. passes[p].issued + minutes \in Nat
      BY PassFields, VisitorAssumption DEF Sound
    <3> QED
      BY <2>7, <3>1, AllowKeeps DEF RecordDetails
  <2>8. CASE Override(r)
    BY <2>8, OverrideKeeps DEF Telling
  <2>9. ASSUME NEW errand \in {"check", "upload"},
               CheckInside(r, errand) \/ CheckOutside(r, errand)
        PROVE  Sound' /\ PassesKept /\ Calm /\ UNCHANGED <<log, of>>
    BY <2>9, CheckKeeps
  <2> QED
    BY <1>1, <2>1, <2>2, <2>3, <2>4, <2>5, <2>6, <2>7, <2>8, <2>9 DEF Start
<1>2. ASSUME NEW r \in Requests, Step(r)
      PROVE  Sound' /\ PassesKept /\ (Telling \/ (Calm /\ UNCHANGED <<log, of>>))
  <2>1. ASSUME NEW jams \in BOOLEAN, PaperOut(r, jams) PROVE Sound' /\ PassesKept /\ Telling
    BY <2>1, PaperKeeps DEF Telling
  <2>2. CASE LockedExit(r) \/ Admit(r)
    BY <2>2, LockedExitKeeps, AdmitKeeps DEF Telling
  <2>3. CASE Keep(r)
    BY <2>3, KeepKeeps DEF Telling
  <2>4. CASE Stamp(r)
    BY <2>4, StampKeeps DEF Telling
  <2>5. CASE Enter(r)
    BY <2>5, EnterKeeps DEF Telling
  <2>6. CASE ExitRow(r)
    BY <2>6, ExitRowKeeps DEF Telling
  <2>7. CASE Arrive(r) \/ Seek(r) \/ Close(r)
    BY <2>7, ArriveKeeps, SeekKeeps, CloseKeeps
  <2>8. CASE Fine(r) \/ Lift(r) \/ SaveAllowance(r)
    BY <2>8, FineKeeps, SaveKeeps
  <2> QED
    BY <1>2, <2>1, <2>2, <2>3, <2>4, <2>5, <2>6, <2>7, <2>8 DEF Step
<1>3. ASSUME NEW r \in Requests, Die(r)
      PROVE  Sound' /\ PassesKept /\ Calm /\ UNCHANGED <<log, of>>
  BY <1>3, DieKeeps
<1>4. ASSUME NEW minutes \in Minutes, NEW picked \in Picked, Issue(minutes, picked)
      PROVE  Sound' /\ PassesKept /\ Calm /\ UNCHANGED <<log, of>>
  BY <1>4, IssueKeeps
<1>5. CASE Tick \/ UNCHANGED vars
  <2>1. UNCHANGED <<log, of, passes, desk, fines, visit, upsets, requests>> /\ now' \in Nat
    BY <1>5 DEF Tick, vars, Sound, TypeOK
  <2>2. Sound'
    BY <2>1 DEF Sound, TypeOK, Aimed, Pointed, desk
  <2>3. PassesKept /\ TokensKept
    BY <2>1, PassesSame DEF Sound
  <2> QED
    BY <2>1, <2>2, <2>3 DEF Calm
<1>6. CASE Over
  BY <1>5, <1>6 DEF Over
<1> QED
  BY <1>1, <1>2, <1>3, <1>4, <1>5, <1>6 DEF Next

LEMMA InitSound == Init => Sound
<1> SUFFICES ASSUME Init PROVE Sound
  OBVIOUS
<1>1. visit \in Visit
  BY VisitorAssumption DEF Init, Visit
<1>2. requests \in [Requests -> Request] /\ \A r \in Requests : requests[r].pc = "idle"
  BY IdleType DEF Init
<1> QED
  BY <1>1, <1>2 DEF Init, Sound, TypeOK, Aimed, Pointed, Pointing

(* The rows, passes, papers and requests have their types, and a request   *)
(* that will write its pass again points at one that is there.             *)
THEOREM VisitorTypes == Spec => []TypeOK
<1>1. Spec => []Sound
  BY InitSound, EveryStep, PTL DEF Spec
<1>2. Sound => TypeOK
  BY DEF Sound
<1> QED
  BY <1>1, <1>2, PTL

(* What a guard recorded stands: no request, however old the pass it       *)
(* loaded, makes a pass that was exited active again, or takes the print   *)
(* stamp from a slip.                                                      *)
THEOREM ExitsStand == Spec => ExitStands
<1>1. Sound /\ [Next]_vars =>
        [\A p \in DOMAIN passes :
            /\ ~passes[p].active => ~passes'[p].active
            /\ passes[p].printed => passes'[p].printed]_vars
  <2> SUFFICES ASSUME Sound, [Next]_vars
      PROVE  \A p \in DOMAIN passes :
               /\ ~passes[p].active => ~passes'[p].active
               /\ passes[p].printed => passes'[p].printed
    OBVIOUS
  <2>1. DOMAIN passes = 1..Len(passes)
    BY Indices DEF Sound
  <2> QED
    BY <2>1, EveryStep DEF PassesKept
<1> QED
  BY <1>1, InitSound, EveryStep, PTL DEF Spec, ExitStands

-----------------------------------------------------------------------------
(* One entry for a pass.  A pass that no two confirmations met on has its  *)
(* entry, or a request about to write it, but not both, and only once it   *)
(* is stamped.                                                             *)
Entering(r, p) == requests[r].pc = "enter" /\ requests[r].pass = p

Entered(i, p) == i \in 1..Len(log) /\ log[i].kind = "entry" /\ of[i] = p

LoggedOnce(p) ==
  /\ \A i, j : Entered(i, p) /\ Entered(j, p) => i = j
  /\ \A i : Entered(i, p) => passes[p].printed
  /\ \A r \in Requests : Entering(r, p) =>
       /\ passes[p].printed
       /\ \A i : ~Entered(i, p)
       /\ \A q \in Requests : Entering(q, p) => q = r

Logged ==
  /\ Len(of) = Len(log)
  /\ \A i \in 1..Len(of) : of[i] \in 0..Len(passes)
  /\ \A p \in 1..Len(passes) : passes[p].twice \/ LoggedOnce(p)

(* Nothing entered, nobody new about to. *)
LEMMA LoggedKept ==
  ASSUME Sound, Logged, PassesKept, Sound', Len(of') = Len(log'),
         \A i \in 1..Len(of') : of'[i] \in 0..Len(passes),
         \A i, p : Entered(i, p)' /\ p # 0 => Entered(i, p),
         \A r \in Requests : \A p : Entering(r, p)' => Entering(r, p)
  PROVE  Logged'
<1>1. Len(passes) \in Nat /\ Len(passes') \in Nat /\ Len(passes) <= Len(passes')
  BY DEF Sound, TypeOK, PassesKept
<1>2. \A i \in 1..Len(of') : of'[i] \in 0..Len(passes')
  BY <1>1
<1>3. ASSUME NEW p \in 1..Len(passes') PROVE passes'[p].twice \/ LoggedOnce(p)'
  <2>1. CASE p \in 1..Len(passes)
    <3>1. p # 0
      BY <2>1
    <3>2. /\ passes[p].twice => passes'[p].twice
          /\ passes[p].printed => passes'[p].printed
      BY <2>1 DEF PassesKept
    <3>3. CASE passes[p].twice
      BY <3>2, <3>3
    <3>4. CASE LoggedOnce(p)
      BY <3>1, <3>2, <3>4 DEF LoggedOnce
    <3> QED
      BY <2>1, <3>3, <3>4 DEF Logged
  <2>2. CASE p \notin 1..Len(passes)
    <3>1. \A i : ~Entered(i, p)
      BY <1>1, <2>2 DEF Entered, Logged
    <3>2. \A r \in Requests : ~Entering(r, p)
      BY <2>2 DEF Entering, Sound, Aimed, Pointed, Pointing
    <3>3. p # 0
      BY <1>1
    <3> QED
      BY <3>1, <3>2, <3>3 DEF LoggedOnce
  <2> QED
    BY <2>1, <2>2
<1> QED
  BY <1>2, <1>3 DEF Logged

Appended(kind, e, p) ==
  log' = Append(log, NewRow(Car, kind, now, e)) /\ of' = Append(of, p)

(* The row appended is the one that may be new. *)
LEMMA RowsEntered ==
  ASSUME Sound, Logged, NEW kind \in Kinds, NEW e \in Nat, NEW p \in Nat,
         Appended(kind, e, p)
  PROVE  /\ Len(of') = Len(log')
         /\ p \in 0..Len(passes) => \A i \in 1..Len(of') : of'[i] \in 0..Len(passes)
         /\ \A i, q : Entered(i, q)' <=>
                        (Entered(i, q) \/ (i = Len(log) + 1 /\ kind = "entry" /\ q = p))
         /\ \A q : ~Entered(Len(log) + 1, q)
<1>1. /\ Len(log') = Len(log) + 1 /\ Len(of') = Len(of) + 1
      /\ \A i \in 1..Len(log) : log'[i] = log[i]
      /\ \A i \in 1..Len(of) : of'[i] = of[i]
      /\ log'[Len(log) + 1].kind = kind /\ of'[Len(of) + 1] = p
  BY RowInserted DEF Sound, Appended
<1>2. Len(of) = Len(log) /\ Len(log) \in Nat /\ \A i \in 1..Len(of) : of[i] \in 0..Len(passes)
  BY DEF Logged, Sound, TypeOK
<1>3. Len(of') = Len(log') /\ 1..Len(log') = (1..Len(log)) \cup {Len(log) + 1}
      /\ Len(log) + 1 \notin 1..Len(log)
  BY <1>1, <1>2
<1>4. ASSUME NEW i, NEW q
      PROVE  Entered(i, q)' <=> (Entered(i, q) \/ (i = Len(log) + 1 /\ kind = "entry" /\ q = p))
  <2>1. CASE i \in 1..Len(log)
    <3>1. i # Len(log) + 1 /\ log'[i] = log[i] /\ of'[i] = of[i] /\ i \in 1..Len(log')
      BY <1>1, <1>2, <1>3, <2>1
    <3> QED
      BY <2>1, <3>1 DEF Entered
  <2>2. CASE i = Len(log) + 1
    BY <1>1, <1>2, <1>3, <2>2 DEF Entered
  <2>3. CASE i \notin 1..Len(log')
    BY <1>3, <2>3 DEF Entered
  <2> QED
    BY <1>3, <2>1, <2>2, <2>3
<1>5. \A q : ~Entered(Len(log) + 1, q)
  BY <1>3 DEF Entered
<1>6. ASSUME p \in 0..Len(passes), NEW i \in 1..Len(of') PROVE of'[i] \in 0..Len(passes)
  BY <1>1, <1>2, <1>3, <1>6
<1> QED
  BY <1>3, <1>4, <1>5, <1>6

LEMMA EntryLogged ==
  ASSUME Sound, Logged, NEW r \in Requests, Enter(r)
  PROVE  Logged'
<1> DEFINE n == Len(log) + 1
<1>1. PICK p \in 1..Len(passes) : p = requests[r].pass
  BY EnterKeeps
<1>2. /\ Sound' /\ PassesKept /\ Calm /\ passes' = passes
      /\ requests[r].pc = "enter" /\ requests'[r].pc # "enter"
  BY EnterKeeps
<1>3. /\ Len(of') = Len(log') /\ \A i \in 1..Len(of') : of'[i] \in 0..Len(passes)
      /\ \A i, q : Entered(i, q)' <=> Entered(i, q) \/ (i = n /\ q = p)
      /\ \A q : ~Entered(n, q)
  <2>1. p \in Nat /\ p \in 0..Len(passes) /\ "entry" \in Kinds
    BY <1>1, Indices DEF Sound, Kinds
  <2>2. Appended("entry", 0, p)
    BY <1>1 DEF Enter, Appended
  <2>3. \A i, q : Entered(i, q)' <=> (Entered(i, q) \/ (i = Len(log) + 1 /\ q = p))
    BY <2>1, <2>2, RowsEntered
  <2>4. /\ Len(of') = Len(log') /\ \A i \in 1..Len(of') : of'[i] \in 0..Len(passes)
        /\ \A q : ~Entered(n, q)
    BY <2>1, <2>2, RowsEntered
  <2> QED
    BY <2>3, <2>4
<1> HIDE DEF n
<1>4. \A q \in Requests : \A x : Entering(q, x)' => Entering(q, x) /\ q # r
  BY <1>2 DEF Calm, Entering
<1>5. Entering(r, p)
  BY <1>1, <1>2 DEF Entering
<1>6. ASSUME NEW x \in 1..Len(passes), ~passes[x].twice PROVE LoggedOnce(x)'
  <2>1. LoggedOnce(x)
    BY <1>6 DEF Logged
  <2>2. CASE x # p
    BY <1>2, <1>3, <1>4, <2>1, <2>2 DEF LoggedOnce
  <2>3. CASE x = p
    <3>1. passes[x].printed /\ \A i : ~Entered(i, x)
      BY <1>5, <2>1, <2>3 DEF LoggedOnce
    <3>2. \A q \in Requests : ~Entering(q, x)'
      BY <1>4, <1>5, <2>1, <2>3 DEF LoggedOnce
    <3>3. \A i : Entered(i, x)' <=> i = n
      BY <1>3, <2>3, <3>1
    <3> QED
      BY <1>2, <3>1, <3>2, <3>3 DEF LoggedOnce
  <2> QED
    BY <2>2, <2>3
<1> QED
  BY <1>2, <1>3, <1>6 DEF Logged

LEMMA StampLogged ==
  ASSUME Sound, Logged, NEW r \in Requests, Stamp(r)
  PROVE  Logged'
<1>1. PICK p \in 1..Len(passes) : p = requests[r].pass
  BY StampKeeps
<1>2. /\ Sound' /\ PassesKept /\ UNCHANGED <<log, of>> /\ Len(passes') = Len(passes)
      /\ requests'[r].pc = "enter" /\ requests'[r].pass = p /\ requests[r].pc = "stamp"
      /\ \A q \in Requests : q # r => requests'[q] = requests[q]
      /\ passes'[p].printed
      /\ passes[p].printed => passes'[p].twice
  BY <1>1, StampKeeps
<1>3. \A i, x : Entered(i, x)' <=> Entered(i, x)
  BY <1>2 DEF Entered
<1>4. \A q \in Requests : \A x : Entering(q, x)' <=> Entering(q, x) \/ (q = r /\ x = p)
  BY <1>2 DEF Entering
<1>5. ASSUME NEW x \in 1..Len(passes) PROVE passes'[x].twice \/ LoggedOnce(x)'
  <2>1. CASE passes[x].twice
    BY <2>1, <1>2 DEF PassesKept
  <2>2. CASE LoggedOnce(x) /\ x # p
    BY <1>2, <1>3, <1>4, <2>2 DEF LoggedOnce, PassesKept
  <2>3. CASE LoggedOnce(x) /\ x = p /\ ~passes[p].printed
    <3>1. (\A i : ~Entered(i, x)) /\ \A q \in Requests : ~Entering(q, x)
      BY <2>3 DEF LoggedOnce
    <3> QED
      BY <1>2, <1>3, <1>4, <2>3, <3>1 DEF LoggedOnce
  <2>4. CASE x = p /\ passes[p].printed
    BY <1>2, <2>4
  <2> QED
    BY <2>1, <2>2, <2>3, <2>4 DEF Logged
<1> QED
  BY <1>2, <1>5 DEF Logged

LEMMA NextLogged == Sound /\ Logged /\ [Next]_vars => Logged'
<1> SUFFICES ASSUME Sound, Logged, [Next]_vars PROVE Logged'
  OBVIOUS
<1>1. Sound' /\ PassesKept /\ (Telling \/ (Calm /\ UNCHANGED <<log, of>>))
  BY EveryStep
<1>2. ASSUME UNCHANGED <<log, of>>,
             \A r \in Requests : requests'[r].pc = "enter" => requests'[r] = requests[r]
      PROVE  Logged'
  <2>1. \A i, p : Entered(i, p)' => Entered(i, p)
    BY <1>2 DEF Entered
  <2>2. \A r \in Requests : \A p : Entering(r, p)' => Entering(r, p)
    BY <1>2 DEF Entering
  <2>3. Len(of') = Len(log') /\ \A i \in 1..Len(of') : of'[i] \in 0..Len(passes)
    BY <1>2 DEF Logged
  <2> QED
    BY <1>1, <2>1, <2>2, <2>3, LoggedKept
<1>3. CASE Calm /\ UNCHANGED <<log, of>>
  BY <1>2, <1>3 DEF Calm
<1>4. ASSUME NEW r \in Requests, Stamp(r) \/ Enter(r) PROVE Logged'
  BY <1>4, StampLogged, EntryLogged
<1>5. ASSUME NEW r \in Requests, ExitRow(r) PROVE Logged'
  <2>1. Calm
    BY <1>5, ExitRowKeeps
  <2>2. /\ Len(of') = Len(log') /\ \A i \in 1..Len(of') : of'[i] \in 0..Len(passes)
        /\ \A i, q : Entered(i, q)' => Entered(i, q)
    <3>1. 0 \in 0..Len(passes) /\ "exit" \in Kinds /\ PairTarget(log, Car, now) \in Nat
      BY TargetType, Indices DEF Sound, Kinds
    <3>2. Appended("exit", PairTarget(log, Car, now), 0)
      BY <1>5 DEF ExitRow, Appended
    <3> QED
      BY <3>1, <3>2, RowsEntered
  <2>3. \A q \in Requests : \A p : Entering(q, p)' => Entering(q, p)
    BY <2>1 DEF Calm, Entering
  <2> QED
    BY <1>1, <2>2, <2>3, LoggedKept
<1>6. ASSUME NEW r \in Requests, Keep(r) PROVE Logged'
  <2>1. UNCHANGED <<log, of>> /\ requests'[r].pc # "enter"
        /\ \A q \in Requests : q # r => requests'[q] = requests[q]
    BY <1>6, KeepKeeps
  <2> QED
    BY <1>2, <2>1
<1>7. ASSUME NEW r \in Requests, NEW p \in 1..Len(passes),
             NEW errand \in {"thermal", "browser"}, Draw(r, p, errand)
      PROVE  Logged'
  <2>1. UNCHANGED <<log, of>> /\ requests'[r].pc # "enter"
        /\ \A q \in Requests : q # r => requests'[q] = requests[q]
    BY <1>7, DrawKeeps
  <2> QED
    BY <1>2, <2>1
<1>8. ASSUME NEW r \in Requests, NEW b \in BOOLEAN, PaperOut(r, b)
      PROVE  Logged'
  <2>1. UNCHANGED <<log, of>> /\ requests'[r].pc # "enter"
        /\ \A q \in Requests : q # r => requests'[q] = requests[q]
    BY <1>8, PaperKeeps
  <2> QED
    BY <1>2, <2>1
<1>9. ASSUME NEW kind \in Kinds, NEW e \in Nat, Appended(kind, e, 0), Calm PROVE Logged'
  <2>1. 0 \in 0..Len(passes)
    BY Indices DEF Sound
  <2>2. /\ Len(of') = Len(log') /\ \A i \in 1..Len(of') : of'[i] \in 0..Len(passes)
        /\ \A i, q : Entered(i, q)' /\ q # 0 => Entered(i, q)
    BY <1>9, <2>1, RowsEntered
  <2>3. \A q \in Requests : \A p : Entering(q, p)' => Entering(q, p)
    BY <1>9 DEF Calm, Entering
  <2> QED
    BY <1>1, <2>2, <2>3, LoggedKept
<1>10. ASSUME NEW r \in Requests, LockedExit(r) PROVE Logged'
  <2>1. Calm
    BY <1>10, LockedExitKeeps
  <2>2. \/ UNCHANGED <<log, of>>
        \/ requests[r].number \in Nat /\ Appended("exit", requests[r].number, 0)
    BY <1>10, LockedExitKeeps DEF Appended
  <2> QED
    BY <1>3, <1>9, <2>1, <2>2 DEF Kinds
<1>11. ASSUME NEW r \in Requests, Admit(r) \/ Override(r) PROVE Logged'
  <2>1. Calm /\ Appended("entry", 0, 0)
    BY <1>11, AdmitKeeps, OverrideKeeps DEF EntryRow, Appended
  <2> QED
    BY <1>9, <2>1 DEF Kinds
<1> QED
  BY <1>1, <1>3, <1>4, <1>5, <1>6, <1>7, <1>8, <1>10, <1>11 DEF Telling

(* A visitor is logged in at most once, whatever confirmations were        *)
(* repeated and whatever died in between, unless two of them both found    *)
(* the slip unprinted.                                                     *)
THEOREM OneEntryPerPass == Spec => []EntryOnce
<1>1. Init => Logged
  BY DEF Init, Logged
<1>2. ASSUME Sound, Logged PROVE EntryOnce
  <2> SUFFICES ASSUME NEW p \in 1..Len(passes), LoggedOnce(p)
               PROVE  Cardinality(Entries(p)) <= 1
    BY <1>2, Indices DEF EntryOnce, Logged, Sound
  <2>1. \A i \in Entries(p) : Entered(i, p)
    BY <1>2 DEF Entries, Entered, Sound, TypeOK
  <2>2. CASE Entries(p) = {}
    BY <2>2, FS_EmptySet
  <2>3. CASE Entries(p) # {}
    <3>1. PICK i : i \in Entries(p)
      BY <2>3
    <3>2. Entries(p) = {i}
      BY <2>1, <3>1 DEF LoggedOnce
    <3>3. Cardinality({i}) = 1
      BY FS_Singleton
    <3> QED
      BY <3>2, <3>3
  <2> QED
    BY <2>2, <2>3
<1> QED
  BY <1>1, <1>2, InitSound, EveryStep, NextLogged, PTL DEF Spec

-----------------------------------------------------------------------------
(* The serials.  No pass keeps one before its paper is out of the printer, *)
(* unless it was drawn for a browser.                                      *)
Good(p, n) == n = 0 \/ <<p, n>> \in papers \/ n \in handed

Serials ==
  /\ \A p \in 1..Len(passes) : Good(p, passes[p].token)
  /\ \A r \in Requests :
       requests[r].pc = "keep" => Good(requests[r].pass, requests[r].number)

LEMMA NextSerials == Sound /\ Serials /\ [Next]_vars => Serials'
<1> SUFFICES ASSUME Sound, Serials, [Next]_vars PROVE Serials'
  OBVIOUS
<1>1. Sound' /\ PassesKept /\ (Telling \/ (Calm /\ UNCHANGED <<log, of>>))
  BY EveryStep
<1>2. Len(passes) \in Nat /\ Len(passes') \in Nat
  BY <1>1 DEF Sound, TypeOK
(* Papers come out and serials are handed on; none is ever taken back.     *)
<1>3. ASSUME papers \subseteq papers', handed \subseteq handed', TokensKept,
             \A r \in Requests : requests'[r].pc = "keep" =>
                requests'[r] = requests[r] \/ Good(requests[r].pass, requests[r].number)'
      PROVE  Serials'
  <2>1. \A p, n : Good(p, n) => Good(p, n)'
    BY <1>3 DEF Good
  <2>2. ASSUME NEW p \in 1..Len(passes') PROVE Good(p, passes[p].token)' \/ passes'[p].token = 0
    BY <1>2, <1>3, <2>1 DEF TokensKept, Serials
  <2>3. \A p \in 1..Len(passes') : Good(p, passes[p].token)'
    BY <2>2 DEF Good
  <2> QED
    BY <1>3, <2>1, <2>3 DEF Serials
<1>4. ASSUME Calm PROVE Serials'
  BY <1>3, <1>4 DEF Calm, desk, Drawing
<1>5. ASSUME NEW r \in Requests, Stamp(r) PROVE Serials'
  BY <1>3, <1>5, StampKeeps DEF desk
<1>6. ASSUME NEW r \in Requests, Enter(r) \/ ExitRow(r) \/ LockedExit(r) \/ Admit(r) \/ Override(r)
      PROVE  Serials'
  BY <1>4, <1>6, EnterKeeps, ExitRowKeeps, LockedExitKeeps, AdmitKeeps, OverrideKeeps
<1>7. ASSUME NEW r \in Requests, Keep(r) PROVE Serials'
  <2>1. /\ UNCHANGED desk /\ requests[r].pc = "keep" /\ requests'[r].pc = "idle"
        /\ \A q \in Requests : q # r => requests'[q] = requests[q]
        /\ Len(passes') = Len(passes)
        /\ \A p \in 1..Len(passes) :
             passes'[p].token = IF p = requests[r].pass THEN requests[r].number
                                                        ELSE passes[p].token
    BY <1>7, KeepKeeps
  <2>2. \A p, n : Good(p, n) <=> Good(p, n)'
    BY <2>1 DEF Good, desk
  <2>3. \A p \in 1..Len(passes') : Good(p, passes'[p].token)
    BY <2>1 DEF Serials
  <2>4. \A q \in Requests : requests'[q].pc = "keep" => Good(requests'[q].pass, requests'[q].number)
    BY <2>1 DEF Serials
  <2> QED
    BY <2>2, <2>3, <2>4 DEF Serials
<1>8. ASSUME NEW r \in Requests, NEW p \in 1..Len(passes),
             NEW errand \in {"thermal", "browser"}, Draw(r, p, errand)
      PROVE  Serials'
  <2>1. /\ TokensKept /\ papers' = papers /\ handed \subseteq handed'
        /\ requests'[r].pc = "keep" => requests'[r].number \in handed'
        /\ \A q \in Requests : q # r => requests'[q] = requests[q]
    BY <1>8, DrawKeeps
  <2> QED
    BY <1>3, <2>1 DEF Good
<1>9. ASSUME NEW r \in Requests, NEW jams \in BOOLEAN, PaperOut(r, jams) PROVE Serials'
  <2>1. /\ TokensKept /\ papers \subseteq papers' /\ handed' = handed
        /\ requests'[r].pc = "keep" => <<requests'[r].pass, requests'[r].number>> \in papers'
        /\ \A q \in Requests : q # r => requests'[q] = requests[q]
    BY <1>9, PaperKeeps
  <2> QED
    BY <1>3, <2>1 DEF Good
<1> QED
  BY <1>1, <1>4, <1>5, <1>6, <1>7, <1>8, <1>9 DEF Telling

(* A print that fails never retires the copy in the visitor's hand: the    *)
(* serial a pass keeps is on a paper that came out of the printer, or was  *)
(* drawn for a browser to print, however prints overlap, jam or die.       *)
THEOREM PrintsSafe == Spec => []CopyInHandWorks
<1>1. Init => Serials
  <2> SUFFICES ASSUME Init PROVE Serials
    OBVIOUS
  <2>1. Len(passes) = 0 /\ \A r \in Requests : requests[r].pc = "idle"
    BY IdleType DEF Init
  <2> QED
    BY <2>1 DEF Serials
<1>2. Sound /\ Serials => CopyInHandWorks
  BY Indices DEF Serials, Good, CopyInHandWorks, Sound
<1> QED
  BY <1>1, <1>2, InitSound, EveryStep, NextSerials, PTL DEF Spec

-----------------------------------------------------------------------------
(***************************************************************************)
(* A whole visit.  While some pass is smooth the newest one is, no other   *)
(* is active, and one request at most is under way; what the five places   *)
(* then say can be told from the passes and from that request, x.          *)
(***************************************************************************)
AnySmooth == \E p \in 1..Len(passes) : passes[p].smooth

(* The rows are of one day, and an exit is paired with a row before it. *)
Rows ==
  /\ now <= MaxNow
  /\ \A i \in 1..Len(log) :
       log[i].plate = Car /\ log[i].at <= now /\ log[i].paired \in 0..Len(log)
  /\ \A r \in Requests : requests[r].pc = "lock" => requests[r].number \in 0..Len(log)

(* What the request knows of the newest pass. *)
Duty(x) ==
  LET n == Len(passes) IN
  /\ x.pc \in {"stamp", "enter", "arrive", "close", "save", "lift"} =>
       x.pass = n /\ passes[n].active
  /\ x.pc = "stamp" => ~passes[n].printed
  /\ x.pc \in {"close", "lift"} => x.expires = passes[n].expires
  /\ x.pc = "seek" => x.errand # "slip"
  /\ x.pc \in {"lock", "row", "seek"} /\ x.errand = "check" => ~passes[n].active
  /\ x.pc = "row" /\ x.errand = "slip" =>
       /\ x.pass = n /\ ~passes[n].active
       /\ x.left = passes[n].exited /\ x.expires = passes[n].expires
  /\ x.pc = "fine" =>
       /\ x.expires = passes[n].expires
       /\ IF passes[n].active THEN x.left > x.expires /\ x.left <= now
          ELSE x.left = passes[n].exited

(* The overstays are of the newest pass: a standing one is deserved, and   *)
(* one that is deserved by a minute stands once the request is through.    *)
Overstays(x) ==
  LET n == Len(passes) IN
  /\ passes[n].issued <= now
  /\ \A t \in fines : passes[n].issued <= t /\ t <= now
  /\ fines # {} /\ passes[n].active => x.pc = "lift" \/ now > passes[n].expires
  /\ fines # {} /\ ~passes[n].active => passes[n].exited > passes[n].expires
  /\ ~passes[n].active /\ passes[n].exited >= passes[n].expires + Minute =>
       fines # {} \/ x.pc = "fine" \/ (x.pc = "row" /\ x.errand = "slip")

(* The exit row of p is there: by plate it comes before the pass is closed, *)
(* from the slip after.                                                     *)
Shut(p, x) ==
  IF passes[p].active THEN x.pc = "seek" \/ (x.pc = "close" /\ x.errand # "slip")
  ELSE ~(x.pc = "row" /\ x.errand = "slip" /\ x.pass = p)

Stays(p, x) ==
  /\ ~passes[p].twice
  /\ passes[p].printed /\ passes[p].booked =>
       visit.arrived \/ (x.pc \in {"enter", "arrive"} /\ x.pass = p)
  /\ passes[p].printed => (\E e : Entered(e, p)) \/ (x.pc = "enter" /\ x.pass = p)
  /\ \A e : Entered(e, p) =>
       /\ Shut(p, x) => Taken(e)
       /\ Closed(log, e) /\ passes[p].active => passes[p].filmed \/ Shut(p, x)

Tale(x) ==
  LET n == Len(passes) IN
  /\ passes[n].smooth
  /\ \A p \in 1..n : passes[p].active => p = n
  /\ Duty(x) /\ Overstays(x)
  /\ \A p \in 1..n : passes[p].smooth => Stays(p, x)

(* The request under way, or none. *)
Current(x) ==
  \/ Quiet /\ x = Idle
  \/ \E r \in Requests : Busy(r) /\ requests[r] = x

Told ==
  AnySmooth =>
    /\ \A q, r \in Requests : Busy(q) /\ Busy(r) => q = r
    /\ \A x \in Request : Current(x) => Tale(x)

LEMMA Newest1 ==
  ASSUME Sound, AnySmooth PROVE Len(passes) \in Nat /\ Len(passes) \in 1..Len(passes)
BY DEF Sound, TypeOK, AnySmooth

LEMMA TaleOf ==
  ASSUME Sound, Told, AnySmooth, NEW r \in Requests, NEW x \in Request, x = requests[r], Busy(r)
  PROVE  Tale(x)
BY DEF Told, Current

(* A request under way goes on, or ends. *)
LEMMA StepTold ==
  ASSUME Sound, Told, NEW r \in Requests, Busy(r), NEW y \in Request, Moves(r, y),
         y.pc = "idle" => y = Idle, AnySmooth' => AnySmooth /\ Tale(y)'
  PROVE  Told'
<1> SUFFICES ASSUME AnySmooth'
             PROVE  /\ \A q, s \in Requests : Busy(q)' /\ Busy(s)' => q = s
                    /\ \A x \in Request : Current(x)' => Tale(x)'
  BY DEF Told
<1>1. requests'[r] = y /\ \A q \in Requests : q # r => requests'[q] = requests[q]
  BY OneRequest DEF Sound
<1>2. \A q \in Requests : Busy(q)' => q = r
  <2> SUFFICES ASSUME NEW q \in Requests, Busy(q)', q # r PROVE FALSE
    OBVIOUS
  <2>1. Busy(q)
    BY <1>1 DEF Busy
  <2> QED
    BY <2>1 DEF Told
<1>3. ASSUME NEW x \in Request, Current(x)' PROVE Tale(x)'
  <2>1. x = y
    <3>1. CASE Quiet' /\ x = Idle
      BY <1>1, <3>1 DEF Quiet, Busy
    <3>2. ASSUME NEW q \in Requests, Busy(q)', requests'[q] = x PROVE x = y
      BY <1>1, <1>2, <3>2
    <3> QED
      BY <1>3, <3>1, <3>2 DEF Current
  <2> QED
    BY <2>1
<1> QED
  BY <1>2, <1>3

(* A request begins. *)
LEMMA BeginTold ==
  ASSUME Sound, Told, NEW r \in Requests, ~Busy(r), NEW y \in Request, Moves(r, y), y.pc # "idle",
         Note(r) \/ passes' = Ruffled,
         AnySmooth /\ Tale(Idle) /\ passes' = passes => Tale(y)'
  PROVE  Told'
<1>1. CASE passes' = Ruffled
  <2>1. ~AnySmooth'
    BY <1>1, RuffledType, PassFields DEF AnySmooth, Sound, Pass
  <2> QED
    BY <2>1 DEF Told
<1>2. CASE passes' # Ruffled
  <2>1. passes' = passes /\ \A q \in Requests \ {r} : ~Busy(q)
    BY <1>2 DEF Note
  <2>2. Quiet /\ Current(Idle) /\ Idle \in Request
    BY <2>1, IdleType DEF Quiet, Current
  <2> SUFFICES ASSUME AnySmooth'
               PROVE  /\ \A q, s \in Requests : Busy(q)' /\ Busy(s)' => q = s
                      /\ \A x \in Request : Current(x)' => Tale(x)'
    BY DEF Told
  <2>3. AnySmooth /\ Tale(y)'
    <3>1. AnySmooth
      BY <2>1 DEF AnySmooth
    <3> QED
      BY <2>1, <2>2, <3>1 DEF Told
  <2>4. requests'[r] = y /\ \A q \in Requests : q # r => requests'[q] = requests[q]
    BY OneRequest DEF Sound
  <2>5. \A q \in Requests : Busy(q)' => q = r
    BY <2>1, <2>4 DEF Busy
  <2>6. ~Quiet'
    BY <2>4 DEF Quiet, Busy
  <2>7. \A x \in Request : Current(x)' => x = y
    BY <2>4, <2>5, <2>6 DEF Current
  <2> QED
    BY <2>3, <2>5, <2>7
<1> QED
  BY <1>1, <1>2

(* The same tale of another request, which knows what it must. *)
LEMMA Turned ==
  ASSUME NEW x, NEW y, Tale(x), Duty(y), x.pc \notin {"lift", "fine", "enter", "arrive"},
         ~(x.pc = "row" /\ x.errand = "slip"),
         \A p \in 1..Len(passes) : passes[p].smooth => (Shut(p, x) <=> Shut(p, y))
  PROVE  Tale(y)
<1>1. Overstays(y)
  BY DEF Tale, Overstays
<1>2. ASSUME NEW p \in 1..Len(passes), passes[p].smooth PROVE Stays(p, y)
  BY <1>2 DEF Tale, Stays
<1> QED
  BY <1>1, <1>2 DEF Tale

RowsSame == UNCHANGED <<now, log, of, fines, visit>>

(* Nothing it tells of has changed. *)
LEMMA SameTale ==
  ASSUME Sound, NEW y, Tale(y), RowsSame, Len(passes) \in 1..Len(passes),
         Len(passes') = Len(passes),
         \A p \in 1..Len(passes) :
           /\ passes'[p].active = passes[p].active /\ passes'[p].printed = passes[p].printed
           /\ passes'[p].booked = passes[p].booked /\ passes'[p].smooth = passes[p].smooth
           /\ passes'[p].twice = passes[p].twice /\ passes'[p].issued = passes[p].issued
           /\ passes'[p].expires = passes[p].expires /\ passes'[p].exited = passes[p].exited
           /\ passes'[p].filmed = passes[p].filmed
  PROVE  Tale(y)'
<1>1. /\ now' = now /\ log' = log /\ fines' = fines /\ visit' = visit
      /\ \A e, p : Entered(e, p)' <=> Entered(e, p)
      /\ \A e : (Closed(log, e)' <=> Closed(log, e)) /\ (Taken(e)' <=> Taken(e))
  BY DEF RowsSame, Entered, Closed, Taken
<1>2. Duty(y)'
  BY <1>1 DEF Tale, Duty
<1>3. Overstays(y)'
  BY <1>1 DEF Tale, Overstays
<1>4. ASSUME NEW p \in 1..Len(passes'), passes'[p].smooth PROVE Stays(p, y)'
  <2>1. p \in 1..Len(passes) /\ passes[p].smooth /\ Stays(p, y)
    BY <1>4 DEF Tale
  <2>2. Shut(p, y)' <=> Shut(p, y)
    BY <2>1 DEF Shut
  <2> QED
    BY <1>1, <2>1, <2>2 DEF Stays
<1> QED
  BY <1>1, <1>2, <1>3, <1>4 DEF Tale

-----------------------------------------------------------------------------
(* Requests that begin. *)
LEMMA Begun ==
  ASSUME Sound, Told, NEW r \in Requests, ~Busy(r), NEW y \in Request, Moves(r, y),
         y.pc \notin {"idle", "seek"}, y.pc = "row" => y.errand # "slip",
         y.pc = "close" => y.errand = "slip",
         Note(r) \/ passes' = Ruffled, RowsSame,
         AnySmooth /\ Tale(Idle) /\ passes' = passes => Duty(y)
  PROVE  Told'
<1> SUFFICES ASSUME AnySmooth, Tale(Idle), passes' = passes PROVE Tale(y)'
  BY BeginTold
<1>1. Tale(y)
  <2>1. \A p \in 1..Len(passes) : Shut(p, Idle) <=> Shut(p, y)
    BY IdleType DEF Shut
  <2> QED
    BY <2>1, Turned, IdleType
<1> QED
  BY <1>1, SameTale, Newest1

LEMMA DrawTold ==
  ASSUME Sound, Told, NEW r \in Requests, NEW p \in 1..Len(passes),
         NEW errand \in {"thermal", "browser"}, Draw(r, p, errand)
  PROVE  Told'
<1> DEFINE pc == IF errand = "thermal" THEN "draw" ELSE "keep"
<1>1. TypeOK /\ p \in Nat /\ serial + 1 \in Nat /\ errand \in Errands /\ pc \in PCs
  BY Indices DEF Sound, TypeOK, Errands, PCs
<1>2. Begin(r, errand, pc, p, serial + 1, 0)
  BY Zenon DEF Draw
<1>3. pc \in {"draw", "keep"}
  OBVIOUS
<1> HIDE DEF pc
<1>4. PICK y \in Request : Moves(r, y) /\ y.pc = pc
  BY <1>1, <1>2, BeginMoves
<1>5. Duty(y)
  BY <1>3, <1>4 DEF Duty
<1>6. ~Busy(r) /\ Note(r) /\ RowsSame
  BY DEF Draw, Begin, RowsSame
<1> QED
  BY <1>3, <1>4, <1>5, <1>6, Begun

LEMMA ConfirmTold ==
  ASSUME Sound, Told, NEW r \in Requests, NEW p \in 1..Len(passes), Confirm(r, p)
  PROVE  Told'
<1>1. TypeOK /\ p \in Nat /\ "confirm" \in Errands /\ "stamp" \in PCs /\ 0 \in Nat
  BY Indices DEF Sound, Errands, PCs
<1>2. PICK y \in Request : Moves(r, y) /\ y.pc = "stamp" /\ y.pass = p
  BY <1>1, BeginMoves DEF Confirm
<1>3. ASSUME AnySmooth, Tale(Idle), passes' = passes PROVE Duty(y)
  <2>1. passes[p].active
    <3>1. PICK q \in 1..Len(passes) : passes[q].smooth
      BY <1>3 DEF AnySmooth
    <3>2. ~Ruffled[q].smooth
      BY <1>1, RuffledType, PassFields DEF Pass
    <3>3. passes' # Ruffled
      BY <1>3, <3>1, <3>2
    <3> QED
      BY <3>3 DEF Confirm
  <2>2. p = Len(passes)
    BY <1>3, <2>1 DEF Tale
  <2> QED
    BY <1>2, <2>1, <2>2 DEF Duty, Confirm
<1>4. ~Busy(r) /\ (Note(r) \/ passes' = Ruffled) /\ RowsSame
  BY DEF Confirm, Begin, RowsSame
<1> QED
  BY <1>2, <1>3, <1>4, Begun

(* The beginning of a slip exit: what it closes, and when that expires.    *)
LEMMA SlipBegins ==
  ASSUME TypeOK, NEW r \in Requests, NEW p \in Nat, NEW e \in Nat,
         Begin(r, "slip", "close", p, 0, e)
  PROVE  \E y \in Request : /\ Moves(r, y) /\ y.pc = "close" /\ y.pass = p
                            /\ y.errand = "slip" /\ y.expires = e
<1>1. "slip" \in Errands /\ "close" \in PCs /\ 0 \in Nat
  BY DEF Errands, PCs
<1> QED
  BY <1>1, BeginMoves

LEMMA SlipExitTold ==
  ASSUME Sound, Told, NEW r \in Requests, NEW p \in 1..Len(passes), SlipExit(r, p)
  PROVE  Told'
<1>1. /\ TypeOK /\ p \in Nat /\ passes[p].expires \in Nat /\ "slip" \in Errands /\ "close" \in PCs
      /\ 0 \in Nat
  BY Indices, PassFields DEF Sound, Errands, PCs
<1>2. PICK y \in Request : /\ Moves(r, y) /\ y.pc = "close" /\ y.pass = p /\ y.errand = "slip"
                           /\ y.expires = passes[p].expires
  <2>1. Begin(r, "slip", "close", p, 0, passes[p].expires)
    BY DEF SlipExit
  <2> QED
    BY <1>1, <2>1, SlipBegins
<1>3. ASSUME Tale(Idle) PROVE Duty(y)
  BY <1>2, <1>3 DEF Duty, Tale, SlipExit
<1>4. ~Busy(r) /\ Note(r) /\ RowsSame
  BY DEF SlipExit, Begin, RowsSame
<1> QED
  BY <1>2, <1>3, <1>4, Begun

LEMMA TypedExitTold ==
  ASSUME Sound, Told, NEW r \in Requests, TypedExit(r)
  PROVE  Told'
<1>1. TypeOK /\ "typed" \in Errands /\ "row" \in PCs /\ 0 \in Nat
  BY DEF Sound, Errands, PCs
<1>2. PICK y \in Request : Moves(r, y) /\ y.pc = "row" /\ y.errand = "typed"
  BY <1>1, BeginMoves DEF TypedExit
<1>3. Duty(y)
  BY <1>2 DEF Duty
<1>4. ~Busy(r) /\ Note(r) /\ RowsSame
  BY DEF TypedExit, Begin, RowsSame
<1> QED
  BY <1>2, <1>3, <1>4, Begun

LEMMA AllowTold ==
  ASSUME Sound, Told, NEW r \in Requests, NEW p \in 1..Len(passes), NEW expires \in Nat,
         Allow(r, p, expires)
  PROVE  Told'
<1>1. TypeOK /\ p \in Nat /\ "allow" \in Errands /\ "save" \in PCs /\ 0 \in Nat
  BY Indices DEF Sound, Errands, PCs
<1>2. PICK y \in Request : Moves(r, y) /\ y.pc = "save" /\ y.pass = p
  BY <1>1, BeginMoves DEF Allow
<1>3. ASSUME Tale(Idle) PROVE Duty(y)
  BY <1>2, <1>3 DEF Duty, Tale, Allow
<1>4. ~Busy(r) /\ Note(r) /\ RowsSame
  BY DEF Allow, Begin, RowsSame
<1> QED
  BY <1>2, <1>3, <1>4, Begun

LEMMA AcknowledgeTold ==
  ASSUME Sound, Told, NEW r \in Requests, Acknowledge(r)
  PROVE  Told'
<1> DEFINE p == Len(passes)
           y == [Idle EXCEPT !.errand = "report", !.pc = "fine", !.pass = p,
                             !.expires = passes[p].expires, !.left = now]
<1>1. TypeOK /\ p \in 1..Len(passes) /\ passes[p].expires \in Nat /\ now \in Nat /\ p \in Nat
  BY Indices, PassFields DEF Sound, Acknowledge, TypeOK
<1>2. /\ y \in Request /\ y.pc = "fine" /\ y.expires = passes[p].expires /\ y.left = now
  BY <1>1, IdleType DEF Request, Errands, PCs
<1>3. Moves(r, y)
  BY Zenon DEF Acknowledge, Moves
<1> HIDE DEF y
<1>4. Duty(y)
  BY <1>1, <1>2 DEF Duty, Acknowledge
<1>5. ~Busy(r) /\ Note(r) /\ RowsSame
  BY DEF Acknowledge, RowsSame
<1> QED
  BY <1>2, <1>3, <1>4, <1>5, Begun

(* A plate check begins: the live one only when no pass is active. *)
LEMMA CheckTold ==
  ASSUME Sound, Told, NEW r \in Requests, NEW errand,
         CheckInside(r, errand) \/ CheckOutside(r, errand)
  PROVE  Told'
<1>1. /\ TypeOK /\ errand \in Errands /\ {"lock", "admit"} \subseteq PCs /\ 0 \in Nat
      /\ LastEntry(log, Car, now) \in Nat
  <2>1. EntriesToday(log, Car, now) \subseteq Nat
    BY DEF EntriesToday, Sound, TypeOK
  <2> QED
    BY <2>1, NewestType DEF CheckInside, CheckOutside, Sound, Errands, PCs, LastEntry
<1>2. ~Busy(r) /\ Note(r) /\ RowsSame
  BY DEF CheckInside, CheckOutside, Begin, RowsSame
<1>3. CASE CheckInside(r, errand)
  <2>1. Begin(r, errand, "lock", 0, LastEntry(log, Car, now), 0)
    BY <1>3, Zenon DEF CheckInside
  <2>2. PICK y \in Request : Moves(r, y) /\ y.pc = "lock" /\ y.errand = errand
    BY <1>1, <2>1, BeginMoves
  <2>3. ASSUME AnySmooth PROVE Duty(y)
    <3>1. y.errand = "check" => Active = {}
      BY <1>3, <2>2 DEF CheckInside
    <3>2. Active = {} => ~passes[Len(passes)].active
      BY <1>1, <2>3, Newest1, Indices DEF Active
    <3> QED
      BY <2>2, <3>1, <3>2 DEF Duty
  <2> QED
    BY <1>2, <2>2, <2>3, Begun
<1>4. CASE CheckOutside(r, errand)
  <2>1. Begin(r, errand, "admit", 0, 0, 0)
    BY <1>4, Zenon DEF CheckOutside
  <2>2. PICK y \in Request : Moves(r, y) /\ y.pc = "admit"
    BY <1>1, <2>1, BeginMoves
  <2>3. Duty(y)
    BY <2>2 DEF Duty
  <2> QED
    BY <1>2, <2>2, <2>3, Begun
<1> QED
  BY <1>3, <1>4

LEMMA StartTold ==
  ASSUME Sound, Told, NEW r \in Requests, Start(r), ~Override(r)
  PROVE  Told'
<1>1. ASSUME NEW p \in 1..Len(passes), Extend(r, p) PROVE Told'
  <2>1. passes[p].expires + 1 \in Nat
    BY PassFields DEF Sound
  <2> QED
    BY <1>1, <2>1, AllowTold DEF Extend
<1>2. ASSUME NEW p \in 1..Len(passes), NEW minutes \in Minutes, RecordDetails(r, p, minutes)
      PROVE  Told'
  <2>1. passes[p].issued + minutes \in Nat
    BY PassFields, VisitorAssumption DEF Sound
  <2> QED
    BY <1>2, <2>1, AllowTold DEF RecordDetails
<1> QED
  BY <1>1, <1>2, DrawTold, ConfirmTold, SlipExitTold, TypedExitTold, AcknowledgeTold,
     CheckTold DEF Start


-----------------------------------------------------------------------------
(* A request that goes on has only its place changed. *)
LEMMA GoneOn ==
  ASSUME TypeOK, NEW r \in Requests, NEW pc \in PCs, Goto(r, pc)
  PROVE  \E y \in Request :
           /\ Moves(r, y) /\ y.pc = pc /\ y.errand = requests[r].errand
           /\ y.pass = requests[r].pass /\ y.number = requests[r].number
           /\ y.expires = requests[r].expires /\ y.left = requests[r].left
<1> DEFINE y == [requests[r] EXCEPT !.pc = pc]
<1>1. Moves(r, y) /\ y \in Request
  BY GotoMoves
<1>2. /\ y.pc = pc /\ y.errand = requests[r].errand
      /\ y.pass = requests[r].pass /\ y.number = requests[r].number
      /\ y.expires = requests[r].expires /\ y.left = requests[r].left
  BY RequestFields DEF Request
<1> QED
  BY <1>1, <1>2, Zenon

(* Requests under way, the log and the passes' record as they were. *)
RecordSame ==
  /\ Len(passes') = Len(passes)
  /\ \A p \in 1..Len(passes) :
       /\ passes'[p].active = passes[p].active /\ passes'[p].printed = passes[p].printed
       /\ passes'[p].booked = passes[p].booked /\ passes'[p].smooth = passes[p].smooth
       /\ passes'[p].twice = passes[p].twice /\ passes'[p].issued = passes[p].issued
       /\ passes'[p].expires = passes[p].expires /\ passes'[p].exited = passes[p].exited
       /\ passes'[p].filmed = passes[p].filmed

LEMMA TurnTold ==
  ASSUME Sound, Told, NEW r \in Requests, NEW y \in Request, Moves(r, y),
         y.pc = "idle" => y = Idle, RowsSame, RecordSame,
         requests[r].pc \in {"draw", "keep", "lock", "seek"},
         AnySmooth /\ Tale(requests[r]) =>
           /\ Duty(y)
           /\ \A p \in 1..Len(passes) : Shut(p, requests[r]) <=> Shut(p, y)
  PROVE  Told'
<1>1. PICK x \in Request : x = requests[r]
  BY RequestFields DEF Sound
<1>2. Busy(r)
  BY DEF Busy
<1>3. ASSUME AnySmooth' PROVE AnySmooth /\ Tale(y)'
  <2>1. AnySmooth
    BY <1>3 DEF AnySmooth, RecordSame
  <2>2. Tale(x)
    BY <1>1, <1>2, <2>1, TaleOf
  <2>3. Tale(y)
    BY <1>1, <2>1, <2>2, Turned
  <2> QED
    BY <2>1, <2>3, SameTale, Newest1 DEF RecordSame
<1> QED
  BY <1>2, <1>3, StepTold

LEMMA PaperTold ==
  ASSUME Sound, Told, NEW r \in Requests, NEW jams \in BOOLEAN, PaperOut(r, jams)
  PROVE  Told'
<1>1. /\ TypeOK /\ RowsSame /\ passes' = passes /\ requests[r].pc = "draw"
      /\ Finish(r) \/ Goto(r, "keep")
  BY DEF Sound, PaperOut, RowsSame
<1>2. RecordSame
  BY <1>1 DEF RecordSame
<1>3. PICK y \in Request : /\ Moves(r, y) /\ y.pc \in {"idle", "keep"}
                           /\ y.pc = "idle" => y = Idle
  <2>1. CASE Finish(r)
    BY <2>1, FinishMoves, IdleType
  <2>2. CASE Goto(r, "keep")
    <3>1. "keep" \in PCs
      BY DEF PCs
    <3> QED
      BY <1>1, <2>2, <3>1, GoneOn
  <2> QED
    BY <1>1, <2>1, <2>2
<1>4. Duty(y) /\ \A p : Shut(p, requests[r]) <=> Shut(p, y)
  BY <1>1, <1>3 DEF Duty, Shut
<1> QED
  BY <1>1, <1>2, <1>3, <1>4, TurnTold

LEMMA KeepTold ==
  ASSUME Sound, Told, NEW r \in Requests, Keep(r)
  PROVE  Told'
<1> DEFINE p == requests[r].pass
           saved == [passes[p] EXCEPT !.token = requests[r].number]
<1>1. /\ TypeOK /\ RowsSame /\ requests[r].pc = "keep" /\ p \in 1..Len(passes)
      /\ requests[r].number \in Nat
      /\ Finish(r)
  BY RequestFields DEF Sound, Keep, RowsSame, Aimed, Pointed, Pointing
<1>2. passes' = [passes EXCEPT ![p] = saved]
  BY Zenon DEF Keep
<1>3. /\ saved \in Pass
      /\ saved.active = passes[p].active /\ saved.printed = passes[p].printed
      /\ saved.booked = passes[p].booked /\ saved.smooth = passes[p].smooth
      /\ saved.twice = passes[p].twice /\ saved.issued = passes[p].issued
      /\ saved.expires = passes[p].expires /\ saved.exited = passes[p].exited
      /\ saved.filmed = passes[p].filmed
  BY <1>1, PassFields DEF Pass
<1> HIDE DEF p, saved
<1>4. RecordSame
  <2>1. /\ Len(passes') = Len(passes) /\ passes'[p] = saved
        /\ \A q \in 1..Len(passes) : q # p => passes'[q] = passes[q]
    BY <1>1, <1>2, <1>3, OnePass
  <2> QED
    BY <1>3, <2>1 DEF RecordSame
<1>5. Moves(r, Idle) /\ Idle \in Request /\ Idle.pc = "idle"
  BY <1>1, FinishMoves, IdleType
<1>6. Duty(Idle) /\ \A q : Shut(q, requests[r]) <=> Shut(q, Idle)
  BY <1>1, <1>5 DEF Duty, Shut
<1> QED
  BY <1>1, <1>4, <1>5, <1>6, TurnTold

(* The exit by plate finds the pass of the visit, if it is still active. *)
LEMMA SeekTold ==
  ASSUME Sound, Told, NEW r \in Requests, Seek(r)
  PROVE  Told'
<1>1. TypeOK /\ RowsSame /\ passes' = passes /\ requests[r].pc = "seek"
  BY DEF Sound, Seek, RowsSame
<1>2. RecordSame
  BY <1>1 DEF RecordSame
<1>3. CASE ActivePass = 0
  <2>1. Moves(r, Idle) /\ Idle \in Request /\ Idle.pc = "idle"
    BY <1>3, FinishMoves, IdleType DEF Seek
  <2>2. ASSUME AnySmooth, Tale(requests[r]) PROVE \A p \in 1..Len(passes) : ~passes[p].active
    <3> SUFFICES ASSUME NEW p \in 1..Len(passes), passes[p].active PROVE FALSE
      OBVIOUS
    <3>1. p = Len(passes) /\ p \in Active /\ \A q \in Active : q = p
      BY <2>2, Indices, <1>1 DEF Tale, Active
    <3>2. p \in Nat
      BY <1>1, Indices
    <3>3. ActivePass \in Active
      <4>1. p \in Active /\ \A q \in Active : q <= p
        BY <3>1, <3>2
      <4> HIDE DEF Active
      <4> QED
        BY <4>1 DEF ActivePass, Newest
    <3>4. p # 0
      BY <1>1, Indices
    <3> QED
      BY <1>3, <3>1, <3>3, <3>4
  <2>3. Duty(Idle) /\ \A p : ~passes[p].active => (Shut(p, requests[r]) <=> Shut(p, Idle))
    BY <1>1, <2>1 DEF Duty, Shut
  <2> QED
    BY <1>1, <1>2, <2>1, <2>2, <2>3, TurnTold
<1>4. CASE ActivePass # 0
  <2>1. PICK p \in 1..Len(passes) : p = ActivePass /\ passes[p].active
    <3>1. ActivePass \in Active
      BY <1>4 DEF ActivePass, Newest
    <3> QED
      BY <1>1, <3>1, Indices DEF Active
  <2> DEFINE y == [requests[r] EXCEPT !.pc = "close", !.pass = p, !.expires = passes[p].expires]
  <2>2. p \in Nat /\ passes[p].expires \in Nat /\ "close" \in PCs
    BY <1>1, PassFields, Indices DEF PCs
  <2>3. /\ y \in Request /\ y.pc = "close" /\ y.pass = p /\ y.expires = passes[p].expires
        /\ y.errand = requests[r].errand
    BY <1>1, <2>2, RequestFields DEF Request
  <2>4. Moves(r, y)
    BY <1>4, <2>1, Zenon DEF Seek, Moves
  <2> HIDE DEF y
  <2>5. ASSUME Tale(requests[r])
        PROVE  Duty(y) /\ \A q \in 1..Len(passes) : Shut(q, requests[r]) <=> Shut(q, y)
    <3>1. p = Len(passes) /\ requests[r].errand # "slip"
      BY <1>1, <2>1, <2>5 DEF Tale, Duty
    <3> QED
      BY <1>1, <2>1, <2>3, <3>1 DEF Duty, Shut
  <2> QED
    BY <1>1, <1>2, <2>3, <2>4, <2>5, TurnTold
<1> QED
  BY <1>3, <1>4

(* A request under way changed its pass, and none became smooth. *)
LEMMA NoneSmoother ==
  ASSUME Sound, Len(passes') = Len(passes),
         \A p \in 1..Len(passes) : passes'[p].smooth = passes[p].smooth
  PROVE  AnySmooth' => AnySmooth
BY DEF AnySmooth

LEMMA FinishTold ==
  ASSUME Sound, Told, NEW r \in Requests, Busy(r), Finish(r), passes' = passes,
         AnySmooth /\ Tale(requests[r]) => Tale(Idle)'
  PROVE  Told'
<1>1. Moves(r, Idle) /\ Idle \in Request
  BY FinishMoves, IdleType
<1>2. PICK x \in Request : x = requests[r]
  BY RequestFields DEF Sound
<1>3. AnySmooth' => AnySmooth
  BY NoneSmoother
<1>4. ASSUME AnySmooth' PROVE AnySmooth /\ Tale(Idle)'
  BY <1>2, <1>3, <1>4, TaleOf
<1> QED
  BY <1>1, <1>4, StepTold


-----------------------------------------------------------------------------
(* Requests under way that change the newest pass. *)

(* A visit that the step is not about. *)
LEMMA StaysSame ==
  ASSUME NEW x, NEW y, NEW p, Stays(p, x), passes'[p] = passes[p],
         \A e : Entered(e, p)' <=> Entered(e, p),
         \A e : Entered(e, p) =>
           (Closed(log, e)' <=> Closed(log, e)) /\ (Taken(e) => Taken(e)'),
         visit.arrived => visit'.arrived,
         ~(x.pc \in {"enter", "arrive"} /\ x.pass = p), Shut(p, x) <=> Shut(p, y)
  PROVE  Stays(p, y)'
<1>1. Shut(p, y)' <=> Shut(p, x)
  BY DEF Shut
<1> QED
  BY <1>1 DEF Stays

LEMMA RowsStay ==
  ASSUME RowsSame
  PROVE  /\ now' = now /\ log' = log /\ of' = of /\ fines' = fines /\ visit' = visit
         /\ \A e, p : Entered(e, p)' <=> Entered(e, p)
         /\ \A e : (Closed(log, e)' <=> Closed(log, e)) /\ (Taken(e)' <=> Taken(e))
BY DEF RowsSame, Entered, Closed, Taken

LEMMA ChangeTold ==
  ASSUME Sound, Told, NEW r \in Requests, Busy(r), NEW y \in Request, Moves(r, y),
         y.pc # "idle", RowsSame,
         NEW p \in 1..Len(passes), NEW z \in Pass, passes' = [passes EXCEPT ![p] = z],
         z.smooth = passes[p].smooth,
         AnySmooth /\ Tale(requests[r]) =>
           /\ p = Len(passes)
           /\ Duty(y)' /\ Overstays(y)'
           /\ z.active => passes[p].active
           /\ Stays(p, y)'
           /\ \A q \in 1..Len(passes) : q # p => (Shut(q, requests[r]) <=> Shut(q, y)),
         ~(requests[r].pc \in {"enter", "arrive"} /\ requests[r].pass # p)
  PROVE  Told'
<1>1. /\ Len(passes') = Len(passes) /\ passes'[p] = z
      /\ \A q \in 1..Len(passes) : q # p => passes'[q] = passes[q]
  BY OnePass DEF Sound
<1>2. AnySmooth' => AnySmooth
  BY <1>1, NoneSmoother
<1>3. PICK x \in Request : x = requests[r]
  BY RequestFields DEF Sound
<1>4. ASSUME AnySmooth, Tale(x) PROVE Tale(y)'
  <2>1. /\ p = Len(passes) /\ Duty(y)' /\ Overstays(y)' /\ Stays(p, y)'
        /\ z.active => passes[p].active
        /\ \A q \in 1..Len(passes) : q # p => (Shut(q, x) <=> Shut(q, y))
        /\ ~(x.pc \in {"enter", "arrive"} /\ x.pass # p)
    BY <1>3, <1>4
  <2>2. Len(passes') = p /\ passes'[p].smooth
    BY <1>1, <1>4, <2>1 DEF Tale
  <2>3. \A q \in 1..p : passes'[q].active => q = p
    BY <1>1, <1>4, <2>1 DEF Tale
  <2>5. ASSUME NEW q \in 1..Len(passes'), passes'[q].smooth PROVE Stays(q, y)'
    <3>1. CASE q = p
      BY <2>1, <3>1
    <3>2. CASE q # p
      <4>1. Stays(q, x)
        BY <1>1, <1>4, <2>5, <3>2 DEF Tale
      <4>2. /\ passes'[q] = passes[q] /\ (Shut(q, x) <=> Shut(q, y))
            /\ ~(x.pc \in {"enter", "arrive"} /\ x.pass = q)
        BY <1>1, <2>1, <3>2
      <4> QED
        BY <4>1, <4>2, StaysSame, RowsStay
    <3> QED
      BY <3>1, <3>2
  <2> QED
    BY <2>1, <2>2, <2>3, <2>5 DEF Tale
<1>5. ASSUME AnySmooth' PROVE AnySmooth /\ Tale(y)'
  BY <1>2, <1>3, <1>4, <1>5, TaleOf
<1> QED
  BY <1>5, StepTold

(* The stamp: nothing was entered for a slip not printed. *)
LEMMA StampTold ==
  ASSUME Sound, Logged, Told, NEW r \in Requests, Stamp(r)
  PROVE  Told'
<1>1. /\ TypeOK /\ requests[r].pass \in 1..Len(passes) /\ requests[r].pc = "stamp"
      /\ "enter" \in PCs /\ RowsSame /\ Busy(r) /\ Goto(r, "enter")
  BY DEF Stamp, Sound, Aimed, Pointed, Pointing, PCs, RowsSame, Busy
<1>2. PICK p \in 1..Len(passes), x \in Request :
        p = requests[r].pass /\ x = requests[r] /\ x.pc = "stamp" /\ x.pass = p
  BY <1>1, RequestFields
<1>3. PICK z \in Pass :
        /\ passes' = [passes EXCEPT ![p] = z]
        /\ z.active = passes[p].active /\ z.smooth = passes[p].smooth
        /\ z.expires = passes[p].expires /\ z.issued = passes[p].issued
        /\ z.exited = passes[p].exited /\ z.printed /\ z.filmed = passes[p].filmed
        /\ ~passes[p].twice /\ ~passes[p].printed => ~z.twice
  <2> DEFINE saved == [passes[p] EXCEPT !.printed = TRUE, !.twice = @ \/ passes[p].printed]
  <2>1. passes' = [passes EXCEPT ![p] = saved]
    BY <1>2, Zenon DEF Stamp
  <2>2. /\ saved \in Pass
        /\ saved.active = passes[p].active /\ saved.smooth = passes[p].smooth
        /\ saved.expires = passes[p].expires /\ saved.issued = passes[p].issued
        /\ saved.exited = passes[p].exited /\ saved.printed /\ saved.filmed = passes[p].filmed
        /\ ~passes[p].twice /\ ~passes[p].printed => ~saved.twice
    BY <1>1, PassFields DEF Pass
  <2> HIDE DEF saved
  <2> QED
    BY <2>1, <2>2
<1>4. PICK y \in Request : Moves(r, y) /\ y.pc = "enter" /\ y.pass = p
  BY <1>1, <1>2, GoneOn
<1>5. /\ Len(passes') = Len(passes) /\ passes'[p] = z
  BY <1>1, <1>3, OnePass
<1>6. ASSUME AnySmooth, Tale(x)
      PROVE  /\ p = Len(passes) /\ Duty(y)' /\ Overstays(y)' /\ Stays(p, y)'
             /\ \A q \in 1..Len(passes) : q # p => (Shut(q, x) <=> Shut(q, y))
  <2>1. /\ p = Len(passes) /\ passes[p].active /\ ~passes[p].printed /\ passes[p].smooth
        /\ Overstays(x) /\ Stays(p, x)
    BY <1>1, <1>2, <1>6 DEF Tale, Duty
  <2>2. Duty(y)'
    BY <1>3, <1>4, <1>5, <2>1 DEF Duty
  <2>3. Overstays(y)'
    BY <1>3, <1>4, <1>2, <1>5, <1>1, <2>1, RowsStay DEF Overstays
  <2>4. \A e : ~Entered(e, p)
    BY <1>1, <2>1 DEF Logged, LoggedOnce, Stays
  <2>5. Stays(p, y)'
    BY <1>1, <1>3, <1>4, <1>5, <2>1, <2>4, RowsStay DEF Stays
  <2>6. \A q : Shut(q, x) <=> Shut(q, y)
    BY <1>4, <1>2 DEF Shut
  <2> QED
    BY <2>1, <2>2, <2>3, <2>5, <2>6
<1> QED
  BY <1>1, <1>2, <1>3, <1>4, <1>6, ChangeTold

(* The exit: at the moment it is stamped the overstay is settled. *)
LEMMA CloseTold ==
  ASSUME Sound, Told, NEW r \in Requests, Close(r)
  PROVE  Told'
<1>1. /\ TypeOK /\ requests[r].pass \in 1..Len(passes) /\ requests[r].pc = "close"
      /\ now \in Nat /\ RowsSame /\ Busy(r)
  BY DEF Close, Sound, Aimed, Pointed, Pointing, RowsSame, Busy, TypeOK
<1>2. PICK p \in 1..Len(passes), x \in Request :
        p = requests[r].pass /\ x = requests[r] /\ x.pc = "close" /\ x.pass = p
  BY <1>1, RequestFields
<1>3. PICK z \in Pass :
        /\ passes' = [passes EXCEPT ![p] = z]
        /\ ~z.active /\ z.smooth = passes[p].smooth
        /\ z.expires = passes[p].expires /\ z.issued = passes[p].issued
        /\ z.exited = now /\ z.printed = passes[p].printed /\ z.booked = passes[p].booked
        /\ z.twice = passes[p].twice /\ z.filmed = passes[p].filmed
  <2> DEFINE saved == [passes[p] EXCEPT !.active = FALSE, !.exited = now]
  <2>1. passes' = [passes EXCEPT ![p] = saved]
    BY <1>2, Zenon DEF Close
  <2>2. /\ saved \in Pass
        /\ ~saved.active /\ saved.smooth = passes[p].smooth
        /\ saved.expires = passes[p].expires /\ saved.issued = passes[p].issued
        /\ saved.exited = now /\ saved.printed = passes[p].printed
        /\ saved.booked = passes[p].booked /\ saved.twice = passes[p].twice
        /\ saved.filmed = passes[p].filmed
    BY <1>1, PassFields DEF Pass
  <2> HIDE DEF saved
  <2> QED
    BY <2>1, <2>2
<1>4. PICK y \in Request :
        /\ Moves(r, y) /\ y.pc = IF x.errand = "slip" THEN "row" ELSE "fine"
        /\ y.left = now /\ y.errand = x.errand /\ y.pass = p /\ y.expires = x.expires
  <2> DEFINE pc == IF requests[r].errand = "slip" THEN "row" ELSE "fine"
             moved == [requests[r] EXCEPT !.pc = pc, !.left = now]
  <2>1. requests' = [requests EXCEPT ![r].pc = pc, ![r].left = now]
    BY Zenon DEF Close
  <2>2. pc \in PCs /\ pc = IF x.errand = "slip" THEN "row" ELSE "fine"
    BY <1>2 DEF PCs
  <2> HIDE DEF pc
  <2>3. Moves(r, moved)
    BY <2>1, Zenon DEF Moves
  <2>4. /\ moved \in Request /\ moved.pc = pc /\ moved.left = now /\ moved.errand = x.errand
        /\ moved.pass = p /\ moved.expires = x.expires
    BY <1>1, <1>2, <2>2, RequestFields DEF Request
  <2> HIDE DEF moved
  <2> QED
    BY <2>2, <2>3, <2>4
<1>5. /\ Len(passes') = Len(passes) /\ passes'[p] = z
  BY <1>1, <1>3, OnePass
<1>6. ASSUME AnySmooth, Tale(x)
       PROVE  /\ p = Len(passes) /\ Duty(y)' /\ Overstays(y)' /\ Stays(p, y)'
              /\ \A q \in 1..Len(passes) : q # p => (Shut(q, x) <=> Shut(q, y))
  <2>1. /\ p = Len(passes) /\ passes[p].active /\ passes[p].smooth
        /\ x.expires = passes[p].expires /\ Overstays(x) /\ Stays(p, x)
        /\ \A q \in 1..Len(passes) : q # p => ~passes[q].active
    BY <1>1, <1>2, <1>6 DEF Tale, Duty
  <2>2. Duty(y)'
    BY <1>3, <1>2, <1>4, <1>5, <2>1 DEF Duty
  <2>3. Overstays(y)'
    <3>1. /\ now' = now /\ fines' = fines /\ passes'[Len(passes')] = z
      BY <1>1, <1>5, <2>1, RowsStay
    <3>2. fines # {} => now > passes[p].expires
      BY <1>2, <2>1 DEF Overstays
    <3>3. y.pc = "fine" \/ (y.pc = "row" /\ y.errand = "slip")
      BY <1>2, <1>4
    <3>4. /\ passes[p].issued <= now
          /\ \A t \in fines : passes[p].issued <= t /\ t <= now
      BY <2>1 DEF Overstays
    <3> QED
      BY <1>3, <3>1, <3>2, <3>3, <3>4 DEF Overstays
  <2>4. Shut(p, y)' <=> Shut(p, x)
    BY <1>3, <1>2, <1>4, <1>5, <2>1 DEF Shut
  <2>5. Stays(p, y)'
    BY <1>1, <1>3, <1>2, <1>5, <2>1, <2>4, RowsStay DEF Stays
  <2>6. \A q \in 1..Len(passes) : q # p => (Shut(q, x) <=> Shut(q, y))
    BY <1>2, <1>4, <2>1 DEF Shut
  <2> QED
    BY <2>1, <2>2, <2>3, <2>5, <2>6
<1>7. y.pc # "idle"
  BY <1>2, <1>4
<1> QED
  BY <1>1, <1>2, <1>3, <1>4, <1>6, <1>7, ChangeTold

(* More time: the overstays wait for the lift that follows. *)
LEMMA SaveTold ==
  ASSUME Sound, Told, NEW r \in Requests, SaveAllowance(r)
  PROVE  Told'
<1>1. /\ TypeOK /\ requests[r].pass \in 1..Len(passes) /\ requests[r].pc = "save"
      /\ "lift" \in PCs /\ requests[r].expires \in Nat /\ RowsSame /\ Busy(r)
      /\ Goto(r, "lift")
  BY RequestFields DEF SaveAllowance, Sound, Aimed, Pointed, Pointing, PCs, RowsSame, Busy
<1>2. PICK p \in 1..Len(passes), x \in Request :
        p = requests[r].pass /\ x = requests[r] /\ x.pc = "save" /\ x.pass = p
  BY <1>1, RequestFields
<1>3. PICK z \in Pass :
        /\ passes' = [passes EXCEPT ![p] = z]
        /\ z.active = passes[p].active /\ z.smooth = passes[p].smooth
        /\ z.expires = x.expires /\ z.issued = passes[p].issued
        /\ z.exited = passes[p].exited /\ z.printed = passes[p].printed
        /\ z.booked = passes[p].booked /\ z.twice = passes[p].twice
        /\ z.filmed = passes[p].filmed
  <2> DEFINE saved == [passes[p] EXCEPT !.expires = x.expires]
  <2>1. passes' = [passes EXCEPT ![p] = saved]
    BY <1>2, Zenon DEF SaveAllowance
  <2>2. /\ saved \in Pass
        /\ saved.active = passes[p].active /\ saved.smooth = passes[p].smooth
        /\ saved.expires = x.expires /\ saved.issued = passes[p].issued
        /\ saved.exited = passes[p].exited /\ saved.printed = passes[p].printed
        /\ saved.booked = passes[p].booked /\ saved.twice = passes[p].twice
        /\ saved.filmed = passes[p].filmed
    BY <1>1, <1>2, PassFields DEF Pass
  <2> HIDE DEF saved
  <2> QED
    BY <2>1, <2>2
<1>4. PICK y \in Request : /\ Moves(r, y) /\ y.pc = "lift" /\ y.pass = p
                           /\ y.expires = x.expires
  BY <1>1, <1>2, GoneOn
<1>5. /\ Len(passes') = Len(passes) /\ passes'[p] = z
  BY <1>1, <1>3, OnePass
<1>6. ASSUME AnySmooth, Tale(x)
      PROVE  /\ p = Len(passes) /\ Duty(y)' /\ Overstays(y)' /\ Stays(p, y)'
             /\ \A q \in 1..Len(passes) : q # p => (Shut(q, x) <=> Shut(q, y))
  <2>1. /\ p = Len(passes) /\ passes[p].active /\ passes[p].smooth
        /\ Overstays(x) /\ Stays(p, x)
    BY <1>1, <1>2, <1>6 DEF Tale, Duty
  <2>2. Duty(y)'
    BY <1>3, <1>4, <1>2, <1>5, <2>1 DEF Duty
  <2>3. Overstays(y)'
    BY <1>1, <1>3, <1>4, <1>2, <1>5, <2>1, RowsStay DEF Overstays
  <2>4. \A q : Shut(q, x) <=> Shut(q, y)
    BY <1>4, <1>2 DEF Shut
  <2>5. Shut(p, y)' <=> Shut(p, x)
    BY <1>3, <1>4, <1>2, <1>5 DEF Shut
  <2>6. Stays(p, y)'
    BY <1>1, <1>3, <1>4, <1>2, <1>5, <2>1, <2>5, RowsStay DEF Stays
  <2> QED
    BY <2>1, <2>2, <2>3, <2>4, <2>6
<1> QED
  BY <1>1, <1>2, <1>3, <1>4, <1>6, ChangeTold


-----------------------------------------------------------------------------
(* Requests under way that write a row, tick off the booking or fine. *)

LEMMA OneDay ==
  ASSUME MaxNow < DayLength, NEW a \in Nat, NEW b \in Nat, a <= MaxNow, b <= MaxNow
  PROVE  Day(a) = Day(b)
<1>1. DayLength \in Nat /\ DayLength > 0 /\ a < DayLength /\ b < DayLength
  BY WindowAssumption, VisitorAssumption
<1>2. a \div DayLength = 0 /\ b \div DayLength = 0
  BY <1>1
<1> QED
  BY <1>2 DEF Day

LEMMA RowClosed ==
  ASSUME Sound, NEW kind \in Kinds, NEW e \in Nat, NEW p \in Nat, Appended(kind, e, p)
  PROVE  /\ \A i : Closed(log, i)' <=> (Closed(log, i) \/ i = e)
         /\ \A i : Taken(i) => Taken(i)'
<1>1. /\ Len(log') = Len(log) + 1 /\ Len(log) \in Nat
      /\ \A i \in 1..Len(log) : log'[i] = log[i]
      /\ DOMAIN log = 1..Len(log) /\ DOMAIN log' = 1..Len(log')
  BY RowInserted DEF Sound, Appended, TypeOK
<1>2. log'[Len(log) + 1].paired = e
  <2>1. NewRow(Car, kind, now, e) \in Row /\ NewRow(Car, kind, now, e).paired = e
    BY VisitorAssumption DEF NewRow, Row, Sound, TypeOK
  <2> QED
    BY <2>1 DEF Appended, Sound, TypeOK
<1>3. 1..Len(log') = (1..Len(log)) \cup {Len(log) + 1}
  BY <1>1
<1>4. \A i : Closed(log, i)' <=> (Closed(log, i) \/ i = e)
  BY <1>1, <1>2, <1>3 DEF Closed
<1>5. ASSUME NEW i, Taken(i) PROVE Taken(i)'
  <2>1. PICK j \in 1..Len(log) : j >= i /\ log[j].kind = "entry" /\ Closed(log, j)
    BY <1>1, <1>5 DEF Taken
  <2>2. j \in DOMAIN log' /\ log'[j].kind = "entry" /\ Closed(log, j)'
    BY <1>1, <1>3, <1>4, <2>1
  <2> QED
    BY <2>1, <2>2 DEF Taken
<1> QED
  BY <1>4, <1>5

(* A row that is no slip's entry. *)
LEMMA NoEntry ==
  ASSUME Sound, Logged, NEW kind \in Kinds, NEW e \in Nat, Appended(kind, e, 0)
  PROVE  \A i, q : q # 0 \/ kind # "entry" => (Entered(i, q)' <=> Entered(i, q))
<1>1. 0 \in Nat
  OBVIOUS
<1>2. \A i, q : Entered(i, q)' <=>
                  (Entered(i, q) \/ (i = Len(log) + 1 /\ kind = "entry" /\ q = 0))
  BY <1>1, RowsEntered
<1> QED
  BY <1>2

(* The entry: the newest, which nothing closed. *)
LEMMA EnterTold ==
  ASSUME Sound, Logged, Rows, Told, NEW r \in Requests, Enter(r)
  PROVE  Told'
<1>1. /\ TypeOK /\ requests[r].pass \in 1..Len(passes) /\ requests[r].pc = "enter"
      /\ now' = now /\ passes' = passes /\ fines' = fines /\ Busy(r)
      /\ visit.arrived => visit'.arrived
  <2>1. visit.arrived => visit'.arrived
    BY DEF Enter, Sound, TypeOK, Visit
  <2> QED
    BY <2>1 DEF Enter, Sound, Aimed, Pointed, Pointing, Busy
<1>2. PICK n \in 1..Len(passes), x \in Request :
        n = requests[r].pass /\ x = requests[r] /\ x.pc = "enter" /\ x.pass = n
  BY <1>1, RequestFields
<1>3. PICK y \in Request :
        /\ Moves(r, y)
        /\ y.pc = "idle" => y = Idle
        /\ IF passes[n].booked THEN y.pc = "arrive" /\ y.pass = n ELSE y.pc = "idle"
  <2>1. CASE passes[n].booked
    <3>1. Goto(r, "arrive") /\ "arrive" \in PCs
      BY <1>2, <2>1 DEF Enter, PCs
    <3> QED
      BY <1>1, <1>2, <2>1, <3>1, GoneOn
  <2>2. CASE ~passes[n].booked
    BY <1>2, <2>2, FinishMoves, IdleType DEF Enter
  <2> QED
    BY <2>1, <2>2
<1>4. PICK e0 : e0 = Len(log) + 1
  OBVIOUS
<1>5. Appended("entry", 0, n) /\ "entry" \in Kinds /\ n \in Nat /\ 0 \in Nat
  BY <1>1, <1>2, Indices DEF Enter, Appended, Kinds
<1>6. /\ \A i, q : Entered(i, q)' <=> (Entered(i, q) \/ (i = e0 /\ q = n))
      /\ \A q : ~Entered(e0, q)
  BY <1>4, <1>5, RowsEntered
<1>7. /\ \A i : Closed(log, i)' <=> (Closed(log, i) \/ i = 0)
      /\ \A i : Taken(i) => Taken(i)'
  BY <1>5, RowClosed
<1>8. e0 # 0 /\ ~Closed(log, e0) /\ \A i \in 1..Len(log) : i <= e0 /\ i # 0
  BY <1>1, <1>4 DEF Rows, Closed, TypeOK
<1>9. ASSUME AnySmooth, Tale(x) PROVE Tale(y)'
  <2>1. /\ n = Len(passes) /\ passes[n].active /\ passes[n].smooth /\ Overstays(x)
        /\ \A q \in 1..n : passes[q].active => q = n
        /\ \A q \in 1..n : passes[q].smooth => Stays(q, x)
    BY <1>2, <1>9 DEF Tale, Duty
  <2>2. \A e : ~Entered(e, n)
    <3>1. LoggedOnce(n) /\ Entering(r, n)
      BY <1>1, <1>2, <2>1 DEF Logged, Stays, Entering
    <3> QED
      BY <3>1 DEF LoggedOnce
  <2>4. Duty(y)'
    BY <1>1, <1>3, <2>1 DEF Duty
  <2>5. Overstays(y)'
    BY <1>1, <1>2, <1>3, <2>1 DEF Overstays
  <2>6. ASSUME NEW q \in 1..n, passes[q].smooth PROVE Stays(q, y)'
    <3>1. CASE q = n
      <4>1. \A e : Entered(e, q)' <=> e = e0
        BY <1>6, <2>2, <3>1
      <4>2. ~Shut(q, y)' /\ ~Closed(log, e0)'
        BY <1>1, <1>3, <1>7, <1>8, <2>1, <3>1 DEF Shut
      <4>3. Stays(q, x)
        BY <2>1, <2>6
      <4> QED
        BY <1>1, <1>3, <3>1, <4>1, <4>2, <4>3 DEF Stays
    <3>2. CASE q # n
      <4>1. /\ \A e : Entered(e, q)' <=> Entered(e, q)
            /\ \A e : Entered(e, q) =>
                 (Closed(log, e)' <=> Closed(log, e)) /\ (Taken(e) => Taken(e)')
        BY <1>6, <1>7, <1>8, <3>2 DEF Entered
      <4>2. Stays(q, x) /\ passes'[q] = passes[q]
        BY <1>1, <2>1, <2>6
      <4>3. Shut(q, x) <=> Shut(q, y)
        BY <1>2, <1>3 DEF Shut
      <4> QED
        BY <1>1, <1>2, <3>2, <4>1, <4>2, <4>3, StaysSame
    <3> QED
      BY <3>1, <3>2
  <2>7. Len(passes') = n
    BY <1>1, <2>1
  <2> QED
    BY <1>1, <2>1, <2>4, <2>5, <2>6, <2>7 DEF Tale
<1>10. ASSUME AnySmooth' PROVE AnySmooth /\ Tale(y)'
  <2>1. AnySmooth
    BY <1>1, <1>10, NoneSmoother
  <2> QED
    BY <1>1, <1>2, <1>9, <2>1, TaleOf
<1> QED
  BY <1>1, <1>3, <1>10, StepTold

LEMMA ArriveTold ==
  ASSUME Sound, Told, NEW r \in Requests, Arrive(r)
  PROVE  Told'
<1>1. /\ TypeOK /\ requests[r].pc = "arrive" /\ visit'.arrived /\ Finish(r) /\ Busy(r)
      /\ now' = now /\ log' = log /\ of' = of /\ passes' = passes /\ fines' = fines
  BY DEF Arrive, Sound, Busy
<1>2. PICK x \in Request : x = requests[r] /\ x.pc = "arrive"
  BY <1>1, RequestFields
<1>3. \A e, p : /\ (Entered(e, p)' <=> Entered(e, p))
                /\ (Closed(log, e)' <=> Closed(log, e))
                /\ (Taken(e)' <=> Taken(e))
  BY <1>1 DEF Entered, Closed, Taken
<1>4. ASSUME Tale(x) PROVE Tale(Idle)'
  <2>1. Duty(Idle)' /\ Idle.pc = "idle"
    BY IdleType DEF Duty
  <2>2. Overstays(Idle)'
    BY <1>1, <1>2, <1>4, <2>1 DEF Tale, Overstays
  <2>3. ASSUME NEW p \in 1..Len(passes), passes[p].smooth PROVE Stays(p, Idle)'
    <3>1. Shut(p, Idle)' <=> Shut(p, x)
      BY <1>1, <1>2, <2>1 DEF Shut
    <3> QED
      BY <1>1, <1>2, <1>3, <1>4, <2>3, <3>1 DEF Tale, Stays
  <2> QED
    BY <1>1, <1>3, <1>4, <2>1, <2>2, <2>3 DEF Tale
<1> QED
  BY <1>1, <1>2, <1>4, FinishTold

(* A violation is recorded, or lifted: the log and the passes stay. *)
LEMMA FinesTold ==
  ASSUME Sound, Told, NEW r \in Requests, Busy(r), Finish(r),
         requests[r].pc \in {"fine", "lift"},
         UNCHANGED <<now, log, of, passes, visit>>,
         AnySmooth /\ Tale(requests[r]) => Overstays(Idle)'
  PROVE  Told'
<1>1. /\ now' = now /\ log' = log /\ of' = of /\ passes' = passes /\ visit' = visit
  OBVIOUS
<1>2. PICK x \in Request : x = requests[r] /\ x.pc \in {"fine", "lift"}
  BY RequestFields DEF Sound
<1>3. \A e, p : /\ (Entered(e, p)' <=> Entered(e, p))
                /\ (Closed(log, e)' <=> Closed(log, e))
                /\ (Taken(e)' <=> Taken(e))
  BY <1>1 DEF Entered, Closed, Taken
<1>4. ASSUME AnySmooth, Tale(x) PROVE Tale(Idle)'
  <2>1. Duty(Idle)' /\ Idle.pc = "idle"
    BY IdleType DEF Duty
  <2>2. Overstays(Idle)'
    BY <1>2, <1>4
  <2>3. ASSUME NEW p \in 1..Len(passes), passes[p].smooth PROVE Stays(p, Idle)'
    <3>1. Shut(p, Idle)' <=> Shut(p, x)
      BY <1>1, <1>2, <2>1 DEF Shut
    <3> QED
      BY <1>1, <1>2, <1>3, <1>4, <2>3, <3>1 DEF Tale, Stays
  <2> QED
    BY <1>1, <1>3, <1>4, <2>1, <2>2, <2>3 DEF Tale
<1> QED
  BY <1>1, <1>2, <1>4, FinishTold

LEMMA FineTold ==
  ASSUME Sound, Told, NEW r \in Requests, Fine(r)
  PROVE  Told'
<1>1. /\ TypeOK /\ now \in Nat /\ Busy(r) /\ Finish(r) /\ requests[r].pc = "fine"
      /\ UNCHANGED <<now, log, of, passes, visit>>
  BY DEF Fine, Sound, TypeOK, Busy
<1>2. PICK x \in Request : x = requests[r] /\ x.pc = "fine" /\ {x.left, x.expires} \subseteq Nat
  BY <1>1, RequestFields
<1>3. /\ fines' \in {fines, fines \cup {now}}
      /\ x.left >= x.expires + Minute => fines' # {}
      /\ ~(x.left > x.expires) => fines' = fines
  BY <1>2, VisitorAssumption DEF Fine
<1>4. ASSUME AnySmooth, Tale(x) PROVE Overstays(Idle)'
  <2>1. PICK n \in 1..Len(passes) : n = Len(passes)
    BY <1>4, Newest1
  <2>2. /\ Overstays(x) /\ x.expires = passes[n].expires
        /\ IF passes[n].active THEN x.left > x.expires /\ x.left <= now
           ELSE x.left = passes[n].exited
    BY <1>2, <1>4, <2>1 DEF Tale, Duty
  <2>3. {passes[n].issued, passes[n].expires, passes[n].exited} \subseteq Nat
    BY <1>1, PassFields
  <2>4. Len(passes') = n /\ passes'[n] = passes[n] /\ now' = now
    BY <1>1, <2>1
  <2>5. passes[n].issued <= now /\ \A t \in fines' : passes[n].issued <= t /\ t <= now
    BY <1>1, <1>3, <2>1, <2>2 DEF Overstays
  <2>6. passes[n].active => now > passes[n].expires
    BY <1>1, <1>2, <2>2, <2>3
  <2>7. fines' # {} /\ ~passes[n].active => passes[n].exited > passes[n].expires
    BY <1>3, <2>1, <2>2 DEF Overstays
  <2>8. ~passes[n].active /\ passes[n].exited >= passes[n].expires + Minute => fines' # {}
    BY <1>3, <2>2
  <2> QED
    BY <2>4, <2>5, <2>6, <2>7, <2>8, IdleType DEF Overstays
<1> QED
  BY <1>1, <1>2, <1>4, FinesTold

LEMMA LiftTold ==
  ASSUME Sound, Told, NEW r \in Requests, Lift(r)
  PROVE  Told'
<1>1. /\ TypeOK /\ now \in Nat /\ Busy(r) /\ Finish(r) /\ requests[r].pc = "lift"
      /\ UNCHANGED <<now, log, of, passes, visit>>
  BY DEF Lift, Sound, TypeOK, Busy
<1>2. PICK x \in Request : x = requests[r] /\ x.pc = "lift" /\ x.expires \in Nat
  BY <1>1, RequestFields
<1>3. fines' = IF now > x.expires THEN fines ELSE {t \in fines : t < passes[x.pass].issued}
  BY <1>2 DEF Lift
<1>4. ASSUME AnySmooth, Tale(x) PROVE Overstays(Idle)'
  <2>1. PICK n \in 1..Len(passes) : n = Len(passes)
    BY <1>4, Newest1
  <2>2. /\ Overstays(x) /\ x.expires = passes[n].expires /\ x.pass = n /\ passes[n].active
    BY <1>2, <1>4, <2>1 DEF Tale, Duty
  <2>3. passes[n].issued \in Nat /\ fines \subseteq Nat
    BY <1>1, PassFields DEF TypeOK
  <2>4. Len(passes') = n /\ passes'[n] = passes[n] /\ now' = now
    BY <1>1, <2>1
  <2>5. passes[n].issued <= now /\ \A t \in fines : passes[n].issued <= t /\ t <= now
    BY <2>1, <2>2 DEF Overstays
  <2>6. fines' \subseteq fines /\ (fines' # {} => now > passes[n].expires)
    <3>1. ~(now > x.expires) => fines' = {t \in fines : t < passes[n].issued}
      BY <1>3, <2>2
    <3>2. \A t \in fines : ~(t < passes[n].issued)
      <4>1. ASSUME NEW t \in fines PROVE ~(t < passes[n].issued)
        <5>1. t \in Nat /\ passes[n].issued <= t
          BY <2>3, <2>5
        <5> QED
          BY <2>3, <5>1
      <4> QED
        BY <4>1
    <3> QED
      BY <1>3, <2>2, <3>1, <3>2
  <2> QED
    BY <2>2, <2>4, <2>5, <2>6, IdleType DEF Overstays
<1> QED
  BY <1>1, <1>2, <1>4, FinesTold


(* The newest of a set of rows. *)
LEMMA HasNewest ==
  ASSUME NEW n \in Nat, NEW S, S \subseteq 0..n, S # {}
  PROVE  \E i \in S : \A j \in S : j <= i
<1> DEFINE R == OpToRel(<, Nat)
           T == {n - i : i \in S}
<1>1. \A a, b \in Nat : a < b => <<a, b>> \in R
  BY DEF OpToRel
<1>2. T \subseteq Nat /\ T # {}
  <2>1. \A i \in S : n - i \in Nat
    OBVIOUS
  <2> QED
    BY <2>1
<1>3. IsWellFoundedOn(R, Nat)
  BY NatLessThanWellFounded
<1> HIDE DEF R, T
<1>4. PICK x \in T : \A y \in T : ~(<<y, x>> \in R)
  BY <1>2, <1>3, WFMin
<1>5. ASSUME NEW y \in T PROVE x <= y
  <2>1. x \in Nat /\ y \in Nat /\ ~(y < x)
    BY <1>1, <1>2, <1>4, <1>5
  <2> QED
    BY <2>1
<1>6. PICK i \in S : x = n - i
  BY DEF T
<1>7. ASSUME NEW j \in S PROVE j <= i
  <2>1. n - j \in T
    BY DEF T
  <2>2. n - i <= n - j /\ i \in 0..n /\ j \in 0..n
    BY <1>5, <1>6, <2>1
  <2> QED
    BY <2>2
<1> QED
  BY <1>7

(* The exit row is paired with the newest open entry: that of the visit, or *)
(* one an override has added since.                                         *)
LEMMA ExitPairs ==
  ASSUME Sound, Rows, MaxNow < DayLength, NEW e, NEW p, Entered(e, p), ~Closed(log, e),
         NEW t, t = PairTarget(log, Car, now)
  PROVE  t \in 1..Len(log) /\ log[t].kind = "entry" /\ t >= e
<1> DEFINE S == {i \in EntriesToday(log, Car, now) : ~Closed(log, i)}
<1>1. e \in 1..Len(log) /\ log[e].kind = "entry" /\ e \in Nat
  BY DEF Entered, Sound, TypeOK
<1>2. log[e].plate = Car /\ log[e].at \in Nat /\ log[e].at <= now /\ now <= MaxNow /\ now \in Nat
  <2>1. log[e] \in Row
    BY <1>1 DEF Sound, TypeOK
  <2> QED
    BY <1>1, <2>1 DEF Rows, Row, Sound, TypeOK
<1>3. Day(log[e].at) = Day(now)
  <2>1. log[e].at <= MaxNow
    BY <1>2, VisitorAssumption
  <2> QED
    BY <1>2, <2>1, OneDay
<1>4. e \in S
  BY <1>1, <1>2, <1>3 DEF EntriesToday, Today
<1>5. S \subseteq 0..Len(log) /\ S \subseteq 1..Len(log) /\ Len(log) \in Nat /\ \A i \in S : log[i].kind = "entry"
  BY DEF EntriesToday, Sound, TypeOK
<1>6. t = Newest(S)
  BY DEF PairTarget
<1> HIDE DEF S
<1>7. \E i \in S : \A j \in S : j <= i
  BY <1>4, <1>5, HasNewest
<1>8. t \in S /\ \A i \in S : i <= t
  BY <1>6, <1>7 DEF Newest
<1> QED
  BY <1>4, <1>5, <1>8

LEMMA ExitRowTold ==
  ASSUME Sound, Logged, Rows, MaxNow < DayLength, Told, NEW r \in Requests, ExitRow(r)
  PROVE  Told'
<1>1. /\ TypeOK /\ requests[r].pc = "row" /\ Busy(r)
      /\ now' = now /\ passes' = passes /\ fines' = fines /\ visit' = visit
  BY DEF ExitRow, Sound, Busy
<1>2. PICK x \in Request : x = requests[r] /\ x.pc = "row"
  BY <1>1, RequestFields
<1>3. PICK y \in Request :
        /\ Moves(r, y) /\ y.pc = IF x.errand = "slip" THEN "fine" ELSE "seek"
        /\ y.errand = x.errand /\ y.pass = x.pass /\ y.left = x.left /\ y.expires = x.expires
  <2>1. PICK pc \in PCs : pc = (IF x.errand = "slip" THEN "fine" ELSE "seek")
    BY DEF PCs
  <2>2. Goto(r, pc)
    BY <1>2, <2>1 DEF ExitRow
  <2> QED
    BY <1>1, <1>2, <2>1, <2>2, GoneOn
<1>4. PICK t \in Nat : t = PairTarget(log, Car, now)
  BY <1>1, TargetType
<1>5. Appended("exit", t, 0) /\ "exit" \in Kinds /\ 0 \in Nat
  BY <1>4 DEF ExitRow, Appended, Kinds
<1>6. \A i, q : Entered(i, q)' <=> Entered(i, q)
  BY <1>5, NoEntry
<1>7. /\ \A i : Closed(log, i)' <=> (Closed(log, i) \/ i = t)
      /\ \A i : Taken(i) => Taken(i)'
  BY <1>5, RowClosed
<1>8. ASSUME NEW e, NEW q, Entered(e, q) PROVE Taken(e)'
  <2>1. e \in 1..Len(log) /\ log[e].kind = "entry" /\ e >= e
    BY <1>1, <1>8 DEF Entered, TypeOK
  <2>2. CASE Closed(log, e)
    BY <1>1, <1>7, <2>1, <2>2 DEF Taken, TypeOK
  <2>3. CASE ~Closed(log, e)
    <3>1. t \in 1..Len(log) /\ log[t].kind = "entry" /\ t >= e
      BY <1>4, <1>8, <2>3, ExitPairs
    <3>2. Closed(log, t)'
      BY <1>7
    <3>3. t \in DOMAIN log' /\ log'[t].kind = "entry"
      BY <1>1, <1>5, <3>1, RowInserted DEF Appended, TypeOK
    <3> QED
      BY <3>1, <3>2, <3>3 DEF Taken
  <2> QED
    BY <2>2, <2>3
<1>9. ASSUME AnySmooth, Tale(x) PROVE Tale(y)'
  <2>1. PICK n \in 1..Len(passes) : n = Len(passes)
    BY <1>9, Newest1
  <2>2. /\ passes[n].smooth /\ Overstays(x) /\ Duty(x)
        /\ \A q \in 1..n : passes[q].active => q = n
        /\ \A q \in 1..n : passes[q].smooth => Stays(q, x)
    BY <1>9, <2>1 DEF Tale
  <2>3. Len(passes') = n /\ passes'[n] = passes[n]
    BY <1>1, <2>1
  <2>4. Duty(y)'
    BY <1>2, <1>3, <2>1, <2>2, <2>3 DEF Duty
  <2>5. Overstays(y)'
    BY <1>1, <1>2, <1>3, <2>1, <2>2, <2>3 DEF Duty, Overstays
  <2>6. ASSUME NEW q \in 1..n, passes[q].smooth PROVE Stays(q, y)'
    <3>1. Stays(q, x)
      BY <2>2, <2>6
    <3>2. Shut(q, y)'
      <4>1. passes[q].active => x.errand # "slip"
        BY <1>2, <2>1, <2>2 DEF Duty
      <4> QED
        BY <1>1, <1>3, <4>1 DEF Shut
    <3> QED
      BY <1>1, <1>2, <1>6, <1>8, <3>1, <3>2 DEF Stays
  <2> QED
    BY <1>1, <2>2, <2>3, <2>4, <2>5, <2>6 DEF Tale
<1>10. ASSUME AnySmooth' PROVE AnySmooth /\ Tale(y)'
  <2>1. AnySmooth
    BY <1>1, <1>10, NoneSmoother
  <2> QED
    BY <1>1, <1>2, <1>9, <2>1, TaleOf
<1>11. y.pc # "idle"
  BY <1>3
<1> QED
  BY <1>1, <1>3, <1>10, <1>11, StepTold

(* An exit by check: the live one of a visit whose pass is closed already, *)
(* an uploaded frame's of one it leaves active.                            *)
LEMMA LockedTale ==
  ASSUME Sound, Logged, AnySmooth, NEW x \in Request, NEW y \in Request, Tale(x),
         x.pc = "lock", y.pc \in {"idle", "seek"}, NEW e \in Nat, Appended("exit", e, 0),
         UNCHANGED <<now, fines, visit>>, Len(passes') = Len(passes),
         \A p \in 1..Len(passes) :
           /\ passes'[p].active = passes[p].active /\ passes'[p].printed = passes[p].printed
           /\ passes'[p].booked = passes[p].booked /\ passes'[p].smooth = passes[p].smooth
           /\ passes'[p].twice = passes[p].twice /\ passes'[p].issued = passes[p].issued
           /\ passes'[p].expires = passes[p].expires /\ passes'[p].exited = passes[p].exited
           /\ passes[p].active => passes'[p].filmed,
         y.pc = "seek" => y.errand = "check" /\ ~passes[Len(passes)].active
  PROVE  Tale(y)'
<1>1. PICK n \in 1..Len(passes) : n = Len(passes)
  BY Newest1
<1>2. /\ passes[n].smooth /\ Overstays(x)
      /\ \A q \in 1..n : passes[q].active => q = n
      /\ \A q \in 1..n : passes[q].smooth => Stays(q, x)
  BY <1>1 DEF Tale
<1>3. now' = now /\ fines' = fines /\ visit' = visit /\ Len(passes') = n
  BY <1>1
<1>4. "exit" \in Kinds
  BY DEF Kinds
<1>5. /\ \A i, q : Entered(i, q)' <=> Entered(i, q)
      /\ \A i : Taken(i) => Taken(i)'
  BY <1>4, NoEntry, RowClosed
<1>6. Duty(y)'
  BY <1>1, <1>3 DEF Duty
<1>7. Overstays(y)'
  BY <1>1, <1>2, <1>3 DEF Overstays
<1>8. ASSUME NEW q \in 1..n, passes[q].smooth PROVE Stays(q, y)'
  <2>1. Stays(q, x) /\ q \in 1..Len(passes)
    BY <1>1, <1>2, <1>8
  <2>2. Shut(q, x) <=> ~passes[q].active
    BY DEF Shut
  <2>3. Shut(q, y)' => ~passes[q].active
    BY <1>1, <1>2, <2>1 DEF Shut
  <2> QED
    BY <1>3, <1>5, <2>1, <2>2, <2>3 DEF Stays
<1> QED
  BY <1>1, <1>2, <1>3, <1>6, <1>7, <1>8 DEF Tale

LEMMA LockedExitTold ==
  ASSUME Sound, Logged, Told, NEW r \in Requests, LockedExit(r)
  PROVE  Told'
<1> DEFINE e == requests[r].number
<1>1. /\ TypeOK /\ requests[r].pc = "lock" /\ Busy(r) /\ "seek" \in PCs /\ e \in Nat
      /\ UNCHANGED <<now, fines, visit>>
  BY RequestFields DEF LockedExit, Sound, Busy, PCs
<1>2. PICK x \in Request : x = requests[r] /\ x.pc = "lock"
  BY <1>1, RequestFields
<1>3. Idle \in Request /\ Idle.pc = "idle"
  BY IdleType
<1>4. CASE Closed(log, e)
  <2>1. Moves(r, Idle) /\ RowsSame /\ passes' = passes
    BY <1>1, <1>4, FinishMoves DEF LockedExit, RowsSame
  <2>2. RecordSame
    BY <2>1 DEF RecordSame
  <2>3. Duty(Idle) /\ \A p : Shut(p, requests[r]) <=> Shut(p, Idle)
    BY <1>1, <1>3 DEF Duty, Shut
  <2> QED
    BY <1>1, <1>3, <2>1, <2>2, <2>3, TurnTold
<1>5. CASE ~Closed(log, e) /\ requests[r].errand = "check"
  <2>1. Appended("exit", e, 0) /\ passes' = passes /\ Goto(r, "seek")
    BY <1>5 DEF LockedExit, Appended
  <2>2. PICK y \in Request : Moves(r, y) /\ y.pc = "seek" /\ y.errand = "check"
    BY <1>1, <1>5, <2>1, GoneOn
  <2>3. ASSUME AnySmooth, Tale(x) PROVE Tale(y)'
    <3>1. \A p \in 1..Len(passes) : ~passes[p].active
      BY <1>2, <1>5, <2>3, Newest1 DEF Tale, Duty
    <3> QED
      BY <1>1, <1>2, <2>1, <2>2, <2>3, <3>1, LockedTale, Newest1
  <2>4. ASSUME AnySmooth' PROVE AnySmooth /\ Tale(y)'
    <3>1. AnySmooth
      BY <2>1, <2>4, NoneSmoother
    <3> QED
      BY <1>1, <1>2, <2>3, <3>1, TaleOf
  <2> QED
    BY <1>1, <2>2, <2>4, StepTold
<1>6. CASE ~Closed(log, e) /\ requests[r].errand # "check"
  <2>1. Appended("exit", e, 0) /\ passes' = Filmed /\ Moves(r, Idle)
    BY <1>6, FinishMoves DEF LockedExit, Appended
  <2>2. Len(passes') = Len(passes)
    BY <1>1, <2>1, FilmedType
  <2>3. ASSUME NEW p \in 1..Len(passes)
        PROVE  /\ passes'[p].active = passes[p].active /\ passes'[p].printed = passes[p].printed
               /\ passes'[p].booked = passes[p].booked /\ passes'[p].smooth = passes[p].smooth
               /\ passes'[p].twice = passes[p].twice /\ passes'[p].issued = passes[p].issued
               /\ passes'[p].expires = passes[p].expires /\ passes'[p].exited = passes[p].exited
               /\ passes[p].active => passes'[p].filmed
    <3>1. passes'[p] = [passes[p] EXCEPT !.filmed = passes[p].filmed \/ passes[p].active]
      BY <1>1, <2>1, FilmedType
    <3> QED
      BY <1>1, <3>1, PassFields DEF Pass
  <2>4. ASSUME AnySmooth, Tale(x) PROVE Tale(Idle)'
    BY <1>1, <1>2, <1>3, <2>1, <2>2, <2>3, <2>4, LockedTale
  <2>5. ASSUME AnySmooth' PROVE AnySmooth /\ Tale(Idle)'
    <3>1. AnySmooth
      BY <2>2, <2>3, <2>5, NoneSmoother
    <3> QED
      BY <1>1, <1>2, <2>4, <3>1, TaleOf
  <2> QED
    BY <1>1, <1>3, <2>1, <2>5, StepTold
<1> QED
  BY <1>4, <1>5, <1>6

(* An entry of no slip: no visit is told otherwise. *)
LEMMA EntryRowTale ==
  ASSUME Sound, Logged, AnySmooth, NEW x \in Request, Tale(x), x.pc \in {"idle", "admit"},
         EntryRow, UNCHANGED <<now, passes, fines>>
  PROVE  Tale(Idle)'
<1>1. PICK n \in 1..Len(passes) : n = Len(passes)
  BY Newest1
<1>2. /\ passes[n].smooth /\ Overstays(x)
      /\ \A q \in 1..n : passes[q].active => q = n
      /\ \A q \in 1..n : passes[q].smooth => Stays(q, x)
  BY <1>1 DEF Tale
<1>3. now' = now /\ fines' = fines /\ passes' = passes /\ Idle.pc = "idle"
  BY IdleType
<1>4. visit.arrived => visit'.arrived
  BY DEF EntryRow, Sound, TypeOK, Visit
<1>5. Appended("entry", 0, 0) /\ "entry" \in Kinds /\ 0 \in Nat
  BY DEF EntryRow, Appended, Kinds
<1>6. /\ \A i, q : q # 0 => (Entered(i, q)' <=> Entered(i, q))
      /\ \A i : Closed(log, i)' <=> (Closed(log, i) \/ i = 0)
      /\ \A i : Taken(i) => Taken(i)'
  BY <1>5, NoEntry, RowClosed
<1>7. Duty(Idle)'
  BY <1>3 DEF Duty
<1>8. Overstays(Idle)'
  BY <1>1, <1>2, <1>3 DEF Overstays
<1>9. ASSUME NEW q \in 1..n, passes[q].smooth PROVE Stays(q, Idle)'
  <2>1. Stays(q, x) /\ q # 0
    BY <1>1, <1>2, <1>9
  <2>2. \A e : Entered(e, q)' <=> Entered(e, q)
    BY <1>6, <2>1
  <2>3. \A e : Entered(e, q) =>
          (Closed(log, e)' <=> Closed(log, e)) /\ (Taken(e) => Taken(e)')
    BY <1>6 DEF Entered
  <2>4. Shut(q, x) <=> Shut(q, Idle)
    BY <1>3 DEF Shut
  <2> QED
    BY <1>3, <1>4, <2>1, <2>2, <2>3, <2>4, StaysSame
<1> QED
  BY <1>1, <1>2, <1>3, <1>7, <1>8, <1>9 DEF Tale

LEMMA AdmitTold ==
  ASSUME Sound, Logged, Told, NEW r \in Requests, Admit(r)
  PROVE  Told'
<1>1. /\ requests[r].pc = "admit" /\ Busy(r) /\ Finish(r) /\ EntryRow
      /\ passes' = passes /\ UNCHANGED <<now, fines>>
  BY DEF Admit, Busy
<1>2. PICK x \in Request : x = requests[r]
  BY RequestFields DEF Sound
<1>3. ASSUME AnySmooth, Tale(x) PROVE Tale(Idle)'
  BY <1>1, <1>2, <1>3, EntryRowTale
<1> QED
  BY <1>1, <1>2, <1>3, FinishTold

LEMMA OverrideTold ==
  ASSUME Sound, Logged, Told, NEW r \in Requests, Override(r)
  PROVE  Told'
<1>1. /\ ~Busy(r) /\ Note(r) /\ EntryRow /\ requests' = requests /\ UNCHANGED <<now, fines>>
  BY DEF Override
<1>2. CASE passes' = Ruffled
  <2>1. ~AnySmooth'
    BY <1>2, RuffledType, PassFields DEF AnySmooth, Sound, Pass
  <2> QED
    BY <2>1 DEF Told
<1>3. CASE passes' # Ruffled
  <2>1. passes' = passes /\ Quiet
    BY <1>1, <1>3 DEF Note, Quiet
  <2>2. (\A q \in Requests : ~Busy(q)') /\ \A x : Current(x)' => x = Idle
    BY <1>1, <2>1 DEF Quiet, Busy, Current
  <2>3. ASSUME AnySmooth' PROVE Tale(Idle)'
    <3>1. AnySmooth
      BY <2>1, <2>3 DEF AnySmooth
    <3>2. Tale(Idle)
      BY <2>1, <3>1, IdleType DEF Told, Current
    <3> QED
      BY <1>1, <2>1, <3>1, <3>2, IdleType, EntryRowTale
  <2> QED
    BY <2>2, <2>3 DEF Told
<1> QED
  BY <1>2, <1>3

-----------------------------------------------------------------------------
(* The steps that are no request's. *)

(* A death takes the smoothness of every pass. *)
LEMMA DieTold ==
  ASSUME Sound, Told, NEW r \in Requests, Die(r)
  PROVE  Told'
<1>1. passes' = Ruffled
  BY DEF Die
<1>2. ~AnySmooth'
  BY <1>1, RuffledType, PassFields DEF AnySmooth, Sound, Pass
<1> QED
  BY <1>2 DEF Told

LEMMA TickTold ==
  ASSUME Sound, Told, Tick \/ UNCHANGED vars
  PROVE  Told'
<1>1. /\ log' = log /\ of' = of /\ passes' = passes /\ fines' = fines /\ visit' = visit
      /\ requests' = requests
  BY DEF Tick, vars
<1>2. now \in Nat /\ now' \in Nat /\ now <= now'
  BY DEF Tick, vars, Sound, TypeOK
<1>3. \A e, p : /\ (Entered(e, p)' <=> Entered(e, p))
                /\ (Closed(log, e)' <=> Closed(log, e))
                /\ (Taken(e)' <=> Taken(e))
  BY <1>1 DEF Entered, Closed, Taken
<1>4. (\A r : Busy(r)' <=> Busy(r)) /\ (AnySmooth' <=> AnySmooth) /\ (Quiet' <=> Quiet)
  BY <1>1 DEF Busy, AnySmooth, Quiet
<1>5. \A x : Current(x)' <=> Current(x)
  BY <1>1, <1>4 DEF Current
<1>6. ASSUME NEW x \in Request, AnySmooth, Tale(x) PROVE Tale(x)'
  <2>1. PICK n \in 1..Len(passes) : n = Len(passes)
    BY <1>6, Newest1
  <2>2. passes[n].issued \in Nat /\ passes[n].expires \in Nat /\ x.left \in Nat
    BY PassFields DEF Sound, Request
  <2>3. Duty(x)'
    BY <1>1, <1>2, <1>6, <2>1, <2>2 DEF Tale, Duty
  <2>4. Overstays(x)'
    <3>1. fines \subseteq Nat
      BY DEF Sound, TypeOK
    <3> QED
      BY <1>1, <1>2, <1>6, <2>1, <2>2, <3>1 DEF Tale, Overstays
  <2>5. ASSUME NEW p \in 1..Len(passes), passes[p].smooth PROVE Stays(p, x)'
    <3>1. Shut(p, x)' <=> Shut(p, x)
      BY <1>1 DEF Shut
    <3> QED
      BY <1>1, <1>3, <1>6, <2>5, <3>1 DEF Tale, Stays
  <2> QED
    BY <1>1, <1>3, <1>6, <2>3, <2>4, <2>5 DEF Tale
<1> QED
  BY <1>4, <1>5, <1>6 DEF Told

(* A new pass begins a visit of its own. *)
LEMMA IssueTold ==
  ASSUME Sound, Logged, Told, NEW minutes \in Minutes, NEW picked \in Picked,
         Issue(minutes, picked)
  PROVE  Told'
<1>1. /\ TypeOK /\ fines = {} /\ now \in Nat
      /\ now' = now /\ log' = log /\ of' = of /\ fines' = fines /\ visit' = visit
      /\ requests' = requests
  BY DEF Issue, Sound, TypeOK
<1>2. PICK new \in Pass :
        /\ passes' = Append(IF new.smooth THEN passes ELSE Ruffled, new)
        /\ new.active /\ ~new.printed /\ new.issued = now /\ ~new.twice
        /\ new.smooth <=> (Active = {} /\ Quiet)
  <2> DEFINE given == [active |-> TRUE, printed |-> FALSE, token |-> 0, issued |-> now,
                       expires |-> now + minutes, exited |-> 0,
                       booked |-> ~visit.arrived /\ (visit.plated \/ picked),
                       smooth |-> Active = {} /\ Quiet, twice |-> FALSE, filmed |-> FALSE]
  <2>1. passes' = Append(IF given.smooth THEN passes ELSE Ruffled, given)
    BY Zenon DEF Issue
  <2>2. now + minutes \in Nat
    BY <1>1, VisitorAssumption
  <2>3. /\ given \in Pass /\ given.active /\ ~given.printed /\ given.issued = now /\ ~given.twice
        /\ given.smooth <=> (Active = {} /\ Quiet)
    BY <1>1, <2>2 DEF Pass
  <2> HIDE DEF given
  <2> QED
    BY <2>1, <2>3
<1>3. PICK n \in Nat : n = Len(passes)
  BY <1>1, Indices
<1>4. CASE ~new.smooth
  <2>1. /\ Len(passes') = n + 1 /\ passes'[n + 1] = new
        /\ \A p \in 1..n : passes'[p] = Ruffled[p]
    BY <1>1, <1>2, <1>3, <1>4, RuffledType
  <2>2. ASSUME NEW p \in 1..n PROVE ~Ruffled[p].smooth
    <3>1. p \in 1..Len(passes)
      BY <1>3
    <3> QED
      BY <1>1, <3>1, RuffledType, PassFields DEF Pass
  <2>3. 1..(n + 1) = (1..n) \cup {n + 1}
    BY <1>3
  <2>4. ~AnySmooth'
    BY <1>4, <2>1, <2>2, <2>3 DEF AnySmooth
  <2> QED
    BY <2>4 DEF Told
<1>5. CASE new.smooth
  <2>1. /\ Len(passes') = n + 1 /\ passes'[n + 1] = new
        /\ \A p \in 1..n : passes'[p] = passes[p]
    BY <1>1, <1>2, <1>3, <1>5 DEF TypeOK
  <2>2. Quiet /\ \A p \in 1..n : ~passes[p].active
    BY <1>1, <1>2, <1>3, <1>5, Indices DEF Active
  <2>3. \A e, p : /\ (Entered(e, p)' <=> Entered(e, p))
                /\ (Closed(log, e)' <=> Closed(log, e))
                /\ (Taken(e)' <=> Taken(e))
    BY <1>1 DEF Entered, Closed, Taken
  <2>4. 1..(n + 1) = (1..n) \cup {n + 1} /\ n + 1 \notin 0..n /\ n + 1 \notin 1..n
    BY <1>3
  <2>5. \A e : ~Entered(e, n + 1)
    BY <1>3, <2>4 DEF Entered, Logged
  <2>6. Tale(Idle)'
    <3>1. Duty(Idle)' /\ Idle.pc = "idle"
      BY IdleType DEF Duty
    <3>2. Overstays(Idle)'
      BY <1>1, <1>2, <2>1, <3>1 DEF Overstays
    <3>3. ASSUME NEW p \in 1..n, passes[p].smooth PROVE Stays(p, Idle)'
      <4>1. AnySmooth
        BY <1>3, <3>3 DEF AnySmooth
      <4>2. Tale(Idle)
        BY <2>2, <4>1, IdleType DEF Told, Current
      <4>3. Stays(p, Idle) /\ passes'[p] = passes[p]
        BY <1>3, <2>1, <3>3, <4>2 DEF Tale
      <4> QED
        BY <1>1, <2>3, <3>1, <4>3, StaysSame
    <3>4. Stays(n + 1, Idle)'
      BY <1>2, <2>1, <2>3, <2>5 DEF Stays
    <3>5. \A p \in 1..(n + 1) : passes'[p].active => p = n + 1
      BY <2>1, <2>2, <2>4
    <3>6. \A p \in 1..(n + 1) : passes'[p].smooth => Stays(p, Idle)'
      BY <2>1, <2>4, <3>3, <3>4
    <3> QED
      BY <1>5, <2>1, <2>3, <2>5, <3>1, <3>2, <3>5, <3>6 DEF Tale
  <2>7. (\A q \in Requests : ~Busy(q)') /\ \A x : Current(x)' => x = Idle
    BY <1>1, <2>2 DEF Quiet, Busy, Current
  <2> QED
    BY <2>6, <2>7 DEF Told
<1> QED
  BY <1>4, <1>5


-----------------------------------------------------------------------------
(* Every step keeps the rows in order, and the tale. *)

(* No request waits for the lock of an entry it did not wait for. *)
Unlocked == \A q \in Requests : requests'[q].pc = "lock" => requests'[q] = requests[q]

LEMMA MoveUnlocked ==
  ASSUME TypeOK, NEW r \in Requests, NEW y \in Request, Moves(r, y), y.pc # "lock"
  PROVE  Unlocked
BY OneRequest DEF Unlocked

LEMMA StartUnlocked ==
  ASSUME TypeOK, NEW r \in Requests, Start(r),
         \A errand \in {"check", "upload"} : ~CheckInside(r, errand)
  PROVE  Unlocked
<1>0. 0 \in Nat /\ serial + 1 \in Nat /\ now \in Nat
  BY DEF TypeOK
<1>1. ASSUME NEW errand \in Errands, NEW pc \in PCs, NEW p \in Nat, NEW number \in Nat,
             NEW expires \in Nat, Begin(r, errand, pc, p, number, expires), pc # "lock"
      PROVE  Unlocked
  BY <1>1, BeginMoves, MoveUnlocked
<1>2. CASE TypedExit(r)
  BY <1>0, <1>1, <1>2 DEF TypedExit, Errands, PCs
<1>3. CASE Acknowledge(r)
  <2>1. requests' = [requests EXCEPT ![r] = [Idle EXCEPT
          !.errand = "report", !.pc = "fine", !.pass = Len(passes),
          !.expires = passes[Len(passes)].expires, !.left = now]]
    BY <1>3, Zenon DEF Acknowledge
  <2> QED
    BY <2>1 DEF Unlocked, Idle, TypeOK
<1>4. CASE Override(r)
  BY <1>4 DEF Override, Unlocked
<1>5. ASSUME NEW errand \in {"check", "upload"}, CheckOutside(r, errand) PROVE Unlocked
  BY <1>0, <1>1, <1>5 DEF CheckOutside, Errands, PCs
<1>6. ASSUME NEW p \in 1..Len(passes) PROVE p \in Nat /\ passes[p].expires \in Nat
  BY PassFields, Indices
<1>7. ASSUME NEW p \in 1..Len(passes), NEW errand \in {"thermal", "browser"}, Draw(r, p, errand)
      PROVE  Unlocked
  <2>1. PICK pc \in {"draw", "keep"} : Begin(r, errand, pc, p, serial + 1, 0)
    BY <1>7, Zenon DEF Draw
  <2> QED
    BY <1>0, <1>1, <1>6, <2>1 DEF Errands, PCs
<1>8. ASSUME NEW p \in 1..Len(passes), Confirm(r, p) PROVE Unlocked
  BY <1>0, <1>1, <1>6, <1>8 DEF Confirm, Errands, PCs
<1>9. ASSUME NEW p \in 1..Len(passes), SlipExit(r, p) PROVE Unlocked
  BY <1>0, <1>1, <1>6, <1>9 DEF SlipExit, Errands, PCs
<1>10. ASSUME NEW p \in 1..Len(passes), NEW expires \in Nat, Allow(r, p, expires) PROVE Unlocked
  BY <1>0, <1>1, <1>6, <1>10 DEF Allow, Errands, PCs
<1>11. ASSUME NEW p \in 1..Len(passes), Extend(r, p) PROVE Unlocked
  <2>1. passes[p].expires + 1 \in Nat
    BY <1>6
  <2> QED
    BY <1>10, <1>11, <2>1 DEF Extend
<1>12. ASSUME NEW p \in 1..Len(passes), NEW minutes \in Minutes, RecordDetails(r, p, minutes)
       PROVE  Unlocked
  <2>1. passes[p].issued + minutes \in Nat
    BY PassFields, VisitorAssumption
  <2> QED
    BY <1>10, <1>12, <2>1 DEF RecordDetails
<1> QED
  BY <1>2, <1>3, <1>4, <1>5, <1>7, <1>8, <1>9, <1>11, <1>12 DEF Start

LEMMA StepUnlocked ==
  ASSUME TypeOK, NEW r \in Requests, Step(r)
  PROVE  Unlocked
<1>1. ASSUME Finish(r) PROVE Unlocked
  BY <1>1, FinishMoves, IdleType, MoveUnlocked
<1>2. ASSUME NEW pc \in PCs, Goto(r, pc), pc # "lock" PROVE Unlocked
  BY <1>2, GoneOn, MoveUnlocked
<1>3. {"keep", "enter", "arrive", "seek", "fine", "lift"} \subseteq PCs
  BY DEF PCs
<1>4. ASSUME NEW jams \in BOOLEAN, PaperOut(r, jams) PROVE Unlocked
  BY <1>1, <1>2, <1>3, <1>4 DEF PaperOut
<1>5. ASSUME Keep(r) \/ Admit(r) \/ Arrive(r) \/ Fine(r) \/ Lift(r) PROVE Unlocked
  BY <1>1, <1>5 DEF Keep, Admit, Arrive, Fine, Lift
<1>6. ASSUME Stamp(r) \/ SaveAllowance(r) PROVE Unlocked
  BY <1>2, <1>3, <1>6 DEF Stamp, SaveAllowance
<1>7. ASSUME Enter(r) \/ LockedExit(r) PROVE Unlocked
  BY <1>1, <1>2, <1>3, <1>7 DEF Enter, LockedExit
<1>8. CASE ExitRow(r)
  <2>1. PICK pc \in {"fine", "seek"} : Goto(r, pc)
    BY <1>8 DEF ExitRow
  <2> QED
    BY <1>2, <1>3, <2>1
<1>9. CASE Seek(r)
  <2>1. Finish(r) \/ requests' = [requests EXCEPT ![r].pc = "close", ![r].pass = ActivePass,
                                      ![r].expires = passes[ActivePass].expires]
    BY <1>9, Zenon DEF Seek
  <2> QED
    BY <1>1, <2>1 DEF Unlocked, TypeOK, Request
<1>10. CASE Close(r)
  <2>1. PICK pc \in {"row", "fine"} :
          requests' = [requests EXCEPT ![r].pc = pc, ![r].left = now]
    BY <1>10, Zenon DEF Close
  <2> QED
    BY <2>1 DEF Unlocked, TypeOK, Request
<1> QED
  BY <1>4, <1>5, <1>6, <1>7, <1>8, <1>9, <1>10 DEF Step

LEMMA RowsWritten ==
  ASSUME Sound, Rows, NEW kind \in Kinds, NEW e \in 0..Len(log), NEW p \in Nat,
         Appended(kind, e, p), now' = now, Unlocked
  PROVE  Rows'
<1>1. TypeOK /\ Len(log) \in Nat /\ now \in Nat /\ e \in Nat
  BY DEF Sound, TypeOK
<1>2. /\ Len(log') = Len(log) + 1
      /\ \A i \in 1..Len(log) : log'[i] = log[i]
  BY <1>1, RowInserted DEF Appended
<1>3. /\ log'[Len(log) + 1].plate = Car /\ log'[Len(log) + 1].at = now
      /\ log'[Len(log) + 1].paired = e
  <2>1. NewRow(Car, kind, now, e) \in Row
    BY <1>1, VisitorAssumption DEF NewRow, Row
  <2>2. log'[Len(log) + 1] = NewRow(Car, kind, now, e)
    BY <1>1, <2>1 DEF Appended, TypeOK
  <2> QED
    BY <2>2 DEF NewRow
<1>4. ASSUME NEW i \in 1..Len(log')
      PROVE  log'[i].plate = Car /\ log'[i].at <= now' /\ log'[i].paired \in 0..Len(log')
  <2>1. CASE i = Len(log) + 1
    BY <1>1, <1>2, <1>3, <2>1
  <2>2. CASE i # Len(log) + 1
    <3>1. i \in 1..Len(log)
      BY <1>1, <1>2, <2>2
    <3> QED
      BY <1>1, <1>2, <3>1 DEF Rows
  <2> QED
    BY <2>1, <2>2
<1>5. ASSUME NEW r \in Requests, requests'[r].pc = "lock"
      PROVE  requests'[r].number \in 0..Len(log')
  <2>1. requests'[r].number \in 0..Len(log)
    BY <1>5 DEF Rows, Unlocked
  <2> QED
    BY <1>1, <1>2, <2>1
<1>6. now' <= MaxNow
  BY DEF Rows
<1> QED
  BY <1>4, <1>5, <1>6 DEF Rows

LEMMA NewestRow ==
  ASSUME TypeOK, NEW S, S \subseteq 1..Len(log) PROVE Newest(S) \in 0..Len(log)
<1>1. Len(log) \in Nat
  BY DEF TypeOK
<1>2. Newest(S) \in S \cup {0}
  BY DEF Newest
<1>3. \A m \in S \cup {0} : m \in 0..Len(log)
  BY <1>1
<1> QED
  BY <1>2, <1>3

LEMMA TargetRow == ASSUME TypeOK PROVE PairTarget(log, Car, now) \in 0..Len(log)
<1> DEFINE S == {e \in EntriesToday(log, Car, now) : ~Closed(log, e)}
<1>1. S \subseteq 1..Len(log)
  BY DEF EntriesToday
<1> QED
  BY <1>1, NewestRow DEF PairTarget

LEMMA LastRow == ASSUME TypeOK PROVE LastEntry(log, Car, now) \in 0..Len(log)
<1>1. EntriesToday(log, Car, now) \subseteq 1..Len(log)
  BY DEF EntriesToday
<1> QED
  BY <1>1, NewestRow DEF LastEntry

LEMMA NextRows == Sound /\ Rows /\ [Next]_vars => Rows'
<1> SUFFICES ASSUME Sound, Rows, [Next]_vars PROVE Rows'
  OBVIOUS
<1> USE DEF Sound
<1>1. ASSUME log' = log, now' = now, Unlocked PROVE Rows'
  BY <1>1 DEF Rows, Unlocked
<1>2. ASSUME NEW r \in Requests, Start(r), ~Override(r),
             \A errand \in {"check", "upload"} : ~CheckInside(r, errand)
      PROVE  Rows'
  <2>1. log' = log /\ now' = now
    BY <1>2 DEF Start, TypedExit, Acknowledge, Draw, Confirm, SlipExit, Extend, RecordDetails,
                Allow, CheckOutside
  <2> QED
    BY <1>1, <1>2, <2>1, StartUnlocked
<1>3. ASSUME NEW r \in Requests, NEW errand, CheckInside(r, errand) PROVE Rows'
  <2>1. /\ log' = log /\ now' = now /\ errand \in Errands /\ "lock" \in PCs
        /\ LastEntry(log, Car, now) \in 0..Len(log) /\ 0 \in Nat /\ Len(log) \in Nat
    BY <1>3, LastRow DEF CheckInside, Errands, PCs, TypeOK
  <2>2. Begin(r, errand, "lock", 0, LastEntry(log, Car, now), 0)
    BY <1>3, Zenon DEF CheckInside
  <2>3. PICK y \in Request : Moves(r, y) /\ y.number = LastEntry(log, Car, now)
    BY <2>1, <2>2, BeginMoves
  <2>4. requests'[r] = y /\ \A q \in Requests : q # r => requests'[q] = requests[q]
    BY <2>3, OneRequest
  <2>5. \A q \in Requests : requests'[q].pc = "lock" => requests'[q].number \in 0..Len(log)
    BY <2>1, <2>3, <2>4 DEF Rows
  <2> QED
    BY <2>1, <2>5 DEF Rows
<1>4. ASSUME NEW r \in Requests, Enter(r) PROVE Rows'
  <2>1. /\ Appended("entry", 0, requests[r].pass) /\ now' = now /\ "entry" \in Kinds
        /\ requests[r].pass \in Nat /\ 0 \in 0..Len(log)
    BY <1>4, RequestFields DEF Enter, Appended, Kinds, TypeOK
  <2>2. Unlocked
    BY <1>4, StepUnlocked DEF Step
  <2> QED
    BY <2>1, <2>2, RowsWritten
<1>5. ASSUME NEW r \in Requests, ExitRow(r) PROVE Rows'
  <2>1. /\ Appended("exit", PairTarget(log, Car, now), 0) /\ now' = now /\ "exit" \in Kinds
        /\ PairTarget(log, Car, now) \in 0..Len(log) /\ 0 \in Nat
    BY <1>5, TargetRow DEF ExitRow, Appended, Kinds
  <2>2. Unlocked
    BY <1>5, StepUnlocked DEF Step
  <2> QED
    BY <2>1, <2>2, RowsWritten
<1>6. ASSUME NEW r \in Requests, LockedExit(r) PROVE Rows'
  <2>1. now' = now /\ "exit" \in Kinds /\ 0 \in Nat /\ requests[r].number \in 0..Len(log)
    BY <1>6 DEF LockedExit, Kinds, Rows
  <2>2. Unlocked
    BY <1>6, StepUnlocked DEF Step
  <2>3. log' = log \/ Appended("exit", requests[r].number, 0)
    BY <1>6 DEF LockedExit, Appended
  <2> QED
    BY <1>1, <2>1, <2>2, <2>3, RowsWritten
<1>7. ASSUME NEW r \in Requests, Admit(r) \/ Override(r) PROVE Rows'
  <2>1. /\ Appended("entry", 0, 0) /\ now' = now /\ "entry" \in Kinds /\ 0 \in Nat
        /\ 0 \in 0..Len(log)
    BY <1>7 DEF Admit, Override, EntryRow, Appended, Kinds, TypeOK
  <2>2. Unlocked
    <3>1. Override(r) => Unlocked
      BY DEF Override, Unlocked
    <3> QED
      BY <1>7, <3>1, StepUnlocked DEF Step
  <2> QED
    BY <2>1, <2>2, RowsWritten
<1>8. ASSUME NEW r \in Requests, Step(r), ~Enter(r), ~ExitRow(r), ~LockedExit(r), ~Admit(r)
      PROVE  Rows'
  <2>1. log' = log /\ now' = now
    BY <1>8 DEF Step, PaperOut, Keep, Stamp, Arrive, Seek, Close, Fine, SaveAllowance, Lift
  <2> QED
    BY <1>1, <1>8, <2>1, StepUnlocked
<1>9. CASE Tick
  <2>1. log' = log /\ now' = now + 1 /\ now' <= MaxNow /\ now \in Nat /\ requests' = requests
    BY <1>9, VisitorAssumption DEF Tick, TypeOK
  <2>2. ASSUME NEW i \in 1..Len(log) PROVE log[i].at \in Nat
    <3>1. log[i] \in Row
      BY DEF TypeOK
    <3> QED
      BY <3>1 DEF Row
  <2> QED
    BY <2>1, <2>2 DEF Rows
<1>10. ASSUME NEW r \in Requests, Die(r) PROVE Rows'
  <2>1. Unlocked
    BY <1>10, FinishMoves, IdleType, MoveUnlocked DEF Die
  <2> QED
    BY <1>1, <1>10, <2>1 DEF Die
<1>11. ASSUME NEW minutes \in Minutes, NEW picked \in Picked, Issue(minutes, picked) PROVE Rows'
  BY <1>1, <1>11 DEF Issue, Unlocked
<1>12. CASE Over \/ UNCHANGED vars
  BY <1>1, <1>12 DEF Over, vars, Unlocked
<1>13. ASSUME NEW r \in Requests, Start(r) PROVE Rows'
  BY <1>2, <1>3, <1>7, <1>13
<1>14. ASSUME NEW r \in Requests, Step(r) PROVE Rows'
  BY <1>4, <1>5, <1>6, <1>7, <1>8, <1>14
<1> QED
  BY <1>9, <1>10, <1>11, <1>12, <1>13, <1>14 DEF Next

LEMMA NextTold ==
  ASSUME MaxNow < DayLength, Sound, Logged, Rows, Told, [Next]_vars
  PROVE  Told'
<1>1. ASSUME NEW r \in Requests, Start(r) PROVE Told'
  BY <1>1, StartTold, OverrideTold
<1>2. ASSUME NEW r \in Requests, Step(r) PROVE Told'
  BY <1>2, PaperTold, KeepTold, LockedExitTold, AdmitTold, StampTold, EnterTold, ArriveTold,
     ExitRowTold, SeekTold, CloseTold, FineTold, SaveTold, LiftTold DEF Step
<1>3. ASSUME NEW r \in Requests, Die(r) PROVE Told'
  BY <1>3, DieTold
<1>4. ASSUME NEW minutes \in Minutes, NEW picked \in Picked, Issue(minutes, picked) PROVE Told'
  BY <1>4, IssueTold
<1>5. CASE Tick \/ Over \/ UNCHANGED vars
  BY <1>5, TickTold DEF Over
<1> QED
  BY <1>1, <1>2, <1>3, <1>4, <1>5 DEF Next

(* What the property says of the passes, once the requests are through. *)
LEMMA ToldRecorded ==
  ASSUME Sound, Logged, Told PROVE VisitRecorded
<1> SUFFICES ASSUME Quiet, NEW p \in DOMAIN passes, passes[p].smooth
             PROVE  /\ passes[p].printed =>
                         /\ passes[p].booked => visit.arrived
                         /\ \E e \in Entries(p) :
                              /\ Entries(p) = {e}
                              /\ ~passes[p].active => Taken(e)
                              /\ passes[p].active /\ Closed(log, e) => passes[p].filmed
                    /\ p = Len(passes) /\ ~passes[p].active =>
                         LET fined == \E t \in fines : t >= passes[p].issued IN
                         /\ passes[p].exited >= passes[p].expires + Minute => fined
                         /\ fined => passes[p].exited > passes[p].expires
  BY DEF VisitRecorded
<1>1. TypeOK /\ p \in 1..Len(passes) /\ AnySmooth
  BY Indices DEF Sound, AnySmooth
<1>2. Tale(Idle) /\ Idle.pc = "idle"
  BY <1>1, IdleType DEF Told, Current
<1>3. Stays(p, Idle) /\ Overstays(Idle)
  BY <1>1, <1>2 DEF Tale
<1>4. ASSUME passes[p].printed
      PROVE  /\ passes[p].booked => visit.arrived
             /\ \E e \in Entries(p) :
                  /\ Entries(p) = {e}
                  /\ ~passes[p].active => Taken(e)
                  /\ passes[p].active /\ Closed(log, e) => passes[p].filmed
  <2>1. passes[p].booked => visit.arrived
    BY <1>2, <1>3, <1>4 DEF Stays
  <2>2. PICK e : Entered(e, p)
    BY <1>2, <1>3, <1>4 DEF Stays
  <2>3. /\ ~passes[p].active => Taken(e)
        /\ passes[p].active /\ Closed(log, e) => passes[p].filmed
    BY <1>2, <1>3, <2>2 DEF Stays, Shut
  <2>4. \A i : i \in Entries(p) <=> Entered(i, p)
    BY <1>1 DEF Entries, Entered, TypeOK
  <2>5. \A i : Entered(i, p) => i = e
    BY <1>1, <1>3, <2>2 DEF Stays, Logged, LoggedOnce
  <2>6. e \in Entries(p) /\ Entries(p) = {e}
    BY <2>2, <2>4, <2>5
  <2> QED
    BY <2>1, <2>3, <2>6
<1>5. ASSUME p = Len(passes), ~passes[p].active
      PROVE  LET fined == \E t \in fines : t >= passes[p].issued IN
             /\ passes[p].exited >= passes[p].expires + Minute => fined
             /\ fined => passes[p].exited > passes[p].expires
  <2>1. /\ \A t \in fines : passes[p].issued <= t
        /\ fines # {} => passes[p].exited > passes[p].expires
        /\ passes[p].exited >= passes[p].expires + Minute => fines # {}
    BY <1>2, <1>3, <1>5 DEF Overstays
  <2>2. passes[p].issued \in Nat /\ fines \subseteq Nat
    BY <1>1, PassFields DEF TypeOK
  <2> QED
    BY <2>1, <2>2
<1> QED
  BY <1>4, <1>5

(* On a day that does not wrap, a pass that requests took one at a time,   *)
(* and no server died in, tells the visit once they are through, whatever  *)
(* plate checks and overrides came between: a confirmed slip has its one   *)
(* entry and its booking has arrived; after the exit that entry or a newer *)
(* one is closed, before it only an uploaded frame has closed it; and an   *)
(* overstay stands if the visitor left a minute or more after the          *)
(* allowance last given, and none if the visitor left within it.           *)
THEOREM VisitsRecorded ==
  ASSUME MaxNow < DayLength PROVE Spec => []VisitRecorded
<1>1. Init => Sound /\ Logged /\ Rows /\ Told
  <2> SUFFICES ASSUME Init PROVE Sound /\ Logged /\ Rows /\ Told
    OBVIOUS
  <2>1. /\ Len(passes) = 0 /\ Len(log) = 0 /\ Len(of) = 0 /\ now = 0
    BY DEF Init
  <2>2. Logged /\ Told
    BY <2>1 DEF Logged, Told, AnySmooth
  <2>3. \A r \in Requests : requests[r].pc = "idle"
    BY IdleType DEF Init
  <2>4. Rows
    BY <2>1, <2>3, VisitorAssumption DEF Rows
  <2> QED
    BY <2>2, <2>4, InitSound
<1>2. Sound /\ Logged /\ Rows /\ Told /\ [Next]_vars => (Sound /\ Logged /\ Rows /\ Told)'
  BY EveryStep, NextLogged, NextRows, NextTold
<1>3. Sound /\ Logged /\ Told => VisitRecorded
  BY ToldRecorded
<1> QED
  BY <1>1, <1>2, <1>3, PTL DEF Spec

=============================================================================
