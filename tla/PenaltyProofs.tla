---------------------------- MODULE PenaltyProofs ----------------------------
(***************************************************************************)
(* What holds of PenaltyLadder for every value of its constants.           *)
(***************************************************************************)
EXTENDS PenaltyLadder, FiniteSetTheorems, TLAPS

(* What a request carries supports what it will write: a third strike was  *)
(* counted over two rows that are there, a ban over a third.               *)
Carries(req) ==
  /\ req.pc = "insert" => req.num \in 1..3
  /\ req.pc = "insert" /\ req.num = 3 => Len(rows) >= 2
  /\ req.pc = "impose" /\ req.num = 3 => Len(rows) >= 3
  /\ req.pc = "archive" /\ req.banned => Len(rows) >= 3
  /\ \A p \in req.plan : p[2] = 3 => p[1] >= 3

Earned == BanNeedsThree /\ \A r \in Requests : Carries(requests[r])

(* A row numbered and held as it should be. *)
Right(i) == rows[i].num = Strike(i) /\ (rows[i].held <=> Strike(i) = 3)

(* What a request that nothing touched knows, at each of its statements.   *)
Knows(req) ==
  /\ req.pc = "insert" => req.kind \in Issuing /\ req.num = NextOffense
  /\ req.pc = "impose" =>
       /\ req.kind \in Issuing
       /\ req.num = Rung(Cardinality(Standing))
       /\ Len(rows) > 0 /\ rows[Len(rows)].num = Strike(Len(rows))
  /\ req.pc \in {"close", "list", "renumber"} => req.level = account.level
  /\ req.pc = "renumber" =>
       /\ \A p \in req.plan : p[1] \in Standing /\ p[2] = Strike(p[1]) /\ p[3] = Wrong(p[1])
       /\ \A i \in Standing : Right(i) \/ \E p \in req.plan : p[1] = i
  /\ req.pc = "amend" =>
       /\ req.num = Rung(Cardinality(Standing))
       /\ \A i \in Standing : Right(i)
  /\ req.pc \in {"close", "list", "renumber", "amend"} => req.kind \in Settling
  /\ req.pc = "count" => req.kind \in Issuing
  /\ req.pc = "archive" => req.kind = "expire"

Healing ==
  \A r \in Requests :
    requests[r].alone /\ requests[r].pc # "idle" =>
      /\ \A q \in Requests \ {r} : ~Busy(q)
      /\ Knows(requests[r])

-----------------------------------------------------------------------------
(* The rungs. *)
LEMMA Rungs ==
  ASSUME NEW n \in Nat
  PROVE  /\ Rung(n) \in 0..3
         /\ n >= 1 => Rung(n) \in 1..3
         /\ Rung(n) = 3 => n >= 3
BY DEF Rung

(* The violations that count are some of those issued. *)
LEMMA StandingCounts ==
  ASSUME TypeOK
  PROVE  /\ IsFiniteSet(Standing) /\ Cardinality(Standing) \in Nat
         /\ Cardinality(Standing) <= Len(rows)
<1>1. Standing \subseteq 1..Len(rows) /\ Len(rows) \in Nat
  BY DEF Standing, TypeOK
<1>2. IsFiniteSet(1..Len(rows)) /\ Cardinality(1..Len(rows)) = Len(rows)
  BY <1>1, FS_Interval
<1> QED
  BY <1>1, <1>2, FS_Subset, FS_CardinalityType

(* A third strike is at least the third violation. *)
LEMMA StrikeCounts ==
  ASSUME TypeOK, NEW i \in Standing
  PROVE  /\ i \in 1..Len(rows)
         /\ Strike(i) \in 1..3
         /\ Strike(i) = 3 => i >= 3
<1> DEFINE S == {j \in Standing : j <= i}
<1>1. i \in 1..Len(rows) /\ i \in Nat
  BY DEF Standing, TypeOK
<1>2. S \subseteq 1..i /\ i \in S
  BY <1>1 DEF Standing, TypeOK
<1>3. IsFiniteSet(1..i) /\ Cardinality(1..i) = i
  BY <1>1, FS_Interval
<1>4. IsFiniteSet(S) /\ Cardinality(S) <= i
  BY <1>2, <1>3, FS_Subset
<1>5. Cardinality(S) \in Nat /\ Cardinality(S) # 0
  BY <1>2, <1>4, FS_CardinalityType, FS_EmptySet
<1>6. Cardinality(S) >= 1
  BY <1>5
<1> HIDE DEF S
<1>7. Strike(i) = Rung(Cardinality(S))
  BY DEF Strike, S
<1> QED
  BY <1>1, <1>4, <1>5, <1>6, <1>7, Rungs

LEMMA NextType == ASSUME TypeOK PROVE NextOffense \in 1..3 /\ (NextOffense = 3 => Len(rows) >= 2)
<1>1. Cardinality(Standing) \in Nat /\ Cardinality(Standing) <= Len(rows) /\ Len(rows) \in Nat
  BY StandingCounts DEF TypeOK
<1>2. PICK c \in Nat : c = Cardinality(Standing) + 1
  BY <1>1
<1> QED
  BY <1>1, <1>2, Rungs DEF NextOffense

LEMMA TermType == ASSUME TypeOK, NEW l \in 0..3 PROVE TermEnd(l) \in Nat \cup {Never}
BY LadderAssumption DEF TermEnd, TypeOK

LEMMA IdleType == Idle \in Request
BY DEF Idle, Request, Kinds, Issuing, Settling

(* What a request begins, disturbs and ends, in the other requests too.    *)
LEMMA BeginType ==
  ASSUME TypeOK, NEW r \in Requests, NEW req \in Request, Begin(r, req)
  PROVE  requests' \in [Requests -> Request]
<1>1. ASSUME NEW q \in Requests PROVE Crowded(requests[q]) \in Request
  BY IdleType DEF Crowded, Request, TypeOK
<1>2. [req EXCEPT !.alone = \A p \in Requests \ {r} : ~Busy(p)] \in Request
  <2>1. (\A p \in Requests \ {r} : ~Busy(p)) \in BOOLEAN
    OBVIOUS
  <2> QED
    BY <2>1 DEF Request
<1> QED
  BY <1>1, <1>2 DEF Begin

LEMMA DisturbType ==
  ASSUME TypeOK, Disturb
  PROVE  requests' \in [Requests -> Request]
<1>1. ASSUME NEW q \in Requests PROVE Crowded(requests[q]) \in Request
  BY IdleType DEF Crowded, Request, TypeOK
<1> QED
  BY <1>1 DEF Disturb

LEMMA FinishType ==
  ASSUME TypeOK, NEW r \in Requests, Finish(r)
  PROVE  requests' \in [Requests -> Request]
<1>1. requests[r] \in Request
  BY DEF TypeOK
<1>2. [Idle EXCEPT !.pc = "done", !.kind = requests[r].kind, !.alone = TRUE] \in Request
  BY <1>1, IdleType DEF Idle, Request
<1> QED
  BY <1>1, <1>2, IdleType DEF Finish, TypeOK

-----------------------------------------------------------------------------
(* Type correctness. *)

(* One request changes, by some of its fields. *)
LEMMA OneRequest ==
  ASSUME TypeOK, NEW r \in Requests, NEW req \in Request,
         requests' = [requests EXCEPT ![r] = req]
  PROVE  requests' \in [Requests -> Request]
BY DEF TypeOK

(* The rows are rewritten in place. *)
LEMMA Rewritten ==
  ASSUME TypeOK, NEW f, f = [i \in DOMAIN rows |-> f[i]], \A i \in DOMAIN rows : f[i] \in Row
  PROVE  f \in Seq(Row) /\ Len(f) = Len(rows)
BY DEF TypeOK

LEMMA StepTypes ==
  ASSUME TypeOK, NEW r \in Requests, Step(r), Carries(requests[r])
  PROVE  TypeOK'
<1> DEFINE req == requests[r]
<1>r. req \in Request /\ rows \in Seq(Row) /\ account \in Account /\ Len(rows) \in Nat
  BY DEF TypeOK
<1>1. CASE Count(r)
  <2>1. NextOffense \in 1..3
    BY NextType
  <2>2. ASSUME NEW n \in 1..3 PROVE [req EXCEPT !.pc = "insert", !.num = n] \in Request
    <3>1. n \in 0..3
      OBVIOUS
    <3> QED
      BY <1>r, <3>1 DEF Request
  <2>3. requests' = [requests EXCEPT ![r] = [req EXCEPT !.pc = "insert", !.num = NextOffense]]
    BY <1>1 DEF Count, TypeOK
  <2> QED
    BY <1>1, <2>1, <2>2, <2>3, OneRequest DEF Count, TypeOK
<1>2. CASE Insert(r)
  <2>0. req.num \in 1..3 /\ (req.num = 3) \in BOOLEAN
    BY <1>2 DEF Insert, Carries
  <2>1. [day |-> day, num |-> req.num, status |-> "warning", held |-> req.num = 3] \in Row
    BY <2>0 DEF Row, Statuses, TypeOK
  <2>2. rows' \in Seq(Row)
    BY <1>2, <1>r, <2>1 DEF Insert
  <2>3. [req EXCEPT !.pc = "impose"] \in Request
    BY <1>r DEF Request
  <2>4. requests' = [requests EXCEPT ![r] = [req EXCEPT !.pc = "impose"]]
    BY <1>2 DEF Insert, TypeOK
  <2> QED
    BY <1>2, <2>2, <2>3, <2>4, OneRequest DEF Insert, TypeOK
<1>3. CASE Impose(r)
  <2>1. req.num \in 0..3 /\ req.banned \in BOOLEAN
    BY <1>r DEF Request
  <2>2. TermEnd(req.num) \in Nat \cup {Never}
    BY <2>1, TermType
  <2>3. (account.banned \/ (req.num = 3 /\ ~req.banned)) \in BOOLEAN
    OBVIOUS
  <2>4. account' \in Account
    BY <1>3, <1>r, <2>1, <2>2, <2>3 DEF Impose, Account
  <2> QED
    BY <1>3, <2>4, FinishType DEF Impose, TypeOK
<1>4. CASE Close(r)
  <2>1. rows' \in Seq(Row)
    <3>1. rows' = [i \in DOMAIN rows |-> rows'[i]]
      BY <1>4 DEF Close
    <3>2. \A i \in DOMAIN rows : rows[i] \in Row
      BY <1>r
    <3>3. ASSUME NEW i \in DOMAIN rows PROVE rows'[i] \in Row
      <4>1. rows'[i] \in {rows[i], [rows[i] EXCEPT !.status = "cleared"],
                          [[rows[i] EXCEPT !.status = "lifted"] EXCEPT !.held = FALSE]}
        BY <1>4 DEF Close
      <4> QED
        BY <4>1, <3>2 DEF Row, Statuses
    <3> QED
      BY <3>1, <3>3, Rewritten
  <2>2. [req EXCEPT !.pc = "list", !.row = 0] \in Request
    BY <1>r DEF Request
  <2>3. requests' = [requests EXCEPT ![r] = [req EXCEPT !.pc = "list", !.row = 0]]
    BY <1>4 DEF Close, TypeOK
  <2> QED
    BY <1>4, <2>1, <2>2, <2>3, OneRequest DEF Close, TypeOK
<1>5. CASE List(r)
  <2> DEFINE plan == {<<i, Strike(i), Wrong(i)>> : i \in {j \in Standing : Wrong(j) # {}}}
  <2>1. plan \in SUBSET (Nat \X (1..3) \X SUBSET Columns)
    <3>1. \A i \in Standing : i \in Nat /\ Strike(i) \in 1..3
      BY <1>r, StrikeCounts
    <3>2. \A i \in Standing : Wrong(i) \in SUBSET Columns
      BY DEF Wrong
    <3> HIDE DEF Standing
    <3> QED
      BY <3>1, <3>2
  <2> HIDE DEF plan
  <2>2. [req EXCEPT !.pc = "renumber", !.plan = plan] \in Request
    BY <1>r, <2>1 DEF Request
  <2>3. requests' = [requests EXCEPT ![r] = [req EXCEPT !.pc = "renumber", !.plan = plan]]
    BY <1>5 DEF List, TypeOK, plan
  <2> QED
    BY <1>5, <2>2, <2>3, OneRequest DEF List, TypeOK
<1>6. CASE Renumber(r)
  <2>1. PICK p \in req.plan :
          /\ rows' = [rows EXCEPT ![p[1]].num = IF "num" \in p[3] THEN p[2] ELSE @,
                                 ![p[1]].held = IF "held" \in p[3] THEN p[2] = 3 ELSE @]
          /\ requests' = [requests EXCEPT ![r].plan = req.plan \ {p}]
    BY <1>6 DEF Renumber
  <2>2. req.plan \in SUBSET (Nat \X (1..3) \X SUBSET Columns)
    BY <1>r DEF Request
  <2>3. p[2] \in 1..3
    BY <2>1, <2>2
  <2>4. (p[2] = 3) \in BOOLEAN
    OBVIOUS
  <2>5. rows' \in Seq(Row)
    <3>1. rows' = [i \in DOMAIN rows |-> rows'[i]]
      BY <2>1
    <3>2. \A i \in DOMAIN rows : rows[i] \in Row
      BY <1>r
    <3>3. ASSUME NEW i \in DOMAIN rows PROVE rows'[i] \in Row
      <4>1. \/ rows'[i] = rows[i]
            \/ \E n \in {p[2], rows[i].num}, h \in {p[2] = 3, rows[i].held} :
                 rows'[i] = [[rows[i] EXCEPT !.num = n] EXCEPT !.held = h]
        BY <2>1
      <4> QED
        BY <4>1, <3>2, <2>3, <2>4 DEF Row
    <3> QED
      BY <3>1, <3>3, Rewritten
  <2>6. [req EXCEPT !.plan = req.plan \ {p}] \in Request
    BY <1>r, <2>2 DEF Request
  <2>7. requests' = [requests EXCEPT ![r] = [req EXCEPT !.plan = req.plan \ {p}]]
    BY <2>1 DEF TypeOK
  <2> QED
    BY <1>6, <2>5, <2>6, <2>7, OneRequest DEF Renumber, TypeOK
<1>7. CASE Recount(r)
  <2> DEFINE num == Rung(Cardinality(Standing))
  <2>1. num \in 0..3
    BY StandingCounts, Rungs
  <2> HIDE DEF num
  <2>2. CASE num = req.level
    BY <1>7, <2>2, FinishType DEF Recount, TypeOK, num
  <2>3. CASE num # req.level
    <3>1. [req EXCEPT !.pc = "amend", !.num = num] \in Request
      BY <1>r, <2>1 DEF Request
    <3>2. requests' = [requests EXCEPT ![r] = [req EXCEPT !.pc = "amend", !.num = num]]
      BY <1>7, <2>3 DEF Recount, TypeOK, num
    <3> QED
      BY <1>7, <3>1, <3>2, OneRequest DEF Recount, TypeOK
  <2> QED
    BY <2>2, <2>3
<1>8. CASE Amend(r)
  <2>1. req.num \in 0..3
    BY <1>r DEF Request
  <2>2. TermEnd(req.num) \in Nat \cup {Never}
    BY <2>1, TermType
  <2>3. account' \in Account
    BY <1>8, <1>r, <2>1, <2>2 DEF Amend, Account
  <2> QED
    BY <1>8, <2>3, FinishType DEF Amend, TypeOK
<1>9. CASE Archive(r)
  <2>1. req.banned \in BOOLEAN
    BY <1>r DEF Request
  <2>2. account' \in Account
    BY <1>9, <1>r, <2>1 DEF Archive, Account
  <2>3. rows' \in Seq(Row)
    <3>1. rows' = [i \in DOMAIN rows |-> rows'[i]]
      <4>1. CASE req.banned
        BY <1>9, <1>r, <4>1 DEF Archive
      <4>2. CASE ~req.banned
        BY <1>9, <4>2 DEF Archive
      <4> QED
        BY <4>1, <4>2
    <3>2. \A i \in DOMAIN rows : rows[i] \in Row
      BY <1>r
    <3>3. ASSUME NEW i \in DOMAIN rows PROVE rows'[i] \in Row
      <4>1. rows'[i] \in {rows[i], [rows[i] EXCEPT !.status = "archived"]}
        BY <1>9 DEF Archive
      <4> QED
        BY <4>1, <3>2 DEF Row, Statuses
    <3> QED
      BY <3>1, <3>3, Rewritten
  <2> QED
    BY <1>9, <2>2, <2>3, FinishType DEF Archive, TypeOK
<1> QED
  BY <1>1, <1>2, <1>3, <1>4, <1>5, <1>6, <1>7, <1>8, <1>9 DEF Step

(* Requests that begin. *)
LEMMA StartTypes ==
  ASSUME TypeOK, NEW r \in Requests, Start(r)
  PROVE  TypeOK'
<1>a. account \in Account /\ account.banned \in BOOLEAN /\ account.level \in 0..3
  BY DEF TypeOK, Account
<1>1. CASE Sight(r)
  <2>1. \A b \in BOOLEAN : [Idle EXCEPT !.kind = "gate", !.pc = "count", !.banned = b] \in Request
    BY IdleType DEF Request, Kinds, Issuing
  <2> QED
    BY <1>1, <1>a, <2>1, BeginType DEF Sight, TypeOK
<1>2. CASE GuardIssue(r)
  <2>1. \A b \in BOOLEAN : [Idle EXCEPT !.kind = "guard", !.pc = "count", !.banned = b] \in Request
    BY IdleType DEF Request, Kinds, Issuing
  <2> QED
    BY <1>2, <1>a, <2>1, BeginType DEF GuardIssue, TypeOK
<1>3. CASE Due(r)
  <2>1. (account.linked /\ \E i \in DOMAIN rows : rows[i].held) \in BOOLEAN
    OBVIOUS
  <2>2. \A b \in BOOLEAN : [Idle EXCEPT !.kind = "expire", !.pc = "archive", !.banned = b] \in Request
    BY IdleType DEF Request, Kinds
  <2> QED
    BY <1>3, <2>1, <2>2, BeginType DEF Due, TypeOK
<1>4. ASSUME NEW kind \in Settling, NEW i \in 1..Len(rows), Open(r, kind, i)
      PROVE  TypeOK'
  <2>1. [Idle EXCEPT !.kind = kind, !.pc = "close", !.row = i, !.level = account.level] \in Request
    <3>1. kind \in Kinds /\ i \in Nat
      BY DEF Kinds, TypeOK
    <3> QED
      BY <1>a, <3>1, IdleType DEF Request
  <2> QED
    BY <1>4, <2>1, BeginType DEF Open, TypeOK
<1> QED
  BY <1>1, <1>2, <1>3, <1>4 DEF Start

LEMMA TypesKept ==
  ASSUME TypeOK, \A r \in Requests : Carries(requests[r]), [Next]_vars
  PROVE  TypeOK'
<1>1. ASSUME NEW r \in Requests, Die(r) PROVE TypeOK'
  BY <1>1, IdleType DEF Die, TypeOK
<1>2. CASE Forgive
  <2>1. account' \in Account
    <3>1. account \in Account /\ 0 \in 0..3 /\ account' = [account EXCEPT !.level = 0, !.until = Never]
      BY <1>2 DEF Forgive, TypeOK
    <3> QED
      BY <3>1 DEF Account
  <2> QED
    BY <1>2, <2>1, DisturbType DEF Forgive, TypeOK
<1>3. ASSUME NEW allow \in BOOLEAN, Permit(allow) PROVE TypeOK'
  <2>1. account' \in Account
    BY <1>3 DEF Permit, TypeOK, Account
  <2> QED
    BY <1>3, <2>1, DisturbType DEF Permit, TypeOK
<1>4. CASE Midnight
  BY <1>4 DEF Midnight, TypeOK
<1>5. CASE UNCHANGED vars
  BY <1>5 DEF vars, TypeOK
<1> QED
  BY <1>1, <1>2, <1>3, <1>4, <1>5, StepTypes, StartTypes DEF Next, Closed

(* A request that begins disturbs the others; a later step leaves them. *)
LEMMA StepAlone ==
  ASSUME TypeOK, NEW r \in Requests, Step(r) \/ Die(r), NEW q \in Requests \ {r}
  PROVE  requests'[q] = requests[q]
BY DEF TypeOK, Step, Die, Count, Insert, Impose, Close, List, Renumber, Recount, Amend, Archive, Finish

LEMMA StartCrowds ==
  ASSUME NEW r \in Requests, Start(r), NEW q \in Requests \ {r}
  PROVE  requests'[q] = Crowded(requests[q])
BY DEF Start, Sight, GuardIssue, Due, Open, Begin

-----------------------------------------------------------------------------
(* Nobody's ban, nor hold, comes before a third violation. *)

(* What a request carries stays supported, since no row ever goes away. *)
LEMMA CarriesOn ==
  ASSUME NEW q \in Requests, Carries(requests[q]),
         requests'[q] \in {requests[q], Crowded(requests[q]), Idle},
         Len(rows) \in Nat, Len(rows') \in Nat, Len(rows') >= Len(rows)
  PROVE  Carries(requests[q])'
<1>1. CASE requests'[q] = requests[q]
  BY <1>1 DEF Carries
<1>2. CASE requests'[q] = Idle
  BY <1>2 DEF Carries, Idle
<1>3. CASE requests'[q] = Crowded(requests[q]) /\ requests'[q] # Idle
  <2>1. requests'[q] = [requests[q] EXCEPT !.alone = FALSE]
    BY <1>3 DEF Crowded
  <2>2. /\ requests'[q].pc = requests[q].pc /\ requests'[q].num = requests[q].num
        /\ requests'[q].banned = requests[q].banned /\ requests'[q].plan = requests[q].plan
    BY <2>1
  <2> QED
    BY <2>2 DEF Carries
<1> QED
  BY <1>1, <1>2, <1>3

(* A row is never numbered nor held as a third strike before the third.    *)
LEMMA EarnedStep ==
  ASSUME TypeOK, Earned, NEW r \in Requests, Step(r)
  PROVE  BanNeedsThree' /\ Carries(requests[r])' /\ Len(rows') \in Nat /\ Len(rows') >= Len(rows)
<1> DEFINE req == requests[r]
<1>r. req \in Request /\ rows \in Seq(Row) /\ account \in Account /\ Len(rows) \in Nat
  BY DEF TypeOK
<1>e. BanNeedsThree /\ Carries(req)
  BY DEF Earned
<1>f. ASSUME Finish(r), Len(rows') = Len(rows) PROVE Carries(requests[r])'
  <2>1. requests'[r] = Idle \/ requests'[r] = [Idle EXCEPT !.pc = "done", !.kind = req.kind, !.alone = TRUE]
    BY <1>f DEF Finish, TypeOK
  <2>2. requests'[r].plan = {} /\ requests'[r].pc \in {"idle", "done"}
    <3>1. CASE requests'[r] = Idle
      BY <3>1 DEF Idle
    <3>2. CASE requests'[r] = [Idle EXCEPT !.pc = "done", !.kind = req.kind, !.alone = TRUE]
      <4>1. /\ Idle.plan = {}
            /\ requests'[r].plan = Idle.plan /\ requests'[r].pc = "done"
        BY <3>2 DEF Idle
      <4> QED
        BY <4>1
    <3> QED
      BY <2>1, <3>1, <3>2
  <2> QED
    BY <2>2 DEF Carries
<1>1. CASE Count(r)
  <2>1. requests'[r] = [req EXCEPT !.pc = "insert", !.num = NextOffense]
    BY <1>1 DEF Count, TypeOK
  <2>2. /\ requests'[r].pc = "insert" /\ requests'[r].num = NextOffense
        /\ requests'[r].plan = req.plan
    BY <2>1, <1>r DEF Request
  <2>3. rows' = rows /\ account' = account /\ denied' = denied
    BY <1>1 DEF Count
  <2> QED
    BY <1>r, <1>e, <2>2, <2>3, NextType DEF Carries, BanNeedsThree
<1>2. CASE Insert(r)
  <2>1. requests'[r].pc = "impose" /\ requests'[r].num = req.num /\ requests'[r].plan = req.plan
    BY <1>2, <1>r DEF Insert, TypeOK, Request
  <2>2. req.num = 3 => Len(rows) >= 2
    BY <1>2, <1>e DEF Insert, Carries
  <2>3. Len(rows') = Len(rows) + 1 /\ DOMAIN rows' = 1..(Len(rows) + 1)
    BY <1>2, <1>r DEF Insert
  <2>4. \A i \in 1..Len(rows) : rows'[i] = rows[i]
    BY <1>2, <1>r DEF Insert
  <2>5. rows'[Len(rows) + 1].held => req.num = 3
    <3>1. rows'[Len(rows) + 1] =
            [day |-> day, num |-> req.num, status |-> "warning", held |-> req.num = 3]
      BY <1>2, <1>r DEF Insert
    <3>2. PICK h \in BOOLEAN : h = (req.num = 3)
      OBVIOUS
    <3>3. rows'[Len(rows) + 1] = [day |-> day, num |-> req.num, status |-> "warning", held |-> h]
      BY <3>1, <3>2
    <3>4. rows'[Len(rows) + 1].held = h
      BY <3>3
    <3> QED
      BY <3>2, <3>4
  <2>6. account' = account /\ denied' = denied
    BY <1>2 DEF Insert
  <2>7. \A i \in DOMAIN rows' : rows'[i].held => i >= 3
    <3>1. ASSUME NEW i \in 1..Len(rows), rows'[i].held PROVE i >= 3
      BY <1>r, <1>e, <2>4, <3>1 DEF BanNeedsThree
    <3>2. rows'[Len(rows) + 1].held => Len(rows) + 1 >= 3
      BY <1>r, <2>2, <2>5
    <3>3. \A i \in DOMAIN rows' : i \in 1..Len(rows) \/ i = Len(rows) + 1
      BY <1>r, <2>3
    <3> QED
      BY <3>1, <3>2, <3>3
  <2>8. account.banned => denied \/ Len(rows) >= 3
    BY <1>e DEF BanNeedsThree
  <2>9. Carries(requests[r])'
    BY <1>r, <1>e, <2>1, <2>2, <2>3 DEF Carries
  <2> QED
    BY <1>r, <2>3, <2>6, <2>7, <2>8, <2>9 DEF BanNeedsThree
<1>3. CASE Impose(r)
  <2>1. rows' = rows /\ denied' = denied
    BY <1>3 DEF Impose
  <2>2. account'.banned => account.banned \/ req.num = 3
    BY <1>3, <1>r DEF Impose, Account
  <2>3. req.num = 3 => Len(rows) >= 3
    BY <1>3, <1>e DEF Impose, Carries
  <2>4. Finish(r)
    BY <1>3 DEF Impose
  <2> QED
    BY <1>r, <1>e, <1>f, <2>1, <2>2, <2>3, <2>4 DEF BanNeedsThree
<1>4. CASE Close(r)
  <2>1. Len(rows') = Len(rows) /\ DOMAIN rows' = DOMAIN rows
    BY <1>4, <1>r DEF Close
  <2>2. \A i \in DOMAIN rows : rows'[i].held => rows[i].held
    BY <1>4, <1>r DEF Close
  <2>3. account' = account /\ denied' = denied
    BY <1>4 DEF Close
  <2>4. requests'[r].pc = "list" /\ requests'[r].plan = req.plan
    BY <1>4, <1>r DEF Close, TypeOK, Request
  <2> QED
    BY <1>r, <1>e, <2>1, <2>2, <2>3, <2>4 DEF BanNeedsThree, Carries
<1>5. CASE List(r)
  <2>1. rows' = rows /\ account' = account /\ denied' = denied
    BY <1>5 DEF List
  <2>2. /\ requests'[r].pc = "renumber"
        /\ \A p \in requests'[r].plan : \E i \in Standing : p = <<i, Strike(i), Wrong(i)>>
    BY <1>5, <1>r DEF List, TypeOK, Request
  <2>3. \A p \in requests'[r].plan : p[2] = 3 => p[1] >= 3
    BY <2>2, StrikeCounts
  <2> QED
    BY <1>r, <1>e, <2>1, <2>2, <2>3 DEF BanNeedsThree, Carries
<1>6. CASE Renumber(r)
  <2>1. PICK p \in req.plan :
          /\ rows' = [rows EXCEPT ![p[1]].num = IF "num" \in p[3] THEN p[2] ELSE @,
                                 ![p[1]].held = IF "held" \in p[3] THEN p[2] = 3 ELSE @]
          /\ requests' = [requests EXCEPT ![r].plan = req.plan \ {p}]
    BY <1>6 DEF Renumber
  <2>2. p[2] = 3 => p[1] >= 3
    BY <1>e DEF Carries
  <2>3. DOMAIN rows' = DOMAIN rows
    BY <2>1
  <2>4. Len(rows') = Len(rows)
    BY <2>1, <1>r
  <2>5. ASSUME NEW i \in DOMAIN rows, rows'[i].held, ~rows[i].held PROVE p[1] = i /\ p[2] = 3
    <3>1. CASE p[1] # i
      <4>1. rows'[i] = rows[i]
        BY <2>1, <3>1
      <4> QED
        BY <2>5, <4>1
    <3>2. CASE p[1] = i
      <4> DEFINE n == IF "num" \in p[3] THEN p[2] ELSE rows[i].num
                 numbered == [rows EXCEPT ![i].num = n]
                 h == IF "held" \in p[3] THEN p[2] = 3 ELSE numbered[i].held
      <4>1. numbered[i] = [rows[i] EXCEPT !.num = n] /\ DOMAIN numbered = DOMAIN rows
        OBVIOUS
      <4>3. rows' = [numbered EXCEPT ![i].held = h]
        BY <2>1, <3>2
      <4>0. rows[i] \in Row
        BY <1>r
      <4> HIDE DEF n, numbered
      <4>2. numbered[i].held = rows[i].held
        BY <4>0, <4>1 DEF Row
      <4>4. rows'[i] = [numbered[i] EXCEPT !.held = h]
        BY <4>1, <4>3
      <4>5. rows'[i].held = h
        BY <4>0, <4>1, <4>4 DEF Row
      <4>6. ~numbered[i].held
        BY <4>2, <2>5
      <4>7. p[2] = 3
        BY <4>5, <4>6, <2>5
      <4> QED
        BY <3>2, <4>7
    <3> QED
      BY <3>1, <3>2
  <2>6. account' = account /\ denied' = denied
    BY <1>6 DEF Renumber
  <2>7. requests'[r].pc = "renumber" /\ requests'[r].plan = req.plan \ {p}
    BY <1>6, <2>1, <1>r DEF Renumber, TypeOK, Request
  <2>8. \A i \in DOMAIN rows : rows'[i].held => i >= 3
    BY <2>5, <2>2, <1>e DEF BanNeedsThree
  <2>9. \A q \in requests'[r].plan : q[2] = 3 => q[1] >= 3
    BY <2>7, <1>e DEF Carries
  <2> QED
    BY <1>r, <1>e, <2>3, <2>4, <2>6, <2>7, <2>8, <2>9 DEF BanNeedsThree, Carries
<1>7. CASE Recount(r)
  <2>1. rows' = rows /\ account' = account /\ denied' = denied
    BY <1>7 DEF Recount
  <2>2. CASE Rung(Cardinality(Standing)) = req.level
    <3>1. Finish(r)
      BY <1>7, <2>2 DEF Recount
    <3> QED
      BY <1>r, <1>e, <1>f, <2>1, <3>1 DEF BanNeedsThree
  <2>3. CASE Rung(Cardinality(Standing)) # req.level
    <3>0. requests' = [requests EXCEPT ![r].pc = "amend", ![r].num = Rung(Cardinality(Standing))]
      BY <1>7, <2>3 DEF Recount
    <3>1. requests'[r].pc = "amend" /\ requests'[r].plan = req.plan
      BY <3>0, <1>r DEF TypeOK, Request
    <3> QED
      BY <1>r, <1>e, <2>1, <3>1 DEF BanNeedsThree, Carries
  <2> QED
    BY <2>2, <2>3
<1>8. CASE Amend(r)
  <2>1. rows' = rows /\ denied' = denied /\ account'.banned = account.banned /\ Finish(r)
    BY <1>8, <1>r DEF Amend, Account
  <2> QED
    BY <1>r, <1>e, <1>f, <2>1 DEF BanNeedsThree
<1>9. CASE Archive(r)
  <2>1. account'.banned = req.banned /\ Finish(r)
    BY <1>9, <1>r DEF Archive, Account
  <2>2. req.banned => Len(rows) >= 3
    BY <1>9, <1>e DEF Archive, Carries
  <2>3. CASE req.banned
    <3>1. rows' = rows
      BY <1>9, <2>3 DEF Archive
    <3> QED
      BY <1>r, <1>e, <1>f, <2>1, <2>2, <3>1 DEF BanNeedsThree
  <2>4. CASE ~req.banned
    <3>1. rows' = [i \in DOMAIN rows |->
                     IF i \in Standing THEN [rows[i] EXCEPT !.status = "archived"] ELSE rows[i]]
      BY <1>9, <2>4 DEF Archive
    <3>2. DOMAIN rows' = DOMAIN rows /\ Len(rows') = Len(rows)
      BY <3>1, <1>r
    <3>3. ASSUME NEW i \in DOMAIN rows PROVE rows'[i].held = rows[i].held
      <4>1. rows'[i] \in {rows[i], [rows[i] EXCEPT !.status = "archived"]} /\ rows[i] \in Row
        BY <3>1, <1>r
      <4> QED
        BY <4>1 DEF Row
    <3> QED
      BY <1>r, <1>e, <1>f, <2>1, <2>4, <3>2, <3>3 DEF BanNeedsThree
  <2> QED
    BY <2>3, <2>4
<1> QED
  BY <1>1, <1>2, <1>3, <1>4, <1>5, <1>6, <1>7, <1>8, <1>9 DEF Step

LEMMA EarnedStart ==
  ASSUME TypeOK, Earned, NEW r \in Requests, Start(r)
  PROVE  Carries(requests[r])'
<1>1. rows' = rows
  BY DEF Start, Sight, GuardIssue, Due, Open
<1>2. ASSUME NEW req, Begin(r, req), req.plan = {}, req.pc \in {"count", "close", "archive"},
             req.pc = "archive" /\ req.banned => Len(rows) >= 3
      PROVE  Carries(requests[r])'
  <2>1. requests'[r] = [req EXCEPT !.alone = \A p \in Requests \ {r} : ~Busy(p)]
    BY <1>2 DEF Begin
  <2>2. requests'[r].plan = req.plan /\ requests'[r].pc = req.pc /\ requests'[r].banned = req.banned
    BY <2>1
  <2> QED
    BY <1>1, <1>2, <2>2 DEF Carries
<1>3. ASSUME NEW kind, Begin(r, [Idle EXCEPT !.kind = kind, !.pc = "count", !.banned = account.banned])
      PROVE  Carries(requests[r])'
  <2> DEFINE req == [Idle EXCEPT !.kind = kind, !.pc = "count", !.banned = account.banned]
  <2>1. req.plan = {} /\ req.pc = "count"
    BY DEF Idle
  <2> HIDE DEF req
  <2> QED
    BY <1>2, <1>3, <2>1 DEF req
<1>4. ASSUME NEW kind \in Settling, NEW i \in 1..Len(rows), Open(r, kind, i)
      PROVE  Carries(requests[r])'
  <2> DEFINE req == [Idle EXCEPT !.kind = kind, !.pc = "close", !.row = i, !.level = account.level]
  <2>1. req.plan = {} /\ req.pc = "close"
    BY DEF Idle
  <2>2. Begin(r, req)
    BY <1>4 DEF Open
  <2> HIDE DEF req
  <2> QED
    BY <1>2, <2>1, <2>2
<1>5. CASE Due(r)
  <2> DEFINE held == account.linked /\ \E i \in DOMAIN rows : rows[i].held
             req == [Idle EXCEPT !.kind = "expire", !.pc = "archive", !.banned = held]
  <2>1. req.plan = {} /\ req.pc = "archive" /\ req.banned = held
    BY DEF Idle
  <2>2. Begin(r, req)
    BY <1>5 DEF Due
  <2>3. held => Len(rows) >= 3
    BY DEF Earned, BanNeedsThree, TypeOK
  <2> HIDE DEF req, held
  <2> QED
    BY <1>2, <2>1, <2>2, <2>3
<1> QED
  BY <1>3, <1>4, <1>5 DEF Start, Sight, GuardIssue

LEMMA EarnedKept ==
  ASSUME TypeOK, Earned, [Next]_vars
  PROVE  Earned'
<1>l. Len(rows) \in Nat
  BY DEF TypeOK
<1>1. ASSUME NEW r \in Requests, Step(r) PROVE Earned'
  <2>1. \A q \in Requests \ {r} : requests'[q] = requests[q]
    BY <1>1, StepAlone
  <2> QED
    BY <1>1, <1>l, <2>1, EarnedStep, CarriesOn DEF Earned
<1>2. ASSUME NEW r \in Requests, Start(r) PROVE Earned'
  <2>1. rows' = rows /\ account' = account /\ denied' = denied
    BY <1>2 DEF Start, Sight, GuardIssue, Due, Open
  <2>2. \A q \in Requests \ {r} : requests'[q] = Crowded(requests[q])
    BY <1>2, StartCrowds
  <2>3. BanNeedsThree'
    BY <2>1 DEF Earned, BanNeedsThree
  <2> QED
    BY <1>2, <1>l, <2>1, <2>2, <2>3, EarnedStart, CarriesOn DEF Earned
<1>3. ASSUME NEW r \in Requests, Die(r) PROVE Earned'
  <2>1. rows' = rows /\ account' = account /\ denied' = denied
    BY <1>3 DEF Die
  <2>2. \A q \in Requests : requests'[q] \in {requests[q], Idle}
    BY <1>3 DEF Die, TypeOK
  <2>3. BanNeedsThree'
    BY <2>1 DEF Earned, BanNeedsThree
  <2> QED
    BY <1>l, <2>1, <2>2, <2>3, CarriesOn DEF Earned
<1>4. ASSUME NEW allow \in BOOLEAN, Forgive \/ Permit(allow) PROVE Earned'
  <2>1. rows' = rows /\ (account'.banned => denied' \/ (account.banned /\ denied' = denied))
    <3>1. CASE Forgive
      <4>1. account' = [account EXCEPT !.level = 0, !.until = Never] /\ account \in Account
        BY <3>1 DEF Forgive, TypeOK
      <4>2. account'.banned = account.banned
        BY <4>1 DEF Account
      <4> QED
        BY <3>1, <4>2 DEF Forgive
    <3>2. CASE Permit(allow)
      <4>1. account' = [account EXCEPT !.banned = ~allow] /\ account \in Account
        BY <3>2 DEF Permit, TypeOK
      <4>2. PICK no \in BOOLEAN : no = ~allow
        OBVIOUS
      <4>3. account' = [account EXCEPT !.banned = no] /\ denied' = no /\ rows' = rows
        BY <3>2, <4>1, <4>2 DEF Permit
      <4>4. account'.banned = no
        BY <4>1, <4>3 DEF Account
      <4> QED
        BY <4>3, <4>4
    <3> QED
      BY <1>4, <3>1, <3>2
  <2>2. \A q \in Requests : requests'[q] = Crowded(requests[q])
    BY <1>4 DEF Forgive, Permit, Disturb
  <2>3. BanNeedsThree'
    BY <2>1 DEF Earned, BanNeedsThree
  <2> QED
    BY <1>l, <2>1, <2>2, <2>3, CarriesOn DEF Earned
<1>5. CASE Midnight \/ UNCHANGED vars
  <2>1. rows' = rows /\ account' = account /\ denied' = denied /\ requests' = requests
    BY <1>5 DEF Midnight, vars
  <2>2. BanNeedsThree'
    BY <2>1 DEF Earned, BanNeedsThree
  <2> QED
    BY <1>l, <2>1, <2>2, CarriesOn DEF Earned
<1> QED
  BY <1>1, <1>2, <1>3, <1>4, <1>5 DEF Next, Closed

LEMMA Begins == Init => TypeOK /\ Earned
<1> SUFFICES ASSUME Init PROVE TypeOK /\ Earned
  OBVIOUS
<1>1. TypeOK
  <2>1. account \in Account
    BY DEF Init, Account
  <2>2. rows \in Seq(Row)
    BY DEF Init
  <2> QED
    BY <2>1, <2>2, IdleType DEF Init, TypeOK
<1>2. Earned
  BY DEF Init, Earned, BanNeedsThree, Carries, Idle
<1> QED
  BY <1>1, <1>2

(* Every column and every request in flight has its type. *)
THEOREM LadderTypes == Spec => []TypeOK
<1>1. TypeOK /\ Earned /\ [Next]_vars => TypeOK' /\ Earned'
  BY TypesKept, EarnedKept DEF Earned
<1> QED
  BY <1>1, Begins, PTL DEF Spec

(* Whatever overlaps or dies, nobody is banned, and no registration held,  *)
(* for fewer than three violations, unless an officer said so.             *)
THEOREM BansEarned == Spec => []BanNeedsThree
<1>1. TypeOK /\ Earned /\ [Next]_vars => TypeOK' /\ Earned'
  BY TypesKept, EarnedKept DEF Earned
<1>2. Earned => BanNeedsThree
  BY DEF Earned
<1> QED
  BY <1>1, <1>2, Begins, PTL DEF Spec

-----------------------------------------------------------------------------
(* The record and the penalty heal. *)

Heals == Healing /\ LadderSettled

(* What a request that was left alone has settled when it is done.         *)
Settled(req) ==
  req.pc = "done" =>
    /\ req.kind \in Issuing \cup Settling => account.level = Rung(Cardinality(Standing))
    /\ req.kind \in Issuing => rows[Len(rows)].num = Strike(Len(rows))
    /\ req.kind \in Settling => \A i \in Standing : Right(i)

LEMMA HealsIsPerRequest ==
  Heals <=> \A r \in Requests :
              requests[r].alone /\ requests[r].pc # "idle" =>
                /\ \A q \in Requests \ {r} : ~Busy(q)
                /\ Knows(requests[r])
                /\ Settled(requests[r])
BY DEF Heals, Healing, LadderSettled, Settled, Right

(* Renumbering neither adds nor removes what stands. *)
LEMMA SameStanding ==
  ASSUME DOMAIN rows' = DOMAIN rows, \A i \in DOMAIN rows : rows'[i].status = rows[i].status
  PROVE  Standing' = Standing /\ \A i : Strike(i)' = Strike(i)
BY DEF Standing, Strike

(* Issuing one. *)
LEMMA OneMoreStands ==
  ASSUME TypeOK, NEW new \in Row, new.status = "warning", rows' = Append(rows, new)
  PROVE  /\ Len(rows') = Len(rows) + 1
         /\ Rung(Cardinality(Standing))' = NextOffense
         /\ Strike(Len(rows))' = NextOffense
<1> DEFINE n == Len(rows) + 1
<1>1. Len(rows) \in Nat /\ DOMAIN rows = 1..Len(rows)
  BY DEF TypeOK
<1>2. /\ Len(rows') = n /\ DOMAIN rows' = 1..n /\ rows'[n] = new
      /\ \A i \in 1..Len(rows) : rows'[i] = rows[i]
  BY DEF TypeOK
<1>3. Standing' = Standing \cup {n}
  BY <1>1, <1>2 DEF Standing
<1>4. n \notin Standing
  BY <1>1 DEF Standing
<1>5. IsFiniteSet(Standing) /\ Cardinality(Standing) \in Nat
  BY StandingCounts
<1>6. Cardinality(Standing') = Cardinality(Standing) + 1
  BY <1>3, <1>4, <1>5, FS_AddElement
<1>7. {j \in Standing' : j <= n} = Standing'
  BY <1>1, <1>3 DEF Standing
<1>8. Strike(Len(rows))' = Rung(Cardinality(Standing'))
  BY <1>2, <1>7 DEF Strike, Rung
<1> QED
  BY <1>2, <1>6, <1>8 DEF NextOffense, Rung

(* What the renumbering finds wrong, column by column. *)
LEMMA WrongColumns ==
  ASSUME TypeOK, NEW i \in Standing
  PROVE  /\ "num" \notin Wrong(i) => rows[i].num = Strike(i)
         /\ "held" \notin Wrong(i) => (rows[i].held <=> Strike(i) = 3)
<1>0. rows[i] \in Row
  BY DEF TypeOK, Standing
<1>1. rows[i].held \in BOOLEAN
  BY <1>0 DEF Row
<1>2. PICK third \in BOOLEAN : third = (Strike(i) = 3)
  OBVIOUS
<1>3. "num" \notin Wrong(i) => rows[i].num = Strike(i)
  BY DEF Wrong, Columns
<1>4. "held" \notin Wrong(i) => rows[i].held = third
  BY <1>2 DEF Wrong, Columns
<1> QED
  BY <1>1, <1>2, <1>3, <1>4

(* A request that nothing touched knows what it needs at its next step.    *)
LEMMA KnowsOn ==
  ASSUME TypeOK, Earned, NEW r \in Requests, Step(r), requests[r].alone,
         Knows(requests[r]), Settled(requests[r])
  PROVE  Knows(requests[r])' /\ Settled(requests[r])'
<1> DEFINE req == requests[r]
           next == requests'[r]
<1>r. req \in Request /\ rows \in Seq(Row) /\ account \in Account /\ Len(rows) \in Nat
  BY DEF TypeOK
<1>f. ASSUME Finish(r) PROVE next.pc = "done" /\ next.kind = req.kind
  BY <1>f, <1>r DEF Finish, TypeOK, Idle
<1>d. Issuing \cap Settling = {} /\ "expire" \notin Issuing \cup Settling
  BY DEF Issuing, Settling
<1>1. CASE Count(r)
  <2>1. next.pc = "insert" /\ next.num = NextOffense /\ next.kind = req.kind
    BY <1>1, <1>r DEF Count, TypeOK, Request
  <2>2. req.kind \in Issuing
    BY <1>1 DEF Count, Knows
  <2>3. NextOffense' = NextOffense
    BY <1>1 DEF Count, NextOffense, Standing
  <2> QED
    BY <2>1, <2>2, <2>3 DEF Knows, Settled
<1>2. CASE Insert(r)
  <2>1. next.pc = "impose" /\ next.num = req.num /\ next.kind = req.kind
    BY <1>2, <1>r DEF Insert, TypeOK, Request
  <2>2. req.kind \in Issuing /\ req.num = NextOffense /\ req.num \in 1..3
    BY <1>2, NextType DEF Insert, Knows
  <2>3. PICK held \in BOOLEAN : held = (req.num = 3)
    OBVIOUS
  <2> DEFINE new == [day |-> day, num |-> req.num, status |-> "warning", held |-> held]
  <2>4. new \in Row /\ new.status = "warning" /\ new.num = req.num
    BY <2>2 DEF Row, Statuses, TypeOK
  <2>5. rows' = Append(rows, new)
    BY <1>2, <2>3 DEF Insert
  <2> HIDE DEF new
  <2>6. rows'[Len(rows')] = new
    BY <1>r, <2>4, <2>5
  <2>7. /\ Len(rows') > 0
        /\ next.num = Rung(Cardinality(Standing))'
        /\ rows'[Len(rows')].num = Strike(Len(rows))'
    BY <1>r, <2>1, <2>2, <2>4, <2>5, <2>6, OneMoreStands
  <2> QED
    BY <2>1, <2>2, <2>7 DEF Knows, Settled
<1>3. CASE Impose(r)
  <2>1. /\ req.kind \in Issuing /\ req.num = Rung(Cardinality(Standing))
        /\ rows[Len(rows)].num = Strike(Len(rows))
    BY <1>3 DEF Impose, Knows
  <2>2. rows' = rows /\ account'.level = req.num /\ Finish(r)
    BY <1>3, <1>r DEF Impose, Account
  <2>3. Standing' = Standing /\ Strike(Len(rows))' = Strike(Len(rows))
    BY <2>2 DEF Standing, Strike
  <2> QED
    BY <1>f, <1>d, <2>1, <2>2, <2>3 DEF Knows, Settled, Rung
<1>4. CASE Close(r)
  <2>1. next.pc = "list" /\ next.level = req.level /\ next.kind = req.kind
    BY <1>4, <1>r DEF Close, TypeOK, Request
  <2>2. req.level = account.level /\ req.kind \in Settling /\ account' = account
    BY <1>4 DEF Close, Knows
  <2> QED
    BY <2>1, <2>2 DEF Knows, Settled
<1>5. CASE List(r)
  <2> DEFINE plan == {<<i, Strike(i), Wrong(i)>> : i \in {j \in Standing : Wrong(j) # {}}}
  <2>1. next.pc = "renumber" /\ next.plan = plan /\ next.level = req.level /\ next.kind = req.kind
    BY <1>5, <1>r DEF List, TypeOK, Request
  <2>2. req.level = account.level /\ req.kind \in Settling /\ account' = account /\ rows' = rows
    BY <1>5 DEF List, Knows
  <2>3. Standing' = Standing /\ \A i : Strike(i)' = Strike(i) /\ Wrong(i)' = Wrong(i) /\ Right(i)' = Right(i)
    BY <2>2 DEF Standing, Strike, Wrong, Right
  <2>4. \A i \in Standing : Wrong(i) = {} => Right(i)
    BY WrongColumns DEF Right
  <2>5. \A p \in plan : p[1] \in Standing /\ p[2] = Strike(p[1]) /\ p[3] = Wrong(p[1])
    OBVIOUS
  <2>6. \A i \in Standing : Right(i) \/ \E p \in plan : p[1] = i
    <3>1. ASSUME NEW i \in Standing, Wrong(i) # {} PROVE \E p \in plan : p[1] = i
      <4>1. <<i, Strike(i), Wrong(i)>> \in plan
        BY <3>1
      <4> QED
        BY <4>1
    <3> QED
      BY <2>4, <3>1
  <2> HIDE DEF plan
  <2> QED
    BY <2>1, <2>2, <2>3, <2>5, <2>6 DEF Knows, Settled
<1>6. CASE Renumber(r)
  <2>1. PICK p \in req.plan :
          /\ rows' = [rows EXCEPT ![p[1]].num = IF "num" \in p[3] THEN p[2] ELSE @,
                                 ![p[1]].held = IF "held" \in p[3] THEN p[2] = 3 ELSE @]
          /\ requests' = [requests EXCEPT ![r].plan = req.plan \ {p}]
    BY <1>6 DEF Renumber
  <2>2. /\ req.kind \in Settling /\ req.level = account.level /\ account' = account
        /\ \A q \in req.plan : q[1] \in Standing /\ q[2] = Strike(q[1]) /\ q[3] = Wrong(q[1])
        /\ \A i \in Standing : Right(i) \/ \E q \in req.plan : q[1] = i
    BY <1>6 DEF Renumber, Knows
  <2>3. /\ next.pc = "renumber" /\ next.plan = req.plan \ {p} /\ next.level = req.level
        /\ next.kind = req.kind
    BY <1>6, <2>1, <1>r DEF Renumber, TypeOK, Request
  <2>4. p[1] \in DOMAIN rows
    BY <2>2 DEF Standing
  <2> DEFINE numbered == [rows EXCEPT ![p[1]].num = IF "num" \in p[3] THEN p[2] ELSE @]
  <2>5. /\ numbered[p[1]] = [rows[p[1]] EXCEPT !.num = IF "num" \in p[3] THEN p[2] ELSE @]
        /\ DOMAIN numbered = DOMAIN rows /\ \A i \in DOMAIN rows : i # p[1] => numbered[i] = rows[i]
    BY <2>4
  <2>6. rows' = [numbered EXCEPT ![p[1]].held = IF "held" \in p[3] THEN p[2] = 3 ELSE @]
    BY <2>1
  <2> HIDE DEF numbered
  <2>7. /\ rows'[p[1]] = [numbered[p[1]] EXCEPT !.held = IF "held" \in p[3] THEN p[2] = 3 ELSE @]
        /\ DOMAIN rows' = DOMAIN rows /\ \A i \in DOMAIN rows : i # p[1] => rows'[i] = rows[i]
    BY <2>4, <2>5, <2>6
  <2>8. rows[p[1]] \in Row
    BY <1>r, <2>4
  <2>9. /\ rows'[p[1]].status = rows[p[1]].status
        /\ rows'[p[1]].num = IF "num" \in p[3] THEN p[2] ELSE rows[p[1]].num
        /\ rows'[p[1]].held = IF "held" \in p[3] THEN p[2] = 3 ELSE rows[p[1]].held
    BY <2>5, <2>7, <2>8 DEF Row
  <2>10. Standing' = Standing /\ \A i : Strike(i)' = Strike(i)
    BY <2>7, <2>9, SameStanding
  <2>11. Right(p[1])'
    <3>1. p[1] \in Standing /\ p[2] = Strike(p[1]) /\ p[3] = Wrong(p[1])
      BY <2>2
    <3>2. rows'[p[1]].num = Strike(p[1])
      BY <2>9, <3>1, WrongColumns
    <3>3. rows'[p[1]].held <=> Strike(p[1]) = 3
      <4>1. CASE "held" \in p[3]
        <5>1. PICK third \in BOOLEAN : third = (p[2] = 3)
          OBVIOUS
        <5>2. rows'[p[1]].held = third
          BY <2>9, <4>1, <5>1
        <5> QED
          BY <3>1, <5>1, <5>2
      <4>2. CASE "held" \notin p[3]
        <5>1. rows'[p[1]].held = rows[p[1]].held
          BY <2>9, <4>2
        <5> QED
          BY <3>1, <4>2, <5>1, WrongColumns
      <4> QED
        BY <4>1, <4>2
    <3> QED
      BY <2>10, <3>2, <3>3 DEF Right
  <2>12. ASSUME NEW i \in Standing, i # p[1] PROVE Right(i)' = Right(i) /\ Wrong(i)' = Wrong(i)
    <3>1. rows'[i] = rows[i]
      BY <2>7, <2>12 DEF Standing
    <3> QED
      BY <3>1, <2>10 DEF Right, Wrong
  <2>13. ASSUME NEW q \in next.plan PROVE q[1] \in Standing' /\ q[2] = Strike(q[1])' /\ q[3] = Wrong(q[1])'
    <3>1. q \in req.plan /\ q # p
      BY <2>3
    <3>2. q = <<q[1], q[2], q[3]>> /\ p = <<p[1], p[2], p[3]>>
      BY <1>r, <3>1 DEF Request
    <3>3. q[1] # p[1]
      BY <2>2, <3>1, <3>2
    <3> QED
      BY <2>2, <2>10, <2>12, <3>1, <3>3
  <2>14. \A i \in Standing' : Right(i)' \/ \E q \in next.plan : q[1] = i
    BY <2>2, <2>3, <2>10, <2>11, <2>12
  <2> QED
    BY <2>2, <2>3, <2>13, <2>14 DEF Knows, Settled
<1>7. CASE Recount(r)
  <2>1. /\ req.kind \in Settling /\ req.level = account.level
        /\ \A i \in Standing : Right(i)
    BY <1>7 DEF Recount, Knows
  <2>2. rows' = rows /\ account' = account
    BY <1>7 DEF Recount
  <2>3. Standing' = Standing /\ \A i : Right(i)' = Right(i)
    BY <2>2 DEF Standing, Strike, Right
  <2>4. Rung(Cardinality(Standing))' = Rung(Cardinality(Standing))
    BY <2>3 DEF Rung
  <2>5. CASE Rung(Cardinality(Standing)) = req.level
    <3>1. Finish(r)
      BY <1>7, <2>5 DEF Recount
    <3> QED
      BY <1>f, <1>d, <2>1, <2>2, <2>3, <2>4, <2>5, <3>1 DEF Knows, Settled
  <2>6. CASE Rung(Cardinality(Standing)) # req.level
    <3>1. requests' = [requests EXCEPT ![r].pc = "amend", ![r].num = Rung(Cardinality(Standing))]
      BY <1>7, <2>6 DEF Recount
    <3>2. next.pc = "amend" /\ next.num = Rung(Cardinality(Standing)) /\ next.kind = req.kind
      BY <3>1, <1>r DEF TypeOK, Request
    <3> QED
      BY <2>1, <2>3, <2>4, <3>2 DEF Knows, Settled
  <2> QED
    BY <2>5, <2>6
<1>8. CASE Amend(r)
  <2>1. /\ req.kind \in Settling /\ req.num = Rung(Cardinality(Standing))
        /\ \A i \in Standing : Right(i)
    BY <1>8 DEF Amend, Knows
  <2>2. rows' = rows /\ account'.level = req.num /\ Finish(r)
    BY <1>8, <1>r DEF Amend, Account
  <2>3. Standing' = Standing /\ \A i : Right(i)' = Right(i)
    BY <2>2 DEF Standing, Strike, Right
  <2>4. Rung(Cardinality(Standing))' = Rung(Cardinality(Standing))
    BY <2>3 DEF Rung
  <2> QED
    BY <1>f, <1>d, <2>1, <2>2, <2>3, <2>4 DEF Knows, Settled
<1>9. CASE Archive(r)
  <2>1. req.kind = "expire" /\ Finish(r)
    BY <1>9 DEF Archive, Knows
  <2> QED
    BY <1>f, <1>d, <2>1 DEF Knows, Settled
<1> QED
  BY <1>1, <1>2, <1>3, <1>4, <1>5, <1>6, <1>7, <1>8, <1>9 DEF Step

LEMMA HealsKept ==
  ASSUME TypeOK, Earned, Heals, [Next]_vars
  PROVE  Heals'
<1>h. \A r \in Requests :
        requests[r].alone /\ requests[r].pc # "idle" =>
          /\ \A q \in Requests \ {r} : ~Busy(q)
          /\ Knows(requests[r])
          /\ Settled(requests[r])
  BY HealsIsPerRequest
<1>g. ASSUME \A r \in Requests :
               requests'[r].alone /\ requests'[r].pc # "idle" =>
                 /\ \A q \in Requests \ {r} : ~Busy(q)'
                 /\ Knows(requests[r])'
                 /\ Settled(requests[r])'
      PROVE  Heals'
  BY <1>g DEF Heals, Healing, LadderSettled, Settled, Right
<1>i. Idle.pc = "idle" /\ ~Idle.alone
  BY DEF Idle
<1>c. ASSUME NEW q \in Requests, requests'[q] = Crowded(requests[q])
      PROVE  ~requests'[q].alone /\ (~Busy(q) => ~Busy(q)')
  <2>1. CASE requests[q].pc = "done"
    BY <1>c, <1>i, <2>1 DEF Crowded, Busy
  <2>2. CASE requests[q].pc # "done"
    <3>1. requests'[q] = [requests[q] EXCEPT !.alone = FALSE] /\ requests[q] \in Request
      BY <1>c, <2>2 DEF Crowded, TypeOK
    <3>2. requests'[q].pc = requests[q].pc /\ ~requests'[q].alone
      BY <3>1 DEF Request
    <3> QED
      BY <3>2 DEF Busy
  <2> QED
    BY <2>1, <2>2
<1>1. ASSUME NEW r \in Requests, Step(r) PROVE Heals'
  <2>1. Busy(r)
    BY <1>1 DEF Step, Busy, Count, Insert, Impose, Close, List, Renumber, Recount, Amend, Archive
  <2>2. \A q \in Requests \ {r} : requests'[q] = requests[q]
    BY <1>1, StepAlone
  <2>3. \A q \in Requests \ {r} : ~(requests'[q].alone /\ requests'[q].pc # "idle")
    BY <1>h, <2>1, <2>2
  <2>4. CASE ~requests[r].alone
    <3>1. ~requests'[r].alone
      <4>1. requests[r] \in Request
        BY DEF TypeOK
      <4>2. CASE Finish(r)
        BY <1>i, <2>4, <4>2 DEF Finish, TypeOK
      <4>3. CASE Count(r) \/ Insert(r) \/ Close(r) \/ List(r)
        <5>1. requests'[r].alone = requests[r].alone
          BY <4>1, <4>3 DEF TypeOK, Request, Count, Insert, Close, List
        <5> QED
          BY <2>4, <5>1
      <4>4. CASE Renumber(r)
        <5>1. PICK plan : requests' = [requests EXCEPT ![r].plan = plan]
          BY <4>4 DEF Renumber
        <5>2. requests'[r].alone = requests[r].alone
          BY <4>1, <5>1 DEF TypeOK, Request
        <5> QED
          BY <2>4, <5>2
      <4>6. CASE ~Finish(r) /\ Recount(r)
        <5>1. PICK num : requests' = [requests EXCEPT ![r].pc = "amend", ![r].num = num]
          BY <4>6 DEF Recount
        <5>2. requests'[r].alone = requests[r].alone
          BY <4>1, <5>1 DEF TypeOK, Request
        <5> QED
          BY <2>4, <5>2
      <4>5. Impose(r) \/ Amend(r) \/ Archive(r) => Finish(r)
        BY DEF Impose, Amend, Archive
      <4> QED
        BY <1>1, <4>2, <4>3, <4>4, <4>5, <4>6 DEF Step
    <3> QED
      BY <1>g, <2>3, <3>1
  <2>5. CASE requests[r].alone
    <3>1. requests[r].pc # "idle"
      BY <2>1 DEF Busy
    <3>2. \A q \in Requests \ {r} : ~Busy(q)'
      BY <1>h, <2>2, <2>5, <3>1 DEF Busy
    <3>3. Knows(requests[r])' /\ Settled(requests[r])'
      BY <1>1, <1>h, <2>5, <3>1, KnowsOn
    <3> QED
      BY <1>g, <2>3, <3>2, <3>3
  <2> QED
    BY <2>4, <2>5
<1>2. ASSUME NEW r \in Requests, Start(r) PROVE Heals'
  <2>1. \A q \in Requests \ {r} : requests'[q] = Crowded(requests[q])
    BY <1>2, StartCrowds
  <2>2. \A q \in Requests \ {r} : ~requests'[q].alone /\ (~Busy(q) => ~Busy(q)')
    BY <1>c, <2>1
  <2>3. ASSUME requests'[r].alone PROVE \A q \in Requests \ {r} : ~Busy(q)'
    <3>1. \A p \in Requests \ {r} : ~Busy(p)
      BY <1>2, <2>3 DEF Start, Sight, GuardIssue, Due, Open, Begin, Idle
    <3> QED
      BY <2>2, <3>1
  <2>4. Knows(requests[r])' /\ Settled(requests[r])'
    <3>1. CASE Sight(r) \/ GuardIssue(r)
      <4>1. requests'[r].pc = "count" /\ requests'[r].kind \in Issuing
        <5>1. PICK kind \in Issuing :
                Begin(r, [Idle EXCEPT !.kind = kind, !.pc = "count", !.banned = account.banned])
          BY <3>1 DEF Sight, GuardIssue, Issuing
        <5> QED
          BY <5>1 DEF Begin, Idle
      <4> QED
        BY <4>1 DEF Knows, Settled
    <3>2. CASE Due(r)
      <4>1. requests'[r].pc = "archive" /\ requests'[r].kind = "expire"
        BY <3>2 DEF Due, Begin, Idle
      <4> QED
        BY <4>1 DEF Knows, Settled
    <3>3. ASSUME NEW kind \in Settling, NEW i \in 1..Len(rows), Open(r, kind, i)
          PROVE  Knows(requests[r])' /\ Settled(requests[r])'
      <4>1. /\ requests'[r].pc = "close" /\ requests'[r].kind = kind
            /\ requests'[r].level = account.level /\ account' = account
        BY <3>3 DEF Open, Begin, Idle
      <4> QED
        BY <4>1 DEF Knows, Settled
    <3> QED
      BY <1>2, <3>1, <3>2, <3>3 DEF Start
  <2> QED
    BY <1>g, <2>2, <2>3, <2>4
<1>3. ASSUME NEW r \in Requests, Die(r) PROVE Heals'
  <2>1. \A q \in Requests \ {r} : requests'[q] = requests[q]
    BY <1>3, StepAlone
  <2>2. Busy(r) /\ requests'[r] = Idle
    BY <1>3 DEF Die, TypeOK
  <2> QED
    BY <1>g, <1>h, <1>i, <2>1, <2>2
<1>4. ASSUME NEW allow \in BOOLEAN, Forgive \/ Permit(allow) PROVE Heals'
  <2>1. \A q \in Requests : requests'[q] = Crowded(requests[q])
    BY <1>4 DEF Forgive, Permit, Disturb
  <2> QED
    BY <1>g, <1>c, <2>1
<1>5. CASE Midnight \/ UNCHANGED vars
  <2>1. rows' = rows /\ account' = account /\ requests' = requests
    BY <1>5 DEF Midnight, vars
  <2>2. Standing' = Standing /\ \A i : Strike(i)' = Strike(i) /\ Wrong(i)' = Wrong(i) /\ Right(i)' = Right(i)
    BY <2>1 DEF Standing, Strike, Wrong, Right
  <2>3. NextOffense' = NextOffense /\ Rung(Cardinality(Standing))' = Rung(Cardinality(Standing))
    BY <2>2 DEF NextOffense, Rung
  <2>4. ASSUME NEW r \in Requests, Knows(requests[r]), Settled(requests[r])
        PROVE  Knows(requests[r])' /\ Settled(requests[r])'
    BY <2>1, <2>2, <2>3, <2>4 DEF Knows, Settled
  <2> QED
    BY <1>g, <1>h, <2>1, <2>4 DEF Busy
<1> QED
  BY <1>1, <1>2, <1>3, <1>4, <1>5 DEF Next, Closed

(* A request with the account to itself leaves the penalty the record      *)
(* supports, whatever the requests before it left.                         *)
THEOREM LadderHeals == Spec => []LadderSettled
<1>1. Init => Heals
  BY DEF Init, Heals, Healing, LadderSettled, Idle
<1>2. TypeOK /\ Earned /\ Heals /\ [Next]_vars => TypeOK' /\ Earned' /\ Heals'
  BY TypesKept, EarnedKept, HealsKept DEF Earned
<1>3. Heals => LadderSettled
  BY DEF Heals
<1> QED
  BY <1>1, <1>2, <1>3, Begins, PTL DEF Spec

=============================================================================
