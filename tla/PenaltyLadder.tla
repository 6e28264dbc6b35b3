---------------------------- MODULE PenaltyLadder ----------------------------
(***************************************************************************)
(* The penalty ladder of one owner's account.  Gates and guards issue      *)
(* violations, officers clear or lift them, forgive the penalty, allow or  *)
(* forbid registering again, and the daily job archives the account when   *)
(* it expires.  The record (the violation rows) and the penalty (columns   *)
(* of the account) are written by separate statements, with no transaction *)
(* around a request and from copies read at its start.                     *)
(*                                                                         *)
(* violations/penalty.py, violations/models.py, violations/views.py,       *)
(* scanning/views.py (_auto_log_violation), vehicles/tasks.py.             *)
(***************************************************************************)
EXTENDS Integers, Sequences, FiniteSets

CONSTANTS
  Requests,   \* request threads of the servers
  Week,       \* days a first offense costs; a second costs twice as many
  PeriodEnd,  \* last day of the registration period
  Expires,    \* expires_at of the account
  Never,      \* no end date
  MaxRows,    \* bound: violations issued
  MaxUpsets,  \* bound: officers' decisions about the account and servers' deaths, together
  MaxDay      \* bound: last day of the calendar

ASSUME LadderAssumption ==
  /\ Week \in Nat \ {0} /\ PeriodEnd \in Nat /\ Expires \in Nat
  /\ MaxRows \in Nat /\ MaxUpsets \in Nat /\ MaxDay \in Nat
  /\ Never \notin Nat

VARIABLES
  day,       \* localdate()
  rows,      \* the Violation rows of the account, in the order they were issued
  account,   \* the columns of the account
  denied,    \* history: an officer's last word on registering again was no
  upsets,    \* decisions of officers about the account, and deaths of servers
  requests   \* per thread: the request it handles

vars == <<day, rows, account, denied, upsets, requests>>

Statuses == {"warning", "cleared", "lifted", "archived"}

(* num: offense_number; held: registration_blocked. *)
Row == [day : Nat, num : 1..3, status : Statuses, held : BOOLEAN]

(* linked: the plate still leads to the account. *)
Account == [level : 0..3, until : Nat \cup {Never}, banned : BOOLEAN, archived : BOOLEAN,
            linked : BOOLEAN]

Issuing == {"gate", "guard"}
Settling == {"clear", "lift"}
Kinds == Issuing \cup Settling \cup {"expire"}

(* The columns a renumbering may find wrong, each by itself. *)
Columns == {"num", "held"}

(* level and banned: the account as the request read it; plan: the rows to *)
(* renumber, and the columns of each that were wrong; alone: history,      *)
(* nothing else touched the account since its first statement.             *)
Request == [kind : Kinds,
            pc : {"idle", "count", "insert", "impose", "close", "list", "renumber", "recount",
                  "amend", "archive", "done"},
            row : Nat, num : 0..3, level : 0..3, banned : BOOLEAN,
            plan : SUBSET (Nat \X (1..3) \X SUBSET Columns), alone : BOOLEAN]

TypeOK ==
  /\ day \in Nat
  /\ rows \in Seq(Row)
  /\ account \in Account
  /\ denied \in BOOLEAN /\ upsets \in Nat
  /\ requests \in [Requests -> Request]

-----------------------------------------------------------------------------
(* The violations that count. *)
Standing == {i \in DOMAIN rows : rows[i].status = "warning"}

(* The ladder has three rungs. *)
Rung(n) == IF n < 3 THEN n ELSE 3

(* compute_offense_number *)
NextOffense == Rung(Cardinality(Standing) + 1)

(* The strike a standing violation is, oldest first. *)
Strike(i) == Rung(Cardinality({j \in Standing : j <= i}))

(* The last day of a penalty imposed today. *)
TermEnd(level) ==
  CASE level = 1 -> day + Week
    [] level = 2 -> day + 2 * Week
    [] OTHER -> IF PeriodEnd >= day THEN PeriodEnd ELSE Never

Busy(r) == requests[r].pc \notin {"idle", "done"}

Idle == [kind |-> "gate", pc |-> "idle", row |-> 0, num |-> 0, level |-> 0, banned |-> FALSE,
         plan |-> {}, alone |-> FALSE]

Crowded(req) == IF req.pc = "done" THEN Idle ELSE [req EXCEPT !.alone = FALSE]

(* The first statement of a request: what others do is no longer alone. *)
Begin(r, req) ==
  requests' = [q \in Requests |->
    IF q = r THEN [req EXCEPT !.alone = \A p \in Requests \ {r} : ~Busy(p)]
    ELSE Crowded(requests[q])]

(* A request of a single statement. *)
Disturb == requests' = [q \in Requests |-> Crowded(requests[q])]

(* The last one; of a request that was not alone nothing more is said. *)
Finish(r) ==
  LET req == requests[r] IN
  requests' = [requests EXCEPT ![r] =
    IF req.alone THEN [Idle EXCEPT !.pc = "done", !.kind = req.kind, !.alone = TRUE] ELSE Idle]

Init ==
  /\ day = 0 /\ rows = <<>> /\ denied = FALSE /\ upsets = 0
  /\ account = [level |-> 0, until |-> Never, banned |-> FALSE, archived |-> FALSE, linked |-> TRUE]
  /\ requests = [r \in Requests |-> Idle]

-----------------------------------------------------------------------------
(***************************************************************************)
(* Issuing.                                                                *)
(***************************************************************************)

(* A bound: no more violations than there is room for. *)
Room == Len(rows) + Cardinality({r \in Requests : requests[r].pc \in {"count", "insert"}}) < MaxRows

(* A gate reports the account: one strike a day, of whatever type. *)
Sight(r) ==
  /\ ~Busy(r) /\ account.linked /\ Room
  /\ ~\E i \in DOMAIN rows : rows[i].day = day /\ rows[i].status # "lifted"
  /\ Begin(r, [Idle EXCEPT !.kind = "gate", !.pc = "count", !.banned = account.banned])
  /\ UNCHANGED <<day, rows, account, denied, upsets>>

(* A guard writes one, any number a day. *)
GuardIssue(r) ==
  /\ ~Busy(r) /\ account.linked /\ Room
  /\ Begin(r, [Idle EXCEPT !.kind = "guard", !.pc = "count", !.banned = account.banned])
  /\ UNCHANGED <<day, rows, account, denied, upsets>>

(* Faulty variant: every row of the account is counted. *)
CountAll(r) ==
  /\ requests[r].pc = "count"
  /\ requests' = [requests EXCEPT ![r].pc = "insert", ![r].num = Rung(Len(rows) + 1)]
  /\ UNCHANGED <<day, rows, account, denied, upsets>>

Count(r) ==
  /\ requests[r].pc = "count"
  /\ requests' = [requests EXCEPT ![r].pc = "insert", ![r].num = NextOffense]
  /\ UNCHANGED <<day, rows, account, denied, upsets>>

Insert(r) ==
  /\ requests[r].pc = "insert"
  /\ LET num == requests[r].num IN
       rows' = Append(rows, [day |-> day, num |-> num, status |-> "warning", held |-> num = 3])
  /\ requests' = [requests EXCEPT ![r].pc = "impose"]
  /\ UNCHANGED <<day, account, denied, upsets>>

(* Faulty variant: the second strike bans already. *)
ImposeEarly(r) ==
  LET req == requests[r] IN
  /\ req.pc = "impose"
  /\ account' = [account EXCEPT !.level = req.num, !.until = TermEnd(req.num),
                                !.banned = @ \/ (req.num >= 2 /\ ~req.banned)]
  /\ Finish(r)
  /\ UNCHANGED <<day, rows, denied, upsets>>

(* The new penalty replaces the running one; the third strike also bans,   *)
(* if the account was not banned when it was read.                         *)
Impose(r) ==
  LET req == requests[r] IN
  /\ req.pc = "impose"
  /\ account' = [account EXCEPT !.level = req.num, !.until = TermEnd(req.num),
                                !.banned = @ \/ (req.num = 3 /\ ~req.banned)]
  /\ Finish(r)
  /\ UNCHANGED <<day, rows, denied, upsets>>

-----------------------------------------------------------------------------
(***************************************************************************)
(* Settling: an offense is cleared, or lifted as a false alarm.            *)
(***************************************************************************)

Open(r, kind, i) ==
  /\ ~Busy(r)
  /\ i \in Standing
  /\ Begin(r, [Idle EXCEPT !.kind = kind, !.pc = "close", !.row = i, !.level = account.level])
  /\ UNCHANGED <<day, rows, account, denied, upsets>>

(* Only a lifted row lets go of the registration. *)
Close(r) ==
  LET req == requests[r] IN
  /\ req.pc = "close"
  /\ rows' = IF req.kind = "clear"
             THEN [rows EXCEPT ![req.row].status = "cleared"]
             ELSE [rows EXCEPT ![req.row].status = "lifted", ![req.row].held = FALSE]
  /\ requests' = [requests EXCEPT ![r].pc = "list", ![r].row = 0]
  /\ UNCHANGED <<day, account, denied, upsets>>

(* What the renumbering finds wrong with a row. *)
Wrong(i) == {c \in Columns : IF c = "num" THEN rows[i].num # Strike(i)
                                         ELSE rows[i].held # (Strike(i) = 3)}

(* The rows that stand are read, and those with a wrong column kept. *)
List(r) ==
  /\ requests[r].pc = "list"
  /\ requests' = [requests EXCEPT
       ![r].pc = "renumber",
       ![r].plan = {<<i, Strike(i), Wrong(i)>> : i \in {j \in Standing : Wrong(j) # {}}}]
  /\ UNCHANGED <<day, rows, account, denied, upsets>>

(* Faulty variant: the number is put right, the hold forgotten. *)
RenumberOnly(r) ==
  LET plan == requests[r].plan IN
  /\ requests[r].pc = "renumber" /\ plan # {}
  /\ \E p \in plan :
       /\ \A q \in plan : p[1] <= q[1]
       /\ rows' = [rows EXCEPT ![p[1]].num = p[2]]
       /\ requests' = [requests EXCEPT ![r].plan = plan \ {p}]
  /\ UNCHANGED <<day, account, denied, upsets>>

(* One save per row, oldest first, of the columns that were wrong. *)
Renumber(r) ==
  LET plan == requests[r].plan IN
  /\ requests[r].pc = "renumber" /\ plan # {}
  /\ \E p \in plan :
       /\ \A q \in plan : p[1] <= q[1]
       /\ rows' = [rows EXCEPT ![p[1]].num = IF "num" \in p[3] THEN p[2] ELSE @,
                              ![p[1]].held = IF "held" \in p[3] THEN p[2] = 3 ELSE @]
       /\ requests' = [requests EXCEPT ![r].plan = plan \ {p}]
  /\ UNCHANGED <<day, account, denied, upsets>>

(* The rung the remaining record supports, against the level as it was     *)
(* read with the violation: nothing to do if they agree.                   *)
Recount(r) ==
  LET req == requests[r] num == Rung(Cardinality(Standing)) IN
  /\ req.pc = "renumber" /\ req.plan = {}
  /\ IF num = req.level THEN Finish(r)
     ELSE requests' = [requests EXCEPT ![r].pc = "amend", ![r].num = num]
  /\ UNCHANGED <<day, rows, account, denied, upsets>>

(* Cleared, or a term of the lower rung from today. *)
Amend(r) ==
  LET req == requests[r] IN
  /\ req.pc = "amend"
  /\ account' = [account EXCEPT !.level = req.num,
                   !.until = IF req.num = 0 THEN Never ELSE TermEnd(req.num)]
  /\ Finish(r)
  /\ UNCHANGED <<day, rows, denied, upsets>>

-----------------------------------------------------------------------------
(***************************************************************************)
(* The officer's two decisions about the account, and its expiry.          *)
(***************************************************************************)

(* LiftConfiscationView: the offenses stand, the penalty ends. *)
Forgive ==
  /\ account.level > 0 /\ upsets < MaxUpsets
  /\ upsets' = upsets + 1
  /\ account' = [account EXCEPT !.level = 0, !.until = Never]
  /\ Disturb
  /\ UNCHANGED <<day, rows, denied>>

(* RegistrationPermissionView *)
Permit(allow) ==
  /\ upsets < MaxUpsets
  /\ upsets' = upsets + 1
  /\ account' = [account EXCEPT !.banned = ~allow]
  /\ denied' = ~allow
  /\ Disturb
  /\ UNCHANGED <<day, rows>>

(* auto_archive_expired_accounts: who is banned is read first ... *)
Due(r) ==
  /\ ~Busy(r)
  /\ day > Expires /\ ~account.archived
  /\ Begin(r, [Idle EXCEPT !.kind = "expire", !.pc = "archive",
                 !.banned = account.linked /\ \E i \in DOMAIN rows : rows[i].held])
  /\ UNCHANGED <<day, rows, account, denied, upsets>>

(* ... and the batch is archived in one transaction. *)
Archive(r) ==
  LET req == requests[r] IN
  /\ req.pc = "archive"
  /\ rows' = IF req.banned THEN rows
             ELSE [i \in DOMAIN rows |->
                     IF i \in Standing THEN [rows[i] EXCEPT !.status = "archived"] ELSE rows[i]]
  /\ account' = [account EXCEPT !.archived = TRUE, !.banned = req.banned, !.linked = req.banned]
  /\ denied' = FALSE
  /\ Finish(r)
  /\ UNCHANGED <<day, upsets>>

-----------------------------------------------------------------------------
(* A server dies in a request: what was saved stays. *)
Die(r) ==
  /\ Busy(r) /\ upsets < MaxUpsets
  /\ upsets' = upsets + 1
  /\ requests' = [requests EXCEPT ![r] = Idle]
  /\ UNCHANGED <<day, rows, account, denied>>

Midnight ==
  /\ day < MaxDay
  /\ day' = day + 1
  /\ UNCHANGED <<rows, account, denied, upsets, requests>>

(* The instance is used up, or the account archived and its plates free.   *)
Closed == ~(Room /\ account.linked) /\ (\A r \in Requests : ~Busy(r)) /\ UNCHANGED vars

Step(r) ==
  \/ Count(r) \/ Insert(r) \/ Impose(r)
  \/ Close(r) \/ List(r) \/ Renumber(r) \/ Recount(r) \/ Amend(r)
  \/ Archive(r)

Start(r) ==
  \/ Sight(r) \/ GuardIssue(r) \/ Due(r)
  \/ \E kind \in Settling, i \in 1..Len(rows) : Open(r, kind, i)

Next ==
  \/ \E r \in Requests : Start(r) \/ Step(r) \/ Die(r)
  \/ Forgive
  \/ \E allow \in BOOLEAN : Permit(allow)
  \/ Midnight
  \/ Closed

Spec == Init /\ [][Next]_vars

-----------------------------------------------------------------------------
(***************************************************************************)
(* Properties.                                                             *)
(***************************************************************************)

(* The record and the penalty heal: a request that issues, clears or lifts *)
(* with nothing else touching the account leaves exactly the penalty the   *)
(* standing violations support, whatever earlier requests that overlapped, *)
(* died or were forgiven left; and the strikes it numbered are numbered by *)
(* what stands, with the registration held by third strikes alone.         *)
LadderSettled ==
  \A r \in Requests :
    LET req == requests[r] IN
    req.pc = "done" /\ req.alone =>
      /\ req.kind \in Issuing \cup Settling => account.level = Rung(Cardinality(Standing))
      /\ req.kind \in Issuing => rows[Len(rows)].num = Strike(Len(rows))
      /\ req.kind \in Settling =>
           \A i \in Standing : rows[i].num = Strike(i) /\ (rows[i].held <=> Strike(i) = 3)

(* Nobody is banned from registering who has not been written up three     *)
(* times, unless an officer said so, and nobody's first two violations     *)
(* hold a registration: not by a race, not by the archiving.               *)
BanNeedsThree ==
  /\ account.banned => denied \/ Len(rows) >= 3
  /\ \A i \in DOMAIN rows : rows[i].held => i >= 3

=============================================================================
