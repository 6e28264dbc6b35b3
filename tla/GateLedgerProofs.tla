-------------------------- MODULE GateLedgerProofs --------------------------
(***************************************************************************)
(* Proofs about GateLedger, for every set of requests, plates and enabled  *)
(* paths and every length of the windows.                                  *)
(***************************************************************************)
EXTENDS GateLedger, FiniteSetTheorems, TLAPS

(* The newest of a set of row numbers is one of them, or there is none. *)
LEMMA NewestIn ==
  ASSUME NEW S, Newest(S) # 0
  PROVE  Newest(S) \in S
  BY DEF Newest

(* The last entry of a plate is an entry row of that plate. *)
LEMMA LastEntryIsEntry ==
  ASSUME NEW p, NEW t, LastEntry(log, p, t) # 0
  PROVE  /\ LastEntry(log, p, t) \in 1..Len(log)
         /\ log[LastEntry(log, p, t)].kind = "entry"
         /\ log[LastEntry(log, p, t)].plate = p
  BY NewestIn DEF LastEntry, EntriesToday

(* What an exit is paired with is an open entry row of its plate. *)
LEMMA PairTargetIsEntry ==
  ASSUME NEW p, NEW t, PairTarget(log, p, t) # 0
  PROVE  /\ PairTarget(log, p, t) \in 1..Len(log)
         /\ log[PairTarget(log, p, t)].kind = "entry"
         /\ log[PairTarget(log, p, t)].plate = p
  BY NewestIn DEF PairTarget, EntriesToday

(* Inserting a row keeps the rows before it. *)
LEMMA AppendRow ==
  ASSUME NEW s \in Seq(Row), NEW r \in Row
  PROVE  /\ Append(s, r) \in Seq(Row)
         /\ Len(Append(s, r)) = Len(s) + 1
         /\ \A i \in 1..Len(s) : Append(s, r)[i] = s[i]
         /\ Append(s, r)[Len(s) + 1] = r
  OBVIOUS

(* Saving the pairing of one row leaves the others alone. *)
LEMMA PairRow ==
  ASSUME NEW s \in Seq(Row), NEW k \in 1..Len(s), NEW e \in Nat
  PROVE  /\ [s EXCEPT ![k].paired = e] \in Seq(Row)
         /\ Len([s EXCEPT ![k].paired = e]) = Len(s)
         /\ \A i \in 1..Len(s) :
              /\ [s EXCEPT ![k].paired = e][i].plate = s[i].plate
              /\ [s EXCEPT ![k].paired = e][i].kind = s[i].kind
              /\ [s EXCEPT ![k].paired = e][i].at = s[i].at
              /\ i # k => [s EXCEPT ![k].paired = e][i] = s[i]
         /\ [s EXCEPT ![k].paired = e][k].paired = e
  <1>1. s[k] \in Row /\ \A i \in 1..Len(s) : s[i] \in Row
    OBVIOUS
  <1>2. [s EXCEPT ![k].paired = e] = [s EXCEPT ![k] = [s[k] EXCEPT !.paired = e]]
    OBVIOUS
  <1>3. [s[k] EXCEPT !.paired = e] \in Row
    BY <1>1 DEF Row
  <1>4. QED
    BY <1>1, <1>2, <1>3 DEF Row

-----------------------------------------------------------------------------
(***************************************************************************)
(* The inductive invariant.  A request that will close an entry holds an   *)
(* entry row of its plate; one that will save a pairing owns an exit row   *)
(* of its plate; two requests never hold the lock of one entry; and what   *)
(* is locked is open.                                                      *)
(***************************************************************************)
Held(r, lg) ==
  r.pc \in {"lock", "write", "save", "close"} =>
    /\ r.entry \in 1..Len(lg)
    /\ lg[r.entry].kind = "entry"
    /\ lg[r.entry].plate = r.plate

Own(r, lg) ==
  r.pc \in {"pair", "save"} =>
    /\ r.row \in 1..Len(lg)
    /\ lg[r.row].kind = "exit"
    /\ lg[r.row].plate = r.plate

LockExclusive ==
  \A g, h \in Requests :
    g # h /\ req[g].pc = "write" /\ req[h].pc = "write"
      => req[g].entry # req[h].entry

IInv ==
  /\ TypeOK
  /\ \A h \in Requests : Held(req[h], log) /\ Own(req[h], log)
  /\ PairingSound
  /\ LockExclusive
  /\ LockedEntryOpen

LEMMA InitIInv == Init => IInv
  <1> SUFFICES ASSUME Init PROVE IInv
    OBVIOUS
  <1> USE DEF Init, Idle
  <1>1. TypeOK
    BY DEF TypeOK, Request, PCs, Plates
  <1>2. \A h \in Requests : Held(req[h], log) /\ Own(req[h], log)
    BY DEF Held, Own
  <1>3. PairingSound
    BY DEF PairingSound
  <1>4. LockExclusive /\ LockedEntryOpen
    BY DEF LockExclusive, LockedEntryOpen
  <1>5. QED
    BY <1>1, <1>2, <1>3, <1>4 DEF IInv

(* A row pointing at e is one that pointed at it before, or the new one. *)
LEMMA ClosedByAppend ==
  ASSUME NEW s \in Seq(Row), NEW r \in Row, NEW e \in Nat
  PROVE  Closed(Append(s, r), e) <=> Closed(s, e) \/ r.paired = e
  <1>1. ASSUME Closed(Append(s, r), e) PROVE Closed(s, e) \/ r.paired = e
    BY <1>1, AppendRow DEF Closed
  <1>2. ASSUME Closed(s, e) PROVE Closed(Append(s, r), e)
    BY <1>2, AppendRow DEF Closed
  <1>3. ASSUME r.paired = e PROVE Closed(Append(s, r), e)
    BY <1>3, AppendRow DEF Closed
  <1>4. QED
    BY <1>1, <1>2, <1>3

(* A request that moves without taking the lock, the log unchanged. *)
LEMMA RequestMoves ==
  ASSUME IInv, NEW h \in Requests, NEW r \in Request,
         req' = [req EXCEPT ![h] = r], log' = log, now' \in Nat,
         r.pc # "write", Held(r, log), Own(r, log)
  PROVE  IInv'
  <1>1. TypeOK'
    BY DEF IInv, TypeOK
  <1>2. \A g \in Requests : req'[g] = IF g = h THEN r ELSE req[g]
    BY DEF IInv, TypeOK
  <1>3. (\A g \in Requests : Held(req[g], log) /\ Own(req[g], log))'
    BY <1>2 DEF IInv
  <1>4. PairingSound'
    BY DEF IInv, PairingSound
  <1>5. LockExclusive'
    BY <1>2 DEF IInv, LockExclusive
  <1>6. LockedEntryOpen'
    BY <1>2 DEF IInv, LockedEntryOpen, Closed
  <1>7. QED
    BY <1>1, <1>3, <1>4, <1>5, <1>6 DEF IInv

(* A row is inserted by a request that then holds no lock.  What it pairs  *)
(* with, if anything, is an entry of its plate nobody else has locked.     *)
LEMMA RowInserted ==
  ASSUME IInv, NEW h \in Requests, NEW r \in Request, NEW row \in Row,
         req' = [req EXCEPT ![h] = r], log' = Append(log, row), now' = now,
         r.pc # "write", Held(r, log'), Own(r, log'),
         row.paired # 0 =>
           /\ row.kind = "exit"
           /\ row.paired \in 1..Len(log)
           /\ log[row.paired].kind = "entry"
           /\ log[row.paired].plate = row.plate
           /\ \A g \in Requests \ {h} :
                ~(req[g].pc = "write" /\ req[g].entry = row.paired)
  PROVE  IInv'
  <1>0. /\ log \in Seq(Row) /\ log' \in Seq(Row)
        /\ Len(log') = Len(log) + 1
        /\ \A i \in 1..Len(log) : log'[i] = log[i]
        /\ log'[Len(log) + 1] = row
    BY AppendRow DEF IInv, TypeOK
  <1>1. TypeOK'
    BY <1>0 DEF IInv, TypeOK
  <1>2. \A g \in Requests : req'[g] = IF g = h THEN r ELSE req[g]
    BY DEF IInv, TypeOK
  <1>3. ASSUME NEW g \in Requests
        PROVE  (Held(req[g], log) /\ Own(req[g], log))'
    <2>1. CASE g = h
      BY <1>2, <2>1
    <2>2. CASE g # h
      <3>1. req'[g] = req[g] /\ Held(req[g], log) /\ Own(req[g], log)
        BY <1>2, <2>2 DEF IInv
      <3>2. QED
        BY <1>0, <3>1 DEF Held, Own
    <2>3. QED
      BY <2>1, <2>2
  <1>4. PairingSound'
    <2> SUFFICES ASSUME NEW i \in 1..Len(log'), log'[i].paired # 0
                 PROVE  /\ log'[i].kind = "exit"
                        /\ log'[i].paired \in 1..Len(log')
                        /\ log'[log'[i].paired].kind = "entry"
                        /\ log'[log'[i].paired].plate = log'[i].plate
      BY DEF PairingSound
    <2>1. CASE i \in 1..Len(log)
      BY <1>0, <2>1 DEF IInv, PairingSound
    <2>2. CASE i = Len(log) + 1
      BY <1>0, <2>2
    <2>3. QED
      BY <1>0, <2>1, <2>2
  <1>5. LockExclusive'
    BY <1>2 DEF IInv, LockExclusive
  <1>6. LockedEntryOpen'
    <2> SUFFICES ASSUME NEW g \in Requests, req'[g].pc = "write"
                 PROVE  ~Closed(log', req'[g].entry)
      BY DEF LockedEntryOpen
    <2>1. g # h /\ req'[g] = req[g] /\ req[g] \in Request
      BY <1>2 DEF IInv, TypeOK
    <2>2. req[g].entry \in Nat /\ req[g].entry # 0 /\ ~Closed(log, req[g].entry)
      BY <2>1 DEF IInv, Held, LockedEntryOpen, Request
    <2>3. row.paired # req[g].entry
      BY <2>1, <2>2
    <2>4. QED
      BY <1>0, <2>1, <2>2, <2>3, ClosedByAppend
  <1>7. QED
    BY <1>1, <1>3, <1>4, <1>5, <1>6 DEF IInv

-----------------------------------------------------------------------------
(* The reads of a toggle end in a move to "lock", "admit" or "refuse". *)
LEMMA TogglesMove ==
  ASSUME IInv, NEW h \in Requests, NEW p \in Plates, Check(h, p)
  PROVE  IInv'
  <1>1. UNCHANGED <<log, now>>
    BY DEF Check, CheckVehicle, ManualCheck, UploadCheck, CheckSupplier,
           ManualSupplier, UploadSupplier, EventPlate, OpenCampusPlate, Reads
  <1>2. \/ \E b \in BOOLEAN : ToExit(h, p, b)
        \/ ToEntry(h, p)
        \/ \E d \in BOOLEAN : ToRefusal(h, p, d)
    BY DEF Check, CheckVehicle, ManualCheck, UploadCheck, CheckSupplier,
           ManualSupplier, UploadSupplier, EventPlate, OpenCampusPlate
  <1>3. now' \in Nat
    BY <1>1 DEF IInv, TypeOK
  <1>4. CASE \E b \in BOOLEAN : ToExit(h, p, b)
    <2> DEFINE e == LastEntry(log, p, now)
               r == [pc |-> "lock", plate |-> p, entry |-> e, row |-> 0]
    <2>1. req' = [req EXCEPT ![h] = r] /\ InsideState(log, p, now) = "inside"
      BY <1>4 DEF ToExit, Goto
    <2>2. e # 0
      BY <2>1 DEF InsideState
    <2>3. /\ e \in 1..Len(log)
          /\ log[e].kind = "entry"
          /\ log[e].plate = p
      BY <2>2, LastEntryIsEntry
    <2>4. r \in Request
      BY <2>3 DEF Request, PCs, IInv, TypeOK
    <2>5. Held(r, log) /\ Own(r, log)
      BY <2>3 DEF Held, Own
    <2>6. QED
      BY <1>1, <1>3, <2>1, <2>4, <2>5, RequestMoves
  <1>5. CASE ToEntry(h, p)
    <2> DEFINE r == [pc |-> "admit", plate |-> p, entry |-> 0, row |-> 0]
    <2>1. req' = [req EXCEPT ![h] = r]
      BY <1>5 DEF ToEntry, Goto
    <2>2. r \in Request /\ Held(r, log) /\ Own(r, log)
      BY DEF Request, PCs, Held, Own
    <2>3. QED
      BY <1>1, <1>3, <2>1, <2>2, RequestMoves
  <1>6. CASE \E d \in BOOLEAN : ToRefusal(h, p, d)
    <2> DEFINE r == [pc |-> "refuse", plate |-> p, entry |-> 0, row |-> 0]
    <2>1. req' = [req EXCEPT ![h] = r]
      BY <1>6 DEF ToRefusal, Goto
    <2>2. r \in Request /\ Held(r, log) /\ Own(r, log)
      BY DEF Request, PCs, Held, Own
    <2>3. QED
      BY <1>1, <1>3, <2>1, <2>2, RequestMoves
  <1>7. QED
    BY <1>2, <1>4, <1>5, <1>6

LEMMA IdleIsFree ==
  /\ Idle \in Request
  /\ Idle.pc # "write"
  /\ \A lg : Held(Idle, lg) /\ Own(Idle, lg)
  BY DEF Idle, Request, PCs, Held, Own

(* A row that pairs with nothing, by a request that is then idle or owns   *)
(* the row.                                                                *)
LEMMA RecordKeeps ==
  ASSUME IInv, NEW h \in Requests, NEW path, NEW p \in Plates \cup {NoPlate},
         NEW k \in Kinds, Record(h, path, p, k)
  PROVE  IInv'
  <1> DEFINE row == NewRow(p, k, now, 0)
  <1>1. row \in Row /\ row.paired = 0
    BY DEF NewRow, Row, IInv, TypeOK
  <1>2. req' = [req EXCEPT ![h] = req[h]] /\ req[h] \in Request
    BY DEF Record, IInv, TypeOK
  <1>3. req[h].pc = "idle" /\ log' = Append(log, row) /\ now' = now
    BY DEF Record, Start
  <1>4. Held(req[h], log') /\ Own(req[h], log')
    BY <1>3 DEF Held, Own
  <1>5. QED
    BY <1>1, <1>2, <1>3, <1>4, RowInserted

LEMMA AdmitKeeps ==
  ASSUME IInv, NEW h \in Requests, Admit(h) \/ Refuse(h)
  PROVE  IInv'
  <1>1. PICK k \in Kinds : /\ log' = Append(log, NewRow(req[h].plate, k, now, 0))
                           /\ Finish(h) /\ now' = now
    BY DEF Admit, Refuse, Kinds
  <1> DEFINE row == NewRow(req[h].plate, k, now, 0)
  <1>2. row \in Row /\ row.paired = 0
    BY DEF NewRow, Row, IInv, TypeOK, Request
  <1>3. req' = [req EXCEPT ![h] = Idle]
    BY <1>1 DEF Finish
  <1>4. QED
    BY <1>1, <1>2, <1>3, IdleIsFree, RowInserted

LEMMA LockEntryKeeps ==
  ASSUME IInv, NEW h \in Requests, LockEntry(h)
  PROVE  IInv'
  <1>1. UNCHANGED <<log, now>> /\ now' \in Nat
    BY DEF LockEntry, IInv, TypeOK
  <1>2. CASE Closed(log, req[h].entry)
    <2>1. req' = [req EXCEPT ![h] = Idle]
      BY <1>2 DEF LockEntry, Finish
    <2>2. QED
      BY <1>1, <2>1, IdleIsFree, RequestMoves
  <1>3. CASE ~Closed(log, req[h].entry)
    <2>1. req' = [req EXCEPT ![h].pc = "write"]
      BY <1>3 DEF LockEntry
    <2>2. \A g \in Requests :
            /\ req'[g].pc = IF g = h THEN "write" ELSE req[g].pc
            /\ req'[g].plate = req[g].plate
            /\ req'[g].entry = req[g].entry
            /\ req'[g].row = req[g].row
      BY <2>1 DEF IInv, TypeOK, Request
    <2>3. TypeOK'
      BY <1>1, <2>1 DEF IInv, TypeOK, Request, PCs
    <2>4. (\A g \in Requests : Held(req[g], log) /\ Own(req[g], log))'
      BY <1>1, <2>2 DEF IInv, Held, Own, LockEntry
    <2>5. PairingSound'
      BY <1>1 DEF IInv, PairingSound
    <2>6. LockExclusive'
      BY <2>2 DEF IInv, LockExclusive, LockEntry, Unlocked
    <2>7. LockedEntryOpen'
      BY <1>1, <1>3, <2>2 DEF IInv, LockedEntryOpen, Closed
    <2>8. QED
      BY <2>3, <2>4, <2>5, <2>6, <2>7 DEF IInv
  <1>4. QED
    BY <1>2, <1>3

(* The two ways an exit row is written onto the entry a request holds. *)
LEMMA ExitKeeps ==
  ASSUME IInv, NEW h \in Requests, WriteExit(h) \/ RecordRowExit(h)
  PROVE  IInv'
  <1> DEFINE e == req[h].entry
             row == NewRow(req[h].plate, "exit", now, e)
  <1>1. /\ log' = Append(log, row)
        /\ req' = [req EXCEPT ![h] = Idle]
        /\ now' = now
    BY DEF WriteExit, RecordRowExit, Finish
  <1>2. /\ e \in 1..Len(log)
        /\ log[e].kind = "entry"
        /\ log[e].plate = req[h].plate
    BY DEF WriteExit, RecordRowExit, IInv, Held
  <1>3. row \in Row
    BY DEF NewRow, Row, Kinds, IInv, TypeOK, Request
  <1>4. \A g \in Requests \ {h} : ~(req[g].pc = "write" /\ req[g].entry = e)
    BY DEF WriteExit, RecordRowExit, Unlocked, IInv, LockExclusive
  <1>5. row.kind = "exit" /\ row.paired = e /\ row.plate = req[h].plate
    BY DEF NewRow
  <1>6. QED
    BY <1>1, <1>2, <1>3, <1>4, <1>5, IdleIsFree, RowInserted

LEMMA TypedExitKeeps ==
  ASSUME IInv, NEW h \in Requests, NEW p \in Plates, TypedExit(h, p)
  PROVE  IInv'
  <1> DEFINE row == NewRow(p, "exit", now, 0)
             r == [pc |-> "pair", plate |-> p, entry |-> 0, row |-> Len(log) + 1]
  <1>1. /\ log' = Append(log, row)
        /\ req' = [req EXCEPT ![h] = r]
        /\ now' = now
    BY DEF TypedExit, Goto
  <1>2. row \in Row /\ row.paired = 0 /\ row.kind = "exit" /\ row.plate = p
    BY DEF NewRow, Row, Kinds, IInv, TypeOK
  <1>3. r \in Request
    BY DEF Request, PCs, IInv, TypeOK
  <1>4. Held(r, log') /\ Own(r, log')
    BY <1>1, <1>2, AppendRow DEF Held, Own, IInv, TypeOK
  <1>5. QED
    BY <1>1, <1>2, <1>3, <1>4, RowInserted

LEMMA FindEntryKeeps ==
  ASSUME IInv, NEW h \in Requests, FindEntry(h)
  PROVE  IInv'
  <1> DEFINE e == PairTarget(log, req[h].plate, now)
             r == [pc |-> "save", plate |-> req[h].plate, entry |-> e,
                   row |-> req[h].row]
  <1>1. UNCHANGED <<log, now>> /\ now' \in Nat
    BY DEF FindEntry, IInv, TypeOK
  <1>2. CASE e = 0
    BY <1>1, <1>2, IdleIsFree, RequestMoves DEF FindEntry, Finish
  <1>3. CASE e # 0
    <2>1. req' = [req EXCEPT ![h] = r]
      BY <1>3 DEF FindEntry, Goto
    <2>2. /\ e \in 1..Len(log)
          /\ log[e].kind = "entry"
          /\ log[e].plate = req[h].plate
      BY <1>3, PairTargetIsEntry
    <2>3. r \in Request
      BY <2>2 DEF Request, PCs, IInv, TypeOK
    <2>4. Held(r, log) /\ Own(r, log)
      BY <2>2 DEF Held, Own, IInv, FindEntry
    <2>5. QED
      BY <1>1, <2>1, <2>3, <2>4, RequestMoves
  <1>4. QED
    BY <1>2, <1>3

LEMMA SavePairingKeeps ==
  ASSUME IInv, NEW h \in Requests, SavePairing(h)
  PROVE  IInv'
  <1> DEFINE e == req[h].entry
             k == req[h].row
  <1>1. /\ log' = [log EXCEPT ![k].paired = e]
        /\ req' = [req EXCEPT ![h] = Idle]
        /\ now' = now
        /\ req[h].pc = "save"
    BY DEF SavePairing, Finish
  <1>2. /\ e \in 1..Len(log) /\ log[e].kind = "entry"
        /\ log[e].plate = req[h].plate
        /\ k \in 1..Len(log) /\ log[k].kind = "exit"
        /\ log[k].plate = req[h].plate
    BY <1>1 DEF IInv, Held, Own
  <1>3. log \in Seq(Row) /\ e \in Nat
    BY <1>2 DEF IInv, TypeOK
  <1>4. /\ log' \in Seq(Row)
        /\ Len(log') = Len(log)
        /\ \A i \in 1..Len(log) :
             /\ log'[i].plate = log[i].plate
             /\ log'[i].kind = log[i].kind
             /\ i # k => log'[i] = log[i]
        /\ log'[k].paired = e
    <2> DEFINE paired == [log EXCEPT ![k].paired = e]
    <2> HIDE DEF e, k
    <2>1. /\ paired \in Seq(Row)
          /\ Len(paired) = Len(log)
          /\ \A i \in 1..Len(log) :
               /\ paired[i].plate = log[i].plate
               /\ paired[i].kind = log[i].kind
               /\ i # k => paired[i] = log[i]
          /\ paired[k].paired = e
      BY <1>2, <1>3, PairRow
    <2>2. log' = paired
      BY <1>1
    <2> HIDE DEF paired
    <2>3. QED
      BY <2>1, <2>2
  <1>5. \A g \in Requests : req'[g] = IF g = h THEN Idle ELSE req[g]
    BY <1>1 DEF IInv, TypeOK
  <1>6. TypeOK'
    BY <1>1, <1>4, IdleIsFree DEF IInv, TypeOK
  <1>7. ASSUME NEW g \in Requests
        PROVE  (Held(req[g], log) /\ Own(req[g], log))'
    <2>1. CASE g = h
      BY <1>5, <2>1, IdleIsFree
    <2>2. CASE g # h
      <3>1. req'[g] = req[g] /\ Held(req[g], log) /\ Own(req[g], log)
        BY <1>5, <2>2 DEF IInv
      <3>2. QED
        BY <1>4, <3>1 DEF Held, Own
    <2>3. QED
      BY <2>1, <2>2
  <1>8. PairingSound'
    BY <1>2, <1>4 DEF IInv, PairingSound
  <1>9. LockExclusive'
    BY <1>5, IdleIsFree DEF IInv, LockExclusive
  <1>10. LockedEntryOpen'
    <2> SUFFICES ASSUME NEW g \in Requests, req'[g].pc = "write"
                 PROVE  ~Closed(log', req'[g].entry)
      BY DEF LockedEntryOpen
    <2>1. g # h /\ req'[g] = req[g]
      BY <1>5, IdleIsFree
    <2>2. ~Closed(log, req[g].entry) /\ req[g].entry # e
      BY <2>1 DEF IInv, LockedEntryOpen, SavePairing, Unlocked
    <2>3. QED
      BY <1>4, <2>1, <2>2 DEF Closed
  <1>11. QED
    BY <1>6, <1>7, <1>8, <1>9, <1>10 DEF IInv

LEMMA RowExitKeeps ==
  ASSUME IInv, NEW h \in Requests, NEW e \in 1..Len(log),
         SlipExit(h, e) \/ UnrecognizedExit(h, e)
  PROVE  IInv'
  <1> DEFINE r == [pc |-> "close", plate |-> log[e].plate, entry |-> e, row |-> 0]
  <1>1. /\ req' = [req EXCEPT ![h] = r]
        /\ log' = log /\ now' = now
        /\ log[e].kind = "entry"
    BY DEF SlipExit, UnrecognizedExit, RowExit, Goto
  <1>2. log[e] \in Row /\ now \in Nat
    BY DEF IInv, TypeOK
  <1>3. r \in Request
    BY <1>2 DEF Request, PCs, Row, IInv, TypeOK
  <1>4. Held(r, log) /\ Own(r, log)
    BY <1>1 DEF Held, Own
  <1>5. QED
    BY <1>1, <1>2, <1>3, <1>4, RequestMoves

LEMMA AbortKeeps ==
  ASSUME IInv, NEW h \in Requests, Abort(h)
  PROVE  IInv'
  BY IdleIsFree, RequestMoves DEF Abort, Finish, IInv, TypeOK

LEMMA ClockKeeps ==
  ASSUME IInv, Tick \/ UNCHANGED vars
  PROVE  IInv'
  BY DEF Tick, vars, IInv, TypeOK, PairingSound, LockExclusive, LockedEntryOpen,
         Closed

LEMMA NextKeepsIInv == IInv /\ [Next]_vars => IInv'
  <1> SUFFICES ASSUME IInv, [Next]_vars PROVE IInv'
    OBVIOUS
  <1>1. ASSUME NEW h \in Requests, NEW p \in Plates, Check(h, p) PROVE IInv'
    BY <1>1, TogglesMove
  <1>2. ASSUME NEW h \in Requests, NEW p \in Plates, Hand(h, p) PROVE IInv'
    BY <1>2, TypedExitKeeps, RecordKeeps
    DEF Hand, OverrideEntry, DenyEntry, UnknownPlate, Kinds
  <1>3. ASSUME NEW h \in Requests, NEW e \in 1..Len(log),
               SlipExit(h, e) \/ UnrecognizedExit(h, e)
        PROVE  IInv'
    BY <1>3, RowExitKeeps
  <1>4. ASSUME NEW h \in Requests, UnrecognizedEntry(h) PROVE IInv'
    BY <1>4, RecordKeeps DEF UnrecognizedEntry, Kinds
  <1>5. ASSUME NEW h \in Requests, Step(h) PROVE IInv'
    BY <1>5, AdmitKeeps, LockEntryKeeps, ExitKeeps, FindEntryKeeps,
       SavePairingKeeps DEF Step
  <1>6. ASSUME NEW h \in Requests, Abort(h) PROVE IInv'
    BY <1>6, AbortKeeps
  <1>7. CASE Tick \/ UNCHANGED vars
    BY <1>7, ClockKeeps
  <1>8. QED
    BY <1>1, <1>2, <1>3, <1>4, <1>5, <1>6, <1>7 DEF Next, Exhausted

THEOREM GateInvariant == Spec => []IInv
  BY InitIInv, NextKeepsIInv, PTL DEF Spec

(* The log, the clock and the requests keep their types. *)
THEOREM GateTypes == Spec => []TypeOK
  <1>1. IInv => TypeOK
    BY DEF IInv
  <1>2. QED
    BY <1>1, GateInvariant, PTL

(* The re-check under the row lock holds until the exit is written, for    *)
(* any number of requests on any of the code's paths.                      *)
THEOREM RecheckHolds == Spec => []LockedEntryOpen
  <1>1. IInv => LockedEntryOpen
    BY DEF IInv
  <1>2. QED
    BY <1>1, GateInvariant, PTL

(* However an exit came to be paired, it closes an entry of its own plate. *)
THEOREM PairingIsSound == Spec => []PairingSound
  <1>1. IInv => PairingSound
    BY DEF IInv
  <1>2. QED
    BY <1>1, GateInvariant, PTL

-----------------------------------------------------------------------------
(***************************************************************************)
(* With only the locking paths enabled, a visit ends at most once.         *)
(***************************************************************************)
NoHandExits ==
  \A h \in Requests : req[h].pc \notin {"pair", "save", "close"}

LInv == IInv /\ NoHandExits /\ OneExitPerEntry

(* What the steps of such an instance do to the log. *)
LEMMA LockingSteps ==
  ASSUME Paths \cap Unlocking = {}, LInv, [Next]_vars
  PROVE  /\ NoHandExits'
         /\ \/ log' = log
            \/ \E p \in Plates \cup {NoPlate}, k \in {"entry", "refused"} :
                 log' = Append(log, NewRow(p, k, now, 0))
            \/ \E h \in Requests :
                 /\ req[h].pc = "write"
                 /\ log' = Append(log, NewRow(req[h].plate, "exit", now, req[h].entry))
  <1> USE DEF Unlocking
  <1>0. req \in [Requests -> Request]
    BY DEF LInv, IInv, TypeOK
  <1>1. ASSUME NEW h \in Requests, NEW p \in Plates, Check(h, p)
        PROVE  NoHandExits' /\ log' = log
    <2>1. \E pc \in {"lock", "admit", "refuse"} : \E e :
            req' = [req EXCEPT ![h] = [pc |-> pc, plate |-> p, entry |-> e, row |-> 0]]
      BY <1>1 DEF Check, CheckVehicle, ManualCheck, UploadCheck, CheckSupplier,
           ManualSupplier, UploadSupplier, EventPlate, OpenCampusPlate,
           ToExit, ToEntry, ToRefusal, Goto
    <2>2. log' = log
      BY <1>1 DEF Check, CheckVehicle, ManualCheck, UploadCheck, CheckSupplier,
           ManualSupplier, UploadSupplier, EventPlate, OpenCampusPlate, Reads
    <2>3. QED
      BY <1>0, <2>1, <2>2 DEF LInv, NoHandExits
  <1>2. ASSUME NEW h \in Requests, NEW p \in Plates, Hand(h, p)
        PROVE  /\ NoHandExits'
               /\ \E k \in {"entry", "refused"} :
                    log' = Append(log, NewRow(p, k, now, 0))
    BY <1>2 DEF Hand, TypedExit, OverrideEntry, DenyEntry, UnknownPlate, Record,
         Start, LInv, NoHandExits
  <1>3. ASSUME NEW h \in Requests, NEW e \in 1..Len(log),
               SlipExit(h, e) \/ UnrecognizedExit(h, e)
        PROVE  FALSE
    BY <1>3 DEF SlipExit, UnrecognizedExit, RowExit, Start
  <1>4. ASSUME NEW h \in Requests, UnrecognizedEntry(h)
        PROVE  NoHandExits' /\ log' = Append(log, NewRow(NoPlate, "entry", now, 0))
    BY <1>4 DEF UnrecognizedEntry, Record, LInv, NoHandExits
  <1>5. ASSUME NEW h \in Requests, Step(h)
        PROVE  /\ NoHandExits'
               /\ \/ log' = log
                  \/ \E k \in {"entry", "refused"} :
                       log' = Append(log, NewRow(req[h].plate, k, now, 0))
                  \/ /\ req[h].pc = "write"
                     /\ log' = Append(log, NewRow(req[h].plate, "exit", now, req[h].entry))
    <2>1. Admit(h) \/ Refuse(h) \/ LockEntry(h) \/ WriteExit(h)
      BY <1>5 DEF Step, FindEntry, SavePairing, RecordRowExit, LInv, NoHandExits
    <2>2. NoHandExits'
      BY <1>0, <2>1 DEF Admit, Refuse, LockEntry, WriteExit, Finish, Idle, Request,
           LInv, NoHandExits
    <2>3. QED
      BY <2>1, <2>2 DEF Admit, Refuse, LockEntry, WriteExit
  <1>6. ASSUME NEW h \in Requests, Abort(h)
        PROVE  NoHandExits' /\ log' = log
    BY <1>0, <1>6 DEF Abort, Finish, Idle, LInv, NoHandExits
  <1>7. CASE Tick \/ UNCHANGED vars
    BY <1>7 DEF Tick, vars, LInv, NoHandExits
  <1>8. \A h \in Requests : req[h].plate \in Plates \cup {NoPlate}
    BY <1>0 DEF Request
  <1>9. QED
    BY <1>1, <1>2, <1>3, <1>4, <1>5, <1>6, <1>7, <1>8 DEF Next, Exhausted

LEMMA NextKeepsLInv ==
  ASSUME Paths \cap Unlocking = {}
  PROVE  LInv /\ [Next]_vars => LInv'
  <1> SUFFICES ASSUME LInv, [Next]_vars PROVE LInv'
    OBVIOUS
  <1>1. IInv' /\ NoHandExits'
    BY NextKeepsIInv, LockingSteps DEF LInv
  <1>2. log \in Seq(Row) /\ now \in Nat
    BY DEF LInv, IInv, TypeOK
  <1>3. CASE log' = log
    BY <1>1, <1>3 DEF LInv, OneExitPerEntry
  <1>4. ASSUME NEW p \in Plates \cup {NoPlate}, NEW k \in {"entry", "refused"},
               log' = Append(log, NewRow(p, k, now, 0))
        PROVE  OneExitPerEntry'
    <2> DEFINE row == NewRow(p, k, now, 0)
    <2>1. row \in Row /\ row.paired = 0
      BY <1>2 DEF NewRow, Row, Kinds
    <2>2. QED
      BY <1>2, <1>4, <2>1, AppendRow DEF LInv, OneExitPerEntry
  <1>5. ASSUME NEW h \in Requests, req[h].pc = "write",
               log' = Append(log, NewRow(req[h].plate, "exit", now, req[h].entry))
        PROVE  OneExitPerEntry'
    <2> DEFINE e == req[h].entry
               row == NewRow(req[h].plate, "exit", now, e)
    <2>1. row \in Row /\ row.paired = e
      BY <1>2 DEF NewRow, Row, Kinds, LInv, IInv, TypeOK, Request
    <2>2. \A i \in 1..Len(log) : log[i].paired # e
      BY <1>5 DEF LInv, IInv, LockedEntryOpen, Closed
    <2>3. QED
      BY <1>2, <1>5, <2>1, <2>2, AppendRow DEF LInv, OneExitPerEntry
  <1>6. QED
    BY <1>1, <1>3, <1>4, <1>5, LockingSteps DEF LInv

LEMMA InitLInv == Init => LInv
  BY InitIInv DEF Init, Idle, LInv, NoHandExits, OneExitPerEntry

(* Two cameras, or a camera and a guard's plate check, never write two     *)
(* exits onto one entry: the row lock of the toggles is enough as long as  *)
(* no exit is recorded by hand.                                            *)
THEOREM OneExit ==
  ASSUME Paths \cap Unlocking = {}
  PROVE  Spec => []OneExitPerEntry
  <1>1. LInv => OneExitPerEntry
    BY DEF LInv
  <1>2. QED
    BY <1>1, InitLInv, NextKeepsLInv, PTL DEF Spec

-----------------------------------------------------------------------------
(***************************************************************************)
(* Such an instance implements the ledger of visits.                       *)
(***************************************************************************)
Arrived == {i \in 1..Len(log) : log[i].kind = "entry"}

Left == {<<i, log[i].paired>> : i \in {j \in 1..Len(log) : log[j].paired # 0}}

LEMMA InitVisits == Init => Visits!Init
  BY DEF Init, Visits!Init

LEMMA StepVisits ==
  ASSUME Paths \cap Unlocking = {}, LInv, [Next]_vars
  PROVE  [Visits!Next]_(Visits!ledger)
  <1>1. log \in Seq(Row) /\ now \in Nat
    BY DEF LInv, IInv, TypeOK
  <1> SUFFICES \/ Arrived' = Arrived /\ Left' = Left
               \/ /\ \E v \in Arrived' \ Arrived : Arrived' = Arrived \cup {v}
                  /\ Left' = Left
               \/ /\ Arrived' = Arrived
                  /\ \E l \in Left' \ Left :
                       /\ l[2] \in Arrived \ {m[2] : m \in Left}
                       /\ Left' = Left \cup {l}
    BY DEF Arrived, Left, Visits!Next, Visits!ledger, Visits!Arrive, Visits!Leave,
           Visits!Ended
  <1>2. CASE log' = log
    BY <1>2 DEF Arrived, Left
  <1>3. ASSUME NEW p \in Plates \cup {NoPlate}, NEW k \in {"entry", "refused"},
               log' = Append(log, NewRow(p, k, now, 0))
        PROVE  /\ Arrived' = IF k = "entry" THEN Arrived \cup {Len(log) + 1} ELSE Arrived
               /\ Left' = Left
    <2> DEFINE row == NewRow(p, k, now, 0)
    <2>1. row \in Row /\ row.paired = 0 /\ row.kind = k
      BY <1>1 DEF NewRow, Row, Kinds
    <2>2. /\ Len(log') = Len(log) + 1 /\ log'[Len(log) + 1] = row
          /\ \A i \in 1..Len(log) : log'[i] = log[i]
          /\ Len(log) \in Nat
      BY <1>1, <1>3, <2>1, AppendRow
    <2>3. 1..Len(log') = (1..Len(log)) \cup {Len(log) + 1}
      BY <2>2
    <2>4. Arrived' = IF k = "entry" THEN Arrived \cup {Len(log) + 1} ELSE Arrived
      BY <2>1, <2>2, <2>3 DEF Arrived
    <2>5. {j \in 1..Len(log') : log'[j].paired # 0}
            = {j \in 1..Len(log) : log[j].paired # 0}
      BY <2>1, <2>2, <2>3
    <2>6. Left' = Left
      BY <2>2, <2>5 DEF Left
    <2>7. QED
      BY <2>4, <2>6
  <1>4. Len(log) + 1 \notin Arrived
    BY <1>1 DEF Arrived
  <1>5. ASSUME NEW h \in Requests, req[h].pc = "write",
               log' = Append(log, NewRow(req[h].plate, "exit", now, req[h].entry))
        PROVE  /\ Arrived' = Arrived
               /\ Left' = Left \cup {<<Len(log) + 1, req[h].entry>>}
               /\ req[h].entry \in Arrived \ {m[2] : m \in Left}
               /\ <<Len(log) + 1, req[h].entry>> \notin Left
    <2> DEFINE e == req[h].entry
               n == Len(log) + 1
               row == NewRow(req[h].plate, "exit", now, e)
    <2>1. row \in Row /\ row.paired = e /\ row.kind = "exit"
      BY <1>1 DEF NewRow, Row, Kinds, LInv, IInv, TypeOK, Request
    <2>2. /\ Len(log') = n /\ log'[n] = row
          /\ \A i \in 1..Len(log) : log'[i] = log[i]
          /\ Len(log) \in Nat
      BY <1>1, <1>5, <2>1, AppendRow
    <2>3. 1..Len(log') = (1..Len(log)) \cup {n}
      BY <2>2
    <2>4. e \in 1..Len(log) /\ log[e].kind = "entry" /\ e # 0
      BY <1>5 DEF LInv, IInv, Held
    <2>5. Arrived' = Arrived
      BY <2>1, <2>2, <2>3 DEF Arrived
    <2>6. {j \in 1..Len(log') : log'[j].paired # 0}
            = {j \in 1..Len(log) : log[j].paired # 0} \cup {n}
      BY <2>1, <2>2, <2>3, <2>4
    <2>7. Left' = Left \cup {<<n, e>>}
      BY <2>1, <2>2, <2>6 DEF Left
    <2>8. \A i \in 1..Len(log) : log[i].paired # e
      BY <1>5 DEF LInv, IInv, LockedEntryOpen, Closed
    <2>9. e \in Arrived \ {m[2] : m \in Left}
      BY <2>4, <2>8 DEF Arrived, Left
    <2>10. <<n, e>> \notin Left
      BY <2>8 DEF Left
    <2>11. QED
      BY <2>5, <2>7, <2>9, <2>10
  <1>6. ASSUME NEW h \in Requests, req[h].pc = "write",
               log' = Append(log, NewRow(req[h].plate, "exit", now, req[h].entry))
        PROVE  /\ Arrived' = Arrived
               /\ \E l \in Left' \ Left :
                    /\ l[2] \in Arrived \ {m[2] : m \in Left}
                    /\ Left' = Left \cup {l}
    <2>1. <<Len(log) + 1, req[h].entry>>[2] = req[h].entry
      OBVIOUS
    <2>2. QED
      BY <1>5, <1>6, <2>1
  <1>7. QED
    BY <1>2, <1>3, <1>4, <1>6, LockingSteps

(* The toggles refine the ledger of visits: every visit begins once and is *)
(* ended at most once.                                                     *)
THEOREM TogglesImplementVisits ==
  ASSUME Paths \cap Unlocking = {}
  PROVE  Spec => VisitsSpec
  <1>1. LInv /\ [Next]_vars => [Visits!Next]_(Visits!ledger)
    BY StepVisits
  <1>2. QED
    BY <1>1, InitVisits, InitLInv, NextKeepsLInv, PTL DEF Spec, VisitsSpec, Visits!Spec

-----------------------------------------------------------------------------
(***************************************************************************)
(* With the uploaded frames, which keep no window, left out as well, a car *)
(* that is still in front of the camera is never read as leaving.  The     *)
(* window is asked before the lock is waited for; that it still holds when *)
(* the exit is written is a matter of the clock, which does not go back.   *)
(***************************************************************************)
Breathless == Unlocking \cup {"upload", "supplier_upload"}

Seasoned ==
  \A h \in Requests :
    req[h].pc \in {"lock", "write"} => now - log[req[h].entry].at >= Breathing

BInv == LInv /\ Seasoned /\ BreathingKept

(* A request that goes for a lock, or waits for it, or has it, is about an *)
(* entry as old as the window; and the clock goes forward.                 *)
LEMMA BreathingSteps ==
  ASSUME Paths \cap Breathless = {}, BInv, [Next]_vars
  PROVE  /\ now' \in Nat /\ now <= now'
         /\ \A h \in Requests : req'[h].pc \in {"lock", "write"} =>
              /\ req'[h].entry \in 1..Len(log)
              /\ now - log[req'[h].entry].at >= Breathing
  <1> DEFINE Old(h) ==
        req'[h].pc \in {"lock", "write"} =>
          /\ req'[h].entry \in 1..Len(log)
          /\ now - log[req'[h].entry].at >= Breathing
  <1>0. /\ req \in [Requests -> Request] /\ now \in Nat
        /\ \A g \in Requests : req[g].pc \in {"lock", "write"} =>
             /\ req[g].entry \in 1..Len(log)
             /\ now - log[req[g].entry].at >= Breathing
    BY DEF BInv, LInv, IInv, TypeOK, Held, Seasoned
  <1>1. ASSUME NEW h \in Requests, NEW r, req' = [req EXCEPT ![h] = r],
               r.pc \in {"lock", "write"} =>
                 /\ r.entry \in 1..Len(log)
                 /\ now - log[r.entry].at >= Breathing
        PROVE  \A g \in Requests : Old(g)
    BY <1>0, <1>1
  <1>2. ASSUME NEW h \in Requests, NEW p \in Plates, Check(h, p)
        PROVE  now' = now /\ \A g \in Requests : Old(g)
    <2>1. now' = now
      BY <1>2 DEF Check, CheckVehicle, ManualCheck, UploadCheck, CheckSupplier,
           ManualSupplier, UploadSupplier, EventPlate, OpenCampusPlate, Reads
    <2>2. \/ ToExit(h, p, TRUE) \/ ToEntry(h, p)
          \/ \E d \in BOOLEAN : ToRefusal(h, p, d)
      BY <1>2 DEF Check, CheckVehicle, ManualCheck, UploadCheck, CheckSupplier,
           ManualSupplier, UploadSupplier, EventPlate, OpenCampusPlate, Reads,
           Start, Breathless
    <2>3. CASE ToExit(h, p, TRUE)
      <3> DEFINE e == LastEntry(log, p, now)
                 r == [pc |-> "lock", plate |-> p, entry |-> e, row |-> 0]
      <3>1. /\ req' = [req EXCEPT ![h] = r]
            /\ now - log[e].at >= Breathing
            /\ e # 0
        BY <2>3 DEF ToExit, Goto, InsideState
      <3>2. e \in 1..Len(log)
        BY <3>1, LastEntryIsEntry
      <3>3. r.entry = e
        OBVIOUS
      <3> HIDE DEF e, r
      <3>4. QED
        BY <1>1, <2>1, <3>1, <3>2, <3>3
    <2>4. CASE ToEntry(h, p) \/ \E d \in BOOLEAN : ToRefusal(h, p, d)
      <3>1. \E pc \in {"admit", "refuse"} :
              req' = [req EXCEPT ![h] = [pc |-> pc, plate |-> p, entry |-> 0, row |-> 0]]
        BY <2>4 DEF ToEntry, ToRefusal, Goto
      <3>2. QED
        BY <1>1, <2>1, <3>1
    <2>5. QED
      BY <2>2, <2>3, <2>4
  <1>3. ASSUME UNCHANGED <<now, req>> PROVE now' = now /\ \A g \in Requests : Old(g)
    BY <1>0, <1>3
  <1>4. ASSUME NEW h \in Requests, Finish(h) PROVE \A g \in Requests : Old(g)
    BY <1>1, <1>4 DEF Finish, Idle
  <1>5. ASSUME NEW h \in Requests, NEW p \in Plates, Hand(h, p)
        PROVE  now' = now /\ \A g \in Requests : Old(g)
    BY <1>3, <1>5 DEF Hand, TypedExit, OverrideEntry, DenyEntry, UnknownPlate,
         Record, Start, Breathless, Unlocking
  <1>6. ASSUME NEW h \in Requests, NEW e \in 1..Len(log),
               SlipExit(h, e) \/ UnrecognizedExit(h, e)
        PROVE  FALSE
    BY <1>6 DEF SlipExit, UnrecognizedExit, RowExit, Start, Breathless, Unlocking
  <1>7. ASSUME NEW h \in Requests, UnrecognizedEntry(h)
        PROVE  now' = now /\ \A g \in Requests : Old(g)
    BY <1>3, <1>7 DEF UnrecognizedEntry, Record
  <1>8. ASSUME NEW h \in Requests, Step(h)
        PROVE  now' = now /\ \A g \in Requests : Old(g)
    <2>1. CASE LockEntry(h)
      <3>1. now' = now
        BY <2>1 DEF LockEntry
      <3>2. CASE Finish(h)
        BY <1>4, <3>1, <3>2
      <3>3. CASE req' = [req EXCEPT ![h].pc = "write"]
        <4>1. /\ req' = [req EXCEPT ![h] = [req[h] EXCEPT !.pc = "write"]]
              /\ [req[h] EXCEPT !.pc = "write"].entry = req[h].entry
              /\ req[h].pc = "lock"
          BY <1>0, <2>1, <3>3 DEF LockEntry, Request
        <4>2. QED
          BY <1>0, <1>1, <3>1, <4>1
      <3>4. QED
        BY <2>1, <3>2, <3>3 DEF LockEntry
    <2>2. CASE Admit(h) \/ Refuse(h) \/ WriteExit(h)
      BY <1>4, <2>2 DEF Admit, Refuse, WriteExit
    <2>3. QED
      BY <1>8, <2>1, <2>2 DEF Step, FindEntry, SavePairing, RecordRowExit, BInv,
         LInv, NoHandExits
  <1>9. ASSUME NEW h \in Requests, Abort(h)
        PROVE  now' = now /\ \A g \in Requests : Old(g)
    BY <1>4, <1>9 DEF Abort
  <1>10. CASE Tick
    BY <1>0, <1>10 DEF Tick
  <1>11. CASE UNCHANGED vars
    BY <1>0, <1>3, <1>11 DEF vars
  <1>12. QED
    BY <1>0, <1>2, <1>5, <1>6, <1>7, <1>8, <1>9, <1>10, <1>11 DEF Next, Exhausted

LEMMA NextKeepsBInv ==
  ASSUME Paths \cap Breathless = {}
  PROVE  BInv /\ [Next]_vars => BInv'
  <1> SUFFICES ASSUME BInv, [Next]_vars PROVE BInv'
    OBVIOUS
  <1>0. Paths \cap Unlocking = {}
    BY DEF Breathless
  <1>1. LInv' /\ IInv
    BY <1>0, NextKeepsLInv DEF BInv, LInv
  <1>2. log \in Seq(Row) /\ log' \in Seq(Row) /\ now \in Nat /\ Breathing \in Nat
    BY <1>1, WindowAssumption DEF IInv, TypeOK, LInv
  <1>3. /\ Len(log) \in Nat /\ Len(log) <= Len(log')
        /\ \A i \in 1..Len(log) : log'[i] = log[i]
        /\ \/ log' = log
           \/ \E p \in Plates \cup {NoPlate}, k \in {"entry", "refused"} :
                log' = Append(log, NewRow(p, k, now, 0))
           \/ \E h \in Requests :
                /\ req[h].pc = "write"
                /\ log' = Append(log, NewRow(req[h].plate, "exit", now, req[h].entry))
    <2>1. \/ log' = log
          \/ \E p \in Plates \cup {NoPlate}, k \in {"entry", "refused"} :
               log' = Append(log, NewRow(p, k, now, 0))
          \/ \E h \in Requests :
               /\ req[h].pc = "write"
               /\ log' = Append(log, NewRow(req[h].plate, "exit", now, req[h].entry))
      BY <1>0, LockingSteps DEF BInv
    <2>2. \A r \in Row : log' = Append(log, r) =>
            Len(log) <= Len(log') /\ \A i \in 1..Len(log) : log'[i] = log[i]
      BY <1>2, AppendRow
    <2>3. /\ \A p \in Plates \cup {NoPlate}, k \in {"entry", "refused"} :
               NewRow(p, k, now, 0) \in Row
          /\ \A h \in Requests : NewRow(req[h].plate, "exit", now, req[h].entry) \in Row
      BY <1>1, <1>2 DEF NewRow, Row, Kinds, IInv, TypeOK, Request
    <2>4. QED
      BY <1>2, <2>1, <2>2, <2>3
  <1>4. Seasoned'
    <2> SUFFICES ASSUME NEW h \in Requests, req'[h].pc \in {"lock", "write"}
                 PROVE  now' - log'[req'[h].entry].at >= Breathing
      BY DEF Seasoned
    <2>1. /\ now' \in Nat /\ now <= now'
          /\ req'[h].entry \in 1..Len(log)
          /\ now - log[req'[h].entry].at >= Breathing
      BY BreathingSteps
    <2>2. log'[req'[h].entry] = log[req'[h].entry] /\ log[req'[h].entry] \in Row
      BY <1>2, <1>3, <2>1
    <2>3. QED
      BY <1>2, <2>1, <2>2 DEF Row
  <1>5. BreathingKept'
    <2>1. CASE log' = log
      BY <2>1 DEF BInv, BreathingKept
    <2>2. ASSUME NEW row \in Row, log' = Append(log, row), row.at = now,
                 row.paired # 0 =>
                   /\ row.paired \in 1..Len(log)
                   /\ now - log[row.paired].at >= Breathing
          PROVE  BreathingKept'
      <3>1. /\ Len(log') = Len(log) + 1 /\ log'[Len(log) + 1] = row
            /\ \A i \in 1..Len(log) : log'[i] = log[i]
        BY <1>2, <2>2, AppendRow
      <3> SUFFICES ASSUME NEW i \in 1..Len(log'), log'[i].paired # 0
                   PROVE  log'[i].at - log'[log'[i].paired].at >= Breathing
        BY DEF BreathingKept
      <3>2. CASE i \in 1..Len(log)
        <4>1. log[i].paired \in 1..Len(log) /\ log[i].at - log[log[i].paired].at >= Breathing
          BY <1>1, <3>1, <3>2 DEF IInv, PairingSound, BInv, BreathingKept
        <4>2. QED
          BY <3>1, <3>2, <4>1
      <3>3. CASE i = Len(log) + 1
        BY <2>2, <3>1, <3>3
      <3>4. QED
        BY <1>3, <3>1, <3>2, <3>3
    <2>3. ASSUME NEW p \in Plates \cup {NoPlate}, NEW k \in {"entry", "refused"},
                 log' = Append(log, NewRow(p, k, now, 0))
          PROVE  BreathingKept'
      BY <1>2, <2>2, <2>3 DEF NewRow, Row, Kinds
    <2>4. ASSUME NEW h \in Requests, req[h].pc = "write",
                 log' = Append(log, NewRow(req[h].plate, "exit", now, req[h].entry))
          PROVE  BreathingKept'
      <3> DEFINE row == NewRow(req[h].plate, "exit", now, req[h].entry)
      <3>1. /\ row \in Row /\ row.at = now /\ row.paired = req[h].entry
        BY <1>1, <1>2 DEF NewRow, Row, Kinds, IInv, TypeOK, Request
      <3>2. /\ req[h].entry \in 1..Len(log)
            /\ now - log[req[h].entry].at >= Breathing
        BY <1>1, <2>4 DEF IInv, Held, BInv, Seasoned
      <3> HIDE DEF row
      <3>3. log' = Append(log, row)
        BY <2>4 DEF row
      <3>4. QED
        BY <2>2, <3>1, <3>2, <3>3
    <2>5. QED
      BY <1>3, <2>1, <2>3, <2>4
  <1>6. QED
    BY <1>1, <1>4, <1>5 DEF BInv

(* No exit is recorded within the breathing window of the entry it closes, *)
(* however long its request waited for the lock.                           *)
THEOREM WindowKept ==
  ASSUME Paths \cap Breathless = {}
  PROVE  Spec => []BreathingKept
  <1>1. Init => BInv
    BY InitLInv DEF Init, Idle, BInv, Seasoned, BreathingKept
  <1>2. BInv => BreathingKept
    BY DEF BInv
  <1>3. QED
    BY <1>1, <1>2, NextKeepsBInv, PTL DEF Spec

-----------------------------------------------------------------------------
(***************************************************************************)
(* Who is inside, on all the paths.  Rows are in the order of their times; *)
(* the entries of a plate on a day have a newest; and the exit a request   *)
(* is about to link is its own, and not linked yet.                        *)
(***************************************************************************)
(* The day of a later tick is no earlier day. *)
LEMMA DaysGo ==
  ASSUME NEW a \in Nat, NEW b \in Nat, a <= b
  PROVE  Day(a) \in Nat /\ Day(b) \in Nat /\ Day(a) <= Day(b)
  <1> DEFINE n == DayLength
             p == a \div n
             q == b \div n
  <1>0. n \in Nat \ {0}
    BY WindowAssumption
  <1> HIDE DEF n
  <1>1. p \in Int /\ q \in Int
    BY <1>0
  <1>2. /\ n * p <= a /\ a < n * (p + 1)
        /\ n * q <= b /\ b < n * (q + 1)
    BY <1>0
  <1> HIDE DEF p, q
  <1>3. p <= q
    <2> SUFFICES ASSUME q + 1 <= p PROVE FALSE
      BY <1>1
    <2>1. n * (q + 1) <= n * p
      BY <1>0, <1>1
    <2>2. QED
      BY <1>0, <1>1, <1>2, <2>1
  <1>4. ASSUME NEW c \in Nat, NEW d \in Int, c < n * (d + 1) PROVE d \in Nat
    <2> SUFFICES ASSUME d + 1 <= 0 PROVE FALSE
      OBVIOUS
    <2>1. n * (d + 1) <= 0
      BY <1>0
    <2>2. QED
      BY <1>0, <1>4, <2>1
  <1>5. p \in Nat /\ q \in Nat
    BY <1>1, <1>2, <1>4
  <1>6. QED
    BY <1>3, <1>5 DEF Day, p, q, n

(* Ticks between two of one day are of that day. *)
LEMMA SameDay ==
  ASSUME NEW a \in Nat, NEW b \in Nat, NEW c \in Nat, a <= b, b <= c, Day(a) = Day(c)
  PROVE  Day(b) = Day(a)
  BY DaysGo

EntriesOf(p, d) ==
  {i \in 1..Len(log) :
     log[i].plate = p /\ log[i].kind = "entry" /\ Day(log[i].at) = d}

NewestThere ==
  \A p \in Plates, d \in Nat :
    EntriesOf(p, d) # {} =>
      \E i \in EntriesOf(p, d) : \A j \in EntriesOf(p, d) : j <= i

Timed ==
  \A i \in 1..Len(log) :
    /\ log[i].at <= now
    /\ \A j \in i..Len(log) : log[i].at <= log[j].at

Linking(r) == r.pc \in {"pair", "save"}

OwnsAlone ==
  \A h \in Requests : Linking(req[h]) =>
    /\ log[req[h].row].paired = 0
    /\ \A g \in Requests \ {h} : Linking(req[g]) => req[g].row # req[h].row

SInv == IInv /\ Timed /\ NewestThere /\ OwnsAlone

LEMMA InitSInv == Init => SInv
  <1> SUFFICES ASSUME Init PROVE SInv
    OBVIOUS
  <1>1. log = <<>> /\ Len(log) = 0
    BY DEF Init
  <1>2. Timed /\ NewestThere
    BY <1>1 DEF Timed, NewestThere, EntriesOf
  <1>3. OwnsAlone
    BY DEF Init, Idle, OwnsAlone, Linking
  <1>4. QED
    BY <1>2, <1>3, InitIInv DEF SInv

(***************************************************************************)
(* What a step does: a request moves, or it inserts a row, or it links the *)
(* exit it owns; or the clock goes on.                                     *)
(***************************************************************************)
Moves(h) ==
  /\ log' = log /\ now' = now
  /\ \A g \in Requests \ {h} : req'[g] = req[g]
  /\ Linking(req'[h]) => Linking(req[h]) /\ req'[h].row = req[h].row

Inserts(h, row) ==
  /\ log' = Append(log, row) /\ now' = now /\ row.at = now
  /\ row.paired # 0 => row.kind = "exit" /\ row.paired \in 1..Len(log)
  /\ row.kind = "entry" => row = NewRow(row.plate, "entry", now, 0)
  /\ \A g \in Requests \ {h} : req'[g] = req[g]
  /\ Linking(req'[h]) => req'[h].row = Len(log) + 1 /\ row.paired = 0

Waits == log' = log /\ req' = req /\ now' \in Nat /\ now <= now'

LEMMA NewRowIs ==
  ASSUME NEW p \in Plates \cup {NoPlate}, NEW k \in Kinds, NEW t \in Nat, NEW e \in Nat
  PROVE  /\ NewRow(p, k, t, e) \in Row
         /\ NewRow(p, k, t, e).plate = p /\ NewRow(p, k, t, e).kind = k
         /\ NewRow(p, k, t, e).at = t /\ NewRow(p, k, t, e).paired = e
  BY DEF NewRow, Row

(* A request starts, or goes from one statement to the next. *)
LEMMA CheckMoves ==
  ASSUME SInv, NEW h \in Requests, NEW p \in Plates, Check(h, p)
  PROVE  Moves(h)
  <1>1. UNCHANGED <<log, now>>
    BY DEF Check, CheckVehicle, ManualCheck, UploadCheck, CheckSupplier,
           ManualSupplier, UploadSupplier, EventPlate, OpenCampusPlate, Reads
  <1>2. \/ \E b \in BOOLEAN : ToExit(h, p, b)
        \/ ToEntry(h, p)
        \/ \E d \in BOOLEAN : ToRefusal(h, p, d)
    BY DEF Check, CheckVehicle, ManualCheck, UploadCheck, CheckSupplier,
           ManualSupplier, UploadSupplier, EventPlate, OpenCampusPlate
  <1>3. \E pc \in {"lock", "admit", "refuse"} : \E e :
          req' = [req EXCEPT ![h] = [pc |-> pc, plate |-> p, entry |-> e, row |-> 0]]
    BY <1>2 DEF ToExit, ToEntry, ToRefusal, Goto
  <1>4. QED
    BY <1>1, <1>3 DEF Moves, Linking, SInv, IInv, TypeOK

LEMMA RecordInserts ==
  ASSUME SInv, NEW h \in Requests, NEW path, NEW p \in Plates \cup {NoPlate},
         NEW k \in Kinds, Record(h, path, p, k)
  PROVE  \E row \in Row : Inserts(h, row)
  <1> DEFINE row == NewRow(p, k, now, 0)
  <1>1. now \in Nat
    BY DEF SInv, IInv, TypeOK
  <1>2. /\ row \in Row /\ row.plate = p /\ row.kind = k /\ row.at = now
        /\ row.paired = 0
    BY <1>1, NewRowIs
  <1>3. row.kind = "entry" => row = NewRow(row.plate, "entry", now, 0)
    BY <1>2
  <1>4. log' = Append(log, row) /\ now' = now /\ req' = req /\ req[h].pc = "idle"
    BY DEF Record, Start
  <1> HIDE DEF row
  <1>5. QED
    BY <1>2, <1>3, <1>4 DEF Inserts, Linking

LEMMA HandInserts ==
  ASSUME SInv, NEW h \in Requests, NEW p \in Plates, Hand(h, p)
  PROVE  \E row \in Row : Inserts(h, row)
  <1>1. CASE OverrideEntry(h, p) \/ DenyEntry(h, p) \/ UnknownPlate(h, p)
    BY <1>1, RecordInserts DEF OverrideEntry, DenyEntry, UnknownPlate, Kinds
  <1>2. CASE TypedExit(h, p)
    <2> DEFINE row == NewRow(p, "exit", now, 0)
               r == [pc |-> "pair", plate |-> p, entry |-> 0, row |-> Len(log) + 1]
    <2>1. now \in Nat /\ req \in [Requests -> Request]
      BY DEF SInv, IInv, TypeOK
    <2>2. row \in Row /\ row.kind = "exit" /\ row.at = now /\ row.paired = 0
      BY <2>1, NewRowIs DEF Kinds
    <2>3. log' = Append(log, row) /\ now' = now /\ req' = [req EXCEPT ![h] = r]
      BY <1>2 DEF TypedExit, Goto
    <2> HIDE DEF row
    <2>4. req'[h].row = Len(log) + 1 /\ \A g \in Requests \ {h} : req'[g] = req[g]
      BY <2>1, <2>3
    <2>5. QED
      BY <2>2, <2>3, <2>4 DEF Inserts
  <1>3. QED
    BY <1>1, <1>2 DEF Hand

(* A request's next statement. *)
LEMMA StepDoes ==
  ASSUME SInv, NEW h \in Requests, Step(h)
  PROVE  Moves(h) \/ (\E row \in Row : Inserts(h, row)) \/ SavePairing(h)
  <1>0. /\ now \in Nat /\ req \in [Requests -> Request] /\ req[h] \in Request
        /\ req[h].plate \in Plates \cup {NoPlate} /\ Held(req[h], log)
    BY DEF SInv, IInv, TypeOK, Request
  <1>1. CASE Admit(h) \/ Refuse(h)
    <2>1. PICK k \in Kinds : /\ log' = Append(log, NewRow(req[h].plate, k, now, 0))
                             /\ Finish(h) /\ now' = now
      BY <1>1 DEF Admit, Refuse, Kinds
    <2> DEFINE row == NewRow(req[h].plate, k, now, 0)
    <2>2. /\ row \in Row /\ row.plate = req[h].plate /\ row.kind = k /\ row.at = now
          /\ row.paired = 0
      BY <1>0 DEF NewRow, Row
    <2>3. row.kind = "entry" => row = NewRow(row.plate, "entry", now, 0)
      BY <2>2
    <2>4. log' = Append(log, row)
      BY <2>1
    <2> HIDE DEF row
    <2>5. ~Linking(req'[h]) /\ \A g \in Requests \ {h} : req'[g] = req[g]
      BY <1>0, <2>1 DEF Finish, Idle, Linking
    <2>6. QED
      BY <2>1, <2>2, <2>3, <2>4, <2>5 DEF Inserts
  <1>2. CASE LockEntry(h)
    <2>1. log' = log /\ now' = now
      BY <1>2 DEF LockEntry
    <2>2. req'[h].pc \in {"idle", "write"} /\ \A g \in Requests \ {h} : req'[g] = req[g]
      BY <1>0, <1>2 DEF LockEntry, Finish, Idle, Request
    <2>3. QED
      BY <2>1, <2>2 DEF Moves, Linking
  <1>3. CASE WriteExit(h) \/ RecordRowExit(h)
    <2> DEFINE row == NewRow(req[h].plate, "exit", now, req[h].entry)
    <2>1. /\ log' = Append(log, row) /\ now' = now /\ Finish(h)
          /\ req[h].pc \in {"write", "close"}
      BY <1>3 DEF WriteExit, RecordRowExit
    <2>2. req[h].entry \in 1..Len(log) /\ req[h].entry \in Nat
      BY <1>0, <2>1 DEF Held, Request
    <2>3. row \in Row /\ row.paired = req[h].entry /\ row.kind = "exit" /\ row.at = now
      BY <1>0, <2>2 DEF NewRow, Row, Kinds
    <2> HIDE DEF row
    <2>4. ~Linking(req'[h]) /\ \A g \in Requests \ {h} : req'[g] = req[g]
      BY <1>0, <2>1 DEF Finish, Idle, Linking
    <2>5. QED
      BY <2>1, <2>2, <2>3, <2>4 DEF Inserts
  <1>4. CASE FindEntry(h)
    <2>1. log' = log /\ now' = now /\ Linking(req[h])
      BY <1>4 DEF FindEntry, Linking
    <2>2. /\ Linking(req'[h]) => req'[h].row = req[h].row
          /\ \A g \in Requests \ {h} : req'[g] = req[g]
      BY <1>0, <1>4 DEF FindEntry, Finish, Goto, Idle, Linking
    <2>3. QED
      BY <2>1, <2>2 DEF Moves
  <1>5. QED
    BY <1>1, <1>2, <1>3, <1>4 DEF Step

LEMMA NextDoes ==
  ASSUME SInv, [Next]_vars
  PROVE  \/ Waits
         \/ \E h \in Requests :
              Moves(h) \/ (\E row \in Row : Inserts(h, row)) \/ SavePairing(h)
  <1>0. now \in Nat /\ req \in [Requests -> Request]
    BY DEF SInv, IInv, TypeOK
  <1>1. ASSUME NEW h \in Requests, NEW p \in Plates, Check(h, p) \/ Hand(h, p)
        PROVE  Moves(h) \/ \E row \in Row : Inserts(h, row)
    BY <1>1, CheckMoves, HandInserts
  <1>2. ASSUME NEW h \in Requests, NEW e \in 1..Len(log),
               SlipExit(h, e) \/ UnrecognizedExit(h, e)
        PROVE  Moves(h)
    BY <1>0, <1>2 DEF SlipExit, UnrecognizedExit, RowExit, Goto, Moves, Linking
  <1>3. ASSUME NEW h \in Requests, UnrecognizedEntry(h)
        PROVE  \E row \in Row : Inserts(h, row)
    BY <1>3, RecordInserts DEF UnrecognizedEntry, Kinds
  <1>4. ASSUME NEW h \in Requests, Abort(h) PROVE Moves(h)
    BY <1>0, <1>4 DEF Abort, Finish, Idle, Moves, Linking
  <1>5. CASE Tick \/ Exhausted \/ UNCHANGED vars
    BY <1>0, <1>5 DEF Tick, Exhausted, vars, Waits
  <1>6. QED
    BY <1>1, <1>2, <1>3, <1>4, <1>5, StepDoes DEF Next

-----------------------------------------------------------------------------
(* The invariant is kept. *)
LEMMA MovesKeepS ==
  ASSUME SInv, IInv', NEW h \in Requests, Moves(h)
  PROVE  SInv'
  <1>1. Timed' /\ NewestThere'
    BY DEF Moves, SInv, Timed, NewestThere, EntriesOf
  <1>2. OwnsAlone'
    BY DEF Moves, SInv, OwnsAlone
  <1>3. QED
    BY <1>1, <1>2 DEF SInv

LEMMA WaitsKeepS ==
  ASSUME SInv, IInv', Waits
  PROVE  SInv'
  <1>1. now \in Nat /\ now' \in Nat /\ \A i \in 1..Len(log) : log[i].at \in Nat
    <2>1. log \in Seq(Row) /\ now \in Nat
      BY DEF SInv, IInv, TypeOK
    <2>2. \A i \in 1..Len(log) : log[i] \in Row
      BY <2>1
    <2>3. QED
      BY <2>1, <2>2 DEF Waits, Row
  <1>2. Timed'
    BY <1>1 DEF Waits, SInv, Timed
  <1>3. NewestThere' /\ OwnsAlone'
    BY DEF Waits, SInv, NewestThere, EntriesOf, OwnsAlone
  <1>4. QED
    BY <1>2, <1>3 DEF SInv

LEMMA InsertsKeepS ==
  ASSUME SInv, IInv', NEW h \in Requests, NEW row \in Row, Inserts(h, row)
  PROVE  SInv'
  <1>0. /\ log \in Seq(Row) /\ now \in Nat /\ Len(log) \in Nat
        /\ Len(log') = Len(log) + 1
        /\ \A i \in 1..Len(log) : log'[i] = log[i]
        /\ log'[Len(log) + 1] = row /\ row.at = now /\ now' = now
    BY AppendRow DEF Inserts, SInv, IInv, TypeOK
  <1>1. Timed'
    <2> SUFFICES ASSUME NEW i \in 1..Len(log')
                 PROVE  /\ log'[i].at <= now
                        /\ \A j \in i..Len(log') : log'[i].at <= log'[j].at
      BY <1>0 DEF Timed
    <2>1. CASE i \in 1..Len(log)
      <3>1. /\ log'[i] = log[i] /\ log[i].at <= now
            /\ \A j \in i..Len(log) : log[i].at <= log[j].at
        BY <1>0, <2>1 DEF SInv, Timed
      <3>2. ASSUME NEW j \in i..Len(log') PROVE log'[i].at <= log'[j].at
        <4>1. CASE j \in i..Len(log)
          BY <1>0, <2>1, <3>1, <4>1
        <4>2. CASE j = Len(log) + 1
          BY <1>0, <3>1, <4>2
        <4>3. QED
          BY <1>0, <2>1, <4>1, <4>2
      <3>3. QED
        BY <3>1, <3>2
    <2>2. CASE i = Len(log) + 1
      <3>1. row.at <= row.at
        BY <1>0
      <3>2. QED
        BY <1>0, <2>2, <3>1
    <2>3. QED
      BY <1>0, <2>1, <2>2
  <1>2. NewestThere'
    <2> SUFFICES ASSUME NEW p \in Plates, NEW d \in Nat, EntriesOf(p, d)' # {}
                 PROVE  \E i \in EntriesOf(p, d)' : \A j \in EntriesOf(p, d)' : j <= i
      BY DEF NewestThere
    <2>1. CASE Len(log) + 1 \in EntriesOf(p, d)'
      BY <1>0, <2>1 DEF EntriesOf
    <2>2. CASE Len(log) + 1 \notin EntriesOf(p, d)'
      <3>1. EntriesOf(p, d)' = EntriesOf(p, d)
        BY <1>0, <2>2 DEF EntriesOf
      <3>2. QED
        BY <3>1 DEF SInv, NewestThere
    <2>3. QED
      BY <2>1, <2>2
  <1>3. OwnsAlone'
    <2>1. \A g \in Requests : Linking(req[g]) => req[g].row \in 1..Len(log)
      BY DEF SInv, IInv, Own, Linking
    <2>2. \A g \in Requests \ {h} : req'[g] = req[g]
      BY DEF Inserts
    <2>3. Linking(req'[h]) => req'[h].row = Len(log) + 1 /\ row.paired = 0
      BY DEF Inserts
    <2>4. QED
      BY <1>0, <2>1, <2>2, <2>3 DEF SInv, OwnsAlone
  <1>4. QED
    BY <1>1, <1>2, <1>3 DEF SInv

(* The link of a hand-recorded exit. *)
LEMMA Saved ==
  ASSUME SInv, NEW h \in Requests, SavePairing(h)
  PROVE  LET k == req[h].row
             e == req[h].entry
         IN  /\ Linking(req[h]) /\ k \in 1..Len(log) /\ e \in 1..Len(log)
             /\ log[k].kind = "exit" /\ log[k].paired = 0 /\ log[e].kind = "entry"
             /\ log[e].plate = log[k].plate
             /\ Len(log') = Len(log) /\ now' = now
             /\ \A i \in 1..Len(log) :
                  /\ log'[i].plate = log[i].plate
                  /\ log'[i].kind = log[i].kind
                  /\ log'[i].at = log[i].at
                  /\ i # k => log'[i] = log[i]
             /\ log'[k].paired = e
             /\ ~Linking(req'[h]) /\ \A g \in Requests \ {h} : req'[g] = req[g]
  <1> DEFINE k == req[h].row
             e == req[h].entry
  <1>1. /\ Linking(req[h]) /\ k \in 1..Len(log) /\ e \in 1..Len(log)
        /\ log[k].kind = "exit" /\ log[e].kind = "entry" /\ log[e].plate = log[k].plate
        /\ log[k].paired = 0
    <2>1. req[h].pc = "save" /\ Linking(req[h]) /\ Held(req[h], log) /\ Own(req[h], log)
      BY DEF SavePairing, SInv, IInv, Linking
    <2>2. QED
      BY <2>1 DEF Held, Own, SInv, OwnsAlone
  <1>2. /\ log \in Seq(Row) /\ e \in Nat /\ log' = [log EXCEPT ![k].paired = e] /\ now' = now
        /\ req' = [req EXCEPT ![h] = Idle] /\ req \in [Requests -> Request]
    BY <1>1 DEF SavePairing, Finish, SInv, IInv, TypeOK
  <1>3. ~Linking(req'[h]) /\ \A g \in Requests \ {h} : req'[g] = req[g]
    BY <1>2 DEF Idle, Linking
  <1> HIDE DEF k, e
  <1> DEFINE paired == [log EXCEPT ![k].paired = e]
  <1>4. /\ Len(paired) = Len(log)
        /\ \A i \in 1..Len(log) :
             /\ paired[i].plate = log[i].plate
             /\ paired[i].kind = log[i].kind
             /\ paired[i].at = log[i].at
             /\ i # k => paired[i] = log[i]
        /\ paired[k].paired = e
    BY <1>1, <1>2, PairRow
  <1>5. log' = paired
    BY <1>2
  <1> HIDE DEF paired
  <1>6. QED
    BY <1>1, <1>2, <1>3, <1>4, <1>5 DEF k, e

LEMMA SavedKeepsS ==
  ASSUME SInv, IInv', NEW h \in Requests, SavePairing(h)
  PROVE  SInv'
  <1> DEFINE k == req[h].row
             e == req[h].entry
  <1>1. /\ Linking(req[h]) /\ Len(log') = Len(log) /\ now' = now
        /\ \A i \in 1..Len(log) :
             /\ log'[i].plate = log[i].plate
             /\ log'[i].kind = log[i].kind
             /\ log'[i].at = log[i].at
             /\ i # k => log'[i] = log[i]
        /\ ~Linking(req'[h]) /\ \A g \in Requests \ {h} : req'[g] = req[g]
    BY Saved
  <1>2. Timed'
    BY <1>1 DEF SInv, Timed
  <1>3. NewestThere'
    <2>1. \A p, d : EntriesOf(p, d)' = EntriesOf(p, d)
      BY <1>1 DEF EntriesOf
    <2>2. QED
      BY <2>1 DEF SInv, NewestThere
  <1>4. OwnsAlone'
    <2>1. \A g \in Requests : Linking(req[g]) => req[g].row \in 1..Len(log)
      BY DEF SInv, IInv, Own, Linking
    <2>2. ASSUME NEW g \in Requests, Linking(req'[g])
          PROVE  /\ log'[req'[g].row].paired = 0
                 /\ \A f \in Requests \ {g} : Linking(req'[f]) => req'[f].row # req'[g].row
      <3>1. g # h /\ req'[g] = req[g]
        BY <1>1, <2>2
      <3>2. log[req[g].row].paired = 0 /\ req[g].row # k
        BY <1>1, <2>2, <3>1 DEF SInv, OwnsAlone
      <3>3. ASSUME NEW f \in Requests \ {g}, Linking(req'[f]) PROVE req'[f].row # req'[g].row
        <4>1. f # h /\ req'[f] = req[f]
          BY <1>1, <3>3
        <4>2. QED
          BY <2>2, <3>1, <3>3, <4>1 DEF SInv, OwnsAlone
      <3>4. QED
        BY <1>1, <2>1, <2>2, <3>1, <3>2, <3>3
    <2>3. QED
      BY <2>2 DEF OwnsAlone
  <1>5. QED
    BY <1>2, <1>3, <1>4 DEF SInv

LEMMA NextKeepsSInv == SInv /\ [Next]_vars => SInv'
  BY NextDoes, NextKeepsIInv, MovesKeepS, WaitsKeepS, InsertsKeepS, SavedKeepsS DEF SInv

-----------------------------------------------------------------------------
(***************************************************************************)
(* One answer, put entry by entry: an entry of the day is closed by an     *)
(* exit of the day, or it is closed by nothing and is the plate's newest.  *)
(***************************************************************************)
ClosedToday(lg, e, t) ==
  \E i \in 1..Len(lg) : lg[i].kind = "exit" /\ lg[i].paired = e /\ Today(lg, i, t)

Tidy(lg, t) ==
  \A p \in Plates : \A e \in EntriesToday(lg, p, t) :
    \/ ClosedToday(lg, e, t)
    \/ ~Closed(lg, e) /\ \A f \in EntriesToday(lg, p, t) : f <= e

LEMMA OpenIsNotClosedToday ==
  ASSUME NEW lg, NEW p, NEW t, NEW e
  PROVE  e \in OpenToday(lg, p, t) <=> e \in EntriesToday(lg, p, t) /\ ~ClosedToday(lg, e, t)
  BY DEF OpenToday, ClosedToday

(* The last entry of a plate today is one, if there is any. *)
LEMMA LastEntryFound ==
  ASSUME SInv, NEW p \in Plates, EntriesToday(log, p, now) # {}
  PROVE  /\ LastEntry(log, p, now) \in EntriesToday(log, p, now)
         /\ LastEntry(log, p, now) # 0
         /\ \A j \in EntriesToday(log, p, now) : j <= LastEntry(log, p, now)
  <1>1. now \in Nat /\ Day(now) \in Nat
    BY DaysGo DEF SInv, IInv, TypeOK
  <1>2. EntriesToday(log, p, now) = EntriesOf(p, Day(now))
    BY DEF EntriesToday, EntriesOf, Today
  <1>3. \E i \in EntriesToday(log, p, now) : \A j \in EntriesToday(log, p, now) : j <= i
    BY <1>1, <1>2 DEF SInv, NewestThere
  <1>4. 0 \notin EntriesToday(log, p, now)
    BY DEF EntriesToday
  <1>5. QED
    BY <1>3, <1>4 DEF LastEntry, Newest

(* The gate finds a plate inside when its last entry is not closed. *)
LEMMA InsideMeans ==
  ASSUME SInv, NEW p \in Plates
  PROVE  InsideState(log, p, now) # "outside"
           <=> /\ EntriesToday(log, p, now) # {}
               /\ ~Closed(log, LastEntry(log, p, now))
  <1>1. CASE EntriesToday(log, p, now) = {}
    BY <1>1 DEF InsideState, LastEntry, Newest
  <1>2. CASE EntriesToday(log, p, now) # {}
    BY <1>2, LastEntryFound DEF InsideState
  <1>3. QED
    BY <1>1, <1>2

(* What closes an entry today closes it. *)
LEMMA ClosedTodayIsClosed ==
  ASSUME NEW lg, NEW e, NEW t, ClosedToday(lg, e, t)
  PROVE  Closed(lg, e)
  BY DEF ClosedToday, Closed

LEMMA AtMostOneMeans ==
  ASSUME NEW S, NEW n \in Nat, S \subseteq 1..n
  PROVE  Cardinality(S) <= 1 <=> \A e, f \in S : e = f
  <1>1. IsFiniteSet(S) /\ Cardinality(S) \in Nat
    <2>1. IsFiniteSet(1..n)
      BY FS_Interval
    <2>2. IsFiniteSet(S)
      BY <2>1, FS_Subset
    <2>3. QED
      BY <2>2, FS_CardinalityType
  <1>2. ASSUME NEW e \in S, NEW f \in S, e # f PROVE ~(Cardinality(S) <= 1)
    <2>1. {e} \subseteq S /\ {e} # S
      BY <1>2
    <2>2. Cardinality({e}) = 1
      BY FS_Singleton
    <2>3. Cardinality({e}) <= Cardinality(S) /\ Cardinality({e}) # Cardinality(S)
      BY <1>1, <2>1, FS_Subset
    <2>4. QED
      BY <1>1, <2>2, <2>3
  <1>3. ASSUME \A e, f \in S : e = f PROVE Cardinality(S) <= 1
    <2>1. CASE S = {}
      BY <2>1, FS_EmptySet
    <2>2. CASE S # {}
      <3>1. PICK e \in S : TRUE
        BY <2>2
      <3>2. S = {e}
        BY <1>3, <3>1
      <3>3. Cardinality({e}) = 1
        BY FS_Singleton
      <3>4. QED
        BY <3>2, <3>3
    <2>3. QED
      BY <2>1, <2>2
  <1>4. QED
    BY <1>2, <1>3

LEMMA OneStayIsTidy ==
  ASSUME SInv
  PROVE  OneStay <=> Tidy(log, now)
  <1>1. /\ log \in Seq(Row) /\ Len(log) \in Nat
        /\ \A p : OpenToday(log, p, now) \subseteq EntriesToday(log, p, now)
        /\ \A p : EntriesToday(log, p, now) \subseteq 1..Len(log)
    BY DEF SInv, IInv, TypeOK, OpenToday, EntriesToday
  <1>2. ASSUME OneStay, NEW p \in Plates, NEW e \in EntriesToday(log, p, now),
               ~ClosedToday(log, e, now)
        PROVE  ~Closed(log, e) /\ \A f \in EntriesToday(log, p, now) : f <= e
    <2> DEFINE l == LastEntry(log, p, now)
    <2>1. e \in OpenToday(log, p, now)
      BY <1>2, OpenIsNotClosedToday
    <2>2. ~Closed(log, l)
      <3>1. p \in PlatesInside(log, now)
        BY <2>1 DEF PlatesInside
      <3>2. InsideState(log, p, now) # "outside"
        BY <1>2, <3>1 DEF OneStay, InsideAgrees
      <3>3. QED
        BY <3>2, InsideMeans
    <2>3. l \in EntriesToday(log, p, now) /\ \A f \in EntriesToday(log, p, now) : f <= l
      BY LastEntryFound
    <2>4. l \in OpenToday(log, p, now)
      BY <2>2, <2>3, ClosedTodayIsClosed, OpenIsNotClosedToday
    <2>5. e = l
      <3>1. Cardinality(OpenToday(log, p, now)) <= 1
        BY <1>2 DEF OneStay, AtMostOneOpen
      <3>2. OpenToday(log, p, now) \subseteq 1..Len(log)
        BY <1>1
      <3>3. QED
        BY <1>1, <2>1, <2>4, <3>1, <3>2, AtMostOneMeans
    <2>6. QED
      BY <2>2, <2>3, <2>5
  <1>3. ASSUME Tidy(log, now) PROVE OneStay
    <2>1. ASSUME NEW p \in Plates PROVE Cardinality(OpenToday(log, p, now)) <= 1
      <3>1. ASSUME NEW e \in OpenToday(log, p, now), NEW f \in OpenToday(log, p, now)
            PROVE  e = f
        <4>1. /\ e \in EntriesToday(log, p, now) /\ ~ClosedToday(log, e, now)
              /\ f \in EntriesToday(log, p, now) /\ ~ClosedToday(log, f, now)
          BY <3>1, OpenIsNotClosedToday
        <4>2. e <= f /\ f <= e
          BY <1>3, <4>1 DEF Tidy
        <4>3. e \in Nat /\ f \in Nat
          BY <1>1, <4>1
        <4>4. QED
          BY <4>2, <4>3
      <3>2. OpenToday(log, p, now) \subseteq 1..Len(log)
        BY <1>1
      <3>3. QED
        BY <1>1, <3>1, <3>2, AtMostOneMeans
    <2>2. ASSUME NEW p \in Plates
          PROVE  InsideState(log, p, now) # "outside" <=> p \in PlatesInside(log, now)
      <3> DEFINE l == LastEntry(log, p, now)
      <3>1. ASSUME InsideState(log, p, now) # "outside" PROVE p \in PlatesInside(log, now)
        <4>1. l \in EntriesToday(log, p, now) /\ ~Closed(log, l)
          BY <3>1, InsideMeans, LastEntryFound
        <4>2. l \in OpenToday(log, p, now)
          BY <4>1, ClosedTodayIsClosed, OpenIsNotClosedToday
        <4>3. QED
          BY <4>2 DEF PlatesInside
      <3>2. ASSUME p \in PlatesInside(log, now) PROVE InsideState(log, p, now) # "outside"
        <4>1. PICK e : e \in OpenToday(log, p, now)
          BY <3>2 DEF PlatesInside
        <4>2. e \in EntriesToday(log, p, now) /\ ~ClosedToday(log, e, now)
          BY <4>1, OpenIsNotClosedToday
        <4>3. ~Closed(log, e) /\ \A f \in EntriesToday(log, p, now) : f <= e
          BY <1>3, <4>2 DEF Tidy
        <4>4. l \in EntriesToday(log, p, now) /\ e <= l
          BY <4>2, LastEntryFound
        <4>5. l <= e /\ e \in Nat /\ l \in Nat
          BY <1>1, <4>2, <4>3, <4>4
        <4>6. e = l
          BY <4>4, <4>5
        <4>7. QED
          BY <4>2, <4>3, <4>6, InsideMeans
      <3>3. QED
        BY <3>1, <3>2
    <2>3. QED
      BY <2>1, <2>2 DEF OneStay, AtMostOneOpen, InsideAgrees
  <1>4. QED
    BY <1>2, <1>3 DEF Tidy

-----------------------------------------------------------------------------
(* The clock goes on: what is of today after it was of today before. *)
LEMMA WaitsTidy ==
  ASSUME SInv, Waits, Tidy(log, now)
  PROVE  Tidy(log', now')
  <1>1. /\ log' = log /\ now \in Nat /\ now' \in Nat /\ now <= now'
        /\ \A i \in 1..Len(log) : log[i].at \in Nat /\ log[i].at <= now
    <2>1. log \in Seq(Row) /\ now \in Nat
      BY DEF SInv, IInv, TypeOK
    <2>2. \A i \in 1..Len(log) : log[i] \in Row
      BY <2>1
    <2>3. QED
      BY <2>1, <2>2 DEF Waits, Row, SInv, Timed
  <1> SUFFICES ASSUME NEW p \in Plates, NEW e \in EntriesToday(log, p, now')
               PROVE  \/ ClosedToday(log, e, now')
                      \/ ~Closed(log, e) /\ \A f \in EntriesToday(log, p, now') : f <= e
    BY <1>1 DEF Tidy
  <1>2. e \in 1..Len(log) /\ Day(log[e].at) = Day(now')
    BY DEF EntriesToday, Today
  <1>3. Day(now) = Day(now')
    BY <1>1, <1>2, SameDay
  <1>4. /\ \A i : Today(log, i, now') <=> Today(log, i, now)
    BY <1>3 DEF Today
  <1>5. /\ EntriesToday(log, p, now') = EntriesToday(log, p, now)
        /\ ClosedToday(log, e, now') <=> ClosedToday(log, e, now)
    BY <1>4 DEF EntriesToday, ClosedToday
  <1>6. QED
    BY <1>5 DEF Tidy

(* A row is inserted: a second entry is the one thing that can part them. *)
LEMMA InsertsTidy ==
  ASSUME SInv, NEW h \in Requests, NEW row \in Row, Inserts(h, row), Tidy(log, now),
         ~SecondEntry
  PROVE  Tidy(log', now')
  <1>0. /\ log \in Seq(Row) /\ now \in Nat /\ Len(log) \in Nat
        /\ log' = Append(log, row) /\ Len(log') = Len(log) + 1
        /\ \A i \in 1..Len(log) : log'[i] = log[i]
        /\ log'[Len(log) + 1] = row /\ row.at = now /\ now' = now
        /\ row.paired # 0 => row.kind = "exit" /\ row.paired \in 1..Len(log)
    BY AppendRow DEF Inserts, SInv, IInv, TypeOK
  <1> DEFINE n == Len(log) + 1
  <1>1. \A e \in Nat : Closed(log', e) <=> Closed(log, e) \/ row.paired = e
    BY <1>0, ClosedByAppend
  <1>2. \A e : ClosedToday(log, e, now) => ClosedToday(log', e, now)
    BY <1>0 DEF ClosedToday, Today
  <1>3. \A e \in 1..Len(log) : row.paired = e => ClosedToday(log', e, now)
    BY <1>0 DEF ClosedToday, Today
  <1>4. \A p : /\ EntriesToday(log, p, now) \subseteq EntriesToday(log', p, now)
               /\ EntriesToday(log', p, now) \subseteq EntriesToday(log, p, now) \cup {n}
               /\ n \in EntriesToday(log', p, now) => row.kind = "entry" /\ row.plate = p
               /\ EntriesToday(log, p, now) \subseteq 1..Len(log)
    BY <1>0 DEF EntriesToday, Today
  <1> SUFFICES ASSUME NEW p \in Plates, NEW e \in EntriesToday(log', p, now),
                      ~ClosedToday(log', e, now)
               PROVE  ~Closed(log', e) /\ \A f \in EntriesToday(log', p, now) : f <= e
    BY <1>0 DEF Tidy
  <1>5. CASE e = n
    <2>1. row.paired # n /\ ~Closed(log, n)
      <3>1. \A i \in 1..Len(log) : log[i].paired # 0 => log[i].paired \in 1..Len(log)
        BY DEF SInv, IInv, PairingSound
      <3>2. QED
        BY <1>0, <3>1 DEF Closed
    <2>2. QED
      BY <1>0, <1>1, <1>4, <1>5, <2>1
  <1>6. CASE e # n
    <2>1. e \in EntriesToday(log, p, now) /\ e \in 1..Len(log)
      BY <1>4, <1>6
    <2>2. ~Closed(log, e) /\ \A f \in EntriesToday(log, p, now) : f <= e
      BY <1>2, <2>1 DEF Tidy
    <2>3. ~Closed(log', e)
      BY <1>1, <1>3, <2>1, <2>2
    <2>4. n \notin EntriesToday(log', p, now)
      <3> SUFFICES ASSUME n \in EntriesToday(log', p, now) PROVE FALSE
        OBVIOUS
      <3>1. log' = Append(log, NewRow(p, "entry", now, 0))
        BY <1>0, <1>4 DEF Inserts
      <3>2. InsideState(log, p, now) = "outside"
        BY <3>1 DEF SecondEntry
      <3>3. /\ LastEntry(log, p, now) \in EntriesToday(log, p, now)
            /\ e <= LastEntry(log, p, now)
        BY <2>1, LastEntryFound
      <3>4. LastEntry(log, p, now) = e
        <4>1. LastEntry(log, p, now) <= e /\ LastEntry(log, p, now) \in Nat /\ e \in Nat
          BY <1>4, <2>1, <2>2, <3>3
        <4>2. QED
          BY <3>3, <4>1
      <3>5. QED
        BY <2>1, <2>2, <3>2, <3>4, InsideMeans
    <2>5. QED
      BY <1>4, <2>2, <2>3, <2>4
  <1>7. QED
    BY <1>5, <1>6

(* A link is saved: to an entry before the exit, of the same day if it is  *)
(* of today.                                                               *)
LEMMA SavedTidy ==
  ASSUME SInv, NEW h \in Requests, SavePairing(h), Tidy(log, now), ~LateLink
  PROVE  Tidy(log', now')
  <1> DEFINE k == req[h].row
             e == req[h].entry
  <1>1. /\ k \in 1..Len(log) /\ e \in 1..Len(log)
        /\ log[k].kind = "exit" /\ log[k].paired = 0 /\ log[e].kind = "entry"
        /\ Len(log') = Len(log) /\ now' = now
        /\ \A i \in 1..Len(log) :
             /\ log'[i].plate = log[i].plate
             /\ log'[i].kind = log[i].kind
             /\ log'[i].at = log[i].at
             /\ i # k => log'[i] = log[i]
        /\ log'[k].paired = e
    BY Saved
  <1>2. /\ now \in Nat /\ Len(log) \in Nat
        /\ \A i \in 1..Len(log) : log[i].at \in Nat /\ log[i].at <= now
    <2>1. log \in Seq(Row) /\ now \in Nat
      BY DEF SInv, IInv, TypeOK
    <2>2. \A i \in 1..Len(log) : log[i] \in Row
      BY <2>1
    <2>3. QED
      BY <2>1, <2>2 DEF Row, SInv, Timed
  <1> HIDE DEF k, e
  <1>3. e <= k
    BY <1>1, <1>2 DEF LateLink
  <1>4. log[e].at <= log[k].at
    BY <1>1, <1>2, <1>3 DEF SInv, Timed
  <1>5. \A p : EntriesToday(log', p, now) = EntriesToday(log, p, now)
    BY <1>1 DEF EntriesToday, Today
  <1>6. \A c \in Nat \ {0} : Closed(log', c) => Closed(log, c) \/ c = e
    BY <1>1 DEF Closed
  <1>7. \A c \in Nat \ {0} : ClosedToday(log, c, now) => ClosedToday(log', c, now)
    <2> SUFFICES ASSUME NEW c \in Nat \ {0}, ClosedToday(log, c, now)
                 PROVE  ClosedToday(log', c, now)
      OBVIOUS
    <2>1. PICK i \in 1..Len(log) :
            log[i].kind = "exit" /\ log[i].paired = c /\ Today(log, i, now)
      BY DEF ClosedToday
    <2>2. i # k
      BY <1>1, <2>1
    <2>3. log'[i] = log[i] /\ i \in 1..Len(log')
      BY <1>1, <2>2
    <2>4. QED
      BY <2>1, <2>3 DEF ClosedToday, Today
  <1>8. Today(log, e, now) => ClosedToday(log', e, now)
    <2>1. ASSUME Today(log, e, now) PROVE Today(log, k, now)
      BY <1>1, <1>2, <1>4, <2>1, SameDay DEF Today
    <2>2. QED
      BY <1>1, <2>1 DEF ClosedToday, Today
  <1> SUFFICES ASSUME NEW p \in Plates, NEW c \in EntriesToday(log, p, now),
                      ~ClosedToday(log', c, now)
               PROVE  ~Closed(log', c) /\ \A f \in EntriesToday(log, p, now) : f <= c
    BY <1>1, <1>5 DEF Tidy
  <1>9. c \in Nat \ {0} /\ Today(log, c, now)
    BY DEF EntriesToday
  <1>10. c # e
    BY <1>8, <1>9
  <1>11. ~Closed(log, c) /\ \A f \in EntriesToday(log, p, now) : f <= c
    BY <1>7, <1>9 DEF Tidy
  <1>12. QED
    BY <1>6, <1>9, <1>10, <1>11

(* With any requests, plates and paths, overrides and hand-recorded exits  *)
(* among them, only a second entry of a plate already in, or an exit       *)
(* linked to an arrival after it, parts the gate from the occupancy count. *)
THEOREM OneStayKept == Spec => StayKept
  <1> DEFINE Kept == OneStay => OneStay' \/ SecondEntry \/ LateLink
  <1>1. ASSUME SInv, [Next]_vars PROVE Kept
    <2> SUFFICES ASSUME OneStay, ~SecondEntry, ~LateLink PROVE OneStay'
      OBVIOUS
    <2>1. SInv'
      BY <1>1, NextKeepsSInv
    <2>2. Tidy(log, now)
      BY <1>1, OneStayIsTidy
    <2>3. Tidy(log', now')
      <3>1. CASE Waits
        BY <1>1, <2>2, <3>1, WaitsTidy
      <3>2. ASSUME NEW h \in Requests, Moves(h) PROVE Tidy(log', now')
        BY <2>2, <3>2 DEF Moves
      <3>3. ASSUME NEW h \in Requests, NEW row \in Row, Inserts(h, row)
            PROVE  Tidy(log', now')
        BY <1>1, <2>2, <3>3, InsertsTidy
      <3>4. ASSUME NEW h \in Requests, SavePairing(h) PROVE Tidy(log', now')
        BY <1>1, <2>2, <3>4, SavedTidy
      <3>5. QED
        BY <1>1, <3>1, <3>2, <3>3, <3>4, NextDoes
    <2>4. (OneStay <=> Tidy(log, now))'
      BY <2>1, OneStayIsTidy, PTL
    <2>5. QED
      BY <2>3, <2>4
  <1>2. SInv /\ [Next]_vars => [Kept]_vars
    BY <1>1
  <1>3. QED
    BY <1>2, InitSInv, NextKeepsSInv, PTL DEF Spec, StayKept

=============================================================================
