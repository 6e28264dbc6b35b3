------------------------------ MODULE BayProofs ------------------------------
(***************************************************************************)
(* What holds of BayWatch for every value of its constants.                *)
(***************************************************************************)
EXTENDS BayWatch, TLAPS

CONSTANTS
  Pause,   \* what the thread sleeps, at the least, from frame to frame
  Rhythm   \* what passes, at the most, from frame to frame in their rhythm

(* A clock that grows older stays within its limit, and never starts by    *)
(* itself.                                                                 *)
LEMMA OlderType ==
  ASSUME NEW limit \in Nat, NEW age \in -1..limit, NEW gap \in Nat
  PROVE  /\ Older(age, gap, limit) \in -1..limit
         /\ age # Never => Older(age, gap, limit) \in 0..limit
BY DEF Older, Never

LEMMA OlderFromZero ==
  ASSUME NEW limit \in Nat, NEW age \in 0..limit, NEW gap \in Nat
  PROVE  Older(age, gap, limit) \in 0..limit
BY DEF Older, Never

LEMMA ConstantTypes ==
  /\ Gaps \subseteq Nat /\ Lapses \subseteq Nat
  /\ Hits \in Nat /\ ClaimAfter \in Nat /\ Grace \in Nat /\ Ttl \in Nat
  /\ LookEvery \in Nat /\ Lost \in Nat /\ DoublePark \in Nat /\ ToldBy \in Nat
  /\ MaxUpsets \in Nat
BY BayAssumption

LEMMA NoTrackType == NoTrack \in Track
BY ConstantTypes DEF NoTrack, Track, Never

LEMMA TrackAges ==
  ASSUME NEW t \in Track, NEW gap \in Nat
  PROVE  OlderTrack(t, gap) \in Track
<1>1. t.seen \in -1..Lost + 1 /\ t.still \in -1..DoublePark /\ Lost + 1 \in Nat /\ DoublePark \in Nat
  BY ConstantTypes DEF Track
<1>2. Older(t.seen, gap, Lost + 1) \in -1..Lost + 1
  BY <1>1, OlderType
<1>3. Older(t.still, gap, DoublePark) \in -1..DoublePark
  BY <1>1, OlderType
<1> QED
  BY <1>2, <1>3 DEF OlderTrack, Track

LEMMA DetectorAges ==
  ASSUME NEW d \in Detector, NEW gap \in Nat
  PROVE  Aged(d, gap) \in Detector
<1>1. /\ d.read \in 0..Ttl /\ d.since \in -1..ClaimAfter /\ d.filled \in -1..Grace
      /\ d.looked \in 0..LookEvery /\ d.own \in Track /\ d.ghost \in Track
  BY DEF Detector
<1>2. Older(d.read, gap, Ttl) \in 0..Ttl
  BY <1>1, ConstantTypes, OlderFromZero
<1>3. Older(d.since, gap, ClaimAfter) \in -1..ClaimAfter
  BY <1>1, ConstantTypes, OlderType
<1>4. Older(d.filled, gap, Grace) \in -1..Grace
  BY <1>1, ConstantTypes, OlderType
<1>5. Older(d.looked, gap, LookEvery) \in 0..LookEvery
  BY <1>1, ConstantTypes, OlderFromZero
<1>6. OlderTrack(d.own, gap) \in Track /\ OlderTrack(d.ghost, gap) \in Track
  BY <1>1, TrackAges
<1> QED
  BY <1>2, <1>3, <1>4, <1>5, <1>6 DEF Aged, Detector

LEMMA ResumedType ==
  ASSUME NEW d \in Detector
  PROVE  Resumed(d) \in Detector
<1> DEFINE f == IF d.filled = Never THEN Never ELSE 0
<1>2. f \in -1..Grace /\ 0 \in 0..Hits /\ Never \in -1..ClaimAfter
  BY ConstantTypes DEF Never
<1> HIDE DEF f
<1>3. [d EXCEPT !.filled = f, !.streak = 0, !.since = Never, !.own = NoTrack, !.ghost = NoTrack] \in Detector
  BY <1>2, NoTrackType DEF Detector
<1> QED
  BY <1>3 DEF Resumed, f

LEMMA ReloadedType ==
  ASSUME NEW d \in Detector, NEW up \in BOOLEAN, row.occ \in BOOLEAN
  PROVE  Reloaded(d, up) \in Detector
<1>1. 0 \in 0..Ttl
  BY ConstantTypes
<1>2. [d EXCEPT !.occ = row.occ, !.read = 0] \in Detector
  BY <1>1 DEF Detector
<1> QED
  BY <1>2 DEF Reloaded

LEMMA SetType ==
  ASSUME NEW d \in Detector, NEW occ \in BOOLEAN, NEW up \in BOOLEAN
  PROVE  Set(d, occ, up) \in Detector
<1>1. 0 \in 0..Hits
  BY ConstantTypes
<1>2. [d EXCEPT !.occ = occ, !.streak = 0] \in Detector
  BY <1>1 DEF Detector
<1> QED
  BY <1>2 DEF Set

(* One clock of the thread is set. *)
LEMMA ClockSet ==
  ASSUME NEW d \in Detector
  PROVE  /\ \A x \in -1..Grace : [d EXCEPT !.filled = x] \in Detector
         /\ \A x \in -1..ClaimAfter : [d EXCEPT !.since = x] \in Detector
         /\ \A x \in 0..Hits, y \in -1..ClaimAfter :
              [d EXCEPT !.streak = x, !.since = y] \in Detector
         /\ Never \in -1..Grace /\ 0 \in -1..Grace
         /\ Never \in -1..ClaimAfter /\ 0 \in -1..ClaimAfter /\ 0 \in 0..Hits
<1>1. \A x \in -1..Grace : [d EXCEPT !.filled = x] \in Detector
  BY DEF Detector
<1>2. \A x \in -1..ClaimAfter : [d EXCEPT !.since = x] \in Detector
  BY DEF Detector
<1>3. ASSUME NEW x \in 0..Hits, NEW y \in -1..ClaimAfter
      PROVE  [d EXCEPT !.streak = x, !.since = y] \in Detector
  BY DEF Detector
<1>4. /\ Never \in -1..Grace /\ 0 \in -1..Grace
      /\ Never \in -1..ClaimAfter /\ 0 \in -1..ClaimAfter /\ 0 \in 0..Hits
  BY ConstantTypes DEF Never
<1> QED
  BY <1>1, <1>2, <1>3, <1>4

LEMMA AppliedType ==
  ASSUME NEW d \in Detector, NEW hit \in BOOLEAN, NEW up \in BOOLEAN
  PROVE  ApplyHits(d, hit, up) \in Detector
<1> DEFINE f == Filled(d, hit)
           c == Counted(f)
           e == [f EXCEPT !.streak = 0, !.since = Never]
<1>1. f \in Detector
  <2>1. PICK x \in {Never, 0, d.filled} : f = [d EXCEPT !.filled = x]
    BY Zenon DEF Filled
  <2>2. x \in -1..Grace
    BY <2>1, ClockSet DEF Detector
  <2> QED
    BY <2>1, <2>2, ClockSet
<1> HIDE DEF f
<1>2. c \in Detector
  <2> DEFINE n == IF f.streak < Hits THEN f.streak + 1 ELSE Hits
             t == IF f.since = Never THEN 0 ELSE f.since
  <2>1. n \in 0..Hits /\ t \in -1..ClaimAfter
    BY <1>1, ConstantTypes DEF Detector
  <2>2. c = [f EXCEPT !.streak = n, !.since = t]
    BY DEF Counted
  <2> HIDE DEF c, n, t
  <2> QED
    BY <1>1, <2>1, <2>2, ClockSet
<1>3. e \in Detector /\ [f EXCEPT !.since = 0] \in Detector
  BY <1>1, ClockSet
<1>4. Set(c, TRUE, up) \in Detector /\ Set(e, FALSE, up) \in Detector
  BY <1>2, <1>3, SetType
<1>5. [Set(c, TRUE, up) EXCEPT !.filled = 0] \in Detector
  BY <1>4, ClockSet
<1>6. ApplyHits(d, hit, up)
        \in {[f EXCEPT !.since = 0], [Set(c, TRUE, up) EXCEPT !.filled = 0], c, Set(e, FALSE, up), e}
  BY Zenon DEF ApplyHits, f
<1> HIDE DEF c, e
<1> QED
  BY <1>2, <1>3, <1>4, <1>5, <1>6

LEMMA LooksType ==
  ASSUME NEW d \in Detector, NEW l \in Looks(d)
  PROVE  l \in Detector
<1> DEFINE here == [d EXCEPT !.looked = 0, !.ghost = Forget(@)]
           anew == [seen |-> 0, still |-> 0]
<1>1. /\ d.own \in Track /\ d.ghost \in Track
      /\ Forget(d.own) \in Track /\ Forget(d.ghost) \in Track /\ anew \in Track
  BY NoTrackType, ConstantTypes DEF Detector, Forget, Track
<1>2. here \in Detector
  <2>1. 0 \in 0..LookEvery
    BY ConstantTypes
  <2>2. PICK g \in Track : g = Forget(d.ghost)
    BY <1>1
  <2>3. [d EXCEPT !.looked = 0, !.ghost = g] \in Detector
    BY <2>1, <2>2 DEF Detector
  <2> QED
    BY <2>2, <2>3
<1> HIDE DEF here, anew
<1>3. [here EXCEPT !.own = anew] \in Detector
  BY <1>1, <1>2 DEF Detector
<1>4. [here EXCEPT !.own = anew, !.ghost = Forget(d.own)] \in Detector
  <2>1. PICK g \in Track : g = Forget(d.own)
    BY <1>1
  <2>2. [here EXCEPT !.own = anew, !.ghost = g] \in Detector
    BY <1>1, <1>2, <2>1 DEF Detector
  <2> QED
    BY <2>1, <2>2
<1>5. [here EXCEPT !.own.seen = 0] \in Detector
  <2>1. 0 \in -1..Lost + 1
    BY ConstantTypes
  <2>2. here.own \in Track
    BY <1>2 DEF Detector
  <2>3. [here.own EXCEPT !.seen = 0] \in Track
    BY <2>1, <2>2 DEF Track
  <2>4. [here EXCEPT !.own = [here.own EXCEPT !.seen = 0]] \in Detector
    BY <1>2, <2>3 DEF Detector
  <2> QED
    BY <2>4
<1>6. ASSUME NEW s \in IF d.ghost = NoTrack THEN {} ELSE {0, d.ghost.still}
      PROVE  [here EXCEPT !.own = [seen |-> 0, still |-> s], !.ghost = NoTrack] \in Detector
  <2>1. s \in -1..DoublePark
    BY <1>1, ConstantTypes DEF Track
  <2>2. [seen |-> 0, still |-> s] \in Track
    BY <2>1, ConstantTypes DEF Track
  <2> QED
    BY <2>2, <1>2, NoTrackType DEF Detector
<1>7. \/ l = here
      \/ l = [here EXCEPT !.own.seen = 0]
      \/ l = [here EXCEPT !.own = anew]
      \/ l = [here EXCEPT !.own = anew, !.ghost = Forget(d.own)]
      \/ \E s \in IF d.ghost = NoTrack THEN {} ELSE {0, d.ghost.still} :
           l = [here EXCEPT !.own = [seen |-> 0, still |-> s], !.ghost = NoTrack]
  BY Zenon DEF Looks, here, anew
<1> QED
  BY <1>2, <1>3, <1>4, <1>5, <1>6, <1>7

LEMMA FullStreak ==
  ASSUME NEW d \in Detector
  PROVE  /\ [d EXCEPT !.streak = Hits] \in Detector
         /\ [d EXCEPT !.streak = Hits].streak = Hits
<1>1. Hits \in 0..Hits
  BY ConstantTypes
<1> QED
  BY <1>1 DEF Detector

LEMMA BlockedType ==
  ASSUME NEW d \in Detector, NEW up \in BOOLEAN
  PROVE  Blocked(d, up) \in Detector
<1> DEFINE f == [d EXCEPT !.filled = 0]
<1>1. f \in Detector
  BY ClockSet
<1>2. [f EXCEPT !.streak = Hits] \in Detector
  BY <1>1, FullStreak
<1> HIDE DEF f
<1>3. Set([f EXCEPT !.streak = Hits], TRUE, up) \in Detector
  BY <1>2, SetType
<1>4. Blocked(d, up) \in {d, f, Set([f EXCEPT !.streak = Hits], TRUE, up)}
  BY DEF Blocked, f
<1> QED
  BY <1>1, <1>3, <1>4

-----------------------------------------------------------------------------
RowTyped == row \in [occ : BOOLEAN, noted : BOOLEAN]

(* One frame keeps the types of what it writes.                            *)
LEMMA FrameTypes ==
  ASSUME TypeOK, NEW gap \in Nat, NEW hit \in BOOLEAN, NEW up \in BOOLEAN, Frame(gap, hit, up)
  PROVE  /\ RowTyped' /\ det' \in Detector /\ bay' \in Bays
         /\ moved' \in BOOLEAN /\ carried' \in BOOLEAN
<1> DEFINE aged == Aged(det, gap)
           d == Reloaded(IF gap >= Offline THEN Resumed(aged) ELSE aged, up)
           a == ApplyHits(d, hit, up)
           claimed == ~d.occ /\ a.filled = 0
           freed == IF d.occ /\ ~a.occ THEN Released(row) ELSE row
<1>1. aged \in Detector /\ Resumed(aged) \in Detector
  BY DetectorAges, ResumedType DEF TypeOK
<1>2. d \in Detector
  BY <1>1, ReloadedType DEF TypeOK
<1>3. a \in Detector
  BY <1>2, AppliedType
<1>4. freed \in [occ : BOOLEAN, noted : BOOLEAN]
  BY DEF TypeOK, Released
<1>5. PICK l \in IF claimed \/ LookNow(a) THEN Looks(a) ELSE {a} :
        LET b == IF l.looked = 0 THEN Blocked(l, up) ELSE l IN
        /\ det' = b
        /\ row' = IF b.occ /\ ~(d.occ /\ a.occ) THEN Taken(freed) ELSE freed
        /\ bay' = IF bay = "gone" THEN "empty" ELSE bay
        /\ moved' = IF bay = "crossing" THEN TRUE ELSE moved /\ l.looked # 0
        /\ carried' = (b.streak > 0 /\ (carried \/ (det.occ /\ ~d.occ)))
  BY Zenon DEF Frame
<1>6. l \in Detector
  BY <1>3, <1>5, LooksType
<1>7. det' \in Detector
  BY <1>5, <1>6, BlockedType
<1>8. Taken(freed) \in [occ : BOOLEAN, noted : BOOLEAN]
  BY <1>4 DEF Taken
<1> HIDE DEF aged, d, a, claimed, freed
<1>9. RowTyped'
  BY <1>4, <1>5, <1>8 DEF RowTyped
<1>10. bay' \in Bays
  BY <1>5 DEF Bays, TypeOK
<1>11. moved' \in BOOLEAN /\ carried' \in BOOLEAN
  BY <1>5 DEF TypeOK
<1> QED
  BY <1>7, <1>9, <1>10, <1>11

LEMMA InitTyped == Init => TypeOK
<1> SUFFICES ASSUME Init PROVE TypeOK
  OBVIOUS
<1>1. Started \in Detector
  BY ConstantTypes, NoTrackType DEF Started, Detector, Never
<1>2. 0 \in 0..ToldBy /\ 0 \in 0..MaxUpsets
  BY ConstantTypes
<1>3. {moved, carried, noting, editing} \subseteq BOOLEAN
  BY DEF Init
<1>4. row \in [occ : BOOLEAN, noted : BOOLEAN]
  BY DEF Init
<1> QED
  BY <1>1, <1>2, <1>3, <1>4 DEF Init, TypeOK, Bays

LEMMA LastingType ==
  ASSUME TypeOK, NEW gap \in Nat
  PROVE  Older(lasting, gap, ToldBy) \in 0..ToldBy /\ 0 \in 0..ToldBy
BY ConstantTypes, OlderType DEF TypeOK, Never

LEMMA ReadingsType == Readings \subseteq BOOLEAN
BY DEF Readings

LEMMA NextTyped == TypeOK /\ [Next]_vars => TypeOK'
<1> SUFFICES ASSUME TypeOK, [Next]_vars PROVE TypeOK'
  OBVIOUS
<1>1. CASE Score
  <2>1. PICK gap \in Gaps, hit \in Readings :
          /\ Frame(gap, hit, TRUE)
          /\ lasting' = IF bay = "gone" THEN 0 ELSE Older(lasting, gap, ToldBy)
    BY <1>1 DEF Score
  <2>2. gap \in Nat /\ hit \in BOOLEAN
    BY <2>1, ConstantTypes, ReadingsType
  <2> QED
    BY <1>1, <2>1, <2>2, FrameTypes, LastingType DEF Score, TypeOK, RowTyped
<1>2. CASE Stumble
  <2>1. PICK gap \in Gaps \cup Lapses, hit \in Readings, up \in BOOLEAN :
          Frame(gap, hit, up) /\ Disturbed(gap)
    BY <1>2 DEF Stumble
  <2>2. gap \in Nat /\ hit \in BOOLEAN
    BY <2>1, ConstantTypes, ReadingsType
  <2>3. upsets' \in 0..MaxUpsets /\ UNCHANGED <<noting, editing>>
    BY <1>2, ConstantTypes DEF Stumble, TypeOK
  <2> QED
    BY <2>1, <2>2, <2>3, FrameTypes, LastingType DEF Disturbed, TypeOK, RowTyped
<1>3. CASE Restart
  <2>1. Started \in Detector
    BY ConstantTypes, NoTrackType DEF Started, Detector, Never
  <2>2. lasting' \in 0..ToldBy
    BY <1>3, LastingType, ConstantTypes DEF Restart, Disturbed
  <2>3. upsets' \in 0..MaxUpsets
    BY <1>3, ConstantTypes DEF Restart, TypeOK
  <2>4. {moved, carried, noting, editing}' \subseteq BOOLEAN
    BY <1>3 DEF Restart, TypeOK
  <2> QED
    BY <1>3, <2>1, <2>2, <2>3, <2>4 DEF Restart, TypeOK
<1>4. CASE Change
  <2>1. bay' \in Bays
    BY <1>4 DEF Change, Becomes, TypeOK, Bays
  <2>2. moved' \in BOOLEAN
    BY <1>4 DEF Change, TypeOK
  <2>3. det' \in Detector
    BY <1>4, NoTrackType DEF Change, TypeOK, Detector
  <2> QED
    BY <1>4, <2>1, <2>2, <2>3, LastingType, ConstantTypes DEF Change, TypeOK
<1>5. CASE BeginNote \/ WriteNote \/ ClearNote
  BY <1>5 DEF BeginNote, WriteNote, ClearNote, TypeOK
<1>6. ASSUME NEW occ \in BOOLEAN, Mark(occ) PROVE TypeOK'
  <2>1. row' \in [occ : BOOLEAN, noted : BOOLEAN]
    BY <1>6 DEF Mark, Taken, TypeOK
  <2>2. lasting' \in 0..ToldBy
    BY <1>6, LastingType, ConstantTypes DEF Mark, Disturbed
  <2>3. upsets' \in 0..MaxUpsets
    BY <1>6, ConstantTypes DEF Mark, TypeOK
  <2> QED
    BY <1>6, <2>1, <2>2, <2>3 DEF Mark, TypeOK
<1>7. CASE BeginEdit \/ EndEdit
  BY <1>7 DEF BeginEdit, EndEdit, TypeOK
<1>8. CASE UNCHANGED vars
  BY <1>8 DEF vars, TypeOK
<1> QED
  BY <1>1, <1>2, <1>3, <1>4, <1>5, <1>6, <1>7, <1>8 DEF Next

(* Every clock of the detector thread stays within the threshold it is     *)
(* compared with, and the row and its copy hold what they may.             *)
THEOREM BayTypes == Spec => []TypeOK
BY InitTyped, NextTyped, PTL DEF Spec

-----------------------------------------------------------------------------
(* Of the row the thread only ever takes it as it stands, or frees it with *)
(* its note.                                                               *)
LEMMA FrameKeepsNotes ==
  ASSUME TypeOK, FreeBayUnnamed,
         NEW gap \in Nat, NEW hit \in BOOLEAN, NEW up \in BOOLEAN, Frame(gap, hit, up)
  PROVE  FreeBayUnnamed'
<1> DEFINE freed(x) == IF x THEN Released(row) ELSE row
<1>1. PICK x \in BOOLEAN : row' \in {freed(x), Taken(freed(x))}
  <2> DEFINE d == Reloaded(IF gap >= Offline THEN Resumed(Aged(det, gap)) ELSE Aged(det, gap), up)
             a == ApplyHits(d, hit, up)
  <2>1. row' \in {freed(d.occ /\ ~a.occ), Taken(freed(d.occ /\ ~a.occ))}
    BY Zenon DEF Frame
  <2>2. (d.occ /\ ~a.occ) \in BOOLEAN
    OBVIOUS
  <2> QED
    BY <2>1, <2>2
<1>2. row \in [occ : BOOLEAN, noted : BOOLEAN]
  BY DEF TypeOK
<1> QED
  BY <1>1, <1>2 DEF FreeBayUnnamed, Released, Taken

LEMMA NotesKept == TypeOK /\ FreeBayUnnamed /\ [Next]_vars => FreeBayUnnamed'
<1> SUFFICES ASSUME TypeOK, FreeBayUnnamed, [Next]_vars PROVE FreeBayUnnamed'
  OBVIOUS
<1>0. row \in [occ : BOOLEAN, noted : BOOLEAN]
  BY DEF TypeOK
<1>1. CASE Score \/ Stumble
  <2>1. PICK gap \in Gaps \cup Lapses, hit \in Readings, up \in BOOLEAN : Frame(gap, hit, up)
    BY <1>1 DEF Score, Stumble
  <2> QED
    BY <2>1, ConstantTypes, ReadingsType, FrameKeepsNotes
<1>2. CASE Restart \/ Change \/ BeginNote \/ BeginEdit \/ UNCHANGED vars
  BY <1>2 DEF Restart, Change, BeginNote, BeginEdit, vars, FreeBayUnnamed
<1>3. CASE WriteNote \/ ClearNote \/ EndEdit
  BY <1>0, <1>3 DEF WriteNote, ClearNote, EndEdit, FreeBayUnnamed
<1>4. ASSUME NEW occ \in BOOLEAN, Mark(occ) PROVE FreeBayUnnamed'
  BY <1>0, <1>4 DEF Mark, Taken, FreeBayUnnamed
<1> QED
  BY <1>1, <1>2, <1>3, <1>4 DEF Next

(* A free bay never carries a guard's note, whichever of the detector      *)
(* thread, the guards and the CDSO wrote last and however stale the copy   *)
(* they wrote from: each of them writes columns of the row as it stands.   *)
THEOREM FreeBayNamesNobody == Spec => []FreeBayUnnamed
<1>1. Init => FreeBayUnnamed
  BY DEF Init, FreeBayUnnamed
<1> QED
  BY <1>1, InitTyped, NextTyped, NotesKept, PTL DEF Spec

-----------------------------------------------------------------------------
(***************************************************************************)
(* A frame, taken apart: the thread's clocks run on (d), the frame is      *)
(* scored (a), perhaps a look is taken (l), and a vehicle across the line  *)
(* takes the bay.                                                          *)
(***************************************************************************)
Aging(d, gap) ==
  /\ d.looked = Older(det.looked, gap, LookEvery)
  /\ d.occ \in {det.occ, row.occ}
  /\ \/ /\ gap < Offline
        /\ d.own = OlderTrack(det.own, gap) /\ d.ghost = OlderTrack(det.ghost, gap)
        /\ d.since = Older(det.since, gap, ClaimAfter) /\ d.streak = det.streak
     \/ /\ gap >= Offline
        /\ d.own = NoTrack /\ d.ghost = NoTrack /\ d.since = Never /\ d.streak = 0

RunSince(d) == IF d.since = Never THEN 0 ELSE d.since

Scored(d, a, hit) ==
  /\ a.own = d.own /\ a.ghost = d.ghost /\ a.looked = d.looked
  /\ \/ /\ hit /\ ~d.occ /\ Suppressed(d)
        /\ ~a.occ /\ a.streak = d.streak /\ a.since = 0
     \/ /\ hit /\ (d.occ \/ ~Suppressed(d))
        /\ a.occ = d.occ /\ a.streak > 0 /\ a.since = RunSince(d)
     \/ /\ hit /\ ~d.occ /\ ~Suppressed(d)
        /\ a.occ /\ Hits <= d.streak + 1 /\ RunSince(d) >= ClaimAfter
     \/ /\ ~hit /\ a.streak = 0 /\ a.since = Never /\ (a.occ => d.occ)

Looked(a, l) ==
  /\ l.occ = a.occ /\ l.streak = a.streak /\ l.since = a.since /\ l.looked = 0
  /\ l.ghost \in {NoTrack, a.ghost, a.own}
  /\ \/ ~Present /\ l.own = a.own /\ l.ghost \in {NoTrack, a.ghost}
     \/ Present /\ ~moved /\ a.own # NoTrack /\ l.own # NoTrack /\ l.own.seen = 0
     \/ Present /\ l.own = [seen |-> 0, still |-> 0]
     \/ /\ Present /\ a.own = NoTrack /\ a.ghost # NoTrack
        /\ l.own = [seen |-> 0, still |-> a.ghost.still]

(* What the look leaves stands, but for the bay taken by a straddler. *)
Ends(l) ==
  /\ det'.own = l.own /\ det'.ghost = l.ghost /\ det'.since = l.since /\ det'.looked = l.looked
  /\ det'.streak \in {l.streak, 0} \/ (det'.streak = Hits /\ l.looked = 0)
  /\ l.occ => det'.occ
  /\ bay # "straddling" => det' = l

Goes(gap, hit, d, a, l) ==
  /\ Aging(d, gap) /\ Scored(d, a, hit) /\ Ends(l)
  /\ (l = a /\ ~LookNow(a)) \/ Looked(a, l)
  /\ bay' = IF bay = "gone" THEN "empty" ELSE bay
  /\ bay = "crossing" => moved'
  /\ carried' = (det'.streak > 0 /\ (carried \/ (det.occ /\ ~d.occ)))

(* The same of a frame that comes in its rhythm and whose writes succeed,  *)
(* as far as what is known of a bay that stays as it is depends on it.     *)
Copied(d, gap) ==
  /\ d.filled = Older(det.filled, gap, Grace)
  /\ \/ d.occ = row.occ
     \/ d.occ = det.occ /\ d.read = det.read + gap /\ d.read < Ttl

Tallied(d, a, hit) ==
  /\ a.read = d.read
  /\ ~hit /\ d.occ =>
       \/ (Held(d) \/ d.filled = Never) /\ a.occ /\ a.filled = 0
       \/ ~Held(d) /\ d.filled # Never /\ a.filled = d.filled /\ (a.occ <=> d.filled < Grace)
  /\ hit /\ ~d.occ /\ ~Suppressed(d) /\ ~a.occ =>
       /\ a.streak = IF d.streak < Hits THEN d.streak + 1 ELSE Hits
       /\ a.streak < Hits \/ a.since < ClaimAfter

Found(a, l) ==
  /\ l.read = a.read /\ l.filled = a.filled
  /\ l.ghost # NoTrack => /\ l.ghost.seen <= Lost
                          /\ l.ghost = a.ghost \/ (moved /\ a.own # NoTrack /\ l.ghost = a.own)
  /\ Present /\ ~moved /\ a.own # NoTrack => l.own.still = a.own.still

Runs(gap, hit, up, d, a, l) ==
  /\ up /\ gap < Offline => Copied(d, gap)
  /\ up => Tallied(d, a, hit)
  /\ (l = a /\ ~LookNow(a)) \/ (Looked(a, l) /\ Found(a, l))
  /\ det'.read = l.read
  /\ up /\ bay = "straddling" /\ l.looked = 0 /\ l.own.still >= DoublePark => det'.occ
  /\ d.occ = row.occ => det'.occ = row'.occ
  /\ moved' = IF bay = "crossing" THEN TRUE ELSE moved /\ l.looked # 0

LEMMA AgedAs ==
  ASSUME TypeOK, NEW gap \in Nat, NEW up \in BOOLEAN
  PROVE  Aging(Reloaded(IF gap >= Offline THEN Resumed(Aged(det, gap)) ELSE Aged(det, gap), up), gap)
<1> DEFINE g == Aged(det, gap)
           r == IF gap >= Offline THEN Resumed(g) ELSE g
           d == Reloaded(r, up)
<1>1. det \in Detector /\ g \in Detector /\ Offline \in Nat
  BY DetectorAges, BayAssumption DEF TypeOK
<1>2. /\ g.looked = Older(det.looked, gap, LookEvery) /\ g.occ = det.occ
      /\ g.own = OlderTrack(det.own, gap) /\ g.ghost = OlderTrack(det.ghost, gap)
      /\ g.since = Older(det.since, gap, ClaimAfter) /\ g.streak = det.streak
  BY <1>1 DEF Aged, Detector
<1> HIDE DEF g
<1>3. /\ Resumed(g).looked = g.looked /\ Resumed(g).occ = g.occ
      /\ Resumed(g).own = NoTrack /\ Resumed(g).ghost = NoTrack
      /\ Resumed(g).since = Never /\ Resumed(g).streak = 0
  BY <1>1 DEF Resumed, Detector
<1>4. r \in Detector /\ (gap < Offline => r = g) /\ (gap >= Offline => r = Resumed(g))
  BY <1>1, ResumedType
<1> HIDE DEF r
<1>5. /\ d.looked = r.looked /\ d.own = r.own /\ d.ghost = r.ghost /\ d.since = r.since
      /\ d.streak = r.streak /\ d.occ \in {r.occ, row.occ}
  BY <1>4 DEF Reloaded, Detector
<1> HIDE DEF d
<1>6. gap < Offline \/ gap >= Offline
  BY <1>1
<1>7. Aging(d, gap)
  BY <1>2, <1>3, <1>4, <1>5, <1>6 DEF Aging
<1> QED
  BY <1>7 DEF d, r, g

LEMMA AppliedAs ==
  ASSUME NEW d \in Detector, NEW hit \in BOOLEAN, NEW up \in BOOLEAN
  PROVE  Scored(d, ApplyHits(d, hit, up), hit)
<1> DEFINE f == Filled(d, hit)
           c == Counted(f)
           e == [f EXCEPT !.streak = 0, !.since = Never]
           a == ApplyHits(d, hit, up)
<1> SUFFICES Scored(d, a, hit)
  OBVIOUS
<1> HIDE DEF a
<1>1. PICK x \in {Never, 0, d.filled} : f = [d EXCEPT !.filled = x]
  BY Zenon DEF Filled
<1>2. x \in -1..Grace
  BY <1>1, ClockSet DEF Detector
<1>3. /\ f \in Detector
      /\ f.own = d.own /\ f.ghost = d.ghost /\ f.looked = d.looked /\ f.occ = d.occ
      /\ f.streak = d.streak /\ f.since = d.since
  BY <1>1, <1>2, ClockSet DEF Detector
<1> HIDE DEF f
<1>4. /\ c.own = d.own /\ c.ghost = d.ghost /\ c.looked = d.looked /\ c.occ = d.occ
      /\ c.streak > 0 /\ c.streak <= d.streak + 1 /\ c.since = RunSince(d)
  <2>1. Hits \in Nat \ {0} /\ f.streak \in 0..Hits
    BY <1>3, BayAssumption DEF Detector
  <2>2. /\ c.own = f.own /\ c.ghost = f.ghost /\ c.looked = f.looked /\ c.occ = f.occ
        /\ c.streak = (IF f.streak < Hits THEN f.streak + 1 ELSE Hits)
        /\ c.since = (IF f.since = Never THEN 0 ELSE f.since)
    BY <1>3 DEF Counted, Detector
  <2> QED
    BY <1>3, <2>1, <2>2 DEF RunSince
<1>5. /\ e.own = d.own /\ e.ghost = d.ghost /\ e.looked = d.looked /\ e.occ = d.occ
      /\ e.streak = 0 /\ e.since = Never
  BY <1>3 DEF Detector
<1>6. e \in Detector
  BY <1>3, ClockSet
<1>7. CASE hit /\ ~d.occ /\ Suppressed(d)
  <2>1. a = [f EXCEPT !.since = 0]
    BY <1>7 DEF a, ApplyHits, f
  <2>2. /\ a.own = f.own /\ a.ghost = f.ghost /\ a.looked = f.looked /\ a.occ = f.occ
        /\ a.streak = f.streak /\ a.since = 0
    BY <1>3, <2>1 DEF Detector
  <2> QED
    BY <1>3, <1>7, <2>2 DEF Scored
<1>8. CASE hit /\ (d.occ \/ ~Suppressed(d))
  <2>1. a = IF Claims(c) THEN [Set(c, TRUE, up) EXCEPT !.filled = 0] ELSE c
    <3>1. ~(hit /\ ~d.occ /\ Suppressed(d))
      BY <1>8
    <3> QED
      BY <1>8, <3>1, Zenon DEF a, ApplyHits, f, c
  <2>2. CASE ~Claims(c)
    <3>1. a = c
      BY <2>1, <2>2
    <3> HIDE DEF c
    <3> QED
      BY <1>4, <1>8, <3>1 DEF Scored
  <2>3. CASE Claims(c)
    <3>1. c \in Detector /\ Hits <= d.streak + 1 /\ RunSince(d) >= ClaimAfter /\ ~d.occ
      <4>1. c \in Detector
        <5> DEFINE n == IF f.streak < Hits THEN f.streak + 1 ELSE Hits
                   t == IF f.since = Never THEN 0 ELSE f.since
        <5>1. n \in 0..Hits /\ t \in -1..ClaimAfter
          BY <1>3, ConstantTypes DEF Detector
        <5>2. c = [f EXCEPT !.streak = n, !.since = t]
          BY DEF Counted
        <5> HIDE DEF c, n, t
        <5> QED
          BY <1>3, <5>1, <5>2, ClockSet
      <4> HIDE DEF c
      <4> QED
        BY <1>4, <2>3, <4>1 DEF Claims
    <3> HIDE DEF c
    <3>2. a = [Set(c, TRUE, up) EXCEPT !.filled = 0]
      BY <2>1, <2>3
    <3>3. CASE up
      <4>1. /\ a.own = c.own /\ a.ghost = c.ghost /\ a.looked = c.looked /\ a.occ
        BY <3>1, <3>2, <3>3 DEF Set, Detector
      <4> QED
        BY <1>4, <1>8, <3>1, <4>1 DEF Scored
    <3>4. CASE ~up
      <4>1. /\ a.own = c.own /\ a.ghost = c.ghost /\ a.looked = c.looked /\ a.occ = c.occ
            /\ a.streak = c.streak /\ a.since = c.since
        BY <3>1, <3>2, <3>4 DEF Set, Detector
      <4> QED
        BY <1>4, <1>8, <4>1 DEF Scored
    <3> QED
      BY <3>3, <3>4
  <2> QED
    BY <2>2, <2>3
<1>9. CASE ~hit
  <2>1. a \in {e, Set(e, FALSE, up)}
    BY <1>9, Zenon DEF a, ApplyHits, f, e
  <2> HIDE DEF e
  <2>2. /\ a.own = e.own /\ a.ghost = e.ghost /\ a.looked = e.looked /\ a.streak = 0
        /\ a.since = e.since /\ (a.occ => e.occ)
    BY <1>5, <1>6, <2>1 DEF Set, Detector
  <2> QED
    BY <1>5, <1>9, <2>2 DEF Scored
<1> QED
  BY <1>7, <1>8, <1>9

LEMMA LookedAs ==
  ASSUME NEW a \in Detector, NEW l \in Looks(a)
  PROVE  Looked(a, l)
<1> DEFINE here == [a EXCEPT !.looked = 0, !.ghost = Forget(@)]
           anew == [seen |-> 0, still |-> 0]
<1>1. /\ here.occ = a.occ /\ here.streak = a.streak /\ here.since = a.since /\ here.looked = 0
      /\ here.own = a.own /\ here.ghost \in {NoTrack, a.ghost} /\ here \in Detector
  <2>1. 0 \in 0..LookEvery /\ a.ghost \in Track
    BY ConstantTypes DEF Detector
  <2>2. PICK g \in {NoTrack, a.ghost} : g = Forget(a.ghost)
    BY DEF Forget
  <2>3. here = [a EXCEPT !.looked = 0, !.ghost = g]
    BY <2>2
  <2> HIDE DEF here
  <2> QED
    BY <2>1, <2>2, <2>3, NoTrackType DEF Detector
<1>2. Forget(a.own) \in {NoTrack, a.own}
  BY DEF Forget
<1>3. anew # NoTrack /\ \A s : [seen |-> 0, still |-> s] # NoTrack
  BY DEF NoTrack, Never
<1> HIDE DEF here
<1>4. CASE ~Present
  <2>1. l = here
    BY <1>4 DEF Looks, here
  <2> QED
    BY <1>1, <1>4, <2>1 DEF Looked
<1>5. CASE Present /\ a.own # NoTrack /\ ~moved
  <2>1. l = [here EXCEPT !.own.seen = 0]
    BY <1>5 DEF Looks, here
  <2>2. here.own \in Track
    BY <1>1 DEF Detector
  <2>3. /\ l.own.seen = 0 /\ l.ghost = here.ghost /\ l.looked = here.looked /\ l.occ = here.occ
        /\ l.streak = here.streak /\ l.since = here.since
    BY <1>1, <2>1, <2>2 DEF Detector, Track
  <2>4. l.own # NoTrack
    BY <2>3 DEF NoTrack, Never
  <2> QED
    BY <1>1, <1>5, <2>3, <2>4 DEF Looked
<1>6. CASE Present /\ a.own # NoTrack /\ moved
  <2>1. l \in {[here EXCEPT !.own = anew], [here EXCEPT !.own = anew, !.ghost = Forget(a.own)]}
    BY <1>6 DEF Looks, here
  <2>2. /\ l.own = anew /\ l.ghost \in {here.ghost, Forget(a.own)} /\ l.looked = here.looked
        /\ l.occ = here.occ /\ l.streak = here.streak /\ l.since = here.since
    BY <1>1, <2>1 DEF Detector
  <2> QED
    BY <1>1, <1>2, <1>6, <2>2 DEF Looked
<1>7. CASE Present /\ a.own = NoTrack
  <2>1. \/ l = [here EXCEPT !.own = anew]
        \/ \E s \in IF a.ghost = NoTrack THEN {} ELSE {0, a.ghost.still} :
             l = [here EXCEPT !.own = [seen |-> 0, still |-> s], !.ghost = NoTrack]
    BY <1>7, Zenon DEF Looks, here
  <2>2. /\ l.ghost \in {here.ghost, NoTrack} /\ l.looked = here.looked
        /\ l.occ = here.occ /\ l.streak = here.streak /\ l.since = here.since
        /\ l.own = anew \/ (a.ghost # NoTrack /\ l.own = [seen |-> 0, still |-> a.ghost.still])
    BY <1>1, <2>1 DEF Detector
  <2> QED
    BY <1>1, <1>7, <2>2 DEF Looked
<1> QED
  BY <1>4, <1>5, <1>6, <1>7

LEMMA CopiedAs ==
  ASSUME TypeOK, NEW gap \in Nat, gap < Offline
  PROVE  Copied(Reloaded(IF gap >= Offline THEN Resumed(Aged(det, gap)) ELSE Aged(det, gap), TRUE), gap)
<1> DEFINE g == Aged(det, gap)
           d == Reloaded(IF gap >= Offline THEN Resumed(g) ELSE g, TRUE)
<1> SUFFICES Copied(d, gap)
  OBVIOUS
<1>1. /\ det \in Detector /\ g \in Detector /\ ~(gap >= Offline)
      /\ det.read \in 0..Ttl /\ Ttl \in Nat
  <2>1. det \in Detector /\ Aged(det, gap) \in Detector
    BY DetectorAges DEF TypeOK
  <2>2. det.read \in 0..Ttl /\ Ttl \in Nat
    BY <2>1, ConstantTypes DEF Detector
  <2>3. ~(gap >= Offline)
    BY BayAssumption
  <2> QED
    BY <2>1, <2>2, <2>3
<1>2. d = IF g.read = Ttl THEN [g EXCEPT !.occ = row.occ, !.read = 0] ELSE g
  BY <1>1 DEF Reloaded
<1>3. /\ g.filled = Older(det.filled, gap, Grace) /\ g.occ = det.occ
      /\ g.read = Older(det.read, gap, Ttl)
  BY <1>1 DEF Aged, Detector
<1> HIDE DEF g, d
<1>4. CASE g.read = Ttl
  <2>1. d.occ = row.occ /\ d.filled = g.filled
    BY <1>1, <1>2, <1>4 DEF Detector
  <2> QED
    BY <1>3, <2>1 DEF Copied
<1>5. CASE g.read # Ttl
  <2>1. g.read = det.read + gap /\ g.read < Ttl
    BY <1>1, <1>3, <1>5 DEF Older, Never
  <2> QED
    BY <1>2, <1>3, <1>5, <2>1 DEF Copied
<1> QED
  BY <1>4, <1>5

LEMMA TalliedAs ==
  ASSUME NEW d \in Detector, NEW hit \in BOOLEAN
  PROVE  Tallied(d, ApplyHits(d, hit, TRUE), hit)
<1> DEFINE f == Filled(d, hit)
           c == Counted(f)
           e == [f EXCEPT !.streak = 0, !.since = Never]
           a == ApplyHits(d, hit, TRUE)
<1> SUFFICES Tallied(d, a, hit)
  OBVIOUS
<1>1. a = CASE hit /\ ~d.occ /\ Suppressed(d)   -> [f EXCEPT !.since = 0]
            [] hit /\ (d.occ \/ ~Suppressed(d)) ->
                 IF Claims(c) THEN [Set(c, TRUE, TRUE) EXCEPT !.filled = 0] ELSE c
            [] OTHER                            ->
                 IF e.occ /\ e.filled >= Grace THEN Set(e, FALSE, TRUE) ELSE e
  BY Zenon DEF ApplyHits
<1>2. PICK x \in {Never, 0, d.filled} :
        /\ f = [d EXCEPT !.filled = x]
        /\ d.occ /\ (hit \/ Held(d) \/ d.filled = Never) => x = 0
        /\ d.occ /\ ~(hit \/ Held(d) \/ d.filled = Never) => x = d.filled
  BY Zenon DEF Filled
<1>3. x \in -1..Grace /\ d.streak \in 0..Hits /\ d.since \in -1..ClaimAfter
  BY <1>2, ClockSet DEF Detector
<1>4. /\ f \in Detector /\ f.read = d.read /\ f.occ = d.occ /\ f.filled = x
      /\ f.streak = d.streak /\ f.since = d.since
  BY <1>2, <1>3, ClockSet DEF Detector
<1> HIDE DEF a, f
<1>5. /\ c.read = d.read /\ c.occ = d.occ /\ c \in Detector
      /\ c.streak = IF d.streak < Hits THEN d.streak + 1 ELSE Hits
  <2> DEFINE n == IF f.streak < Hits THEN f.streak + 1 ELSE Hits
             t == IF f.since = Never THEN 0 ELSE f.since
  <2>1. n \in 0..Hits /\ t \in -1..ClaimAfter
    BY <1>3, <1>4, ConstantTypes DEF Never
  <2>2. c = [f EXCEPT !.streak = n, !.since = t]
    BY DEF Counted
  <2>3. n = IF d.streak < Hits THEN d.streak + 1 ELSE Hits
    BY <1>4
  <2> HIDE DEF c, n, t
  <2>4. c \in Detector
    BY <1>4, <2>1, <2>2, ClockSet
  <2> QED
    BY <1>4, <2>2, <2>3, <2>4 DEF Detector
<1>6. e.read = d.read /\ e.occ = d.occ /\ e.filled = x /\ e \in Detector
  <2>1. e \in Detector
    BY <1>4, ClockSet
  <2> QED
    BY <1>4, <2>1 DEF Detector
<1>7. CASE hit /\ ~d.occ /\ Suppressed(d)
  <2>1. a = [f EXCEPT !.since = 0]
    BY <1>1, <1>7
  <2>2. a.read = f.read
    BY <1>4, <2>1 DEF Detector
  <2> QED
    BY <1>4, <1>7, <2>2 DEF Tallied
<1>8. CASE hit /\ (d.occ \/ ~Suppressed(d))
  <2>1. a = IF Claims(c) THEN [Set(c, TRUE, TRUE) EXCEPT !.filled = 0] ELSE c
    BY <1>1, <1>8
  <2> HIDE DEF c
  <2>2. CASE Claims(c)
    <3>1. a = [[c EXCEPT !.occ = TRUE, !.streak = 0] EXCEPT !.filled = 0]
      BY <2>1, <2>2 DEF Set
    <3>2. a.read = c.read /\ a.occ
      BY <1>5, <3>1 DEF Detector
    <3> QED
      BY <1>5, <1>8, <3>2 DEF Tallied
  <2>3. CASE ~Claims(c)
    <3>1. a = c
      BY <2>1, <2>3
    <3>2. ~c.occ => c.streak < Hits \/ c.since < ClaimAfter
      <4>1. /\ c.streak \in 0..Hits /\ c.since \in -1..ClaimAfter
            /\ Hits \in Nat /\ ClaimAfter \in Nat
        BY <1>5, ConstantTypes DEF Detector
      <4>2. ~c.occ => ~(c.streak = Hits /\ c.since >= ClaimAfter)
        BY <2>3 DEF Claims
      <4> QED
        BY <4>1, <4>2
    <3> QED
      BY <1>5, <1>8, <3>1, <3>2 DEF Tallied
  <2> QED
    BY <2>2, <2>3
<1>9. CASE ~hit
  <2>1. a = IF e.occ /\ e.filled >= Grace THEN Set(e, FALSE, TRUE) ELSE e
    BY <1>1, <1>9
  <2>2. Grace \in Nat \ {0} /\ d.filled \in -1..Grace
    BY BayAssumption DEF Detector
  <2> HIDE DEF e
  <2>3. a.read = e.read /\ a.filled = e.filled /\ (a.occ <=> e.occ /\ ~(e.filled >= Grace))
    <3>1. CASE e.occ /\ e.filled >= Grace
      <4>1. a = [e EXCEPT !.occ = FALSE, !.streak = 0]
        BY <2>1, <3>1 DEF Set
      <4> QED
        BY <1>6, <3>1, <4>1 DEF Detector
    <3>2. CASE ~(e.occ /\ e.filled >= Grace)
      BY <2>1, <3>2
    <3> QED
      BY <3>1, <3>2
  <2>4. CASE d.occ /\ (Held(d) \/ d.filled = Never)
    <3>1. x = 0
      BY <1>2, <2>4
    <3>2. a.occ /\ a.filled = 0
      BY <1>6, <2>2, <2>3, <2>4, <3>1
    <3> QED
      BY <1>6, <1>9, <2>3, <2>4, <3>2 DEF Tallied
  <2>5. CASE d.occ /\ ~(Held(d) \/ d.filled = Never)
    <3>1. x = d.filled
      BY <1>2, <1>9, <2>5
    <3>2. a.filled = d.filled /\ (a.occ <=> d.filled < Grace)
      BY <1>6, <2>2, <2>3, <2>5, <3>1
    <3> QED
      BY <1>6, <1>9, <2>3, <2>5, <3>2 DEF Tallied
  <2>6. CASE ~d.occ
    BY <1>6, <1>9, <2>3, <2>6 DEF Tallied
  <2> QED
    BY <2>4, <2>5, <2>6
<1> QED
  BY <1>7, <1>8, <1>9

LEMMA FoundAs ==
  ASSUME NEW a \in Detector, NEW l \in Looks(a)
  PROVE  Found(a, l)
<1> DEFINE here == [a EXCEPT !.looked = 0, !.ghost = Forget(@)]
           anew == [seen |-> 0, still |-> 0]
<1>1. PICK g : g = Forget(a.ghost)
  OBVIOUS
<1>2. PICK o : o = Forget(a.own)
  OBVIOUS
<1>3. /\ g \in Track /\ (g # NoTrack => g = a.ghost /\ g.seen <= Lost)
      /\ o \in Track /\ (o # NoTrack => o = a.own /\ o.seen <= Lost)
  <2>1. a.ghost \in Track /\ a.own \in Track /\ Lost \in Nat
    BY ConstantTypes DEF Detector
  <2>2. a.ghost.seen \in Int /\ a.own.seen \in Int
    BY <2>1 DEF Track
  <2> QED
    BY <1>1, <1>2, <2>1, <2>2, NoTrackType DEF Forget
<1>4. /\ here.read = a.read /\ here.filled = a.filled /\ here.own = a.own /\ here.ghost = g
      /\ here \in Detector
  <2>1. 0 \in 0..LookEvery /\ here = [a EXCEPT !.looked = 0, !.ghost = g]
    BY <1>1, ConstantTypes
  <2> HIDE DEF here
  <2> QED
    BY <1>3, <2>1 DEF Detector
<1> HIDE DEF here, anew
<1>5. CASE ~Present
  <2>1. l = here
    BY <1>5 DEF Looks, here
  <2> QED
    BY <1>3, <1>4, <1>5, <2>1 DEF Found
<1>6. CASE Present /\ a.own # NoTrack /\ ~moved
  <2>1. l = [here EXCEPT !.own.seen = 0]
    BY <1>6 DEF Looks, here
  <2>2. here.own \in Track
    BY <1>4 DEF Detector
  <2>3. /\ l.own.still = here.own.still /\ l.ghost = here.ghost
        /\ l.read = here.read /\ l.filled = here.filled
    BY <1>4, <2>1, <2>2 DEF Detector, Track
  <2> QED
    BY <1>3, <1>4, <2>3 DEF Found
<1>7. CASE Present /\ a.own # NoTrack /\ moved
  <2>1. l \in {[here EXCEPT !.own = anew], [here EXCEPT !.own = anew, !.ghost = o]}
    BY <1>2, <1>7 DEF Looks, here, anew
  <2>2. l.ghost \in {here.ghost, o} /\ l.read = here.read /\ l.filled = here.filled
    BY <1>4, <2>1 DEF Detector
  <2> QED
    BY <1>3, <1>4, <1>7, <2>2 DEF Found
<1>8. CASE Present /\ a.own = NoTrack
  <2>1. \/ l = [here EXCEPT !.own = anew]
        \/ \E s \in IF a.ghost = NoTrack THEN {} ELSE {0, a.ghost.still} :
             l = [here EXCEPT !.own = [seen |-> 0, still |-> s], !.ghost = NoTrack]
    BY <1>8, Zenon DEF Looks, here, anew
  <2>2. l.ghost \in {here.ghost, NoTrack} /\ l.read = here.read /\ l.filled = here.filled
    BY <1>4, <2>1 DEF Detector
  <2> QED
    BY <1>3, <1>4, <1>8, <2>2 DEF Found
<1> QED
  BY <1>5, <1>6, <1>7, <1>8

LEMMA FrameGoes ==
  ASSUME TypeOK, NEW gap \in Nat, NEW hit \in BOOLEAN, NEW up \in BOOLEAN, Frame(gap, hit, up)
  PROVE  \E d, a, l \in Detector : Goes(gap, hit, d, a, l) /\ Runs(gap, hit, up, d, a, l)
<1> DEFINE aged == Aged(det, gap)
           d == Reloaded(IF gap >= Offline THEN Resumed(aged) ELSE aged, up)
           a == ApplyHits(d, hit, up)
           claimed == ~d.occ /\ a.filled = 0
           freed == IF d.occ /\ ~a.occ THEN Released(row) ELSE row
<1>1. d \in Detector /\ Aging(d, gap)
  BY DetectorAges, ResumedType, ReloadedType, AgedAs DEF TypeOK
<1>2. PICK l \in IF claimed \/ LookNow(a) THEN Looks(a) ELSE {a} :
        LET b == IF l.looked = 0 THEN Blocked(l, up) ELSE l IN
        /\ det' = b
        /\ row' = IF b.occ /\ ~(d.occ /\ a.occ) THEN Taken(freed) ELSE freed
        /\ bay' = IF bay = "gone" THEN "empty" ELSE bay
        /\ moved' = IF bay = "crossing" THEN TRUE ELSE moved /\ l.looked # 0
        /\ carried' = (b.streak > 0 /\ (carried \/ (det.occ /\ ~d.occ)))
  BY Zenon DEF Frame
<1>3. /\ det' = IF l.looked = 0 THEN Blocked(l, up) ELSE l
      /\ row' = IF det'.occ /\ ~(d.occ /\ a.occ) THEN Taken(freed) ELSE freed
      /\ moved' = IF bay = "crossing" THEN TRUE ELSE moved /\ l.looked # 0
      /\ bay' = IF bay = "gone" THEN "empty" ELSE bay
      /\ bay = "crossing" => moved'
      /\ carried' = (det'.streak > 0 /\ (carried \/ (det.occ /\ ~d.occ)))
  BY <1>2
<1>8. up /\ gap < Offline => Copied(d, gap)
  BY CopiedAs
<1> HIDE DEF d
<1>4. a \in Detector /\ Scored(d, a, hit)
  BY <1>1, AppliedType, AppliedAs
<1>9. up => Tallied(d, a, hit)
  BY <1>1, TalliedAs
<1> HIDE DEF a
<1>5. l \in Detector /\ ((l = a /\ ~LookNow(a)) \/ (Looked(a, l) /\ Found(a, l)))
  BY <1>2, <1>4, LooksType, LookedAs, FoundAs
<1>6. Ends(l)
  <2>1. CASE det' = l
    BY <2>1 DEF Ends
  <2>2. CASE det' = Blocked(l, up)
    <3>1. bay # "straddling" => Blocked(l, up) = l
      BY DEF Blocked
    <3>2. /\ Blocked(l, up).own = l.own /\ Blocked(l, up).ghost = l.ghost
          /\ Blocked(l, up).since = l.since /\ Blocked(l, up).looked = l.looked
          /\ Blocked(l, up).streak \in {l.streak, 0, Hits} /\ (l.occ => Blocked(l, up).occ)
      <4> DEFINE f == [l EXCEPT !.filled = 0]
                 g == [f EXCEPT !.streak = Hits]
      <4>1. /\ f.own = l.own /\ f.ghost = l.ghost /\ f.since = l.since /\ f.looked = l.looked
            /\ f.streak = l.streak /\ f.occ = l.occ /\ f \in Detector
        BY <1>5, ClockSet DEF Detector
      <4>2. Blocked(l, up) \in {l, f, Set(g, TRUE, up)}
        BY DEF Blocked
      <4> HIDE DEF f
      <4>3. /\ g.own = f.own /\ g.ghost = f.ghost /\ g.since = f.since /\ g.looked = f.looked
            /\ g.streak = Hits /\ g.occ = f.occ /\ g \in Detector
        BY <4>1, FullStreak DEF Detector
      <4> HIDE DEF g
      <4>4. /\ Set(g, TRUE, up).own = g.own /\ Set(g, TRUE, up).ghost = g.ghost
            /\ Set(g, TRUE, up).since = g.since /\ Set(g, TRUE, up).looked = g.looked
            /\ Set(g, TRUE, up).streak \in {g.streak, 0} /\ (g.occ => Set(g, TRUE, up).occ)
        BY <4>3 DEF Set, Detector
      <4> QED
        BY <4>1, <4>2, <4>3, <4>4
    <3>3. det' = l \/ l.looked = 0
      BY <1>3
    <3> QED
      BY <2>2, <3>1, <3>2, <3>3 DEF Ends
  <2> QED
    BY <1>3, <2>1, <2>2
<1>7. Goes(gap, hit, d, a, l)
  BY <1>1, <1>3, <1>4, <1>5, <1>6 DEF Goes
<1>10. d.occ = row.occ => det'.occ = row'.occ
  <2>1. a.occ => det'.occ
    <3>1. l.occ = a.occ
      BY <1>5 DEF Looked
    <3> QED
      BY <1>6, <3>1 DEF Ends
  <2>2. row \in [occ : BOOLEAN, noted : BOOLEAN] /\ det' \in Detector
    BY <1>3, <1>5, BlockedType DEF TypeOK
  <2>3. Taken(freed).occ /\ (freed.occ <=> ~(d.occ /\ ~a.occ) /\ row.occ)
    BY <2>2 DEF Taken, Released
  <2>4. d.occ \in BOOLEAN /\ det'.occ \in BOOLEAN /\ row.occ \in BOOLEAN /\ freed.occ \in BOOLEAN
    BY <1>1, <2>2 DEF Detector, Released
  <2> HIDE DEF freed
  <2> QED
    BY <1>3, <2>1, <2>3, <2>4
<1>11. /\ det'.read = l.read
       /\ up /\ bay = "straddling" /\ l.looked = 0 /\ l.own.still >= DoublePark => det'.occ
  <2> DEFINE f == [l EXCEPT !.filled = 0]
             g == [f EXCEPT !.streak = Hits]
  <2>1. f \in Detector /\ f.read = l.read /\ f.occ = l.occ
    BY <1>5, ClockSet DEF Detector
  <2> HIDE DEF f
  <2>6. g \in Detector /\ g.read = f.read
    BY <2>1, FullStreak DEF Detector
  <2> HIDE DEF g
  <2>2. /\ Set(g, TRUE, up).read = g.read
        /\ up => Set(g, TRUE, up).occ
    BY <2>6 DEF Set, Detector
  <2>3. Blocked(l, up) \in {l, f, Set(g, TRUE, up)}
    BY DEF Blocked, f, g
  <2>4. Blocked(l, up).read = l.read
    BY <2>1, <2>2, <2>3, <2>6
  <2>5. up /\ bay = "straddling" /\ l.own.still >= DoublePark => Blocked(l, up).occ
    <3> SUFFICES ASSUME up, bay = "straddling", l.own.still >= DoublePark PROVE Blocked(l, up).occ
      OBVIOUS
    <3>1. ~(bay # "straddling" \/ l.own.still < DoublePark)
      <4>1. l.own.still \in Int /\ DoublePark \in Int
        BY <1>5, ConstantTypes DEF Detector, Track
      <4> QED
        BY <4>1
    <3>2. Blocked(l, up) = IF l.occ THEN f ELSE Set(g, TRUE, up)
      BY <3>1 DEF Blocked, f, g
    <3> QED
      BY <2>1, <2>2, <3>2
  <2> QED
    BY <1>3, <2>4, <2>5
<1>12. Runs(gap, hit, up, d, a, l)
  BY <1>3, <1>5, <1>8, <1>9, <1>10, <1>11 DEF Runs
<1> QED
  BY <1>1, <1>4, <1>5, <1>7, <1>12

-----------------------------------------------------------------------------
(***************************************************************************)
(* A vehicle passing by.  While a claim forms the detector looks so often  *)
(* that a vehicle moving over the bay is seen to move before the claim is  *)
(* made; and a track taken over from the vehicle before it was last seen   *)
(* before the run of hits began.                                           *)
(***************************************************************************)
(* How the thresholds lie, in parking_camera.py: ClaimLook 0.25s, Fresh    *)
(* 0.5s, ClaimAfter 0.8s, LookEvery 2s, Lost 6s, three Hits.  The last     *)
(* conjunct, 1.0s < 0.8s + two frames, is why the sleep of a tenth of a    *)
(* second after every frame matters.                                       *)
Prompt ==
  /\ 0 < ClaimLook /\ ClaimLook <= Fresh /\ ClaimLook <= LookEvery /\ ClaimLook <= Offline
  /\ 1 < Hits /\ Fresh <= Lost
  /\ Pause \in Nat /\ \A gap \in Gaps \cup Lapses : Pause <= gap
  /\ Fresh < ClaimAfter /\ Fresh + Fresh < ClaimAfter + Pause + Pause

Dated(t) == t # NoTrack => t.seen >= 0

(* A claim is never forming without a look. *)
Looking == ~det.occ => det.streak = 0 \/ det.looked < ClaimLook

(* A vehicle on the move without a track came after the last look, or the  *)
(* next hit brings a look.                                                 *)
Unseen ==
  bay = "crossing" /\ det.own = NoTrack => lasting <= det.looked \/ det.looked >= ClaimLook

(* One seen since it set off was seen to move, or stands in for a vehicle  *)
(* left before the run of hits began.                                      *)
Moving ==
  bay = "crossing" /\ det.own # NoTrack /\ det.own.seen < lasting /\ det.own.seen <= Fresh
    /\ ~det.occ /\ ~carried
  => \/ det.own.still <= det.own.seen \/ det.since <= det.own.seen
     \/ det.since + Pause + Pause <= det.own.seen + Fresh

(* A vehicle that is gone was last seen before the run of hits began: in   *)
(* between there is a frame that shows it gone, and the first of the run.  *)
Left ==
  bay # "gone" /\ det.own = NoTrack /\ det.ghost # NoTrack /\ det.ghost.seen <= Fresh
  => /\ Pause <= det.ghost.seen
     /\ det.since # Never => det.since + Pause + Pause <= det.ghost.seen

WInv ==
  /\ TypeOK
  /\ bay = "crossing" => moved
  /\ Dated(det.own) /\ Dated(det.ghost)
  /\ Looking /\ Unseen /\ Moving /\ Left

LEMMA OlderBy ==
  ASSUME NEW limit \in Nat, NEW age \in -1..limit, NEW gap \in Nat
  PROVE  /\ Older(Never, gap, limit) = Never
         /\ age # Never => /\ Older(age, gap, limit) >= age
                           /\ Older(age, gap, limit) \in {age + gap, limit}
         /\ Older(age, gap, limit) <= age + gap
         /\ Older(age, gap, limit) \in Int
BY DEF Older, Never

LEMMA TrackFields ==
  ASSUME NEW t \in Track, NEW gap \in Nat
  PROVE  LET o == OlderTrack(t, gap) IN
         /\ o \in Track /\ (Dated(t) => Dated(o))
         /\ Dated(t) => (o = NoTrack <=> t = NoTrack)
         /\ Dated(t) /\ t # NoTrack => o.seen \in {t.seen + gap, Lost + 1} /\ o.seen >= t.seen
         /\ o.still <= t.still + gap
         /\ {t.seen, t.still, o.seen, o.still} \subseteq Int
<1> DEFINE o == OlderTrack(t, gap)
<1>1. /\ t.seen \in -1..Lost + 1 /\ t.still \in -1..DoublePark /\ Lost + 1 \in Nat /\ DoublePark \in Nat
  BY ConstantTypes DEF Track
<1>2. o.seen = Older(t.seen, gap, Lost + 1) /\ o.still = Older(t.still, gap, DoublePark)
  BY DEF OlderTrack
<1>3. o \in Track
  BY TrackAges
<1>4. /\ t.seen # Never => o.seen \in {t.seen + gap, Lost + 1} /\ o.seen >= t.seen
      /\ o.seen \in Int /\ o.still \in Int /\ o.still <= t.still + gap
  BY <1>1, <1>2, OlderBy
<1>5. t = NoTrack => o = NoTrack
  <2>1. Older(Never, gap, Lost + 1) = Never /\ Older(Never, gap, DoublePark) = Never
    BY DEF Older
  <2> QED
    BY <2>1 DEF OlderTrack, NoTrack
<1> HIDE DEF o
<1>6. t # NoTrack /\ t.seen >= 0 => t.seen # Never /\ o.seen >= 0 /\ o # NoTrack
  <2> SUFFICES ASSUME t # NoTrack, t.seen >= 0 PROVE t.seen # Never /\ o.seen >= 0 /\ o # NoTrack
    OBVIOUS
  <2>1. t.seen # Never
    BY <1>1 DEF Never
  <2>2. o.seen >= 0
    BY <1>1, <1>4, <2>1
  <2>3. NoTrack.seen = -1
    BY DEF NoTrack, Never
  <2> QED
    BY <2>1, <2>2, <2>3
<1>7. /\ o \in Track /\ (Dated(t) => Dated(o))
      /\ Dated(t) => (o = NoTrack <=> t = NoTrack)
      /\ Dated(t) /\ t # NoTrack => o.seen \in {t.seen + gap, Lost + 1} /\ o.seen >= t.seen
      /\ o.still <= t.still + gap
      /\ {t.seen, t.still, o.seen, o.still} \subseteq Int
  BY <1>1, <1>3, <1>4, <1>5, <1>6 DEF Dated
<1> QED
  BY <1>7 DEF o

(* The numbers of a detector. *)
LEMMA DetectorFields ==
  ASSUME NEW d \in Detector
  PROVE  /\ d.own \in Track /\ d.ghost \in Track /\ d.occ \in BOOLEAN
         /\ d.streak \in Nat /\ d.looked \in 0..LookEvery /\ d.since \in -1..ClaimAfter
         /\ {d.own.seen, d.own.still, d.ghost.seen, d.ghost.still} \subseteq Int
BY ConstantTypes DEF Detector, Track

LEMMA PromptTypes ==
  /\ {ClaimLook, Fresh, LookEvery, Offline, Hits, ClaimAfter, Lost, StillFor, ToldBy} \subseteq Nat
  /\ Fresh > 0 /\ ClaimAfter > 0 /\ Fresh < StillFor
  /\ \A gap \in Gaps \cup Lapses : gap \in Nat /\ gap > 0
BY BayAssumption

(* What a frame does to the clocks of a run and of a track. *)
LEMMA AgedFacts ==
  ASSUME WInv, NEW gap \in Nat, gap > 0, NEW d \in Detector, Aging(d, gap)
  PROVE  /\ Dated(d.own) /\ Dated(d.ghost)
         /\ d.own = NoTrack => gap >= Offline \/ det.own = NoTrack
         /\ d.own # NoTrack => /\ det.own # NoTrack /\ d.own.still <= det.own.still + gap
                               /\ d.own.seen \in {det.own.seen + gap, Lost + 1}
                               /\ d.since \in {Never, ClaimAfter} \/ d.since <= det.since + gap
                               /\ d.since <= det.since + gap /\ d.streak = det.streak
         /\ d.ghost # NoTrack => /\ det.ghost # NoTrack /\ (d.own = NoTrack <=> det.own = NoTrack)
                                 /\ d.ghost.seen \in {det.ghost.seen + gap, Lost + 1}
                                 /\ d.since <= det.since + gap
         /\ d.looked \in {det.looked + gap, LookEvery} /\ d.looked >= det.looked
<1>1. /\ det \in Detector /\ Dated(det.own) /\ Dated(det.ghost)
  BY DEF WInv, TypeOK
<1>2. /\ det.own \in Track /\ det.ghost \in Track
      /\ det.looked \in 0..LookEvery /\ det.since \in -1..ClaimAfter
  BY <1>1, DetectorFields
<1>3. /\ Older(det.since, gap, ClaimAfter) <= det.since + gap
      /\ Older(det.looked, gap, LookEvery) \in {det.looked + gap, LookEvery}
      /\ Older(det.looked, gap, LookEvery) >= det.looked
  <2>1. det.looked \in -1..LookEvery /\ det.looked # Never
    BY <1>2, ConstantTypes DEF Never
  <2> QED
    BY <1>2, <2>1, OlderBy, ConstantTypes
<1>4. Dated(NoTrack)
  BY DEF Dated
<1>5. CASE /\ gap < Offline
           /\ d.own = OlderTrack(det.own, gap) /\ d.ghost = OlderTrack(det.ghost, gap)
           /\ d.since = Older(det.since, gap, ClaimAfter) /\ d.streak = det.streak
  <2>1. /\ Dated(d.own) /\ (d.own = NoTrack <=> det.own = NoTrack)
        /\ (det.own # NoTrack => d.own.seen \in {det.own.seen + gap, Lost + 1})
        /\ d.own.still <= det.own.still + gap
    BY <1>1, <1>2, <1>5, TrackFields
  <2>2. /\ Dated(d.ghost) /\ (d.ghost = NoTrack <=> det.ghost = NoTrack)
        /\ (det.ghost # NoTrack => d.ghost.seen \in {det.ghost.seen + gap, Lost + 1})
    BY <1>1, <1>2, <1>5, TrackFields
  <2> QED
    BY <1>3, <1>5, <2>1, <2>2 DEF Aging
<1>6. CASE gap >= Offline /\ d.own = NoTrack /\ d.ghost = NoTrack
  BY <1>3, <1>4, <1>6 DEF Aging
<1> QED
  BY <1>5, <1>6 DEF Aging

LEMMA StartWatch == Prompt /\ Init => WInv
<1> SUFFICES ASSUME Prompt, Init PROVE WInv
  OBVIOUS
<1>1. TypeOK
  BY InitTyped
<1>2. /\ bay = "empty" /\ det.own = NoTrack /\ det.ghost = NoTrack /\ det.streak = 0
  BY DEF Init, Started
<1> QED
  BY <1>1, <1>2 DEF WInv, Dated, Looking, Unseen, Moving, Left

LEMMA LookingKept ==
  ASSUME Prompt, WInv, NEW gap \in Nat, gap > 0, NEW hit \in BOOLEAN,
         NEW d \in Detector, NEW a \in Detector, NEW l \in Detector, Goes(gap, hit, d, a, l)
  PROVE  Looking'
<1> SUFFICES ASSUME ~det'.occ PROVE det'.streak = 0 \/ det'.looked < ClaimLook
  BY DEF Looking
<1>1. /\ det'.looked = l.looked /\ ~l.occ
      /\ det'.streak \in {l.streak, 0} \/ l.looked = 0
  BY DEF Goes, Ends
<1>4. 0 < ClaimLook
  BY DEF Prompt
<1>2. CASE l = a /\ ~LookNow(a)
  <2>1. a.streak \in Nat /\ a.looked \in Int /\ ClaimLook \in Nat /\ LookEvery \in Nat
    BY DetectorFields, PromptTypes
  <2> QED
    BY <1>1, <1>2, <1>4, <2>1 DEF LookNow
<1>3. CASE Looked(a, l)
  BY <1>1, <1>3, <1>4 DEF Looked
<1> QED
  BY <1>2, <1>3 DEF Goes

LEMMA DatedKept ==
  ASSUME WInv, NEW gap \in Nat, gap > 0, NEW hit \in BOOLEAN,
         NEW d \in Detector, NEW a \in Detector, NEW l \in Detector, Goes(gap, hit, d, a, l)
  PROVE  Dated(det'.own) /\ Dated(det'.ghost)
<1>1. Dated(d.own) /\ Dated(d.ghost) /\ Dated(NoTrack)
  BY AgedFacts DEF Goes, Dated
<1>2. a.own = d.own /\ a.ghost = d.ghost /\ det'.own = l.own /\ det'.ghost = l.ghost
  BY DEF Goes, Scored, Ends
<1>3. CASE l = a
  BY <1>1, <1>2, <1>3
<1>4. CASE Looked(a, l)
  <2>1. Dated(l.ghost)
    BY <1>1, <1>2, <1>4 DEF Looked
  <2>2. Dated(l.own)
    BY <1>1, <1>2, <1>4 DEF Looked, Dated
  <2> QED
    BY <1>2, <2>1, <2>2
<1> QED
  BY <1>3, <1>4 DEF Goes

LEMMA UnseenKept ==
  ASSUME Prompt, WInv, NEW gap \in Nat, gap > 0, NEW hit \in BOOLEAN,
         NEW d \in Detector, NEW a \in Detector, NEW l \in Detector, Goes(gap, hit, d, a, l),
         bay = "crossing" => lasting' = Older(lasting, gap, ToldBy)
  PROVE  Unseen'
<1> SUFFICES ASSUME bay' = "crossing", det'.own = NoTrack
             PROVE  lasting' <= det'.looked \/ det'.looked >= ClaimLook
  BY DEF Unseen
<1>1. bay = "crossing" /\ Present
  BY DEF Goes, Present
<1>2. det' = l /\ a.own = d.own /\ a.looked = d.looked
  BY <1>1 DEF Goes, Ends, Scored
<1>3. ~Looked(a, l)
  BY <1>1, <1>2 DEF Looked, NoTrack, Never
<1>4. l = a
  BY <1>3 DEF Goes
<1>5. /\ det.looked \in Nat /\ lasting \in Nat /\ ToldBy \in Nat /\ LookEvery \in Nat
      /\ ClaimLook \in Nat /\ Offline \in Nat
      /\ d.looked \in {det.looked + gap, LookEvery} /\ d.looked >= det.looked
  BY AgedFacts, DetectorFields, PromptTypes DEF WInv, TypeOK, Goes
<1>6. lasting' <= lasting + gap
  <2>1. lasting \in -1..ToldBy
    BY DEF WInv, TypeOK
  <2> QED
    BY <1>1, <1>5, <2>1, OlderBy
<1>7. lasting' \in Int
  <2>1. lasting \in -1..ToldBy
    BY DEF WInv, TypeOK
  <2> QED
    BY <1>1, <1>5, <2>1, OlderBy
<1>8. CASE gap >= Offline
  BY <1>2, <1>4, <1>5, <1>8 DEF Prompt
<1>9. CASE det.own = NoTrack
  <2>1. lasting <= det.looked \/ det.looked >= ClaimLook
    BY <1>1, <1>9 DEF WInv, Unseen
  <2> QED
    BY <1>2, <1>4, <1>5, <1>6, <1>7, <2>1 DEF Prompt
<1> QED
  BY <1>2, <1>4, <1>8, <1>9, AgedFacts DEF Goes

(* The run of hits after a frame, on a bay that is free and whose run is   *)
(* its own: it has begun, or gone on, or is not there.                     *)
LEMMA RunAfter ==
  ASSUME Prompt, WInv, NEW gap \in Nat, gap > 0, NEW hit \in BOOLEAN,
         NEW d \in Detector, NEW a \in Detector, NEW l \in Detector, Goes(gap, hit, d, a, l),
         bay # "straddling"
  PROVE  /\ l = det' /\ l.since = a.since /\ l.since \in Int
         /\ ~l.occ => a.since \in {0, Never} \/ (a.since = d.since /\ ~Suppressed(d) /\ ~d.occ)
                                             \/ (a.since = d.since /\ d.occ /\ a.occ)
         /\ ~l.occ /\ ~carried' /\ a.since = d.since /\ ~Suppressed(d) /\ ~d.occ =>
              a.since \in {0, Never} \/ (~det.occ /\ ~carried)
<1>1. l = det' /\ l.since = a.since /\ l.occ = a.occ /\ l.streak = a.streak
  BY DEF Goes, Ends, Looked
<1>2. l.since \in Int
  BY DetectorFields
<1>3. Scored(d, a, hit)
  BY DEF Goes
<1>4. ~l.occ => a.since \in {0, Never} \/ (a.since = d.since /\ ~Suppressed(d) /\ ~d.occ)
                                       \/ (a.since = d.since /\ d.occ /\ a.occ)
  BY <1>1, <1>3 DEF Scored, RunSince
<1>5. ASSUME ~l.occ, ~carried', ~Suppressed(d), ~d.occ, a.since \notin {0, Never}
      PROVE  ~det.occ /\ ~carried
  <2>1. a.streak > 0
    BY <1>1, <1>3, <1>5 DEF Scored
  <2>2. det'.streak > 0
    BY <1>1, <2>1
  <2> QED
    BY <1>5, <2>2 DEF Goes
<1> QED
  BY <1>1, <1>2, <1>4, <1>5

LEMMA LeftKept ==
  ASSUME Prompt, WInv, NEW gap \in Nat, gap > 0, Pause <= gap, NEW hit \in BOOLEAN,
         NEW d \in Detector, NEW a \in Detector, NEW l \in Detector, Goes(gap, hit, d, a, l),
         bay = "gone" => ~hit
  PROVE  Left'
<1> SUFFICES ASSUME bay' # "gone", det'.own = NoTrack, det'.ghost # NoTrack, det'.ghost.seen <= Fresh
             PROVE  /\ Pause <= det'.ghost.seen
                    /\ det'.since # Never => det'.since + Pause + Pause <= det'.ghost.seen
  BY DEF Left
<1>1. /\ det'.own = l.own /\ det'.ghost = l.ghost /\ det'.since = l.since
      /\ Scored(d, a, hit) /\ Aging(d, gap)
  BY DEF Goes, Ends
<1>2. l.own = a.own /\ l.ghost = a.ghost /\ l.since = a.since
  <2>1. CASE l = a
    BY <2>1
  <2>2. CASE Looked(a, l)
    <3>1. NoTrack.seen = -1
      BY DEF NoTrack, Never
    <3>2. l.own # [seen |-> 0, still |-> 0] /\ l.own # [seen |-> 0, still |-> a.ghost.still]
      BY <1>1, <3>1
    <3> QED
      BY <1>1, <2>2, <3>2 DEF Looked
  <2> QED
    BY <2>1, <2>2 DEF Goes
<1>3. a.own = d.own /\ a.ghost = d.ghost /\ d.own = NoTrack /\ d.ghost # NoTrack
  BY <1>1, <1>2 DEF Scored
<1>4. /\ det.ghost # NoTrack /\ det.own = NoTrack /\ d.since <= det.since + gap
      /\ d.ghost.seen \in {det.ghost.seen + gap, Lost + 1}
  BY <1>1, <1>3, AgedFacts
<1>5. /\ det.ghost.seen \in Int /\ det.ghost.seen >= 0 /\ Fresh \in Nat /\ Lost \in Nat /\ Fresh <= Lost
      /\ det.since \in Int /\ d.since \in Int /\ d.ghost.seen \in Int /\ Pause \in Nat
      /\ ClaimAfter \in Nat /\ ClaimAfter > 0 /\ Fresh < ClaimAfter
      /\ det.since = Never => d.since = Never
  <2>1. det \in Detector /\ Dated(det.ghost) /\ Older(Never, gap, ClaimAfter) = Never
    BY DEF WInv, TypeOK, Older
  <2>2. det.since = Never => d.since = Never
    BY <1>1, <2>1 DEF Aging
  <2> QED
    BY <1>4, <2>1, <2>2, DetectorFields, PromptTypes DEF Dated, Prompt
<1>6. d.ghost.seen = det.ghost.seen + gap /\ det.ghost.seen <= Fresh /\ d.ghost.seen <= Fresh
      /\ det'.ghost.seen = d.ghost.seen /\ det'.since = a.since
  BY <1>1, <1>2, <1>3, <1>4, <1>5
<1>7. Pause <= d.ghost.seen
  BY <1>5, <1>6
<1>8. CASE bay = "gone"
  <2>1. a.since = Never
    BY <1>1, <1>8 DEF Scored
  <2> QED
    BY <1>6, <1>7, <2>1
<1>9. CASE bay # "gone"
  <2>1. Pause <= det.ghost.seen /\ (det.since # Never => det.since + Pause + Pause <= det.ghost.seen)
    BY <1>4, <1>6, <1>9 DEF WInv, Left
  <2>2. Pause + Pause <= d.ghost.seen /\ (d.since # Never => d.since + Pause + Pause <= d.ghost.seen)
    BY <1>4, <1>5, <1>6, <2>1
  <2>3. RunSince(d) < ClaimAfter
    BY <1>5, <1>6, <2>2 DEF RunSince
  <2>4. ~(RunSince(d) >= ClaimAfter)
    <3>1. RunSince(d) \in Int
      BY <1>5 DEF RunSince
    <3> QED
      BY <1>5, <2>3, <3>1
  <2>5. a.since \in {0, Never, d.since}
    BY <1>1, <2>4 DEF Scored, RunSince
  <2> QED
    BY <1>5, <1>6, <1>7, <2>2, <2>5
<1> QED
  BY <1>8, <1>9

LEMMA MovingKept ==
  ASSUME Prompt, WInv, NEW gap \in Nat, gap > 0, NEW hit \in BOOLEAN,
         NEW d \in Detector, NEW a \in Detector, NEW l \in Detector, Goes(gap, hit, d, a, l),
         bay = "crossing" => lasting' = Older(lasting, gap, ToldBy)
  PROVE  Moving'
<1> SUFFICES ASSUME bay' = "crossing", det'.own # NoTrack, det'.own.seen < lasting',
                    det'.own.seen <= Fresh, ~det'.occ, ~carried'
             PROVE  \/ det'.own.still <= det'.own.seen \/ det'.since <= det'.own.seen
                    \/ det'.since + Pause + Pause <= det'.own.seen + Fresh
  BY DEF Moving
<1>1. bay = "crossing" /\ Present /\ moved
  BY DEF Goes, Present, WInv
<1>2. /\ l = det' /\ l.since = a.since /\ l.since \in Int
      /\ a.since \in {0, Never} \/ (a.since = d.since /\ ~Suppressed(d) /\ ~d.occ)
                                \/ (a.since = d.since /\ d.occ /\ a.occ)
      /\ a.since = d.since /\ ~Suppressed(d) /\ ~d.occ =>
           a.since \in {0, Never} \/ (~det.occ /\ ~carried)
  BY <1>1, RunAfter
<1>3. /\ a.own = d.own /\ a.ghost = d.ghost /\ Aging(d, gap) /\ Scored(d, a, hit)
      /\ l.occ = a.occ /\ ~a.occ
  BY <1>2 DEF Goes, Scored, Looked
<1>4. /\ Fresh \in Nat /\ Fresh > 0 /\ Lost \in Nat /\ Fresh <= Lost
      /\ det.since \in Int /\ d.since \in Int
      /\ {det.own.seen, det.own.still, d.own.seen, d.own.still} \subseteq Int
      /\ {det.ghost.seen, d.ghost.seen, d.ghost.still} \subseteq Int
      /\ {l.own.seen, l.own.still} \subseteq Int /\ Pause \in Nat /\ a.since \in Int
  <2>1. det \in Detector
    BY DEF WInv, TypeOK
  <2> QED
    BY <2>1, DetectorFields, PromptTypes DEF Prompt
<1>5. CASE l = a
  <2>1. l.own = d.own /\ d.own # NoTrack
    BY <1>2, <1>3, <1>5
  <2>2. /\ det.own # NoTrack /\ d.own.still <= det.own.still + gap
        /\ d.own.seen \in {det.own.seen + gap, Lost + 1} /\ d.since <= det.since + gap
    BY <1>3, <2>1, AgedFacts
  <2>3. det.own.seen >= 0
    BY <2>2 DEF WInv, Dated
  <2>4. d.own.seen = det.own.seen + gap /\ det.own.seen <= Fresh
    BY <1>2, <1>4, <2>1, <2>2, <2>3
  <2>5. det.own.seen < lasting
    <3>1. lasting \in -1..ToldBy /\ ToldBy \in Nat /\ lasting \in Int
      BY PromptTypes DEF WInv, TypeOK
    <3>2. lasting' <= lasting + gap /\ lasting' \in Int
      BY <1>1, <3>1, OlderBy
    <3> QED
      BY <1>2, <1>4, <2>1, <2>4, <3>1, <3>2
  <2>6. CASE a.since \in {0, Never}
    BY <1>2, <1>4, <2>1, <2>3, <2>4, <2>6 DEF Never
  <2>7. CASE a.since = d.since /\ ~det.occ /\ ~carried
    <3>1. \/ det.own.still <= det.own.seen \/ det.since <= det.own.seen
          \/ det.since + Pause + Pause <= det.own.seen + Fresh
      BY <1>1, <2>2, <2>4, <2>5, <2>7 DEF WInv, Moving
    <3> QED
      BY <1>2, <1>4, <2>1, <2>2, <2>4, <2>7, <3>1
  <2> QED
    BY <1>2, <1>3, <2>6, <2>7
<1>6. CASE Looked(a, l)
  <2>1. CASE l.own = [seen |-> 0, still |-> 0]
    BY <1>2, <2>1
  <2>2. CASE /\ a.own = NoTrack /\ a.ghost # NoTrack
             /\ l.own = [seen |-> 0, still |-> a.ghost.still]
    <3>1. l.own.seen = 0
      BY <2>2
    <3>2. CASE a.since \in {0, Never}
      BY <1>2, <1>4, <3>1, <3>2 DEF Never
    <3>3. CASE a.since = d.since /\ ~Suppressed(d) /\ a.since # Never
      <4>1. d.ghost # NoTrack /\ d.own = NoTrack
        BY <1>3, <2>2
      <4>2. d.ghost.seen <= Fresh
        BY <3>3, <4>1 DEF Suppressed, Tracks, SeenStill
      <4>3. /\ det.ghost # NoTrack /\ det.own = NoTrack /\ d.since <= det.since + gap
            /\ d.ghost.seen \in {det.ghost.seen + gap, Lost + 1}
        BY <1>3, <4>1, AgedFacts
      <4>4. d.ghost.seen = det.ghost.seen + gap /\ det.ghost.seen <= Fresh
        BY <1>4, <4>2, <4>3
      <4>5. det.since # Never => det.since + Pause + Pause <= det.ghost.seen
        BY <1>1, <4>3, <4>4 DEF WInv, Left
      <4>6. det.since # Never
        <5>1. Older(Never, gap, ClaimAfter) = Never
          BY DEF Older
        <5> QED
          BY <1>3, <3>3, <5>1 DEF Aging
      <4> QED
        BY <1>2, <1>4, <3>1, <3>3, <4>2, <4>3, <4>4, <4>5, <4>6
    <3> QED
      BY <1>2, <1>3, <3>2, <3>3
  <2> QED
    BY <1>1, <1>6, <2>1, <2>2 DEF Looked
<1> QED
  BY <1>5, <1>6 DEF Goes

(* A frame that takes a bay with a vehicle moving over it. *)
LEMMA TakenInTime ==
  ASSUME Prompt, WInv, NEW gap \in Nat, gap > 0, NEW hit \in BOOLEAN,
         NEW d \in Detector, NEW a \in Detector, NEW l \in Detector, Goes(gap, hit, d, a, l),
         bay = "crossing", ~row.occ, ~det.occ, det'.occ, ~carried
  PROVE  lasting < Fresh
<1> SUFFICES ASSUME lasting >= Fresh PROVE FALSE
  <2>1. lasting \in Int /\ Fresh \in Int
    BY PromptTypes DEF WInv, TypeOK
  <2> QED
    BY <2>1
<1>1. ~d.occ /\ det' = l /\ l.occ = a.occ /\ a.occ
  BY DEF Goes, Aging, Ends, Looked
<1>2. ~Suppressed(d) /\ Hits <= d.streak + 1 /\ RunSince(d) >= ClaimAfter
  BY <1>1 DEF Goes, Scored
<1>3. /\ {Fresh, ClaimLook, Hits, Lost, ClaimAfter, StillFor, ToldBy} \subseteq Nat /\ lasting \in Int
      /\ Fresh > 0 /\ ClaimAfter > 0 /\ Fresh < StillFor
      /\ det.looked \in Int /\ d.streak \in Int /\ det.since \in Int /\ d.since \in Int
      /\ {det.own.seen, det.own.still, d.own.seen, d.own.still} \subseteq Int
  <2>1. det \in Detector /\ lasting \in Int
    BY PromptTypes DEF WInv, TypeOK
  <2> QED
    BY <2>1, DetectorFields, PromptTypes
<1>4. d.since # Never /\ d.since >= ClaimAfter
  BY <1>2, <1>3 DEF RunSince
<1>5. /\ d.own = OlderTrack(det.own, gap) /\ d.since = Older(det.since, gap, ClaimAfter)
      /\ d.streak = det.streak
  BY <1>4 DEF Goes, Aging
<1>6. d.since <= det.since + gap
  <2>1. det \in Detector /\ ClaimAfter \in Nat
    BY PromptTypes DEF WInv, TypeOK
  <2>2. det.since \in -1..ClaimAfter
    BY <2>1, DetectorFields
  <2>3. Older(det.since, gap, ClaimAfter) <= det.since + gap
    BY <2>1, <2>2, OlderBy
  <2> QED
    BY <1>5, <2>3
<1>7. CASE det.own = NoTrack
  <2>1. lasting <= det.looked \/ det.looked >= ClaimLook
    BY <1>7 DEF WInv, Unseen
  <2>2. det.streak = 0 \/ det.looked < ClaimLook
    BY DEF WInv, Looking
  <2> QED
    BY <1>2, <1>3, <1>5, <2>1, <2>2 DEF Prompt
<1>8. CASE det.own # NoTrack
  <2>1. det.own \in Track /\ Dated(det.own) /\ det.own.seen >= 0
    BY <1>8, DetectorFields DEF WInv, TypeOK, Dated
  <2>2. /\ d.own # NoTrack /\ d.own.still <= det.own.still + gap
        /\ d.own.seen \in {det.own.seen + gap, Lost + 1}
    BY <1>5, <1>8, <2>1, TrackFields
  <2>3. d.own.seen <= Fresh /\ d.own.still >= StillFor
    BY <1>2, <2>2 DEF Suppressed, Tracks, SeenStill
  <2>4. d.own.seen = det.own.seen + gap /\ det.own.seen < Fresh
    BY <1>3, <2>1, <2>2, <2>3 DEF Prompt
  <2>5. \/ det.own.still <= det.own.seen \/ det.since <= det.own.seen
        \/ det.since + Pause + Pause <= det.own.seen + Fresh
    BY <1>3, <1>8, <2>4 DEF WInv, Moving
  <2>6. CASE det.own.still <= det.own.seen
    BY <1>3, <2>2, <2>3, <2>4, <2>6
  <2>7. CASE det.since <= det.own.seen
    BY <1>3, <1>4, <1>6, <2>3, <2>4, <2>7 DEF Prompt
  <2>8. CASE det.since + Pause + Pause <= det.own.seen + Fresh
    BY <1>3, <1>4, <1>6, <2>3, <2>4, <2>8 DEF Prompt
  <2> QED
    BY <2>5, <2>6, <2>7, <2>8
<1> QED
  BY <1>7, <1>8

LEMMA FrameKeepsW ==
  ASSUME Prompt, WInv, TypeOK', NEW gap \in Gaps \cup Lapses, NEW hit \in Readings,
         NEW up \in BOOLEAN, Frame(gap, hit, up),
         bay = "crossing" => lasting' = Older(lasting, gap, ToldBy)
  PROVE  WInv'
<1>1. gap \in Nat /\ gap > 0 /\ Pause <= gap /\ hit \in BOOLEAN /\ TypeOK
  BY PromptTypes, ReadingsType DEF WInv, Prompt
<1>2. PICK d, a, l \in Detector : Goes(gap, hit, d, a, l)
  BY <1>1, FrameGoes
<1>3. Looking'
  BY <1>1, <1>2, LookingKept
<1>4. (Dated(det.own) /\ Dated(det.ghost))'
  BY <1>1, <1>2, DatedKept DEF Dated
<1>5. Unseen'
  BY <1>1, <1>2, UnseenKept
<1>6. Moving'
  BY <1>1, <1>2, MovingKept
<1>7. Left'
  <2>1. bay = "gone" => ~hit
    BY DEF Readings
  <2> QED
    BY <1>1, <1>2, <2>1, LeftKept
<1>8. (bay = "crossing" => moved)'
  <2>1. bay' = "crossing" => bay = "crossing"
    BY <1>2 DEF Goes
  <2> QED
    BY <1>2, <2>1 DEF Goes
<1> QED
  BY <1>3, <1>4, <1>5, <1>6, <1>7, <1>8 DEF WInv

LEMMA NextKeepsW == Prompt /\ WInv /\ [Next]_vars => WInv'
<1> SUFFICES ASSUME Prompt, WInv, [Next]_vars PROVE WInv'
  OBVIOUS
<1>1. TypeOK'
  BY NextTyped DEF WInv
<1>2. /\ det.looked \in Nat /\ lasting \in 0..ToldBy /\ lasting \in Nat
      /\ {ClaimLook, LookEvery, ToldBy} \subseteq Nat
  BY DetectorFields, PromptTypes DEF WInv, TypeOK
<1>3. CASE Score
  <2>1. PICK gap \in Gaps, hit \in Readings :
          /\ Frame(gap, hit, TRUE)
          /\ lasting' = IF bay = "gone" THEN 0 ELSE Older(lasting, gap, ToldBy)
    BY <1>3 DEF Score
  <2> QED
    BY <1>1, <2>1, FrameKeepsW
<1>4. CASE Stumble
  <2>1. PICK gap \in Gaps \cup Lapses, hit \in Readings, up \in BOOLEAN :
          Frame(gap, hit, up) /\ Disturbed(gap)
    BY <1>4 DEF Stumble
  <2>2. bay = "crossing" => lasting' = Older(lasting, gap, ToldBy)
    BY <2>1 DEF Disturbed
  <2> QED
    BY <1>1, <2>1, <2>2, FrameKeepsW
<1>5. CASE Restart
  <2>1. /\ det'.own = NoTrack /\ det'.ghost = NoTrack /\ det'.streak = 0
        /\ det'.looked = LookEvery /\ bay' = bay /\ moved' = moved
    BY <1>5 DEF Restart, Started
  <2>2. (Dated(det.own) /\ Dated(det.ghost))'
    BY <2>1 DEF Dated
  <2>3. Looking' /\ Unseen' /\ Moving' /\ Left'
    BY <1>2, <2>1 DEF Looking, Unseen, Moving, Left, Prompt
  <2> QED
    BY <1>1, <2>1, <2>2, <2>3 DEF WInv
<1>6. CASE Change
  <2>1. bay' \in Becomes[bay] /\ lasting' = 0 /\ moved' = (bay' = "crossing" \/ (moved /\ bay' # "gone"))
    BY <1>6 DEF Change
  <2>2. bay # "gone"
    <3>1. Becomes["gone"] = {}
      BY DEF Becomes
    <3> QED
      BY <2>1, <3>1
  <2>3. CASE bay' = "gone" /\ det.own # NoTrack
    <3>1. det \in Detector /\ det' = [det EXCEPT !.own = NoTrack, !.ghost = det.own]
      BY <1>6, <2>3 DEF Change, WInv, TypeOK
    <3>2. /\ det'.own = NoTrack /\ det'.ghost = det.own
          /\ det'.occ = det.occ /\ det'.streak = det.streak /\ det'.looked = det.looked
      BY <3>1 DEF Detector
    <3>3. (Dated(det.own) /\ Dated(det.ghost))'
      BY <3>2 DEF WInv, Dated
    <3>4. Looking'
      BY <3>2 DEF WInv, Looking
    <3>5. Unseen' /\ Moving' /\ Left' /\ (bay = "crossing" => moved)'
      BY <2>3 DEF Unseen, Moving, Left
    <3> QED
      BY <1>1, <3>3, <3>4, <3>5 DEF WInv
  <2>4. CASE ~(bay' = "gone" /\ det.own # NoTrack)
    <3>1. det' = det
      BY <1>6, <2>4 DEF Change
    <3>2. (Dated(det.own) /\ Dated(det.ghost))' /\ Looking'
      BY <3>1 DEF WInv, Dated, Looking
    <3>3. Unseen'
      BY <1>2, <2>1, <3>1 DEF Unseen
    <3>4. Moving'
      <4>1. det.own # NoTrack => ~(det.own.seen < 0)
        <5>1. det.own.seen \in Int
          BY DetectorFields DEF WInv, TypeOK
        <5> QED
          BY <5>1 DEF WInv, Dated
      <4> QED
        BY <2>1, <3>1, <4>1 DEF Moving
    <3>5. Left'
      BY <2>2, <3>1 DEF WInv, Left
    <3> QED
      BY <1>1, <2>1, <3>2, <3>3, <3>4, <3>5 DEF WInv
  <2> QED
    BY <2>3, <2>4
<1>7. ASSUME NEW occ \in BOOLEAN, Mark(occ) PROVE WInv'
  <2>1. det' = det /\ bay' = bay /\ moved' = moved /\ carried' = carried /\ Disturbed(0)
    BY <1>7 DEF Mark
  <2>2. bay = "crossing" => lasting' = lasting
    <3>1. Older(lasting, 0, ToldBy) = lasting
      BY <1>2 DEF Older, Never
    <3> QED
      BY <2>1, <3>1 DEF Disturbed
  <2>3. (Dated(det.own) /\ Dated(det.ghost))' /\ Looking' /\ Left'
    BY <2>1 DEF WInv, Dated, Looking, Left
  <2>4. Unseen' /\ Moving'
    BY <2>1, <2>2 DEF WInv, Unseen, Moving
  <2> QED
    BY <1>1, <2>1, <2>3, <2>4 DEF WInv
<1>8. CASE BeginNote \/ WriteNote \/ ClearNote \/ BeginEdit \/ EndEdit \/ UNCHANGED vars
  <2>1. UNCHANGED <<det, bay, moved, lasting, carried>>
    BY <1>8 DEF BeginNote, WriteNote, ClearNote, BeginEdit, EndEdit, vars
  <2> QED
    BY <1>1, <2>1 DEF WInv, Dated, Looking, Unseen, Moving, Left
<1> QED
  BY <1>3, <1>4, <1>5, <1>6, <1>7, <1>8 DEF Next

LEMMA NextPasses ==
  Prompt /\ WInv /\ [Next]_vars =>
    [~row.occ /\ ~det.occ /\ det'.occ /\ ~carried => (bay = "crossing" => lasting < Fresh)]_vars
<1> SUFFICES ASSUME Prompt, WInv, [Next]_vars,
                    ~row.occ, ~det.occ, det'.occ, ~carried, bay = "crossing"
             PROVE  lasting < Fresh
  OBVIOUS
<1>1. CASE Score \/ Stumble
  <2>1. PICK gap \in Gaps \cup Lapses, hit \in Readings, up \in BOOLEAN : Frame(gap, hit, up)
    BY <1>1 DEF Score, Stumble
  <2>2. gap \in Nat /\ gap > 0 /\ hit \in BOOLEAN /\ TypeOK
    BY <2>1, PromptTypes, ReadingsType DEF WInv
  <2>3. PICK d, a, l \in Detector : Goes(gap, hit, d, a, l)
    BY <2>1, <2>2, FrameGoes
  <2> QED
    BY <2>2, <2>3, TakenInTime
<1>2. CASE Restart
  BY <1>2 DEF Restart, Started
<1>3. CASE Change
  <2>1. det \in Detector
    BY DEF WInv, TypeOK
  <2>2. det'.occ = det.occ
    BY <1>3, <2>1 DEF Change, Detector
  <2> QED
    BY <2>2
<1>4. ASSUME NEW occ \in BOOLEAN, Mark(occ) PROVE FALSE
  BY <1>4 DEF Mark
<1>5. CASE BeginNote \/ WriteNote \/ ClearNote \/ BeginEdit \/ EndEdit \/ UNCHANGED vars
  BY <1>5 DEF BeginNote, WriteNote, ClearNote, BeginEdit, EndEdit, vars
<1> QED
  BY <1>1, <1>2, <1>3, <1>4, <1>5 DEF Next

(* A vehicle on the move never takes the bay it passes: the detector,      *)
(* asked so often while a claim is forming that no look is older than      *)
(* what is believed of it, has then seen it move.  It holds whatever the   *)
(* rhythm of the frames, as long as the thread sleeps between them, and    *)
(* through outages, failed writes and restarts, whoever marks the bay      *)
(* meanwhile.                                                              *)
THEOREM NotTakenInPassing ==
  ASSUME Prompt
  PROVE  Spec => NeverTakenInPassing
<1>1. Prompt
  OBVIOUS
<1>2. Init => WInv
  BY <1>1, StartWatch
<1>3. WInv /\ [Next]_vars => WInv'
  BY <1>1, NextKeepsW
<1>4. WInv /\ [Next]_vars =>
        [~row.occ /\ ~det.occ /\ det'.occ /\ ~carried => (bay = "crossing" => lasting < Fresh)]_vars
  BY <1>1, NextPasses
<1> QED
  BY <1>2, <1>3, <1>4, PTL DEF Spec, NeverTakenInPassing

-----------------------------------------------------------------------------
(***************************************************************************)
(* A bay that stays as it is.  The row comes to tell of it: the copy is    *)
(* read again, the tracks of the vehicles before are forgotten, the one    *)
(* there is seen to have come to rest, and then the grace of an empty bay  *)
(* runs out, a run of hits makes a claim, or the vehicle across the line   *)
(* has stood there long enough.  What each step takes bounds how long the  *)
(* bay can have been as it is while the step is still to come.             *)
(***************************************************************************)
Larger(x, y) == IF x >= y THEN x ELSE y

(* A vehicle at rest is found at rest; an empty bay, or a copy that says   *)
(* it is free, is taken for what it is; a vehicle across the line is seen  *)
(* to stay; nothing keeps a vehicle in the bay from being claimed; a run   *)
(* of hits has begun.                                                      *)
Settled == LookEvery - 1 + Rhythm
Emptied == Rhythm + Larger(Lost + LookEvery, Ttl) - 1
Straddled == Larger(Settled + DoublePark - 1, Ttl - 1 + Rhythm)
Believed == Larger(Larger(Lost + LookEvery - 1, Settled + StillFor - 1), Ttl - 1)
Begun == Believed + Rhythm + Rhythm + LookEvery - 1

(* What it takes of the thresholds and of the frames: while a claim forms  *)
(* the last look is believed until the next (ClaimLook 0.25s and a frame,  *)
(* 0.1s of sleep and 0.09s of inference, within Fresh 0.5s); a frame in    *)
(* the rhythm is no outage (10s); a vehicle that blocks two bays (12s) is  *)
(* settled (3s) and still (0.5s).  ToldBy is then no less than the sum of  *)
(* what the steps take.                                                    *)
Steadily ==
  /\ Rhythm \in Nat \ {0} /\ Rhythm < Offline /\ \A gap \in Gaps : gap <= Rhythm
  /\ 0 < ClaimLook /\ ClaimLook <= LookEvery /\ ClaimLook + Rhythm <= Fresh + 1
  /\ HoldStill <= DoublePark /\ StillFor <= DoublePark
  /\ Emptied + Grace <= ToldBy
  /\ Straddled + LookEvery <= ToldBy
  /\ Begun + Rhythm + ClaimAfter <= ToldBy /\ Begun + Hits * Rhythm <= ToldBy

Rests == bay \in {"standing", "straddling"}

Stays == bay = "empty" \/ Rests

(* A track has both its clocks; one is kept for a vehicle that is there,   *)
(* and was renewed by the last look.                                       *)
Timed(t) == t # NoTrack => t.seen >= 0 /\ t.still >= 0

Watched ==
  /\ Timed(det.own) /\ Timed(det.ghost)
  /\ ~Present => det.own = NoTrack
  /\ det.own # NoTrack => det.own.seen <= det.looked

(* A copy that differs from the row was read before the bay was disturbed. *)
CopyTrue ==
  Stays /\ det.occ # row.occ => lasting = 0 \/ (lasting <= det.read /\ det.read < Ttl)

LooksOn == Stays /\ lasting > 0 => det.looked < LookEvery

(* A track from before is as old, and lives until the look that forgets it. *)
Behind(t) == t.seen >= lasting \/ t.seen = Lost + 1

TracksLeft ==
  Stays => /\ det.ghost # NoTrack => Behind(det.ghost) /\ lasting <= Lost + det.looked
           /\ moved /\ det.own # NoTrack => Behind(det.own)

(* An empty bay that is taken is in its grace. *)
Emptying ==
  bay = "empty" /\ det.occ /\ lasting > 0 =>
    det.filled >= 0 /\ det.filled < Grace /\ lasting <= Emptied + det.filled

(* A vehicle at rest is at rest in its track, from the first look on.      *)
Resting ==
  Rests => /\ moved \/ det.own = NoTrack => lasting <= det.looked
           /\ det.own # NoTrack /\ ~moved =>
                det.own.still >= lasting - Settled \/ det.own.still = DoublePark

(* One across the line takes the bay at the first look that sees it stay.  *)
TakingBoth == bay = "straddling" /\ ~det.occ => lasting <= Straddled + det.looked

(* Once nothing keeps a vehicle from being claimed, a run of hits begins,  *)
(* is not broken off, and is made by its clock and by its count.           *)
Forming ==
  bay = "standing" /\ ~det.occ /\ lasting > 0 =>
    /\ det.streak > 0 => det.since >= 0
    /\ det.since < ClaimAfter \/ det.streak < Hits
    /\ lasting > Believed /\ det.streak = 0 =>
         \/ lasting <= Believed + Rhythm + det.looked
         \/ det.looked = 0 /\ lasting <= Begun
    /\ lasting > Believed /\ det.streak > 0 =>
         /\ det.looked < ClaimLook
         /\ lasting <= Begun + Rhythm + det.since \/ det.since = ClaimAfter
         /\ lasting <= Begun + det.streak * Rhythm \/ det.streak = Hits

Telling ==
  CopyTrue /\ LooksOn /\ TracksLeft /\ Emptying /\ Resting /\ TakingBoth /\ Forming

TInv == TypeOK /\ Watched /\ Telling

(* The numbers of the constants. *)
LEMMA SteadyTypes ==
  ASSUME Steadily
  PROVE  /\ Rhythm \in Nat /\ Rhythm > 0 /\ Hits \in Nat /\ Hits > 0
         /\ {Offline, ClaimAfter, Grace, Fresh, StillFor, HoldStill, DoublePark, Lost} \subseteq Nat
         /\ {LookEvery, ClaimLook, Ttl, ToldBy} \subseteq Nat
         /\ ClaimAfter > 0 /\ Grace > 0 /\ DoublePark > 0 /\ LookEvery > 0 /\ StillFor > 0
         /\ \A gap \in Gaps : gap \in Nat /\ gap > 0 /\ gap <= Rhythm /\ gap < Offline
<1>1. /\ {Offline, ClaimAfter, Grace, Fresh, StillFor, HoldStill, DoublePark, Lost, Hits} \subseteq Nat
      /\ {LookEvery, ClaimLook, Ttl, ToldBy} \subseteq Nat
      /\ Hits > 0 /\ ClaimAfter > 0 /\ Grace > 0 /\ DoublePark > 0 /\ StillFor > 0
      /\ \A gap \in Gaps : gap \in Nat /\ gap > 0
  BY BayAssumption
<1>2. /\ Rhythm \in Nat /\ Rhythm > 0 /\ Rhythm < Offline /\ \A gap \in Gaps : gap <= Rhythm
      /\ 0 < ClaimLook /\ ClaimLook <= LookEvery
  BY DEF Steadily
<1>3. LookEvery > 0
  BY <1>1, <1>2
<1>4. \A gap \in Gaps : gap < Offline
  <2> TAKE gap \in Gaps
  <2>1. gap \in Nat /\ gap <= Rhythm
    BY <1>1, <1>2
  <2>2. Offline \in Nat /\ Rhythm \in Nat /\ Rhythm < Offline
    BY <1>1, <1>2
  <2> QED
    BY <2>1, <2>2
<1> QED
  BY <1>1, <1>2, <1>3, <1>4

LEMMA SteadyBounds ==
  ASSUME Steadily
  PROVE  /\ Settled \in Int /\ Settled = LookEvery - 1 + Rhythm
         /\ Emptied \in Int /\ Emptied >= Rhythm + Lost + LookEvery - 1 /\ Emptied >= Rhythm + Ttl - 1
         /\ Straddled \in Int /\ Straddled >= Settled + DoublePark - 1 /\ Straddled >= Ttl - 1 + Rhythm
         /\ Believed \in Int /\ Believed >= Lost + LookEvery - 1 /\ Believed >= Settled + StillFor - 1
         /\ Believed >= Ttl - 1
         /\ Begun \in Int /\ Begun = Believed + Rhythm + Rhythm + LookEvery - 1
<1>1. /\ Rhythm \in Nat /\ {StillFor, DoublePark, Lost, LookEvery, Ttl} \subseteq Nat
  BY SteadyTypes
<1>2. Settled \in Int /\ Settled = LookEvery - 1 + Rhythm
  BY <1>1 DEF Settled
<1>3. \A x, y \in Int : Larger(x, y) \in Int /\ Larger(x, y) >= x /\ Larger(x, y) >= y
  BY DEF Larger
<1>4. /\ Emptied \in Int /\ Emptied >= Rhythm + Lost + LookEvery - 1 /\ Emptied >= Rhythm + Ttl - 1
  BY <1>1 DEF Emptied, Larger
<1>5. /\ Straddled \in Int /\ Straddled >= Settled + DoublePark - 1 /\ Straddled >= Ttl - 1 + Rhythm
  BY <1>1, <1>2 DEF Straddled, Larger
<1>6. /\ Believed \in Int /\ Believed >= Lost + LookEvery - 1 /\ Believed >= Settled + StillFor - 1
      /\ Believed >= Ttl - 1
  BY <1>1, <1>2 DEF Believed, Larger
<1>7. Begun \in Int /\ Begun = Believed + Rhythm + Rhythm + LookEvery - 1
  BY <1>1, <1>6 DEF Begun
<1> QED
  BY <1>2, <1>4, <1>5, <1>6, <1>7

(* A track grows older. *)
LEMMA TimedTrack ==
  ASSUME NEW t \in Track, NEW gap \in Nat, Timed(t)
  PROVE  LET o == OlderTrack(t, gap) IN
         /\ Timed(o) /\ (o = NoTrack <=> t = NoTrack)
         /\ t # NoTrack => /\ o.seen \in {t.seen + gap, Lost + 1} /\ o.seen <= t.seen + gap
                           /\ o.still \in {t.still + gap, DoublePark}
                           /\ o.seen \in Int /\ o.still \in Int /\ t.seen \in Int /\ t.still \in Int
<1> DEFINE o == OlderTrack(t, gap)
<1>1. /\ t.seen \in -1..Lost + 1 /\ t.still \in -1..DoublePark /\ Lost + 1 \in Nat /\ DoublePark \in Nat
  BY ConstantTypes DEF Track
<1>2. o.seen = Older(t.seen, gap, Lost + 1) /\ o.still = Older(t.still, gap, DoublePark)
  BY DEF OlderTrack
<1>3. CASE t = NoTrack
  <2>1. o = NoTrack
    BY <1>3 DEF OlderTrack, Older, NoTrack
  <2> QED
    BY <1>3, <2>1 DEF Timed
<1>4. CASE t # NoTrack
  <2>1. t.seen >= 0 /\ t.still >= 0 /\ t.seen # Never /\ t.still # Never
    BY <1>1, <1>4 DEF Timed, Never
  <2>2. /\ o.seen >= t.seen /\ o.seen \in {t.seen + gap, Lost + 1} /\ o.seen <= t.seen + gap
        /\ o.still >= t.still /\ o.still \in {t.still + gap, DoublePark}
        /\ o.seen \in Int /\ o.still \in Int
    BY <1>1, <1>2, <2>1, OlderBy
  <2> HIDE DEF o
  <2>3. o.seen >= 0 /\ o.still >= 0
    BY <1>1, <2>1, <2>2
  <2>4. o # NoTrack
    BY <2>3 DEF NoTrack, Never
  <2>5. Timed(o)
    BY <2>3 DEF Timed
  <2> QED
    BY <1>1, <1>4, <2>2, <2>4, <2>5 DEF o
<1> QED
  BY <1>3, <1>4

(* What the clocks run on to, of either track. *)
LEMMA TracksAged ==
  ASSUME TypeOK, Watched, NEW gap \in Nat, NEW d \in Detector, Aging(d, gap)
  PROVE  /\ Timed(d.own) /\ Timed(d.ghost)
         /\ d.own # NoTrack => det.own # NoTrack /\ d.own.seen <= det.own.seen + gap
         /\ d.looked = Older(det.looked, gap, LookEvery)
<1>1. /\ det.own \in Track /\ det.ghost \in Track /\ Timed(det.own) /\ Timed(det.ghost)
  BY DetectorFields DEF TypeOK, Watched
<1>2. Timed(NoTrack)
  BY DEF Timed
<1>3. CASE d.own = OlderTrack(det.own, gap) /\ d.ghost = OlderTrack(det.ghost, gap)
  <2>1. Timed(d.own) /\ Timed(d.ghost)
    BY <1>1, <1>3, TimedTrack
  <2>2. d.own # NoTrack => det.own # NoTrack /\ d.own.seen <= det.own.seen + gap
    BY <1>1, <1>3, TimedTrack
  <2> QED
    BY <2>1, <2>2 DEF Aging
<1>4. CASE d.own = NoTrack /\ d.ghost = NoTrack
  BY <1>2, <1>4 DEF Aging
<1> QED
  BY <1>3, <1>4 DEF Aging

(* A frame without a look: the look before is younger than its interval.   *)
LEMMA NotLooked ==
  ASSUME Steadily, TypeOK, NEW gap \in Nat, NEW a \in Detector,
         a.looked = Older(det.looked, gap, LookEvery), ~LookNow(a)
  PROVE  /\ a.looked = det.looked + gap /\ a.looked < LookEvery
         /\ ~a.occ /\ a.streak > 0 => a.looked < ClaimLook
<1>1. /\ LookEvery \in Nat /\ ClaimLook \in Nat /\ ClaimLook <= LookEvery
      /\ det.looked \in 0..LookEvery /\ a.looked \in 0..LookEvery
  BY SteadyTypes, DetectorFields DEF Steadily, TypeOK
<1>2. a.looked < IF ~a.occ /\ a.streak > 0 THEN ClaimLook ELSE LookEvery
  BY <1>1 DEF LookNow
<1>3. a.looked < LookEvery
  BY <1>1, <1>2
<1>4. a.looked = det.looked + gap
  BY <1>1, <1>3 DEF Older, Never
<1> QED
  BY <1>2, <1>3, <1>4

LEMMA WatchedKept ==
  ASSUME Steadily, TypeOK, Watched, NEW gap \in Nat, NEW hit \in BOOLEAN, NEW up \in BOOLEAN,
         NEW d \in Detector, NEW a \in Detector, NEW l \in Detector,
         Goes(gap, hit, d, a, l), Runs(gap, hit, up, d, a, l)
  PROVE  Watched'
<1>1. /\ Timed(d.own) /\ Timed(d.ghost)
      /\ d.own # NoTrack => det.own # NoTrack /\ d.own.seen <= det.own.seen + gap
      /\ d.looked = Older(det.looked, gap, LookEvery)
  BY TracksAged DEF Goes
<1>2. /\ a.own = d.own /\ a.ghost = d.ghost /\ a.looked = d.looked
      /\ det'.own = l.own /\ det'.ghost = l.ghost /\ det'.looked = l.looked
  BY DEF Goes, Scored, Ends
<1>3. Timed(NoTrack)
  BY DEF Timed
<1>4. Present' <=> Present
  BY DEF Goes, Present
<1>5. det.own.seen \in Int /\ det.looked \in Int /\ d.own.seen \in Int
  BY DetectorFields, ConstantTypes DEF TypeOK
<1>6. CASE l = a /\ ~LookNow(a)
  <2>1. a.looked = det.looked + gap
    BY <1>1, <1>2, <1>6, NotLooked
  <2>2. det'.own # NoTrack => det'.own.seen <= det'.looked
    BY <1>1, <1>2, <1>5, <1>6, <2>1 DEF Watched
  <2> QED
    BY <1>1, <1>2, <1>4, <1>6, <2>2 DEF Watched
<1>7. CASE Looked(a, l) /\ Found(a, l)
  <2>1. Timed(l.ghost)
    BY <1>1, <1>2, <1>3, <1>7 DEF Looked
  <2>2. ~Present => l.own = NoTrack
    BY <1>1, <1>2, <1>7 DEF Looked, Watched
  <2>3. Present => l.own.seen = 0 /\ l.own.still >= 0
    <3>1. CASE Present /\ ~moved /\ a.own # NoTrack /\ l.own.seen = 0
      <4>1. l.own.still = a.own.still
        BY <1>7, <3>1 DEF Found
      <4> QED
        BY <1>1, <1>2, <3>1, <4>1 DEF Timed
    <3>2. CASE l.own = [seen |-> 0, still |-> 0]
      BY <3>2
    <3>3. CASE a.ghost # NoTrack /\ l.own = [seen |-> 0, still |-> a.ghost.still]
      BY <1>1, <1>2, <3>3 DEF Timed
    <3> QED
      BY <1>7, <3>1, <3>2, <3>3 DEF Looked
  <2>4. l.looked = 0
    BY <1>7 DEF Looked
  <2>5. Timed(l.own)
    <3>1. CASE Present
      BY <2>3, <3>1 DEF Timed
    <3>2. CASE ~Present
      BY <1>3, <2>2, <3>2
    <3> QED
      BY <3>1, <3>2
  <2>6. l.own # NoTrack => l.own.seen <= l.looked
    BY <2>2, <2>3, <2>4
  <2> QED
    BY <1>2, <1>4, <2>1, <2>2, <2>5, <2>6 DEF Watched
<1> QED
  BY <1>6, <1>7 DEF Runs

LEMMA NextWatched == Steadily /\ TypeOK /\ Watched /\ [Next]_vars => Watched'
<1> SUFFICES ASSUME Steadily, TypeOK, Watched, [Next]_vars PROVE Watched'
  OBVIOUS
<1>1. CASE Score \/ Stumble
  <2>1. PICK gap \in Gaps \cup Lapses, hit \in Readings, up \in BOOLEAN : Frame(gap, hit, up)
    BY <1>1 DEF Score, Stumble
  <2>2. gap \in Nat /\ hit \in BOOLEAN
    BY <2>1, ConstantTypes, ReadingsType
  <2>3. PICK d, a, l \in Detector : Goes(gap, hit, d, a, l) /\ Runs(gap, hit, up, d, a, l)
    BY <2>1, <2>2, FrameGoes
  <2> QED
    BY <2>2, <2>3, WatchedKept
<1>2. CASE Restart
  <2>1. det'.own = NoTrack /\ det'.ghost = NoTrack
    BY <1>2 DEF Restart, Started
  <2> QED
    BY <2>1 DEF Watched, Timed
<1>3. CASE Change
  <2>1. det \in Detector /\ bay' \in Becomes[bay]
    BY <1>3 DEF TypeOK, Change
  <2>2. CASE bay' = "gone" /\ det.own # NoTrack
    <3>1. det' = [det EXCEPT !.own = NoTrack, !.ghost = det.own]
      BY <1>3, <2>2 DEF Change
    <3>2. det'.own = NoTrack /\ det'.ghost = det.own
      BY <2>1, <3>1 DEF Detector
    <3> QED
      BY <3>2 DEF Watched, Timed
  <2>3. CASE bay' = "gone" /\ det.own = NoTrack
    <3>1. det' = det
      BY <1>3, <2>3 DEF Change
    <3> QED
      BY <2>3, <3>1 DEF Watched, Timed
  <2>4. CASE bay' # "gone"
    <3>1. det' = det
      BY <1>3, <2>4 DEF Change
    <3>2. Present => Present'
      BY <1>3, <2>1, <2>4 DEF Becomes, Present
    <3> QED
      BY <3>1, <3>2 DEF Watched, Timed
  <2> QED
    BY <2>2, <2>3, <2>4
<1>4. ASSUME NEW occ \in BOOLEAN, Mark(occ) PROVE Watched'
  <2>1. det' = det /\ bay' = bay
    BY <1>4 DEF Mark
  <2> QED
    BY <2>1 DEF Watched, Timed, Present
<1>5. CASE BeginNote \/ WriteNote \/ ClearNote \/ BeginEdit \/ EndEdit \/ UNCHANGED vars
  <2>1. det' = det /\ bay' = bay
    BY <1>5 DEF BeginNote, WriteNote, ClearNote, BeginEdit, EndEdit, vars
  <2> QED
    BY <2>1 DEF Watched, Timed, Present
<1> QED
  BY <1>1, <1>2, <1>3, <1>4, <1>5 DEF Next

(* A frame in the rhythm, over a bay that stays as it is. *)
Calmly(gap, hit, d, a, l) ==
  /\ Stays /\ gap \in Gaps /\ hit \in Readings
  /\ Goes(gap, hit, d, a, l) /\ Runs(gap, hit, TRUE, d, a, l)
  /\ lasting' = Older(lasting, gap, ToldBy)

Parts(gap, d, a, l) ==
  /\ d.own = OlderTrack(det.own, gap) /\ d.ghost = OlderTrack(det.ghost, gap)
  /\ d.since = Older(det.since, gap, ClaimAfter) /\ d.streak = det.streak
  /\ d.looked = Older(det.looked, gap, LookEvery)
  /\ a.own = d.own /\ a.ghost = d.ghost /\ a.looked = d.looked
  /\ det'.own = l.own /\ det'.ghost = l.ghost /\ det'.looked = l.looked

LEMMA CalmFacts ==
  ASSUME Steadily, TypeOK, TypeOK', NEW gap, NEW hit,
         NEW d \in Detector, NEW a \in Detector, NEW l \in Detector, Calmly(gap, hit, d, a, l)
  PROVE  /\ gap \in Nat /\ gap > 0 /\ gap <= Rhythm /\ gap < Offline /\ hit \in BOOLEAN
         /\ bay' = bay /\ Stays'
         /\ lasting \in Nat /\ lasting' \in Nat /\ lasting' <= lasting + gap
         /\ Parts(gap, d, a, l)
<1>1. /\ gap \in Nat /\ gap > 0 /\ gap <= Rhythm /\ gap < Offline /\ hit \in BOOLEAN
  BY SteadyTypes, ReadingsType DEF Calmly
<1>2. bay' = bay /\ Stays'
  BY DEF Calmly, Goes, Stays, Rests
<1>3. lasting \in Nat /\ lasting' \in Nat /\ lasting' <= lasting + gap
  <2>1. ToldBy \in Nat /\ lasting \in 0..ToldBy /\ lasting' \in 0..ToldBy
    BY SteadyTypes DEF TypeOK
  <2>2. Older(lasting, gap, ToldBy) <= lasting + gap
    BY <1>1, <2>1 DEF Older, Never
  <2> QED
    BY <2>1, <2>2 DEF Calmly
<1>4. ~(gap >= Offline)
  <2>1. Offline \in Nat
    BY BayAssumption
  <2> QED
    BY <1>1, <2>1
<1>5. /\ d.own = OlderTrack(det.own, gap) /\ d.ghost = OlderTrack(det.ghost, gap)
      /\ d.since = Older(det.since, gap, ClaimAfter) /\ d.streak = det.streak
      /\ d.looked = Older(det.looked, gap, LookEvery)
  BY <1>4 DEF Calmly, Goes, Aging
<1>6. /\ a.own = d.own /\ a.ghost = d.ghost /\ a.looked = d.looked
      /\ det'.own = l.own /\ det'.ghost = l.ghost /\ det'.looked = l.looked
  BY DEF Calmly, Goes, Scored, Ends
<1>7. Parts(gap, d, a, l)
  BY <1>5, <1>6 DEF Parts
<1> QED
  BY <1>1, <1>2, <1>3, <1>7

LEMMA CalmLooks ==
  ASSUME Steadily, TypeOK, TypeOK', NEW gap, NEW hit,
         NEW d \in Detector, NEW a \in Detector, NEW l \in Detector, Calmly(gap, hit, d, a, l)
  PROVE  \/ /\ l = a /\ det'.looked = det.looked + gap /\ det'.looked < LookEvery
            /\ moved' = moved /\ (~a.occ /\ a.streak > 0 => det'.looked < ClaimLook)
         \/ Looked(a, l) /\ Found(a, l) /\ det'.looked = 0 /\ moved' = FALSE
<1>1. /\ gap \in Nat /\ gap > 0 /\ a.looked = Older(det.looked, gap, LookEvery)
      /\ det'.looked = l.looked /\ bay # "crossing" /\ det.looked \in Nat
  <2>1. gap \in Nat /\ gap > 0 /\ Parts(gap, d, a, l)
    BY CalmFacts
  <2>2. bay # "crossing"
    BY DEF Calmly, Stays, Rests
  <2>3. det.looked \in Nat
    BY DetectorFields, ConstantTypes DEF TypeOK
  <2> QED
    BY <2>1, <2>2, <2>3 DEF Parts
<1>2. moved' = (moved /\ l.looked # 0) /\ moved \in BOOLEAN
  BY <1>1 DEF Calmly, Runs, TypeOK
<1>3. CASE l = a /\ ~LookNow(a)
  <2>1. /\ a.looked = det.looked + gap /\ a.looked < LookEvery
        /\ ~a.occ /\ a.streak > 0 => a.looked < ClaimLook
    BY <1>1, <1>3, NotLooked
  <2>2. l.looked # 0
    BY <1>1, <1>3, <2>1
  <2> QED
    BY <1>1, <1>2, <1>3, <2>1, <2>2
<1>4. CASE Looked(a, l) /\ Found(a, l)
  <2>1. l.looked = 0
    BY <1>4 DEF Looked
  <2> QED
    BY <1>1, <1>2, <1>4, <2>1
<1> QED
  BY <1>3, <1>4 DEF Calmly, Runs

(* A flag read from the row that differs from the copy dates the copy. *)
LEMMA CopyDated ==
  ASSUME Steadily, TypeOK, CopyTrue, Stays, NEW d \in Detector, NEW gap, Copied(d, gap), d.occ # det.occ
  PROVE  lasting \in Nat /\ Ttl \in Nat /\ (lasting = 0 \/ lasting <= Ttl - 1)
<1>1. det.occ # row.occ
  BY DEF Copied
<1>2. det.read \in Nat /\ Ttl \in Nat /\ lasting \in Nat
  BY SteadyTypes DEF TypeOK, Detector
<1> QED
  BY <1>1, <1>2 DEF CopyTrue

LEMMA CopyKept ==
  ASSUME Steadily, TInv, TypeOK', NEW gap, NEW hit,
         NEW d \in Detector, NEW a \in Detector, NEW l \in Detector, Calmly(gap, hit, d, a, l)
  PROVE  CopyTrue'
<1>1. gap \in Nat /\ gap < Offline /\ lasting \in Nat /\ lasting' \in Nat /\ lasting' <= lasting + gap
  BY CalmFacts DEF TInv
<1>2. /\ Copied(d, gap) /\ det'.read = d.read /\ (d.occ = row.occ => det'.occ = row'.occ)
  BY <1>1 DEF Calmly, Runs, Tallied, Found
<1>3. CASE d.occ = row.occ
  BY <1>2, <1>3 DEF CopyTrue
<1>4. CASE d.occ # row.occ
  <2>1. det.occ # row.occ /\ det'.read = det.read + gap /\ det'.read < Ttl
    BY <1>2, <1>4 DEF Copied
  <2>2. lasting = 0 \/ lasting <= det.read
    BY <2>1 DEF TInv, Telling, CopyTrue, Calmly
  <2>3. det.read \in Nat
    BY ConstantTypes DEF TInv, TypeOK, Detector
  <2>4. lasting' <= det'.read
    BY <1>1, <2>1, <2>2, <2>3
  <2> QED
    BY <2>1, <2>4 DEF CopyTrue
<1> QED
  BY <1>3, <1>4

LEMMA LooksKept ==
  ASSUME Steadily, TInv, TypeOK', NEW gap, NEW hit,
         NEW d \in Detector, NEW a \in Detector, NEW l \in Detector, Calmly(gap, hit, d, a, l)
  PROVE  LooksOn'
<1>1. LookEvery \in Nat /\ LookEvery > 0
  BY SteadyTypes
<1>2. det'.looked < LookEvery
  BY <1>1, CalmLooks DEF TInv
<1> QED
  BY <1>2 DEF LooksOn

LEMMA BehindAged ==
  ASSUME NEW t \in Track, Timed(t), t # NoTrack, NEW gap \in Nat, gap > 0,
         NEW x \in Int, NEW y \in Int, y <= x + gap, t.seen >= x \/ t.seen = Lost + 1
  PROVE  OlderTrack(t, gap).seen >= y \/ OlderTrack(t, gap).seen = Lost + 1
<1>1. PICK o : o = OlderTrack(t, gap)
  OBVIOUS
<1>2. o \in Track /\ o.seen \in {t.seen + gap, Lost + 1} /\ t.seen \in Int
  BY <1>1, TrackAges, TimedTrack
<1>3. o.seen \in -1..Lost + 1 /\ Lost + 1 \in Nat
  BY <1>2, ConstantTypes DEF Track
<1>4. o.seen >= y \/ o.seen = Lost + 1
  BY <1>2, <1>3
<1> QED
  BY <1>1, <1>4

LEMMA TracksKept ==
  ASSUME Steadily, TInv, TypeOK', NEW gap, NEW hit,
         NEW d \in Detector, NEW a \in Detector, NEW l \in Detector, Calmly(gap, hit, d, a, l)
  PROVE  TracksLeft'
<1>0. /\ gap \in Nat /\ gap > 0 /\ Parts(gap, d, a, l)
      /\ lasting \in Nat /\ lasting' \in Nat /\ lasting' <= lasting + gap
  BY CalmFacts DEF TInv
<1>1. /\ gap \in Nat /\ gap > 0
      /\ lasting \in Nat /\ lasting' \in Nat /\ lasting' <= lasting + gap
      /\ d.own = OlderTrack(det.own, gap) /\ d.ghost = OlderTrack(det.ghost, gap)
      /\ a.own = d.own /\ a.ghost = d.ghost /\ det'.own = l.own /\ det'.ghost = l.ghost
  BY <1>0 DEF Parts
<1>2. /\ det.own \in Track /\ Timed(det.own) /\ det.ghost \in Track /\ Timed(det.ghost)
      /\ det.looked \in Nat /\ Lost \in Nat
  BY DetectorFields, ConstantTypes DEF TInv, TypeOK, Watched
<1>3. /\ d.own # NoTrack => det.own # NoTrack
      /\ d.ghost # NoTrack => det.ghost # NoTrack
  BY <1>1, <1>2, TimedTrack
<1>4. ASSUME d.ghost # NoTrack PROVE Behind(d.ghost)' /\ lasting <= Lost + det.looked
  <2>1. Behind(det.ghost) /\ lasting <= Lost + det.looked
    BY <1>3, <1>4 DEF TInv, Telling, TracksLeft, Calmly
  <2>2. d.ghost.seen >= lasting' \/ d.ghost.seen = Lost + 1
    BY <1>1, <1>2, <1>3, <1>4, <2>1, BehindAged DEF Behind
  <2> QED
    BY <2>1, <2>2 DEF Behind
<1>5. ASSUME d.own # NoTrack, moved PROVE Behind(d.own)'
  <2>1. Behind(det.own)
    BY <1>3, <1>5 DEF TInv, Telling, TracksLeft, Calmly
  <2>2. d.own.seen >= lasting' \/ d.own.seen = Lost + 1
    BY <1>1, <1>2, <1>3, <1>5, <2>1, BehindAged DEF Behind
  <2> QED
    BY <2>2 DEF Behind
<1>6. CASE l = a /\ det'.looked = det.looked + gap /\ moved' = moved
  <2>1. d.ghost # NoTrack => lasting' <= Lost + det'.looked
    BY <1>1, <1>2, <1>4, <1>6
  <2>2. det'.ghost = d.ghost /\ det'.own = d.own
    BY <1>1, <1>6
  <2> QED
    BY <1>4, <1>5, <1>6, <2>1, <2>2 DEF TracksLeft, Behind
<1>7. CASE Found(a, l) /\ det'.looked = 0 /\ moved' = FALSE
  <2>1. ASSUME l.ghost # NoTrack PROVE Behind(l.ghost)' /\ lasting' <= Lost + det'.looked
    <3>1. /\ l.ghost.seen <= Lost
          /\ l.ghost = d.ghost \/ (moved /\ l.ghost = d.own)
      BY <1>1, <1>7, <2>1 DEF Found
    <3>2. l.ghost.seen >= lasting' \/ l.ghost.seen = Lost + 1
      BY <1>4, <1>5, <2>1, <3>1 DEF Behind
    <3>3. l.ghost.seen \in Int
      BY DetectorFields
    <3>4. l.ghost.seen >= lasting' /\ lasting' <= Lost + det'.looked
      BY <1>1, <1>2, <1>7, <3>1, <3>2, <3>3
    <3> QED
      BY <3>4 DEF Behind
  <2> QED
    BY <1>1, <1>7, <2>1 DEF TracksLeft, Behind
<1> QED
  BY <1>6, <1>7, CalmLooks DEF TInv

LEMMA EmptyingKept ==
  ASSUME Steadily, TInv, TypeOK', NEW gap, NEW hit,
         NEW d \in Detector, NEW a \in Detector, NEW l \in Detector, Calmly(gap, hit, d, a, l)
  PROVE  Emptying'
<1> SUFFICES ASSUME bay' = "empty", det'.occ PROVE det'.filled >= 0 /\ det'.filled < Grace
                                                   /\ lasting' <= Emptied + det'.filled
  BY DEF Emptying
<1>1. /\ gap \in Nat /\ gap > 0 /\ gap <= Rhythm /\ gap < Offline /\ Parts(gap, d, a, l)
      /\ lasting \in Nat /\ lasting' \in Nat /\ lasting' <= lasting + gap /\ bay = "empty"
  BY CalmFacts DEF TInv
<1>2. ~hit /\ det' = l
  BY <1>1 DEF Calmly, Readings, Goes, Ends
<1>3. Copied(d, gap) /\ Tallied(d, a, hit) /\ l.occ = a.occ /\ l.filled = a.filled
  BY <1>1 DEF Calmly, Runs, Looked, Found
<1>4. d.occ /\ a.occ
  BY <1>2, <1>3 DEF Calmly, Goes, Scored
<1>5. /\ {Rhythm, Lost, LookEvery, Ttl, Grace} \subseteq Nat /\ LookEvery > 0 /\ Grace > 0
      /\ Emptied \in Int /\ Emptied >= Rhythm + Lost + LookEvery - 1 /\ Emptied >= Rhythm + Ttl - 1
  BY SteadyTypes, SteadyBounds
<1>6. /\ det.filled \in -1..Grace /\ det.looked \in Nat /\ d.filled = Older(det.filled, gap, Grace)
  BY <1>3, ConstantTypes DEF TInv, TypeOK, Detector, Copied
<1>7. d.occ # det.occ => lasting = 0 \/ lasting <= Ttl - 1
  BY <1>3, CopyDated DEF TInv, Telling, Calmly
<1>8. det.occ /\ lasting > 0 =>
        det.filled >= 0 /\ det.filled < Grace /\ lasting <= Emptied + det.filled
  BY <1>1 DEF TInv, Telling, Emptying
<1>9. det.occ \/ d.occ # det.occ
  BY <1>4
<1>10. CASE (Held(d) \/ d.filled = Never) /\ a.filled = 0
  <2>1. lasting' <= Emptied
    <3>1. CASE Held(d)
      <4>1. d.own = NoTrack /\ (d.ghost # NoTrack => det.ghost # NoTrack)
        <5>1. /\ det.own = NoTrack /\ det.own \in Track /\ Timed(det.own)
              /\ det.ghost \in Track /\ Timed(det.ghost)
          BY <1>1, DetectorFields DEF TInv, TypeOK, Watched, Present
        <5> QED
          BY <1>1, <5>1, TimedTrack DEF Parts
      <4>2. d.ghost # NoTrack
        BY <3>1, <4>1 DEF Held, Tracks
      <4>3. lasting <= Lost + det.looked /\ (lasting > 0 => det.looked < LookEvery)
        BY <4>1, <4>2 DEF TInv, Telling, TracksLeft, LooksOn, Calmly
      <4> QED
        BY <1>1, <1>5, <1>6, <4>3
    <3>2. CASE d.filled = Never
      <4>1. ~(det.filled >= 0)
        BY <1>1, <1>5, <1>6, <3>2 DEF Older, Never
      <4>2. lasting = 0 \/ lasting <= Ttl - 1
        BY <1>1, <1>7, <1>8, <1>9, <4>1
      <4> QED
        BY <1>1, <1>5, <4>2
    <3> QED
      BY <1>10, <3>1, <3>2
  <2> QED
    BY <1>2, <1>3, <1>5, <1>10, <2>1
<1>11. CASE d.filled # Never /\ a.filled = d.filled /\ d.filled < Grace
  <2>1. det.filled >= 0 /\ d.filled = det.filled + gap
    BY <1>1, <1>5, <1>6, <1>11 DEF Older, Never
  <2>2. lasting <= Emptied + det.filled \/ lasting = 0 \/ lasting <= Ttl - 1
    BY <1>1, <1>7, <1>8, <1>9
  <2>3. lasting' <= Emptied + d.filled /\ d.filled >= 0
    BY <1>1, <1>5, <1>6, <2>1, <2>2
  <2> QED
    BY <1>2, <1>3, <1>11, <2>3
<1> QED
  BY <1>2, <1>3, <1>4, <1>10, <1>11 DEF Tallied

(* A vehicle at rest, as its track has grown older with the frame. *)
LEMMA StillAged ==
  ASSUME Steadily, TInv, TypeOK', NEW gap, NEW hit,
         NEW d \in Detector, NEW a \in Detector, NEW l \in Detector, Calmly(gap, hit, d, a, l),
         Rests, det.own # NoTrack, ~moved
  PROVE  /\ d.own # NoTrack /\ d.own.still \in Int
         /\ d.own.still >= lasting' - Settled \/ d.own.still = DoublePark
<1>1. /\ gap \in Nat /\ gap > 0 /\ Parts(gap, d, a, l)
      /\ lasting \in Nat /\ lasting' \in Nat /\ lasting' <= lasting + gap
  BY CalmFacts DEF TInv
<1>2. /\ det.own \in Track /\ Timed(det.own) /\ d.own = OlderTrack(det.own, gap)
  BY <1>1, DetectorFields DEF TInv, TypeOK, Watched, Parts
<1>3. /\ d.own # NoTrack /\ d.own.still \in {det.own.still + gap, DoublePark}
      /\ det.own.still \in Int
  BY <1>1, <1>2, TimedTrack
<1>4. det.own.still >= lasting - Settled \/ det.own.still = DoublePark
  BY DEF TInv, Telling, Resting
<1>5. d.own.still \in -1..DoublePark /\ DoublePark \in Nat /\ Settled \in Int
  BY SteadyTypes, SteadyBounds DEF Detector, Track
<1> QED
  BY <1>1, <1>3, <1>4, <1>5

LEMMA RestingKept ==
  ASSUME Steadily, TInv, TypeOK', Watched', NEW gap, NEW hit,
         NEW d \in Detector, NEW a \in Detector, NEW l \in Detector, Calmly(gap, hit, d, a, l)
  PROVE  Resting'
<1> SUFFICES ASSUME Rests' PROVE
      /\ moved' \/ det'.own = NoTrack => lasting' <= det'.looked
      /\ det'.own # NoTrack /\ ~moved' =>
           det'.own.still >= lasting' - Settled \/ det'.own.still = DoublePark
  BY DEF Resting
<1>1. /\ gap \in Nat /\ gap > 0 /\ gap <= Rhythm /\ Parts(gap, d, a, l)
      /\ lasting \in Nat /\ lasting' \in Nat /\ lasting' <= lasting + gap /\ bay' = bay
  BY CalmFacts DEF TInv
<1>2. Rests /\ Present /\ moved \in BOOLEAN
  BY <1>1 DEF Rests, Present, TInv, TypeOK
<1>3. /\ det.looked \in Nat /\ LookEvery \in Nat /\ Rhythm \in Nat
      /\ Settled \in Int /\ Settled = LookEvery - 1 + Rhythm /\ LookEvery > 0
  BY DetectorFields, ConstantTypes, SteadyTypes, SteadyBounds DEF TInv, TypeOK
<1>4. moved \/ det.own = NoTrack => lasting <= det.looked
  BY <1>2 DEF TInv, Telling, Resting
<1>5. d.own = NoTrack <=> det.own = NoTrack
  <2>1. det.own \in Track /\ Timed(det.own)
    BY DetectorFields DEF TInv, TypeOK, Watched
  <2> QED
    BY <1>1, <2>1, TimedTrack DEF Parts
<1>6. CASE l = a /\ det'.looked = det.looked + gap /\ moved' = moved
  <2>1. det'.own = d.own
    BY <1>1, <1>6 DEF Parts
  <2>2. moved' \/ det'.own = NoTrack => lasting' <= det'.looked
    BY <1>1, <1>3, <1>4, <1>5, <1>6, <2>1
  <2>3. det'.own # NoTrack /\ ~moved' =>
          det'.own.still >= lasting' - Settled \/ det'.own.still = DoublePark
    BY <1>2, <1>5, <1>6, <2>1, StillAged
  <2> QED
    BY <2>2, <2>3
<1>7. CASE Looked(a, l) /\ Found(a, l) /\ moved' = FALSE
  <2>1. l.own # NoTrack /\ det'.own = l.own /\ a.own = d.own
    <3>1. \A s : [seen |-> 0, still |-> s] # NoTrack
      BY DEF NoTrack, Never
    <3>2. l.own # NoTrack
      BY <1>2, <1>7, <3>1 DEF Looked
    <3> QED
      BY <1>1, <3>2 DEF Parts
  <2>2. l.own.still \in Int /\ l.own.still >= 0
    BY <2>1, DetectorFields DEF Watched, Timed
  <2>3. CASE det.own # NoTrack /\ ~moved
    <3>1. l.own.still = d.own.still
      BY <1>2, <1>5, <1>7, <2>1, <2>3 DEF Found
    <3>2. d.own.still >= lasting' - Settled \/ d.own.still = DoublePark
      BY <1>2, <2>3, StillAged
    <3> QED
      BY <1>7, <2>1, <3>1, <3>2
  <2>4. CASE moved \/ det.own = NoTrack
    <3>1. lasting <= det.looked /\ (lasting > 0 => det.looked < LookEvery)
      BY <1>4, <2>4 DEF TInv, Telling, LooksOn, Calmly
    <3>2. lasting' <= Settled
      BY <1>1, <1>3, <3>1
    <3>3. l.own.still >= lasting' - Settled
      BY <1>1, <1>3, <2>2, <3>2
    <3> QED
      BY <1>7, <2>1, <3>3
  <2> QED
    BY <1>2, <2>3, <2>4
<1> QED
  BY <1>6, <1>7, CalmLooks DEF TInv

LEMMA TakingKept ==
  ASSUME Steadily, TInv, TypeOK', Watched', Resting', NEW gap, NEW hit,
         NEW d \in Detector, NEW a \in Detector, NEW l \in Detector, Calmly(gap, hit, d, a, l)
  PROVE  TakingBoth'
<1> SUFFICES ASSUME bay' = "straddling", ~det'.occ PROVE lasting' <= Straddled + det'.looked
  BY DEF TakingBoth
<1>1. /\ gap \in Nat /\ gap > 0 /\ gap <= Rhythm /\ gap < Offline /\ Parts(gap, d, a, l)
      /\ lasting \in Nat /\ lasting' \in Nat /\ lasting' <= lasting + gap /\ bay = "straddling"
  BY CalmFacts DEF TInv
<1>2. ~hit /\ Rests /\ Rests' /\ Present /\ moved \in BOOLEAN
  BY <1>1 DEF Calmly, Readings, Rests, Present, TInv, TypeOK
<1>3. /\ {Rhythm, LookEvery, DoublePark, HoldStill, Ttl, det.looked} \subseteq Nat
      /\ LookEvery > 0 /\ DoublePark > 0 /\ HoldStill <= DoublePark
  BY SteadyTypes, DetectorFields, ConstantTypes DEF TInv, TypeOK, Steadily
<1>4. /\ Settled \in Int /\ Settled = LookEvery - 1 + Rhythm
      /\ Straddled \in Int /\ Straddled >= Settled + DoublePark - 1 /\ Straddled >= Ttl - 1 + Rhythm
  BY SteadyBounds
<1>5. CASE Looked(a, l) /\ Found(a, l) /\ det'.looked = 0 /\ moved' = FALSE
  <2>1. l.looked = 0 /\ det'.own = l.own /\ l.own # NoTrack
    <3>1. \A s : [seen |-> 0, still |-> s] # NoTrack
      BY DEF NoTrack, Never
    <3>2. l.own # NoTrack /\ l.looked = 0
      BY <1>2, <1>5, <3>1 DEF Looked
    <3> QED
      BY <1>1, <3>2 DEF Parts
  <2>2. l.own.still \in Int /\ ~(l.own.still >= DoublePark)
    BY <1>1, <2>1, DetectorFields DEF Calmly, Runs
  <2>3. l.own.still >= lasting' - Settled \/ l.own.still = DoublePark
    BY <1>2, <1>5, <2>1 DEF Resting
  <2> QED
    BY <1>1, <1>3, <1>4, <1>5, <2>2, <2>3
<1>6. CASE l = a /\ det'.looked = det.looked + gap
  <2>1. ~a.occ
    BY <1>6 DEF Calmly, Goes, Ends
  <2>2. CASE ~det.occ
    <3>1. lasting <= Straddled + det.looked
      BY <1>1, <2>2 DEF TInv, Telling, TakingBoth
    <3> QED
      BY <1>1, <1>3, <1>4, <1>6, <3>1
  <2>3. CASE det.occ /\ ~d.occ
    <3>1. lasting = 0 \/ lasting <= Ttl - 1
      <4>1. Copied(d, gap) /\ d.occ # det.occ
        BY <1>1, <2>3 DEF Calmly, Runs
      <4> QED
        BY <4>1, CopyDated DEF TInv, Telling, Calmly
    <3> QED
      BY <1>1, <1>3, <1>4, <1>6, <3>1
  <2>4. CASE d.occ
    <3>1. ~Held(d)
      BY <1>2, <2>1, <2>4 DEF Calmly, Runs, Tallied
    <3>2. CASE moved \/ det.own = NoTrack
      <4>1. lasting <= det.looked
        BY <1>2, <3>2 DEF TInv, Telling, Resting
      <4> QED
        BY <1>1, <1>3, <1>4, <1>6, <4>1
    <3>3. CASE ~moved /\ det.own # NoTrack
      <4>1. /\ d.own # NoTrack /\ d.own.still \in Int
            /\ d.own.still >= lasting' - Settled \/ d.own.still = DoublePark
        BY <1>2, <3>3, StillAged
      <4>2. ~(d.own.still >= HoldStill)
        BY <3>1, <4>1 DEF Held, Tracks
      <4> QED
        BY <1>1, <1>3, <1>4, <1>6, <4>1, <4>2
    <3> QED
      BY <1>2, <3>2, <3>3
  <2> QED
    BY <2>2, <2>3, <2>4
<1> QED
  BY <1>5, <1>6, CalmLooks DEF TInv

(* Nothing keeps a vehicle that has stayed so long from being claimed, but *)
(* a last look too old to be believed.                                     *)
LEMMA Unsuppressed ==
  ASSUME Steadily, TInv, TypeOK', NEW gap, NEW hit,
         NEW d \in Detector, NEW a \in Detector, NEW l \in Detector, Calmly(gap, hit, d, a, l),
         Rests, lasting > Believed, det.looked + gap <= Fresh
  PROVE  ~Suppressed(d)
<1>1. /\ gap \in Nat /\ gap > 0 /\ Parts(gap, d, a, l) /\ lasting \in Nat
  BY CalmFacts DEF TInv
<1>2. /\ {Rhythm, LookEvery, DoublePark, StillFor, Lost, Fresh, det.looked} \subseteq Nat
      /\ LookEvery > 0 /\ StillFor <= DoublePark
      /\ Settled \in Int /\ Settled = LookEvery - 1 + Rhythm
      /\ Believed \in Int /\ Believed >= Lost + LookEvery - 1 /\ Believed >= Settled + StillFor - 1
  BY SteadyTypes, SteadyBounds, DetectorFields, ConstantTypes DEF TInv, TypeOK, Steadily
<1>3. /\ det.own \in Track /\ Timed(det.own) /\ det.ghost \in Track /\ Timed(det.ghost)
      /\ det.own.seen \in Int
  BY DetectorFields DEF TInv, TypeOK, Watched
<1>4. lasting > 0 => det.looked < LookEvery
  BY DEF TInv, Telling, LooksOn, Calmly
<1>5. d.ghost = NoTrack
  <2>1. det.ghost # NoTrack => lasting <= Lost + det.looked
    BY DEF TInv, Telling, TracksLeft, Calmly
  <2>2. det.ghost = NoTrack
    BY <1>1, <1>2, <1>4, <2>1
  <2> QED
    BY <1>1, <1>3, <2>2, TimedTrack DEF Parts
<1>6. det.own # NoTrack /\ ~moved
  <2>1. moved \/ det.own = NoTrack => lasting <= det.looked
    BY DEF TInv, Telling, Resting
  <2>2. ~(lasting <= det.looked)
    BY <1>1, <1>2, <1>4
  <2> QED
    BY <2>1, <2>2
<1>7. d.own.seen <= det.own.seen + gap /\ d.own.seen \in Int /\ d.own.still \in {det.own.still + gap, DoublePark}
      /\ det.own.still \in Int
  BY <1>1, <1>3, <1>6, TimedTrack DEF Parts
<1>8. d.own.seen <= Fresh
  <2>1. det.own.seen <= det.looked
    BY <1>6 DEF TInv, Watched
  <2> QED
    BY <1>1, <1>2, <1>3, <1>7, <2>1
<1>9. d.own.still >= StillFor
  <2>1. det.own.still >= lasting - Settled \/ det.own.still = DoublePark
    BY <1>6 DEF TInv, Telling, Resting
  <2> QED
    BY <1>1, <1>2, <1>7, <2>1
<1> QED
  BY <1>5, <1>8, <1>9 DEF Suppressed, Tracks, SeenStill

(* Frames in a row, and the ticks they take at the most. *)
LEMMA InARow ==
  ASSUME NEW n \in Nat, NEW r \in Nat
  PROVE  n * r \in Nat /\ (n + 1) * r = n * r + r
OBVIOUS

LEMMA InSum ==
  ASSUME NEW n \in Nat, NEW m \in Nat, NEW r \in Nat
  PROVE  (n + 1 + m) * r = n * r + r + m * r
OBVIOUS

LEMMA FormingKept ==
  ASSUME Steadily, TInv, TypeOK', NEW gap, NEW hit,
         NEW d \in Detector, NEW a \in Detector, NEW l \in Detector, Calmly(gap, hit, d, a, l)
  PROVE  Forming'
<1> SUFFICES ASSUME bay' = "standing", ~det'.occ, lasting' > 0
             PROVE
      /\ det'.streak > 0 => det'.since >= 0
      /\ det'.since < ClaimAfter \/ det'.streak < Hits
      /\ lasting' > Believed /\ det'.streak = 0 =>
           \/ lasting' <= Believed + Rhythm + det'.looked
           \/ det'.looked = 0 /\ lasting' <= Begun
      /\ lasting' > Believed /\ det'.streak > 0 =>
           /\ det'.looked < ClaimLook
           /\ lasting' <= Begun + Rhythm + det'.since \/ det'.since = ClaimAfter
           /\ lasting' <= Begun + det'.streak * Rhythm \/ det'.streak = Hits
  BY DEF Forming
<1>1. /\ gap \in Nat /\ gap > 0 /\ gap <= Rhythm /\ gap < Offline /\ Parts(gap, d, a, l)
      /\ lasting \in Nat /\ lasting' \in Nat /\ lasting' <= lasting + gap /\ bay = "standing"
  BY CalmFacts DEF TInv
<1>2. hit = TRUE /\ Rests /\ Stays /\ det' = l
  BY <1>1 DEF Calmly, Readings, Rests, Stays, Goes, Ends
<1>3. /\ l.occ = a.occ /\ l.streak = a.streak /\ l.since = a.since
      /\ Copied(d, gap) /\ Tallied(d, a, hit) /\ Scored(d, a, hit)
  BY <1>1 DEF Calmly, Goes, Runs, Looked
<1>4. ~a.occ /\ ~d.occ
  BY <1>2, <1>3 DEF Scored
<1>5. /\ {Rhythm, LookEvery, ClaimLook, Fresh, Ttl, ClaimAfter, Hits, det.looked} \subseteq Nat
      /\ LookEvery > 0 /\ ClaimAfter > 0 /\ Hits > 0 /\ ClaimLook > 0 /\ ClaimLook + Rhythm <= Fresh + 1
      /\ Believed \in Int /\ Believed >= Ttl - 1 /\ Believed >= LookEvery - 1
      /\ Begun \in Int /\ Begun = Believed + Rhythm + Rhythm + LookEvery - 1
  <2>1. /\ {Rhythm, LookEvery, ClaimLook, Fresh, Ttl, ClaimAfter, Hits, Lost} \subseteq Nat
        /\ LookEvery > 0 /\ ClaimAfter > 0 /\ Hits > 0
    BY SteadyTypes
  <2>2. det.looked \in Nat
    BY DetectorFields, ConstantTypes DEF TInv, TypeOK
  <2>3. /\ Believed \in Int /\ Believed >= Ttl - 1 /\ Believed >= Lost + LookEvery - 1
        /\ Begun \in Int /\ Begun = Believed + Rhythm + Rhythm + LookEvery - 1
    BY SteadyBounds
  <2>4. Believed >= LookEvery - 1
    BY <2>1, <2>3
  <2> QED
    BY <2>1, <2>2, <2>3, <2>4 DEF Steadily
<1>6. /\ det.since \in -1..ClaimAfter /\ det.streak \in 0..Hits /\ d.streak = det.streak
      /\ d.since = Older(det.since, gap, ClaimAfter)
  BY <1>1 DEF Parts, TInv, TypeOK, Detector
<1>7. det'.streak = a.streak /\ det'.since = a.since
  BY <1>2, <1>3
<1>8. d.since \in -1..ClaimAfter /\ RunSince(d) \in 0..ClaimAfter
  BY <1>5 DEF Detector, RunSince, Never
<1>9. \/ /\ Suppressed(d) /\ a.streak = det.streak /\ a.since = 0
      \/ /\ ~Suppressed(d) /\ a.since = RunSince(d) /\ (a.streak < Hits \/ a.since < ClaimAfter)
         /\ a.streak = IF det.streak < Hits THEN det.streak + 1 ELSE Hits
  <2>1. CASE Suppressed(d)
    BY <1>2, <1>3, <1>4, <1>6, <2>1 DEF Scored
  <2>2. CASE ~Suppressed(d)
    BY <1>2, <1>3, <1>4, <1>6, <2>2 DEF Scored, Tallied
  <2> QED
    BY <2>1, <2>2
<1>10. /\ det'.since >= 0 /\ (det'.since < ClaimAfter \/ det'.streak < Hits)
       /\ det'.since \in Int /\ det'.streak \in 0..Hits /\ det'.looked \in Nat
  <2>1. det'.streak \in 0..Hits /\ det'.looked \in Nat
    BY ConstantTypes DEF TypeOK, Detector
  <2> QED
    BY <1>5, <1>7, <1>8, <1>9, <2>1
<1>11. det.occ => lasting <= Believed
  <2>1. det.occ => lasting = 0 \/ lasting <= Ttl - 1
    BY <1>2, <1>3, <1>4, CopyDated DEF TInv, Telling
  <2> QED
    BY <1>1, <1>5, <2>1
<1>12. lasting > Believed /\ det.looked + gap <= Fresh => ~Suppressed(d)
  BY <1>2, Unsuppressed
<1>13. CASE lasting > Believed
  <2>1. /\ det.streak > 0 => det.since >= 0
        /\ det.streak = 0 => \/ lasting <= Believed + Rhythm + det.looked
                             \/ det.looked = 0 /\ lasting <= Begun
        /\ det.streak > 0 => /\ det.looked < ClaimLook
                             /\ lasting <= Begun + Rhythm + det.since \/ det.since = ClaimAfter
                             /\ lasting <= Begun + det.streak * Rhythm \/ det.streak = Hits
    <3>1. ~det.occ /\ lasting > 0
      BY <1>1, <1>5, <1>11, <1>13
    <3> QED
      BY <1>1, <1>13, <3>1 DEF TInv, Telling, Forming
  <2>2. det.looked < LookEvery
    <3>1. lasting > 0
      BY <1>1, <1>5, <1>13
    <3> QED
      BY <1>2, <3>1 DEF TInv, Telling, LooksOn
  <2>3. CASE det.streak = 0
    <3>1. lasting <= Begun
      BY <1>1, <1>5, <2>1, <2>2, <2>3
    <3>2. CASE Suppressed(d)
      <4>1. det'.streak = 0
        BY <1>7, <1>9, <2>3, <3>2
      <4>2. lasting <= Believed + Rhythm + det.looked
        <5>1. ~(det.looked + gap <= Fresh)
          BY <1>12, <1>13, <3>2
        <5>2. det.looked # 0
          BY <1>1, <1>5, <5>1
        <5> QED
          BY <2>1, <2>3, <5>2
      <4>3. CASE det'.looked = det.looked + gap
        BY <1>1, <1>5, <1>10, <4>1, <4>2, <4>3
      <4>4. CASE det'.looked = 0
        <5>1. lasting' <= Begun
          BY <1>1, <1>5, <2>2, <4>2
        <5> QED
          BY <1>10, <4>1, <4>4, <5>1
      <4> QED
        BY <4>3, <4>4, CalmLooks DEF TInv
    <3>3. CASE ~Suppressed(d)
      <4>1. det'.streak = 1
        BY <1>5, <1>7, <1>9, <2>3, <3>3
      <4>2. lasting' <= Begun + Rhythm
        BY <1>1, <1>5, <3>1
      <4>3. det'.looked < ClaimLook
        <5>1. a.streak > 0
          BY <1>7, <4>1
        <5> QED
          BY <1>4, <1>5, <5>1, CalmLooks DEF TInv
      <4>4. lasting' <= Begun + Rhythm + det'.since
        BY <1>1, <1>5, <1>10, <4>2
      <4>5. 1 * Rhythm = Rhythm
        BY <1>5
      <4>6. lasting' <= Begun + det'.streak * Rhythm
        BY <4>1, <4>2, <4>5
      <4> QED
        BY <1>10, <4>1, <4>3, <4>4, <4>6
    <3> QED
      BY <3>2, <3>3
  <2>4. CASE det.streak > 0
    <3>1. ~Suppressed(d)
      <4>1. det.looked + gap <= Fresh
        BY <1>1, <1>5, <2>1, <2>4
      <4> QED
        BY <1>12, <1>13, <4>1
    <3>2. /\ det'.streak = (IF det.streak < Hits THEN det.streak + 1 ELSE Hits)
          /\ det'.since = RunSince(d)
      BY <1>7, <1>9, <3>1
    <3>3. det'.streak > 0
      BY <1>5, <1>6, <2>4, <3>2
    <3>4. det'.looked < ClaimLook
      <4>1. a.streak > 0
        BY <1>7, <3>3
      <4> QED
        BY <1>4, <1>5, <4>1, CalmLooks DEF TInv
    <3>5. det'.since = det.since + gap \/ det'.since = ClaimAfter
      BY <1>1, <1>5, <1>6, <2>1, <2>4, <3>2 DEF RunSince, Older, Never
    <3>6. det.since = ClaimAfter => det'.since = ClaimAfter
      BY <1>1, <1>5, <1>6, <3>2 DEF RunSince, Older, Never
    <3>7. lasting' <= Begun + Rhythm + det'.since \/ det'.since = ClaimAfter
      BY <1>1, <1>5, <1>6, <2>1, <2>4, <3>5, <3>6
    <3>8. lasting' <= Begun + det'.streak * Rhythm \/ det'.streak = Hits
      <4>1. CASE det.streak < Hits
        <5>1. det.streak \in Nat /\ det'.streak = det.streak + 1
          BY <1>5, <1>6, <3>2, <4>1
        <5>2. lasting <= Begun + det.streak * Rhythm
          BY <1>5, <1>6, <2>1, <2>4, <4>1
        <5>3. PICK n \in Nat : n = det.streak * Rhythm /\ det'.streak * Rhythm = n + Rhythm
          BY <1>5, <5>1, InARow
        <5>4. lasting' <= Begun + (n + Rhythm)
          <6>1. lasting <= Begun + n
            BY <5>2, <5>3
          <6> QED
            BY <1>1, <1>5, <6>1
        <5> QED
          BY <5>3, <5>4
      <4>2. CASE ~(det.streak < Hits)
        BY <3>2, <4>2
      <4> QED
        BY <4>1, <4>2
    <3> QED
      BY <1>10, <3>3, <3>4, <3>7, <3>8
  <2> QED
    BY <1>6, <2>3, <2>4
<1>14. CASE ~(lasting > Believed)
  <2>1. lasting' <= Believed + Rhythm
    BY <1>1, <1>5, <1>14
  <2>2. lasting' <= Believed + Rhythm + det'.looked
    BY <1>1, <1>5, <1>10, <2>1
  <2>3. lasting' <= Begun + Rhythm + det'.since
    BY <1>1, <1>5, <1>10, <2>1
  <2>4. lasting' <= Begun + det'.streak * Rhythm
    <3>1. PICK n \in Nat : n = det'.streak * Rhythm
      BY <1>5, <1>10, InARow
    <3>2. lasting' <= Begun + n
      BY <1>1, <1>5, <2>1
    <3> QED
      BY <3>1, <3>2
  <2>5. det'.streak > 0 => det'.looked < ClaimLook
    BY <1>4, <1>5, <1>7, CalmLooks DEF TInv
  <2> QED
    BY <1>10, <2>2, <2>3, <2>4, <2>5
<1> QED
  BY <1>13, <1>14

LEMMA CalmKeeps ==
  ASSUME Steadily, TInv, TypeOK', Watched', NEW gap, NEW hit,
         NEW d \in Detector, NEW a \in Detector, NEW l \in Detector, Calmly(gap, hit, d, a, l)
  PROVE  Telling'
<1>1. CopyTrue' /\ LooksOn'
  BY CopyKept, LooksKept
<1>2. TracksLeft' /\ Emptying'
  BY TracksKept, EmptyingKept
<1>3. Resting'
  BY RestingKept
<1>4. TakingBoth' /\ Forming'
  BY <1>3, TakingKept, FormingKept
<1> QED
  BY <1>1, <1>2, <1>3, <1>4 DEF Telling

(* A bay just disturbed, or one that does not stay, asks for nothing. *)
LEMMA Disturbance ==
  ASSUME Steadily, TypeOK', Watched', lasting' = 0 \/ ~Stays'
  PROVE  Telling'
<1>1. /\ det'.looked \in Nat /\ det'.own.still \in Int /\ det'.own.seen \in Int
      /\ det'.ghost.seen \in Int
      /\ Lost \in Nat /\ Settled \in Int /\ Settled >= 0 /\ Straddled \in Int /\ Straddled >= 0
  <2>1. det'.looked \in Nat /\ det'.own.still \in Int /\ det'.own.seen \in Int /\ det'.ghost.seen \in Int
    BY DetectorFields, ConstantTypes DEF TypeOK
  <2>2. {Lost, LookEvery, DoublePark, Rhythm} \subseteq Nat /\ LookEvery > 0 /\ DoublePark > 0
    BY SteadyTypes
  <2>3. /\ Settled \in Int /\ Settled = LookEvery - 1 + Rhythm
        /\ Straddled \in Int /\ Straddled >= Settled + DoublePark - 1
    BY SteadyBounds
  <2> QED
    BY <2>1, <2>2, <2>3
<1>2. CASE ~Stays'
  BY <1>2 DEF Telling, CopyTrue, LooksOn, TracksLeft, Emptying, Resting, TakingBoth, Forming, Stays, Rests
<1>3. CASE lasting' = 0
  <2>1. CopyTrue' /\ LooksOn' /\ Emptying' /\ Forming'
    BY <1>3 DEF CopyTrue, LooksOn, Emptying, Forming
  <2>2. TracksLeft'
    <3>1. det'.ghost # NoTrack => det'.ghost.seen >= 0
      BY DEF Watched, Timed
    <3>2. det'.own # NoTrack => det'.own.seen >= 0
      BY DEF Watched, Timed
    <3>3. 0 <= Lost + det'.looked
      BY <1>1
    <3> QED
      BY <1>3, <3>1, <3>2, <3>3 DEF TracksLeft, Behind
  <2>3. Resting'
    <3>1. det'.own # NoTrack => det'.own.still >= 0 - Settled
      BY <1>1 DEF Watched, Timed
    <3>2. 0 <= det'.looked
      BY <1>1
    <3> QED
      BY <1>3, <3>1, <3>2 DEF Resting
  <2>4. TakingBoth'
    <3>1. 0 <= Straddled + det'.looked
      BY <1>1
    <3> QED
      BY <1>3, <3>1 DEF TakingBoth
  <2> QED
    BY <2>1, <2>2, <2>3, <2>4 DEF Telling
<1> QED
  BY <1>2, <1>3

LEMMA NextTells == Steadily /\ TInv /\ [Next]_vars => TInv'
<1> SUFFICES ASSUME Steadily, TInv, [Next]_vars PROVE TInv'
  OBVIOUS
<1>1. TypeOK' /\ Watched'
  BY NextTyped, NextWatched DEF TInv
<1> SUFFICES Telling'
  BY <1>1 DEF TInv
<1>2. CASE Score
  <2>1. PICK gap \in Gaps, hit \in Readings :
          /\ Frame(gap, hit, TRUE)
          /\ lasting' = IF bay = "gone" THEN 0 ELSE Older(lasting, gap, ToldBy)
    BY <1>2 DEF Score
  <2>2. gap \in Nat /\ hit \in BOOLEAN
    BY <2>1, ConstantTypes, ReadingsType
  <2>3. PICK d, a, l \in Detector : Goes(gap, hit, d, a, l) /\ Runs(gap, hit, TRUE, d, a, l)
    BY <2>1, <2>2, FrameGoes DEF TInv
  <2>4. CASE Stays
    <3>1. bay # "gone"
      BY <2>4 DEF Stays, Rests
    <3>2. Calmly(gap, hit, d, a, l)
      BY <2>1, <2>3, <2>4, <3>1 DEF Calmly
    <3> QED
      BY <1>1, <3>2, CalmKeeps
  <2>5. CASE ~Stays
    <3>1. lasting' = 0 \/ ~Stays'
      BY <2>1, <2>3, <2>5 DEF Goes, Stays, Rests
    <3> QED
      BY <1>1, <3>1, Disturbance
  <2> QED
    BY <2>4, <2>5
<1>3. CASE Stumble
  <2>1. PICK gap \in Gaps \cup Lapses, hit \in Readings, up \in BOOLEAN :
          Frame(gap, hit, up) /\ Disturbed(gap)
    BY <1>3 DEF Stumble
  <2>2. gap \in Nat /\ hit \in BOOLEAN
    BY <2>1, ConstantTypes, ReadingsType
  <2>3. PICK d, a, l \in Detector : Goes(gap, hit, d, a, l)
    BY <2>1, <2>2, FrameGoes DEF TInv
  <2>4. lasting' = 0 \/ ~Stays'
    BY <2>1, <2>3 DEF Disturbed, Goes, Stays, Rests
  <2> QED
    BY <1>1, <2>4, Disturbance
<1>4. CASE Restart
  <2>1. lasting' = 0 \/ ~Stays'
    BY <1>4 DEF Restart, Disturbed, Stays, Rests
  <2> QED
    BY <1>1, <2>1, Disturbance
<1>5. CASE Change
  <2>1. lasting' = 0
    BY <1>5 DEF Change
  <2> QED
    BY <1>1, <2>1, Disturbance
<1>6. ASSUME NEW occ \in BOOLEAN, Mark(occ) PROVE Telling'
  <2>1. lasting' = 0 \/ ~Stays'
    BY <1>6 DEF Mark, Disturbed, Stays, Rests
  <2> QED
    BY <1>1, <2>1, Disturbance
<1>7. CASE BeginNote \/ WriteNote \/ ClearNote \/ BeginEdit \/ EndEdit \/ UNCHANGED vars
  <2>1. UNCHANGED <<det, bay, moved, lasting>>
    BY <1>7 DEF BeginNote, WriteNote, ClearNote, BeginEdit, EndEdit, vars
  <2>2. row'.occ = row.occ
    <3>1. row \in [occ : BOOLEAN, noted : BOOLEAN]
      BY DEF TInv, TypeOK
    <3> QED
      BY <1>7, <3>1 DEF BeginNote, WriteNote, ClearNote, BeginEdit, EndEdit, vars
  <2> QED
    BY <2>1, <2>2 DEF TInv, Telling, CopyTrue, LooksOn, TracksLeft, Behind, Emptying, Resting,
                      TakingBoth, Forming, Stays, Rests
<1> QED
  BY <1>2, <1>3, <1>4, <1>5, <1>6, <1>7 DEF Next

LEMMA StartTells == Steadily /\ Init => TInv
<1> SUFFICES ASSUME Steadily, Init PROVE TInv
  OBVIOUS
<1>1. TypeOK /\ det = Started /\ lasting = 0 /\ bay = "empty" /\ row.occ = FALSE
  BY InitTyped DEF Init
<1>2. det.own = NoTrack /\ det.ghost = NoTrack /\ det.occ = FALSE /\ ~Present
  BY <1>1 DEF Started, Present
<1>3. Watched
  BY <1>2 DEF Watched, Timed
<1>4. Telling
  BY <1>1, <1>2 DEF Telling, CopyTrue, LooksOn, TracksLeft, Emptying, Resting, TakingBoth, Forming,
                    Rests, Stays
<1> QED
  BY <1>1, <1>3, <1>4 DEF TInv

(* By ToldBy no step is still to come. *)
LEMMA ToldInTime == Steadily /\ TInv => TruthInTime
<1> SUFFICES ASSUME Steadily, TInv, lasting = ToldBy, bay = "empty" \/ Rests
             PROVE  row.occ <=> Rests
  BY DEF TruthInTime, Rests
<1>1. /\ {Rhythm, LookEvery, ClaimLook, Ttl, ClaimAfter, Hits, Grace, DoublePark, Lost, StillFor} \subseteq Nat
      /\ LookEvery > 0 /\ ClaimAfter > 0 /\ Hits > 0 /\ Grace > 0 /\ Rhythm > 0 /\ StillFor > 0
      /\ ToldBy \in Nat
  BY SteadyTypes
<1>2. /\ Settled \in Int /\ Settled = LookEvery - 1 + Rhythm
      /\ Emptied \in Int /\ Emptied >= Rhythm + Lost + LookEvery - 1 /\ Emptied >= Rhythm + Ttl - 1
      /\ Straddled \in Int
      /\ Believed \in Int /\ Believed >= Settled + StillFor - 1 /\ Believed >= Ttl - 1
      /\ Begun \in Int /\ Begun = Believed + Rhythm + Rhythm + LookEvery - 1
  BY SteadyBounds
<1>3. PICK n \in Nat : n = Hits * Rhythm
  BY <1>1, InARow
<1>4. /\ Emptied + Grace <= ToldBy /\ Straddled + LookEvery <= ToldBy
      /\ Begun + Rhythm + ClaimAfter <= ToldBy /\ Begun + n <= ToldBy
  BY <1>3 DEF Steadily
<1>5. lasting > 0 /\ lasting > Ttl - 1 /\ lasting > Believed
  BY <1>1, <1>2, <1>4
<1>6. Stays /\ det.looked < LookEvery /\ det.looked \in Nat
  <2>1. det.looked \in Nat /\ Stays
    BY DetectorFields, ConstantTypes DEF TInv, TypeOK, Stays
  <2> QED
    BY <1>5, <2>1 DEF TInv, Telling, LooksOn
<1>7. det.occ = row.occ
  <2>1. det.read \in Nat
    BY ConstantTypes DEF TInv, TypeOK, Detector
  <2>2. ~(lasting = 0 \/ (lasting <= det.read /\ det.read < Ttl))
    BY <1>1, <1>5, <2>1
  <2> QED
    BY <1>6, <2>2 DEF TInv, Telling, CopyTrue
<1>8. CASE bay = "empty"
  <2>1. det.filled \in Int
    BY DEF TInv, TypeOK, Detector
  <2>2. det.occ => det.filled < Grace /\ lasting <= Emptied + det.filled
    BY <1>5, <1>8 DEF TInv, Telling, Emptying
  <2>3. ~det.occ
    BY <1>1, <1>2, <1>4, <2>1, <2>2
  <2> QED
    BY <1>7, <1>8, <2>3 DEF Rests
<1>9. CASE bay = "straddling"
  <2>1. ~det.occ => lasting <= Straddled + det.looked
    BY <1>9 DEF TInv, Telling, TakingBoth
  <2>2. det.occ
    BY <1>1, <1>2, <1>4, <1>6, <2>1
  <2> QED
    BY <1>7, <1>9, <2>2 DEF Rests
<1>10. CASE bay = "standing"
  <2> SUFFICES ASSUME ~det.occ PROVE FALSE
    BY <1>7, <1>10 DEF Rests
  <2>1. det.streak \in 0..Hits /\ det.since \in -1..ClaimAfter
    BY DEF TInv, TypeOK, Detector
  <2>2. /\ det.since < ClaimAfter \/ det.streak < Hits
        /\ det.streak = 0 => \/ lasting <= Believed + Rhythm + det.looked
                             \/ det.looked = 0 /\ lasting <= Begun
        /\ det.streak > 0 => /\ lasting <= Begun + Rhythm + det.since \/ det.since = ClaimAfter
                             /\ lasting <= Begun + det.streak * Rhythm \/ det.streak = Hits
    BY <1>5, <1>10 DEF TInv, Telling, Forming
  <2>3. CASE det.streak = 0
    <3>1. lasting <= Believed + Rhythm + det.looked \/ lasting <= Begun
      BY <2>2, <2>3
    <3> QED
      BY <1>1, <1>2, <1>4, <1>6, <3>1
  <2>4. CASE det.streak > 0 /\ det.since < ClaimAfter
    <3>1. lasting <= Begun + Rhythm + det.since
      BY <2>1, <2>2, <2>4
    <3> QED
      BY <1>1, <1>2, <1>4, <2>1, <2>4, <3>1
  <2>5. CASE det.streak > 0 /\ det.streak < Hits
    <3>1. lasting <= Begun + det.streak * Rhythm
      BY <2>1, <2>2, <2>5
    <3>2. PICK k \in Nat : k = det.streak * Rhythm
      BY <1>1, <2>1, InARow
    <3>3. k + Rhythm <= n
      <4>1. PICK j \in Nat : Hits = det.streak + 1 + j
        <5>1. Hits - det.streak - 1 \in Nat
          BY <1>1, <2>1, <2>5
        <5>2. Hits = det.streak + 1 + (Hits - det.streak - 1)
          BY <1>1, <2>1
        <5> QED
          BY <5>1, <5>2
      <4>2. Hits * Rhythm = det.streak * Rhythm + Rhythm + j * Rhythm
        <5>1. det.streak \in Nat
          BY <2>1
        <5>2. (det.streak + 1 + j) * Rhythm = det.streak * Rhythm + Rhythm + j * Rhythm
          BY <1>1, <5>1, InSum
        <5> QED
          BY <4>1, <5>2
      <4>3. PICK i \in Nat : i = j * Rhythm
        BY <1>1, InARow
      <4>4. n = k + Rhythm + i
        BY <1>3, <3>2, <4>2, <4>3
      <4> QED
        BY <1>1, <4>4
    <3>4. lasting <= Begun + k
      BY <3>1, <3>2
    <3> QED
      BY <1>1, <1>2, <1>4, <3>3, <3>4
  <2> QED
    BY <2>1, <2>2, <2>3, <2>4, <2>5
<1> QED
  BY <1>8, <1>9, <1>10 DEF Rests

(* The row comes to tell the truth of a bay that stays as it is, after no  *)
(* more ticks than its steps take, whatever the rhythm of the frames and   *)
(* the thresholds, as long as a look taken for a claim is believed until   *)
(* the next: however the bay was marked before, whatever the thread        *)
(* remembers of other vehicles, whichever of its writes failed, and        *)
(* through outages and restarts.                                           *)
THEOREM TruthComesInTime ==
  ASSUME Steadily
  PROVE  Spec => []TruthInTime
<1>1. Steadily
  OBVIOUS
<1>2. Init => TInv
  BY <1>1, StartTells
<1>3. TInv /\ [Next]_vars => TInv'
  BY <1>1, NextTells
<1>4. TInv => TruthInTime
  BY <1>1, ToldInTime
<1> QED
  BY <1>2, <1>3, <1>4, PTL DEF Spec

=============================================================================
