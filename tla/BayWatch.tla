------------------------------ MODULE BayWatch ------------------------------
(***************************************************************************)
(* One parking bay and everybody who writes its row: the detector thread   *)
(* of the zone, which compares each frame with the empty lot, keeps its    *)
(* own copy of the row and of every clock, and asks the vehicle detector   *)
(* now and then whether what changed is a vehicle come to rest; the guard  *)
(* who records who is parked there; the CDSO who marks the bay or edits    *)
(* its layout.                                                             *)
(*                                                                         *)
(* vehicles/parking_camera.py, vehicles/vehicle_tracker.py,                *)
(* vehicles/views.py (ParkingSpaceViewSet), vehicles/serializers.py.       *)
(*                                                                         *)
(* Time passes with the frames.  A clock is the number of ticks since it   *)
(* was started, and stops at the threshold it is compared with.            *)
(***************************************************************************)
EXTENDS Integers

CONSTANTS
  Gaps,         \* ticks from one scored frame to the next
  Lapses,       \* the same when the camera or the machine is slow or out
  Offline,      \* a gap that counts as an outage of the camera
  Hits,         \* frames in a row a claim takes           (OCCUPY_THR)
  ClaimAfter,   \* unbroken ticks a claim takes            (BASELINE_CLAIM_SECONDS)
  Grace,        \* ticks an empty bay stays taken          (OCCUPIED_GRACE_SECONDS)
  Fresh,        \* how old a look at a vehicle is believed (TRACK_FRESH_SECONDS)
  StillFor,     \* ticks after which a vehicle has stopped (PASSING_MOVE_WINDOW)
  HoldStill,    \* ticks after which it holds its bay      (RELEASE_HOLD_STILL_SECONDS)
  DoublePark,   \* ticks after which it blocks two         (DOUBLE_PARK_AFTER_SECONDS)
  Lost,         \* ticks after which a vehicle is forgotten (TRACK_LOST_SECONDS)
  LookEvery,    \* ticks between two looks                 (DETECT_INTERVAL_SECONDS)
  ClaimLook,    \* the same while a claim is forming       (CLAIM_DETECT_INTERVAL_SECONDS)
  Ttl,          \* ticks a copy of the row is used         (LAYOUT_TTL_SECONDS)
  ToldBy,       \* ticks within which the row tells of a bay that stays as it is
  MaxUpsets     \* bound: lapses, failed writes, restarts and marks of the CDSO

(* Fresh and StillFor are the same half second, which no frame falls on:   *)
(* in whole ticks the last look that is fresh is younger than the first    *)
(* stillness that counts.                                                  *)
ASSUME BayAssumption ==
  /\ Gaps \cup Lapses \subseteq Nat \ {0} /\ Offline \in Nat
  /\ {Hits, ClaimAfter, Grace, Fresh, StillFor, HoldStill, DoublePark, Lost} \subseteq Nat \ {0}
  /\ {LookEvery, ClaimLook, Ttl, ToldBy, MaxUpsets} \subseteq Nat
  /\ Fresh < StillFor

VARIABLES
  row,      \* ParkingSpace: taken, and whether a guard's note is on it
  det,      \* the detector thread: its copy of the row, its clocks, its tracks
  bay,      \* what is really in the bay
  moved,    \* it has moved since the last look
  lasting,  \* history: ticks the bay has been as it is, undisturbed
  carried,  \* history: the run of hits began while the bay was taken
  noting,   \* a guard's note, begun on a bay that was taken
  editing,  \* an edit of the bay, begun on a copy that was free
  upsets    \* how many of the bounded steps were taken

vars == <<row, det, bay, moved, lasting, carried, noting, editing, upsets>>

Never == -1

(* seen, still: ticks since the last look and since it settled. *)
NoTrack == [seen |-> Never, still |-> Never]
Track == [seen : -1..Lost + 1, still : -1..DoublePark]

Detector ==
  [occ : BOOLEAN,             \* is_occupied, in memory
   read : 0..Ttl,             \* since the layout was read      (_spaces_at)
   streak : 0..Hits,          \* frames in a row                (_hyst)
   since : -1..ClaimAfter,    \* since the run of hits began    (_changed_since)
   filled : -1..Grace,        \* since it last looked filled    (_last_filled)
   looked : 0..LookEvery,     \* since the vehicle detector ran (_last_detect)
   own : Track,               \* the track of the vehicle in the bay
   ghost : Track]             \* a track left behind over the bay

Bays == {"empty", "shadow", "crossing", "standing", "straddling", "gone"}

TypeOK ==
  /\ row \in [occ : BOOLEAN, noted : BOOLEAN]
  /\ det \in Detector
  /\ bay \in Bays
  /\ lasting \in 0..ToldBy
  /\ {moved, carried, noting, editing} \subseteq BOOLEAN
  /\ upsets \in 0..MaxUpsets

(* A thread just started: nothing read, nothing seen. *)
Started ==
  [occ |-> FALSE, read |-> Ttl, streak |-> 0, since |-> Never, filled |-> Never,
   looked |-> LookEvery, own |-> NoTrack, ghost |-> NoTrack]

Init ==
  /\ row = [occ |-> FALSE, noted |-> FALSE]
  /\ det = Started
  /\ bay = "empty" /\ moved = FALSE /\ lasting = 0
  /\ carried = FALSE /\ noting = FALSE /\ editing = FALSE
  /\ upsets = 0

-----------------------------------------------------------------------------
(* The clocks. *)
Older(age, gap, limit) ==
  CASE age = Never                        -> Never
    [] age # Never /\ age + gap > limit   -> limit
    [] OTHER                              -> age + gap

OlderTrack(t, gap) ==
  [seen |-> Older(t.seen, gap, Lost + 1), still |-> Older(t.still, gap, DoublePark)]

Aged(d, gap) ==
  [d EXCEPT !.read = Older(@, gap, Ttl), !.since = Older(@, gap, ClaimAfter),
            !.filled = Older(@, gap, Grace), !.looked = Older(@, gap, LookEvery),
            !.own = OlderTrack(@, gap), !.ghost = OlderTrack(@, gap)]

(* After an outage: a full grace, no half-formed claim, no track. *)
Resumed(d) ==
  [d EXCEPT !.filled = IF @ = Never THEN Never ELSE 0, !.streak = 0, !.since = Never,
            !.own = NoTrack, !.ghost = NoTrack]

(* The layout is read again when its time is up; a failed read keeps it. *)
Reloaded(d, up) ==
  IF up /\ d.read = Ttl THEN [d EXCEPT !.occ = row.occ, !.read = 0] ELSE d

-----------------------------------------------------------------------------
(* What the tracks say of the bay.  A settled vehicle holds it; a vehicle  *)
(* not seen to have stopped keeps it from being claimed.                   *)
Tracks(d) == {d.own, d.ghost} \ {NoTrack}

Held(d) == \E t \in Tracks(d) : t.still >= HoldStill

(* Faulty variant: stillness is inferred from a clock that runs on between *)
(* two looks.                                                              *)
InferredStill(t) == t.still >= StillFor

SeenStill(t) == t.seen <= Fresh /\ t.still >= StillFor

Suppressed(d) == \E t \in Tracks(d) : ~SeenStill(t)

(* _set_occupied: the copy follows the row, or goes back if it fails.      *)
Set(d, occ, up) == IF up THEN [d EXCEPT !.occ = occ, !.streak = 0] ELSE d

(* The grace clock of a taken bay; a free one has none. *)
Filled(d, hit) ==
  [d EXCEPT !.filled =
     CASE ~d.occ                               -> Never
       [] d.occ /\ (hit \/ Held(d) \/ @ = Never) -> 0
       [] OTHER                                -> @]

(* One more hit in a row. *)
Counted(d) ==
  [d EXCEPT !.streak = IF @ < Hits THEN @ + 1 ELSE Hits,
            !.since = IF @ = Never THEN 0 ELSE @]

Claims(d) == ~d.occ /\ d.streak = Hits /\ d.since >= ClaimAfter

(* _apply_hits: the hysteresis of one bay on one frame. *)
ApplyHits(d, hit, up) ==
  LET f == Filled(d, hit)
      c == Counted(f)
      e == [f EXCEPT !.streak = 0, !.since = Never] IN
  CASE hit /\ ~d.occ /\ Suppressed(d)       -> [f EXCEPT !.since = 0]
    [] hit /\ (d.occ \/ ~Suppressed(d))     ->
         IF Claims(c) THEN [Set(c, TRUE, up) EXCEPT !.filled = 0] ELSE c
    [] OTHER                                ->
         IF e.occ /\ e.filled >= Grace THEN Set(e, FALSE, up) ELSE e

-----------------------------------------------------------------------------
(* Faulty variant: the vehicle detector keeps its ordinary cadence. *)
LookOnlyNow(d) == d.looked >= LookEvery

(* It is asked far more often while a claim is forming. *)
LookNow(d) ==
  d.looked >= (IF ~d.occ /\ d.streak > 0 THEN ClaimLook ELSE LookEvery)

Present == bay \in {"crossing", "standing", "straddling"}

Forget(t) == IF t.seen > Lost THEN NoTrack ELSE t

(* The ways a look can be matched with the tracks there are.  A vehicle    *)
(* that moved has left its anchor, or overlaps so little with its track    *)
(* that it starts another; one at rest is found where it was.  One not     *)
(* tracked yet starts a track, or is taken for a vehicle gone from the     *)
(* same spot.  Of the tracks left behind the latest is kept.               *)
Looks(d) ==
  LET here == [d EXCEPT !.looked = 0, !.ghost = Forget(@)]
      anew == [seen |-> 0, still |-> 0] IN
  CASE ~Present ->
         {here}
    [] Present /\ d.own # NoTrack /\ ~moved ->
         {[here EXCEPT !.own.seen = 0]}
    [] Present /\ d.own # NoTrack /\ moved ->
         {[here EXCEPT !.own = anew], [here EXCEPT !.own = anew, !.ghost = Forget(d.own)]}
    [] OTHER ->
         {[here EXCEPT !.own = anew]} \cup
           {[here EXCEPT !.own = [seen |-> 0, still |-> s], !.ghost = NoTrack] :
              s \in IF d.ghost = NoTrack THEN {} ELSE {0, d.ghost.still}}

(* A vehicle at rest across two bays takes them both, whatever the frame   *)
(* says, once it has stood there; a write that fails leaves a full streak. *)
Blocked(d, up) ==
  LET f == [d EXCEPT !.filled = 0] IN
  IF bay # "straddling" \/ d.own.still < DoublePark THEN d
  ELSE IF d.occ THEN f ELSE Set([f EXCEPT !.streak = Hits], TRUE, up)

(* The empty-lot comparison; a vehicle across the line covers too little   *)
(* of the bay to read as a change.                                         *)
Readings ==
  CASE bay \in {"standing", "shadow"}  -> {TRUE}
    [] bay = "crossing"                -> BOOLEAN
    [] OTHER                           -> {FALSE}

(* What the thread writes: the flag alone when it takes the bay; the flag  *)
(* and an empty note, in one statement, when it lets go of it.             *)
Released(r) == [occ |-> FALSE, noted |-> FALSE]

Taken(r) == [r EXCEPT !.occ = TRUE]

(* _process_frame: one frame, scored, then perhaps a look.                 *)
Frame(gap, hit, up) ==
  LET aged == Aged(det, gap)
      d == Reloaded(IF gap >= Offline THEN Resumed(aged) ELSE aged, up)
      a == ApplyHits(d, hit, up)
      claimed == ~d.occ /\ a.filled = 0
      freed == IF d.occ /\ ~a.occ THEN Released(row) ELSE row IN
  \E l \in IF claimed \/ LookNow(a) THEN Looks(a) ELSE {a} :
    LET b == IF l.looked = 0 THEN Blocked(l, up) ELSE l IN
    /\ det' = b
    /\ row' = IF b.occ /\ ~(d.occ /\ a.occ) THEN Taken(freed) ELSE freed
    /\ bay' = IF bay = "gone" THEN "empty" ELSE bay
    /\ moved' = IF bay = "crossing" THEN TRUE ELSE moved /\ l.looked # 0
    /\ carried' = (b.streak > 0 /\ (carried \/ (det.occ /\ ~d.occ)))

(* A vehicle on the move is not kept from moving. *)
Disturbed(gap) ==
  lasting' = IF bay = "crossing" THEN Older(lasting, gap, ToldBy) ELSE 0

(* The frames come in their rhythm; now and then one is late, the camera   *)
(* is out for a while, or the database does not answer.                    *)
Score ==
  /\ \E gap \in Gaps, hit \in Readings :
       /\ Frame(gap, hit, TRUE)
       /\ lasting' = IF bay = "gone" THEN 0 ELSE Older(lasting, gap, ToldBy)
  /\ UNCHANGED <<noting, editing, upsets>>

Stumble ==
  /\ upsets < MaxUpsets
  /\ upsets' = upsets + 1
  /\ \E hit \in Readings :
       \/ \E gap \in Gaps : Frame(gap, hit, FALSE) /\ Disturbed(gap)
       \/ \E gap \in Lapses : Frame(gap, hit, TRUE) /\ Disturbed(gap)
  /\ UNCHANGED <<noting, editing>>

(* The thread is stopped and another started. *)
Restart ==
  /\ upsets < MaxUpsets
  /\ upsets' = upsets + 1
  /\ det' = Started
  /\ Disturbed(0)
  /\ carried' = FALSE
  /\ UNCHANGED <<row, bay, moved, noting, editing>>

-----------------------------------------------------------------------------
(* What happens in the bay.  No vehicle follows another so closely that no *)
(* frame shows the bay between them.                                       *)
Becomes ==
  [empty |-> {"shadow", "crossing"}, shadow |-> {"empty"}, gone |-> {},
   crossing |-> {"gone", "standing", "straddling"},
   standing |-> {"crossing"}, straddling |-> {"crossing"}]

Change ==
  /\ bay' \in Becomes[bay]
  /\ moved' = (bay' = "crossing" \/ (moved /\ bay' # "gone"))
  /\ lasting' = 0
  /\ det' = IF bay' = "gone" /\ det.own # NoTrack
            THEN [det EXCEPT !.own = NoTrack, !.ghost = det.own] ELSE det
  /\ UNCHANGED <<row, carried, noting, editing, upsets>>

-----------------------------------------------------------------------------
(* A guard records who is parked there: the bay is asked to be taken, and  *)
(* the note written where it still is.  Or the note is cleared.            *)
BeginNote ==
  /\ row.occ /\ ~noting
  /\ noting' = TRUE
  /\ UNCHANGED <<row, det, bay, moved, lasting, carried, editing, upsets>>

(* Faulty variant: the check is not repeated in the statement that writes. *)
WriteNoteBlindly ==
  /\ noting
  /\ row' = [row EXCEPT !.noted = TRUE]
  /\ noting' = FALSE
  /\ UNCHANGED <<det, bay, moved, lasting, carried, editing, upsets>>

WriteNote ==
  /\ noting
  /\ row' = [row EXCEPT !.noted = @ \/ row.occ]
  /\ noting' = FALSE
  /\ UNCHANGED <<det, bay, moved, lasting, carried, editing, upsets>>

ClearNote ==
  /\ row' = [row EXCEPT !.noted = FALSE]
  /\ UNCHANGED <<det, bay, moved, lasting, carried, noting, editing, upsets>>

(* The CDSO marks the bay: the flag, and with a free one the note, in one  *)
(* transaction.                                                            *)
Mark(occ) ==
  /\ upsets < MaxUpsets
  /\ upsets' = upsets + 1
  /\ row' = IF occ THEN Taken(row) ELSE [occ |-> FALSE, noted |-> FALSE]
  /\ Disturbed(0)
  /\ UNCHANGED <<det, bay, moved, carried, noting, editing>>

(* Or edits something else of it.  The flag is not written, but the note   *)
(* is cleared if the copy loaded was of a free bay.                        *)
BeginEdit ==
  /\ ~row.occ /\ ~editing
  /\ editing' = TRUE
  /\ UNCHANGED <<row, det, bay, moved, lasting, carried, noting, upsets>>

EndEdit ==
  /\ editing
  /\ row' = [row EXCEPT !.noted = FALSE]
  /\ editing' = FALSE
  /\ UNCHANGED <<det, bay, moved, lasting, carried, noting, upsets>>

Next ==
  \/ Score \/ Stumble \/ Restart
  \/ Change
  \/ BeginNote \/ WriteNote \/ ClearNote
  \/ \E occ \in BOOLEAN : Mark(occ)
  \/ BeginEdit \/ EndEdit

Spec == Init /\ [][Next]_vars

-----------------------------------------------------------------------------
(* A free bay carries no guard's note, so that the next vehicle is never   *)
(* shown with the previous driver: whichever of the camera, the guards and *)
(* the CDSO wrote last, and however old the copy it held.                  *)
FreeBayUnnamed == row.noted => row.occ

(* A vehicle that goes on moving over a bay never takes it: when the       *)
(* thread takes a free bay on what its frames show, the vehicle, if there  *)
(* is one on the move, set off no longer ago than the detector's last look *)
(* is believed.  (A run of hits that began while the bay was taken, and    *)
(* goes on when the CDSO marks it free, is not held to this.)              *)
NeverTakenInPassing ==
  [][~row.occ /\ ~det.occ /\ det'.occ /\ ~carried => (bay = "crossing" => lasting < Fresh)]_vars

(* The row comes to tell the truth, within ToldBy ticks of frames in their *)
(* rhythm: a vehicle that stays, in the bay or across its line, is         *)
(* reported; a bay that stays empty is reported free; however it was       *)
(* marked, whatever the thread remembers, whichever write of it failed.    *)
TruthInTime ==
  lasting = ToldBy =>
    /\ bay \in {"standing", "straddling"} => row.occ
    /\ bay = "empty" => ~row.occ

=============================================================================
