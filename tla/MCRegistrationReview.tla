------------------------ MODULE MCRegistrationReview ------------------------
(* Small instances of RegistrationReview for TLC. *)
EXTENDS RegistrationReview, TLC

SymmetricSets ==
  Permutations(Apps) \cup Permutations(Plates)
    \cup Permutations(Receipts) \cup Permutations(Handlers)

Deciding == LockingJobs \cup {"reject"}

(* The bounds of the rejections.  A rejection loads the row, asks it and   *)
(* saves it whole with no lock, so one that shares its application with    *)
(* another request may undo what that request has committed: here no other *)
(* request is under way beside it.  To keep the instance small, a rejected *)
(* application has one other beside it.                                    *)
RejectsAlone ==
  /\ \A g, h \in Handlers :
       req[g].job = "reject" /\ g # h => req[h].pc = "idle"
  /\ \A a \in Apps :
       reg[a].status = "rejected" => \E b \in Apps : reg[b].status = "absent"

Desk == AllJobs \ {"walkin"}

=============================================================================
