--------------------------- MODULE GateEnrollment ---------------------------
(***************************************************************************)
(* Face enrolments for the gate (lamto/gate/enrollment.py, review.py,      *)
(* photos.py, retention.py): a resident submits a photo, a manager decides *)
(* on it, and the photo has to leave the storage when the decision is made *)
(* or its time is up, whichever comes first.                               *)
(*                                                                         *)
(* The storage is not part of any database transaction.  A submission is   *)
(* stored, then looks for the photo it replaces, then commits; a           *)
(* revocation looks for the photo and then deletes the enrolment.  Row     *)
(* locks order the writes to one enrolment and nothing else, so the        *)
(* transactions are split where they read without a lock.                  *)
(***************************************************************************)
EXTENDS Naturals, FiniteSets

CONSTANTS
    Occupancies,
    Submissions,     \* uploads: each stands for its photo and its vector
    NoPhoto,
    MaxRevocations,  \* bound on revocations by residents
    MaxGateFaults    \* bound on processes and connections that die

ASSUME NoPhotoAssumption == NoPhoto \notin Submissions
ASSUME EnrolBoundAssumption == MaxRevocations \in Nat /\ MaxGateFaults \in Nat

VARIABLES
    enrolment,  \* FaceEnrollment rows: [status, vector]
    photo,      \* PendingEnrollmentPhoto of each enrolment
    expired,    \* photos whose expires_at has passed
    blobs,      \* photos in the private storage
    deletions,  \* PhotoDeletion rows
    submit,     \* each upload under way: [step, occ, previous]
    revoke,     \* a resident's revocation: [step, previous]
    review,     \* a manager's POST: [step, status] as the page read it
    revocations, gateFaults

data == <<enrolment, photo, deletions, blobs>>
enrolVars == <<data, expired, submit, revoke, review, revocations, gateFaults>>

ReviewStatus == {"NONE", "PENDING", "APPROVED", "REJECTED", "EXPIRED"}
Maybe == Submissions \cup {NoPhoto}

EnrolTypeOK ==
    /\ enrolment \in [Occupancies -> [status : ReviewStatus, vector : Maybe]]
    /\ photo \in [Occupancies -> Maybe]
    /\ expired \subseteq Submissions
    /\ blobs \subseteq Submissions
    /\ deletions \subseteq Submissions
    /\ submit \in [Submissions ->
           [step : {"new", "stored", "read", "done"}, occ : Occupancies, previous : Maybe]]
    /\ revoke \in [Occupancies -> [step : {"idle", "read"}, previous : Maybe]]
    /\ review \in [Occupancies -> ReviewStatus]
    /\ revocations \in 0 .. MaxRevocations
    /\ gateFaults \in 0 .. MaxGateFaults

EnrolInit ==
    /\ enrolment = [o \in Occupancies |-> [status |-> "NONE", vector |-> NoPhoto]]
    /\ photo = [o \in Occupancies |-> NoPhoto]
    /\ expired = {} /\ blobs = {} /\ deletions = {}
    /\ submit \in [Submissions -> [step : {"new"}, occ : Occupancies, previous : {NoPhoto}]]
    /\ revoke = [o \in Occupancies |-> [step |-> "idle", previous |-> NoPhoto]]
    /\ review = [o \in Occupancies |-> "NONE"]
    /\ revocations = 0 /\ gateFaults = 0

-----------------------------------------------------------------------------
(* Photos.                                                                 *)

(* queue_photo_deletion: the durable row; the attempt that follows the     *)
(* commit is ProcessDeletion.                                              *)
Queued(p) == deletions' = deletions \cup ({p} \ {NoPhoto})

(* process_photo_deletion, after the commit or from the purge: a storage   *)
(* that refuses leaves the row for the next attempt.                       *)
ProcessDeletion(p) ==
    /\ p \in deletions
    /\ blobs' = blobs \ {p}
    /\ deletions' = deletions \ {p}
    /\ UNCHANGED <<enrolment, photo, expired, submit, revoke, review, revocations, gateFaults>>

-----------------------------------------------------------------------------
(* A resident.                                                             *)

(* submit_face_enrollment up to store_pending_photo. An upload that is     *)
(* refused, infected or has no usable face stores nothing.                 *)
Store(p) ==
    /\ submit[p].step = "new"
    /\ blobs' = blobs \cup {p}
    /\ submit' = [submit EXCEPT ![p].step = "stored"]
    /\ UNCHANGED <<enrolment, photo, deletions, expired, revoke, review, revocations, gateFaults>>

(* The transaction begins: the photo to be replaced is looked up. *)
FindPrevious(p) ==
    /\ submit[p].step = "stored"
    /\ submit' = [submit EXCEPT ![p].step = "read", ![p].previous = photo[submit[p].occ]]
    /\ UNCHANGED <<data, expired, revoke, review, revocations, gateFaults>>

(* The inserts of the transaction meet its unique columns: the storage key *)
(* of a queued deletion, the one photo of an enrolment.                    *)
Inserts(p) ==
    LET q == submit[p].previous
    IN  q \notin deletions /\ photo[submit[p].occ] \in {q, NoPhoto}

(* The transaction commits; an enrolment deleted meanwhile is inserted     *)
(* again by save().                                                        *)
CommitSubmission(p) ==
    LET o == submit[p].occ
    IN  /\ submit[p].step = "read"
        /\ Inserts(p)
        /\ enrolment' = [enrolment EXCEPT ![o] = [status |-> "PENDING", vector |-> p]]
        /\ photo' = [photo EXCEPT ![o] = p]
        /\ Queued(submit[p].previous)
        /\ submit' = [submit EXCEPT ![p].step = "done"]
        /\ UNCHANGED <<blobs, expired, revoke, review, revocations, gateFaults>>

(* delete_pending_photo takes the new photo back. *)
TakeBack(p) ==
    /\ blobs' = blobs \ {p}
    /\ submit' = [submit EXCEPT ![p].step = "done"]
    /\ UNCHANGED <<enrolment, photo, deletions, expired, revoke, review, revocations>>

(* The transaction fails on a unique column ... *)
RefuseSubmission(p) == submit[p].step = "read" /\ ~Inserts(p) /\ TakeBack(p) /\ UNCHANGED gateFaults

(* ... or because the database went away. *)
FailSubmission(p) ==
    /\ submit[p].step \in {"stored", "read"} /\ gateFaults < MaxGateFaults
    /\ gateFaults' = gateFaults + 1
    /\ TakeBack(p)

(* The transaction has committed and the callback that follows it, which   *)
(* reads and deletes the PhotoDeletion row outside its try block, loses    *)
(* the database: the exception leaves the atomic block and the photo that  *)
(* was just committed is taken back.                                       *)
FailCallback(p) ==
    LET o == submit[p].occ
    IN  /\ submit[p].step = "read"
        /\ submit[p].previous # NoPhoto /\ Inserts(p)
        /\ gateFaults < MaxGateFaults
        /\ gateFaults' = gateFaults + 1
        /\ enrolment' = [enrolment EXCEPT ![o] = [status |-> "PENDING", vector |-> p]]
        /\ photo' = [photo EXCEPT ![o] = p]
        /\ Queued(submit[p].previous)
        /\ blobs' = blobs \ {p}
        /\ submit' = [submit EXCEPT ![p].step = "done"]
        /\ UNCHANGED <<expired, revoke, review, revocations>>

(* revoke_face_enrollment reads the enrolment and its photo ... *)
FindRevoked(o) ==
    /\ revoke[o].step = "idle" /\ revocations < MaxRevocations
    /\ enrolment[o].status # "NONE"
    /\ revoke' = [revoke EXCEPT ![o] = [step |-> "read", previous |-> photo[o]]]
    /\ revocations' = revocations + 1
    /\ UNCHANGED <<data, expired, submit, review, gateFaults>>

(* ... and deletes the enrolment, with the photo row it has by then.  A    *)
(* deletion that is queued already ends the transaction.                   *)
CommitRevocation(o) ==
    LET q == revoke[o].previous
    IN  /\ revoke[o].step = "read"
        /\ revoke' = [revoke EXCEPT ![o] = [step |-> "idle", previous |-> NoPhoto]]
        /\ IF q \in deletions
           THEN UNCHANGED data
           ELSE /\ enrolment' = [enrolment EXCEPT ![o] = [status |-> "NONE", vector |-> NoPhoto]]
                /\ photo' = [photo EXCEPT ![o] = NoPhoto]
                /\ Queued(q)
                /\ UNCHANGED blobs
        /\ UNCHANGED <<expired, submit, review, revocations, gateFaults>>

-----------------------------------------------------------------------------
(* A manager.                                                              *)

(* gate_face_decide reads the enrolment. *)
ReadRequest(o) ==
    /\ review[o] = "NONE" /\ enrolment[o].status # "NONE"
    /\ review' = [review EXCEPT ![o] = enrolment[o].status]
    /\ UNCHANGED <<data, expired, submit, revoke, revocations, gateFaults>>

(* Mutated form: what the request read is trusted. *)
ApprovableUnlocked(o) == review[o] = "PENDING"

(* What approve_face demands of the locked rows. *)
Approvable(o) ==
    /\ enrolment[o].status = "PENDING"
    /\ enrolment[o].vector # NoPhoto
    /\ photo[o] # NoPhoto

(* approve_face. *)
ApproveFace(o) ==
    /\ review[o] # "NONE" /\ Approvable(o)
    /\ enrolment' = [enrolment EXCEPT ![o].status = "APPROVED"]
    /\ Queued(photo[o])
    /\ photo' = [photo EXCEPT ![o] = NoPhoto]
    /\ review' = [review EXCEPT ![o] = "NONE"]
    /\ UNCHANGED <<blobs, expired, submit, revoke, revocations, gateFaults>>

(* reject_face, which tests the status the request read, and revoke_face,  *)
(* which tests none: _close_face writes without a lock of its own and      *)
(* drops the photo the enrolment has by then.                              *)
CloseFace(o) ==
    /\ review[o] # "NONE" /\ enrolment[o].status # "NONE"
    /\ enrolment' = [enrolment EXCEPT ![o] = [status |-> "REJECTED", vector |-> NoPhoto]]
    /\ Queued(photo[o])
    /\ photo' = [photo EXCEPT ![o] = NoPhoto]
    /\ review' = [review EXCEPT ![o] = "NONE"]
    /\ UNCHANGED <<blobs, expired, submit, revoke, revocations, gateFaults>>

(* ReviewNotPossible, an unknown decision, a box not ticked, or an         *)
(* enrolment that is gone.                                                 *)
NotPossible(o) ==
    /\ review[o] # "NONE"
    /\ review' = [review EXCEPT ![o] = "NONE"]
    /\ UNCHANGED <<data, expired, submit, revoke, revocations, gateFaults>>

-----------------------------------------------------------------------------
(* The purge.                                                              *)

Expire(p) ==
    /\ \E o \in Occupancies : photo[o] = p
    /\ p \notin expired
    /\ expired' = expired \cup {p}
    /\ UNCHANGED <<data, submit, revoke, review, revocations, gateFaults>>

(* Mutated form: a photo that is still to be decided on is left alone. *)
PurgePhotoPending(o) ==
    /\ photo[o] \in expired
    /\ enrolment[o].status # "PENDING"
    /\ Queued(photo[o])
    /\ photo' = [photo EXCEPT ![o] = NoPhoto]
    /\ UNCHANGED <<enrolment, blobs, expired, submit, revoke, review, revocations, gateFaults>>

(* purge_expired_enrollment_photos: the rows are locked and read again. *)
PurgePhoto(o) ==
    /\ photo[o] \in expired
    /\ enrolment' = [enrolment EXCEPT ![o] =
                        IF @.status = "PENDING" THEN [status |-> "EXPIRED", vector |-> NoPhoto] ELSE @]
    /\ Queued(photo[o])
    /\ photo' = [photo EXCEPT ![o] = NoPhoto]
    /\ UNCHANGED <<blobs, expired, submit, revoke, review, revocations, gateFaults>>

(* The process that stored a photo dies before its transaction. *)
RequestDies(p) ==
    /\ submit[p].step \in {"stored", "read"} /\ gateFaults < MaxGateFaults
    /\ gateFaults' = gateFaults + 1
    /\ submit' = [submit EXCEPT ![p].step = "done"]
    /\ UNCHANGED <<data, expired, revoke, review, revocations>>

EnrolNext ==
    \/ \E p \in Submissions :
          \/ Store(p) \/ FindPrevious(p) \/ CommitSubmission(p) \/ RefuseSubmission(p)
          \/ FailSubmission(p) \/ FailCallback(p) \/ ProcessDeletion(p) \/ Expire(p) \/ RequestDies(p)
    \/ \E o \in Occupancies :
          \/ FindRevoked(o) \/ CommitRevocation(o)
          \/ ReadRequest(o) \/ ApproveFace(o) \/ CloseFace(o) \/ NotPossible(o)
          \/ PurgePhoto(o)

EnrolSpec == EnrolInit /\ [][EnrolNext]_enrolVars

-----------------------------------------------------------------------------
(* Properties.                                                             *)

UnderReview(p) == \E o \in Occupancies : photo[o] = p

(* However resubmissions, decisions, revocations and the purge interleave, *)
(* an enrolment has a photo exactly while it is pending, the photo belongs *)
(* to the vector that would be approved, and a vector is kept exactly      *)
(* while the enrolment is pending or approved.                             *)
ReviewIsConsistent ==
    \A o \in Occupancies :
        /\ (photo[o] # NoPhoto) <=> (enrolment[o].status = "PENDING")
        /\ photo[o] # NoPhoto => photo[o] = enrolment[o].vector
        /\ (enrolment[o].vector # NoPhoto) <=> (enrolment[o].status \in {"PENDING", "APPROVED"})

(* The photo of a pending enrolment is in the storage and nobody has been  *)
(* told to delete it: a failed or overtaken submission takes back its own. *)
ReviewPhotoIsStored ==
    \A p \in Submissions : UnderReview(p) => p \in blobs \ deletions

(* "It lives until a manager decides or the TTL expires": no photo is in   *)
(* the storage that is not under review, queued for deletion or still      *)
(* being submitted.                                                        *)
PhotosAccounted ==
    \A p \in blobs : UnderReview(p) \/ p \in deletions \/ submit[p].step \in {"stored", "read"}

(* What a manager approves is what the resident last submitted, and faces  *)
(* do not pile up.  The photo can be missing once a connection died (the   *)
(* callback that takes back a committed photo), and can stay behind once a *)
(* process died or a revocation met a resubmission (submit_face_enrollment,*)
(* revoke_face_enrollment).                                                *)
EnrolmentsHold ==
    /\ EnrolTypeOK
    /\ ReviewIsConsistent
    /\ gateFaults = 0 => ReviewPhotoIsStored
    /\ gateFaults = 0 /\ revocations = 0 => PhotosAccounted

(* Every photo under review leaves the storage in the end, whether anyone  *)
(* decides or not (approve_face, reject_face,                              *)
(* purge_expired_enrollment_photos).                                       *)
(* It holds while no process dies and nobody revokes: a revocation that    *)
(* meets a resubmission of the same resident (revoke_face_enrollment,      *)
(* submit_face_enrollment) can leave a photo behind for good.              *)
PhotosEnd == \A p \in Submissions : UnderReview(p) ~> p \notin blobs
=============================================================================
