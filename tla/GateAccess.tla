----------------------------- MODULE GateAccess -----------------------------
(***************************************************************************)
(* The readers at the gate of a building and what they recognise: plates   *)
(* and their review (lamto/gate/enrollment.py, review.py), the credentials *)
(* of the readers (devices.py), recognition (recognition.py, matching.py)  *)
(* and the events it leaves behind until the purge (retention.py).         *)
(*                                                                         *)
(* A manager's request reads a plate, tests it and writes it in statements *)
(* of their own; rotations of a credential may overlap.  Only the unique   *)
(* constraints of the database stand between them.                         *)
(***************************************************************************)
EXTENDS Naturals, FiniteSets

CONSTANTS
    Holders,
    Plates,       \* normalised plates
    Texts,        \* what people type and readers read
    Norm,         \* normalize_plate: a plate, or Unreadable
    Unreadable,
    Credentials,  \* credentials of one reader
    Nobody,
    Grace,        \* GATE_CREDENTIAL_ROTATION_GRACE_HOURS
    Retention,    \* GATE_EVENT_RETENTION_HOURS
    MaxGateTime   \* bound of the model on the clock

ASSUME NormAssumption == Norm \in [Texts -> Plates \cup {Unreadable}]
ASSUME GateTimeAssumption == Grace \in Nat /\ Retention \in Nat /\ MaxGateTime \in Nat

VARIABLES
    plate,        \* VehiclePlate rows: status by occupancy and plate
    plateReview,  \* a manager's request on a plate: [step, seen]
    lives,        \* active occupancies
    cred,         \* GateDeviceCredential rows: [issued, expires, revoked]
    rotation,     \* rotations whose update has run: the credential to be issued
    events,       \* GateEvent rows: [occ, plate, text, at]
    gateTime

plateVars == <<plate, plateReview>>
credVars == <<cred, rotation>>
gateVars == <<plateVars, lives, credVars, events, gateTime>>

Status == {"NONE", "PENDING", "APPROVED", "REJECTED"}
PlateRows == Holders \X Plates
Never == MaxGateTime + Grace + 1
NoCredential == [issued |-> FALSE, expires |-> Never, revoked |-> FALSE]

GateTypeOK ==
    /\ plate \in [PlateRows -> Status]
    /\ plateReview \in [PlateRows -> [step : {"idle", "read", "free"}, seen : Status]]
    /\ lives \subseteq Holders
    /\ cred \in [Credentials -> [issued : BOOLEAN, expires : 0 .. Never, revoked : BOOLEAN]]
    /\ rotation \subseteq Credentials
    /\ events \subseteq [occ : Holders \cup {Nobody}, plate : Plates, at : 0 .. MaxGateTime]
    /\ gateTime \in 0 .. MaxGateTime

GateInit ==
    /\ plate = [r \in PlateRows |-> "NONE"]
    /\ plateReview = [r \in PlateRows |-> [step |-> "idle", seen |-> "NONE"]]
    /\ lives = Holders
    /\ \E c \in Credentials : cred = [k \in Credentials |->
           IF k = c THEN [NoCredential EXCEPT !.issued = TRUE] ELSE NoCredential]
    /\ rotation = {}
    /\ events = {}
    /\ gateTime = 0

-----------------------------------------------------------------------------
(* Plates.                                                                 *)

(* The plate p is approved for somebody other than o. *)
HeldElsewhere(o, p) == \E q \in Holders \ {o} : plate[<<q, p>>] = "APPROVED"

(* submit_plate: a new row, or a rejected one once more.  The look at the  *)
(* other holders and the write are statements of their own in the code; an *)
(* approval between them only leaves a request that cannot be approved.    *)
SubmitPlate(o, t) ==
    LET p == Norm[t]
    IN  /\ o \in lives
        /\ p # Unreadable
        /\ ~HeldElsewhere(o, p)
        /\ plate[<<o, p>>] \in {"NONE", "REJECTED"}
        /\ plate' = [plate EXCEPT ![<<o, p>>] = "PENDING"]
        /\ UNCHANGED <<plateReview, lives, credVars, events, gateTime>>

(* revoke_plate: the row goes, and every event that names it. *)
RevokePlate(o, p) ==
    /\ o \in lives
    /\ plate[<<o, p>>] # "NONE"
    /\ plate' = [plate EXCEPT ![<<o, p>>] = "NONE"]
    /\ events' = {e \in events : ~(e.occ = o /\ e.plate = p)}
    /\ UNCHANGED <<plateReview, lives, credVars, gateTime>>

(* gate_plate_decide reads the row. *)
ReadPlate(r) ==
    /\ plate[r] # "NONE" /\ plateReview[r].step = "idle"
    /\ plateReview' = [plateReview EXCEPT ![r] = [step |-> "read", seen |-> plate[r]]]
    /\ UNCHANGED <<plate, lives, credVars, events, gateTime>>

(* approve_plate looks for another holder. *)
TestHolder(r) ==
    /\ plateReview[r].step = "read" /\ plateReview[r].seen # "APPROVED"
    /\ ~HeldElsewhere(r[1], r[2])
    /\ plateReview' = [plateReview EXCEPT ![r].step = "free"]
    /\ UNCHANGED <<plate, lives, credVars, events, gateTime>>

PlateDecided(r) == plateReview' = [plateReview EXCEPT ![r] = [step |-> "idle", seen |-> "NONE"]]

(* Mutated form: no constraint stands behind the test. *)
WritableUnchecked(r, s) == plate[r] # "NONE"

(* The update finds the row and meets the constraint                       *)
(* gate_approved_plate_once_per_building.                                  *)
Writable(r, s) ==
    /\ plate[r] # "NONE"
    /\ s = "APPROVED" => ~HeldElsewhere(r[1], r[2])

(* approve_plate writes. *)
ApprovePlate(r) ==
    /\ plateReview[r].step = "free" /\ Writable(r, "APPROVED")
    /\ plate' = [plate EXCEPT ![r] = "APPROVED"]
    /\ PlateDecided(r)
    /\ UNCHANGED <<lives, credVars, events, gateTime>>

(* reject_plate and revoke_plate_as_manager write whatever is there. *)
RejectPlate(r) ==
    /\ plateReview[r].step = "read" /\ Writable(r, "REJECTED")
    /\ plate' = [plate EXCEPT ![r] = "REJECTED"]
    /\ PlateDecided(r)
    /\ UNCHANGED <<lives, credVars, events, gateTime>>

(* Nothing to do, another holder, or an update that fails. *)
LeavePlate(r) ==
    /\ plateReview[r].step # "idle"
    /\ \/ plateReview[r].seen = "APPROVED"
       \/ HeldElsewhere(r[1], r[2])
       \/ plate[r] = "NONE"
    /\ PlateDecided(r)
    /\ UNCHANGED <<plate, lives, credVars, events, gateTime>>

-----------------------------------------------------------------------------
(* Credentials of a reader.                                                *)

(* GateDeviceCredential.is_valid. *)
IsValid(c) == cred[c].issued /\ ~cred[c].revoked /\ cred[c].expires > gateTime

(* Mutated form: no grace. *)
RotatedAtOnce(c) ==
    IF cred[c].issued /\ ~cred[c].revoked THEN [cred[c] EXCEPT !.expires = gateTime] ELSE cred[c]

(* What the update of rotate_credential makes of a credential. *)
Rotated(c) ==
    IF cred[c].issued /\ ~cred[c].revoked /\ cred[c].expires > gateTime + Grace
    THEN [cred[c] EXCEPT !.expires = gateTime + Grace] ELSE cred[c]

(* rotate_credential, by one manager at a time. *)
Rotate(c) ==
    /\ ~cred[c].issued /\ c \notin rotation
    /\ cred' = [k \in Credentials |->
                   IF k = c THEN [NoCredential EXCEPT !.issued = TRUE] ELSE Rotated(k)]
    /\ UNCHANGED <<rotation, plateVars, lives, events, gateTime>>

(* rotate_credential by two managers at once: each update runs before the  *)
(* other's credential is committed.                                        *)
BeginRotation(c) ==
    /\ ~cred[c].issued /\ c \notin rotation
    /\ cred' = [k \in Credentials |-> Rotated(k)]
    /\ rotation' = rotation \cup {c}
    /\ UNCHANGED <<plateVars, lives, events, gateTime>>

IssueRotated(c) ==
    /\ c \in rotation
    /\ cred' = [cred EXCEPT ![c] = [NoCredential EXCEPT !.issued = TRUE]]
    /\ rotation' = rotation \ {c}
    /\ UNCHANGED <<plateVars, lives, events, gateTime>>

(* revoke_credential: two columns of the row, read before. *)
RevokeCredential(c) ==
    /\ cred[c].issued
    /\ cred' = [cred EXCEPT ![c].revoked = TRUE]
    /\ UNCHANGED <<rotation, plateVars, lives, events, gateTime>>

-----------------------------------------------------------------------------
(* Recognition.                                                            *)

(* match_plate: the approved row of an active occupancy. *)
MatchPlate(p) == {o \in lives : plate[<<o, p>>] = "APPROVED"}

(* authenticate_device and recognize_plate; a reader that holds no valid   *)
(* credential, or reads something that is no plate, leaves no event.       *)
RecognizePlate(c, t) ==
    LET p == Norm[t]
    IN  /\ IsValid(c)
        /\ p # Unreadable
        /\ \E o \in IF MatchPlate(p) = {} THEN {Nobody} ELSE MatchPlate(p) :
              events' = events \cup {[occ |-> o, plate |-> p, at |-> gateTime]}
        /\ UNCHANGED <<plateVars, lives, credVars, gateTime>>

(* purge_expired_gate_events. *)
PurgeEvents ==
    /\ \E e \in events : e.at + Retention < gateTime
    /\ events' = {e \in events : e.at + Retention >= gateTime}
    /\ UNCHANGED <<plateVars, lives, credVars, gateTime>>

-----------------------------------------------------------------------------

(* Residents move out and in. *)
MoveHolder(o) ==
    /\ lives' = IF o \in lives THEN lives \ {o} ELSE lives \cup {o}
    /\ UNCHANGED <<plateVars, credVars, events, gateTime>>

GateTick ==
    /\ gateTime < MaxGateTime
    /\ gateTime' = gateTime + 1
    /\ UNCHANGED <<plateVars, lives, credVars, events>>

PlateNext ==
    \/ \E o \in Holders, t \in Texts : SubmitPlate(o, t)
    \/ \E o \in Holders, p \in Plates : RevokePlate(o, p)
    \/ \E r \in PlateRows :
          ReadPlate(r) \/ TestHolder(r) \/ ApprovePlate(r) \/ RejectPlate(r) \/ LeavePlate(r)
    \/ \E o \in Holders : MoveHolder(o)

ReaderNext ==
    \/ \E c \in Credentials : Rotate(c) \/ RevokeCredential(c) \/ \E t \in Texts : RecognizePlate(c, t)
    \/ PurgeEvents
    \/ GateTick

OverlapNext == \E c \in Credentials : BeginRotation(c) \/ IssueRotated(c)

GateSpec == GateInit /\ [][PlateNext \/ ReaderNext \/ OverlapNext]_gateVars

-----------------------------------------------------------------------------
(* Properties.                                                             *)

(* Two managers may approve the same plate for two residents at the same   *)
(* moment: at most one of them holds it, and what a reader matches is one  *)
(* resident.                                                               *)
PlateHeldOnce ==
    /\ GateTypeOK
    /\ \A p \in Plates : Cardinality({o \in Holders : plate[<<o, p>>] = "APPROVED"}) <= 1

(* Rotating never locks a reader out, and never lets a credential live     *)
(* longer: what was valid before stays valid for the grace period unless   *)
(* somebody revokes it, a credential that has an end never gets a later    *)
(* one, and a revoked one stays revoked, also when rotations overlap       *)
(* (rotate_credential, revoke_credential).                                 *)
RotationKeepsReader ==
    [][\A c \in Credentials : cred[c].issued =>
          /\ cred'[c].expires <= cred[c].expires
          /\ cred[c].revoked => cred'[c].revoked
          /\ IsValid(c) /\ ~cred'[c].revoked =>
                \/ cred'[c].expires = cred[c].expires
                \/ cred'[c].expires >= gateTime + Grace]_gateVars
=============================================================================
