---------------------------- MODULE Access_proofs ----------------------------
(***************************************************************************)
(* Proofs about who gets in: GateAccess, GateEnrollment, Registration,     *)
(* ResidentAccess, ManagementWorkspace and AuthThrottle, each for any      *)
(* number of residents, plates, readers, requests, tabs and buildings.     *)
(***************************************************************************)
EXTENDS GateAccess, GateEnrollment, ResidentAccess, Registration, ManagementWorkspace, AuthThrottle,
        Sums_proofs

-----------------------------------------------------------------------------
(* The gate: plates and readers. *)

(* A plate has one holder. *)
OneHolder ==
    \A p \in Plates, o, q \in Holders :
        plate[<<o, p>>] = "APPROVED" /\ plate[<<q, p>>] = "APPROVED" => o = q

(* A credential that is being rotated in is not issued yet. *)
RotationsNew == \A c \in rotation : ~cred[c].issued

GateInv == GateTypeOK /\ OneHolder /\ RotationsNew

CredStates == [issued : BOOLEAN, expires : 0 .. Never, revoked : BOOLEAN]

(* A credential after an update of rotate_credential. *)
LEMMA RotatedFields ==
  ASSUME GateTypeOK, NEW c \in Credentials
  PROVE  /\ Rotated(c) \in CredStates
         /\ Rotated(c).issued = cred[c].issued /\ Rotated(c).revoked = cred[c].revoked
         /\ Rotated(c).expires <= cred[c].expires
         /\ Rotated(c).expires = cred[c].expires \/ Rotated(c).expires >= gateTime + Grace
<1>1. cred[c] \in CredStates /\ gateTime \in 0 .. MaxGateTime
  BY DEF GateTypeOK, CredStates
<1>2. gateTime + Grace \in 0 .. Never /\ Never \in Nat
  BY <1>1, GateTimeAssumption DEF Never
<1>3. \A f \in CredStates : /\ [f EXCEPT !.expires = gateTime + Grace] \in CredStates
                            /\ [f EXCEPT !.expires = gateTime + Grace].issued = f.issued
                            /\ [f EXCEPT !.expires = gateTime + Grace].revoked = f.revoked
                            /\ [f EXCEPT !.expires = gateTime + Grace].expires = gateTime + Grace
  BY <1>2 DEF CredStates
<1>4. cred[c].expires \in 0 .. Never
  BY <1>1 DEF CredStates
<1>5. CASE cred[c].issued /\ ~cred[c].revoked /\ cred[c].expires > gateTime + Grace
  <2>1. Rotated(c) = [cred[c] EXCEPT !.expires = gateTime + Grace]
    BY <1>5 DEF Rotated
  <2>2. /\ Rotated(c) \in CredStates
        /\ Rotated(c).issued = cred[c].issued /\ Rotated(c).revoked = cred[c].revoked
        /\ Rotated(c).expires = gateTime + Grace
    BY Zenon, <1>1, <1>3, <2>1
  <2>3. gateTime + Grace <= cred[c].expires /\ gateTime + Grace >= gateTime + Grace
    BY <1>2, <1>4, <1>5
  <2> QED
    BY Zenon, <2>2, <2>3
<1>6. CASE ~(cred[c].issued /\ ~cred[c].revoked /\ cred[c].expires > gateTime + Grace)
  <2>1. Rotated(c) = cred[c]
    BY <1>6 DEF Rotated
  <2> QED
    BY <1>1, <1>2, <1>4, <2>1
<1> QED
  BY <1>5, <1>6

(* A credential as it is issued. *)
LEMMA IssuedFields ==
  LET new == [NoCredential EXCEPT !.issued = TRUE]
  IN  new \in CredStates /\ new.issued
<1>1. NoCredential \in CredStates
  BY GateTimeAssumption DEF NoCredential, CredStates, Never
<1>2. \A f \in CredStates : [f EXCEPT !.issued = TRUE] \in CredStates /\ [f EXCEPT !.issued = TRUE].issued
  BY DEF CredStates
<1> QED
  BY <1>1, <1>2

(* What a step does to the credentials. *)
LEMMA CredStep ==
  ASSUME GateInv, [PlateNext \/ ReaderNext \/ OverlapNext]_gateVars
  PROVE  /\ cred' \in [Credentials -> CredStates] /\ rotation' \subseteq Credentials /\ RotationsNew'
         /\ \A c \in Credentials : cred[c].issued =>
               /\ cred'[c].expires <= cred[c].expires
               /\ cred[c].revoked => cred'[c].revoked
               /\ IsValid(c) /\ ~cred'[c].revoked =>
                     \/ cred'[c].expires = cred[c].expires
                     \/ cred'[c].expires >= gateTime + Grace
<1> DEFINE Goal == /\ cred' \in [Credentials -> CredStates] /\ rotation' \subseteq Credentials /\ RotationsNew'
                   /\ \A c \in Credentials : cred[c].issued =>
                         /\ cred'[c].expires <= cred[c].expires
                         /\ cred[c].revoked => cred'[c].revoked
                         /\ IsValid(c) /\ ~cred'[c].revoked =>
                               \/ cred'[c].expires = cred[c].expires
                               \/ cred'[c].expires >= gateTime + Grace
           new == [NoCredential EXCEPT !.issued = TRUE]
<1>1. /\ cred \in [Credentials -> CredStates] /\ rotation \subseteq Credentials /\ GateTypeOK
      /\ \A c \in rotation : ~cred[c].issued
  BY DEF GateInv, GateTypeOK, CredStates, RotationsNew
<1>2. \A c \in Credentials : cred[c].expires \in 0 .. Never /\ cred[c].expires <= cred[c].expires
  BY <1>1 DEF CredStates
<1>3. CASE UNCHANGED <<cred, rotation>>
  BY <1>1, <1>2, <1>3 DEF RotationsNew
<1>4. new \in CredStates /\ new.issued
  BY IssuedFields
<1> HIDE DEF new
<1>5. ASSUME NEW c \in Credentials, Rotate(c) PROVE Goal
  <2>1. cred' = [k \in Credentials |-> IF k = c THEN new ELSE Rotated(k)]
    BY <1>5 DEF Rotate, new
  <2>2. ~cred[c].issued /\ c \notin rotation /\ rotation' = rotation
    BY <1>5 DEF Rotate
  <2>3. cred' \in [Credentials -> CredStates]
    BY <1>1, <1>4, <2>1, RotatedFields
  <2>4. RotationsNew'
    BY <1>1, <2>1, <2>2, RotatedFields DEF RotationsNew
  <2>5. ASSUME NEW k \in Credentials, cred[k].issued
        PROVE  /\ cred'[k].expires <= cred[k].expires
               /\ cred[k].revoked => cred'[k].revoked
               /\ cred'[k].expires = cred[k].expires \/ cred'[k].expires >= gateTime + Grace
    <3>1. cred'[k] = Rotated(k)
      BY <2>1, <2>2, <2>5
    <3> QED
      BY <1>1, <3>1, RotatedFields
  <2> QED
    BY <1>1, <2>2, <2>3, <2>4, <2>5
<1>6. ASSUME NEW c \in Credentials, BeginRotation(c) PROVE Goal
  <2>1. cred' = [k \in Credentials |-> Rotated(k)]
    BY <1>6 DEF BeginRotation
  <2>2. ~cred[c].issued /\ rotation' = rotation \cup {c}
    BY <1>6 DEF BeginRotation
  <2>3. cred' \in [Credentials -> CredStates]
    BY <1>1, <2>1, RotatedFields
  <2>4. RotationsNew'
    BY <1>1, <2>1, <2>2, RotatedFields DEF RotationsNew
  <2>5. ASSUME NEW k \in Credentials, cred[k].issued
        PROVE  /\ cred'[k].expires <= cred[k].expires
               /\ cred[k].revoked => cred'[k].revoked
               /\ cred'[k].expires = cred[k].expires \/ cred'[k].expires >= gateTime + Grace
    <3>1. cred'[k] = Rotated(k)
      BY <2>1, <2>5
    <3> QED
      BY <1>1, <3>1, RotatedFields
  <2> QED
    BY <1>1, <2>2, <2>3, <2>4, <2>5
<1>7. ASSUME NEW c \in Credentials, IssueRotated(c) PROVE Goal
  <2>1. c \in rotation /\ cred' = [cred EXCEPT ![c] = new] /\ rotation' = rotation \ {c}
    BY <1>7 DEF IssueRotated, new
  <2>2. ~cred[c].issued
    BY <1>1, <2>1
  <2>3. cred' \in [Credentials -> CredStates] /\ \A k \in Credentials : k # c => cred'[k] = cred[k]
    BY <1>1, <1>4, <2>1
  <2>4. RotationsNew' /\ rotation' \subseteq Credentials
    BY <1>1, <2>1, <2>3 DEF RotationsNew
  <2> QED
    BY <1>2, <2>2, <2>3, <2>4
<1>8. ASSUME NEW c \in Credentials, RevokeCredential(c) PROVE Goal
  <2> DEFINE n == [cred[c] EXCEPT !.revoked = TRUE]
  <2>1. cred' = [cred EXCEPT ![c] = n] /\ rotation' = rotation
    BY <1>1, <1>8 DEF RevokeCredential
  <2>2. n \in CredStates /\ n.issued = cred[c].issued /\ n.expires = cred[c].expires /\ n.revoked
    <3>1. cred[c] \in CredStates
      BY <1>1
    <3> QED
      BY <3>1 DEF CredStates
  <2> HIDE DEF n
  <2>3. cred' \in [Credentials -> CredStates]
    BY <1>1, <2>1, <2>2
  <2>4. \A k \in Credentials : /\ cred'[k].issued = cred[k].issued /\ cred'[k].expires = cred[k].expires
                               /\ cred[k].revoked => cred'[k].revoked
    BY <1>1, <2>1, <2>2
  <2>5. RotationsNew'
    BY <1>1, <2>1, <2>4 DEF RotationsNew
  <2> QED
    BY <1>1, <1>2, <2>1, <2>3, <2>4, <2>5
<1>9. CASE PlateNext
  BY <1>3, <1>9 DEF PlateNext, SubmitPlate, RevokePlate, ReadPlate, TestHolder, ApprovePlate, RejectPlate,
                    LeavePlate, MoveHolder, credVars
<1>10. CASE ReaderNext
  BY <1>3, <1>5, <1>8, <1>10 DEF ReaderNext, RecognizePlate, PurgeEvents, GateTick, credVars
<1>11. CASE OverlapNext
  BY <1>6, <1>7, <1>11 DEF OverlapNext
<1>12. CASE UNCHANGED gateVars
  BY <1>3, <1>12 DEF gateVars, credVars
<1> QED
  BY <1>9, <1>10, <1>11, <1>12

(* A plate is approved only where nobody else holds it. *)
LEMMA PlateStep ==
  ASSUME GateInv, [PlateNext \/ ReaderNext \/ OverlapNext]_gateVars
  PROVE  plate' \in [PlateRows -> Status] /\ OneHolder'
<1>1. plate \in [PlateRows -> Status] /\ OneHolder
  BY DEF GateInv, GateTypeOK
<1>2. CASE UNCHANGED plate
  BY <1>1, <1>2 DEF OneHolder
<1>3. ASSUME NEW r \in PlateRows, NEW s \in Status, plate' = [plate EXCEPT ![r] = s],
             s = "APPROVED" => ~HeldElsewhere(r[1], r[2])
      PROVE  plate' \in [PlateRows -> Status] /\ OneHolder'
  <2>1. plate' \in [PlateRows -> Status]
    BY <1>1, <1>3
  <2>2. r[1] \in Holders /\ r[2] \in Plates /\ r = <<r[1], r[2]>>
    BY DEF PlateRows
  <2>3. \A o \in Holders, p \in Plates :
          plate'[<<o, p>>] = IF <<o, p>> = r THEN s ELSE plate[<<o, p>>]
    BY <1>1, <1>3 DEF PlateRows
  <2>4. ASSUME NEW p \in Plates, NEW o \in Holders, NEW q \in Holders, o # q,
               plate'[<<o, p>>] = "APPROVED", plate'[<<q, p>>] = "APPROVED"
        PROVE  FALSE
    <3>1. CASE <<o, p>> = r
      <4>1. s = "APPROVED" /\ r[1] = o /\ r[2] = p /\ <<q, p>> # r
        BY <2>2, <2>3, <2>4, <3>1
      <4> QED
        BY <1>3, <2>3, <2>4, <4>1 DEF HeldElsewhere
    <3>2. CASE <<q, p>> = r
      <4>1. s = "APPROVED" /\ r[1] = q /\ r[2] = p /\ <<o, p>> # r
        BY <2>2, <2>3, <2>4, <3>2
      <4> QED
        BY <1>3, <2>3, <2>4, <4>1 DEF HeldElsewhere
    <3>3. CASE <<o, p>> # r /\ <<q, p>> # r
      BY <1>1, <2>3, <2>4, <3>3 DEF OneHolder
    <3> QED
      BY <3>1, <3>2, <3>3
  <2> QED
    BY <2>1, <2>4 DEF OneHolder
<1>4. ASSUME NEW o \in Holders, NEW t \in Texts, SubmitPlate(o, t)
      PROVE  plate' \in [PlateRows -> Status] /\ OneHolder'
  <2>1. <<o, Norm[t]>> \in PlateRows
    BY <1>4, NormAssumption DEF SubmitPlate, PlateRows
  <2> QED
    BY <1>3, <1>4, <2>1 DEF SubmitPlate, Status
<1>5. ASSUME NEW o \in Holders, NEW p \in Plates, RevokePlate(o, p)
      PROVE  plate' \in [PlateRows -> Status] /\ OneHolder'
  <2>1. <<o, p>> \in PlateRows
    BY DEF PlateRows
  <2> QED
    BY <1>3, <1>5, <2>1 DEF RevokePlate, Status
<1>6. ASSUME NEW r \in PlateRows, ApprovePlate(r) PROVE plate' \in [PlateRows -> Status] /\ OneHolder'
  BY <1>3, <1>6 DEF ApprovePlate, Writable, Status
<1>7. ASSUME NEW r \in PlateRows, RejectPlate(r) PROVE plate' \in [PlateRows -> Status] /\ OneHolder'
  BY <1>3, <1>7 DEF RejectPlate, Status
<1>8. CASE PlateNext
  BY <1>2, <1>4, <1>5, <1>6, <1>7, <1>8 DEF PlateNext, ReadPlate, TestHolder, LeavePlate, MoveHolder, plateVars
<1>9. CASE ReaderNext
  BY <1>2, <1>9 DEF ReaderNext, Rotate, RevokeCredential, RecognizePlate, PurgeEvents, GateTick, plateVars
<1>10. CASE OverlapNext
  BY <1>2, <1>10 DEF OverlapNext, BeginRotation, IssueRotated, plateVars
<1>11. CASE UNCHANGED gateVars
  BY <1>2, <1>11 DEF gateVars, plateVars
<1> QED
  BY <1>8, <1>9, <1>10, <1>11

(* Reviews, occupancies, events and the clock keep their types. *)
LEMMA GateRest ==
  ASSUME GateInv, [PlateNext \/ ReaderNext \/ OverlapNext]_gateVars
  PROVE  /\ plateReview' \in [PlateRows -> [step : {"idle", "read", "free"}, seen : Status]]
         /\ lives' \subseteq Holders /\ gateTime' \in 0 .. MaxGateTime
         /\ events' \subseteq [occ : Holders \cup {Nobody}, plate : Plates, at : 0 .. MaxGateTime]
<1> USE DEF GateInv, GateTypeOK
<1>1. plateReview' \in [PlateRows -> [step : {"idle", "read", "free"}, seen : Status]]
  <2>1. CASE UNCHANGED plateReview
    BY <2>1
  <2>2. ASSUME NEW r \in PlateRows,
               ReadPlate(r) \/ TestHolder(r) \/ ApprovePlate(r) \/ RejectPlate(r) \/ LeavePlate(r)
        PROVE  plateReview' \in [PlateRows -> [step : {"idle", "read", "free"}, seen : Status]]
    BY <2>2 DEF ReadPlate, TestHolder, ApprovePlate, RejectPlate, LeavePlate, PlateDecided, Status
  <2> QED
    BY <2>1, <2>2 DEF PlateNext, ReaderNext, OverlapNext, SubmitPlate, RevokePlate, MoveHolder, Rotate,
       RevokeCredential, RecognizePlate, PurgeEvents, GateTick, BeginRotation, IssueRotated, gateVars, plateVars
<1>2. lives' \subseteq Holders
  BY DEF PlateNext, ReaderNext, OverlapNext, SubmitPlate, RevokePlate, MoveHolder, Rotate, ReadPlate,
         TestHolder, ApprovePlate, RejectPlate, LeavePlate,
         RevokeCredential, RecognizePlate, PurgeEvents, GateTick, BeginRotation, IssueRotated, gateVars
<1>3. gateTime' \in 0 .. MaxGateTime
  <2>1. CASE GateTick
    BY <2>1, GateTimeAssumption DEF GateTick
  <2>2. CASE gateTime' = gateTime
    BY <2>2
  <2> QED
    BY <2>1, <2>2
       DEF PlateNext, ReaderNext, OverlapNext, SubmitPlate, RevokePlate, MoveHolder, Rotate, ReadPlate,
           TestHolder, ApprovePlate, RejectPlate, LeavePlate,
           RevokeCredential, RecognizePlate, PurgeEvents, BeginRotation, IssueRotated, gateVars
<1>4. events' \subseteq [occ : Holders \cup {Nobody}, plate : Plates, at : 0 .. MaxGateTime]
  <2>1. ASSUME NEW c \in Credentials, NEW t \in Texts, RecognizePlate(c, t)
        PROVE  events' \subseteq [occ : Holders \cup {Nobody}, plate : Plates, at : 0 .. MaxGateTime]
    <3>1. PICK o \in IF MatchPlate(Norm[t]) = {} THEN {Nobody} ELSE MatchPlate(Norm[t]) :
             events' = events \cup {[occ |-> o, plate |-> Norm[t], at |-> gateTime]}
      BY <2>1 DEF RecognizePlate
    <3>2. o \in Holders \cup {Nobody} /\ Norm[t] \in Plates
      BY <2>1, NormAssumption DEF MatchPlate, RecognizePlate
    <3> QED
      BY <3>1, <3>2
  <2>2. CASE events' \subseteq events
    BY <2>2
  <2> QED
    BY <2>1, <2>2
       DEF PlateNext, ReaderNext, OverlapNext, SubmitPlate, RevokePlate, MoveHolder, Rotate, ReadPlate,
           TestHolder, ApprovePlate, RejectPlate, LeavePlate,
           RevokeCredential, PurgeEvents, GateTick, BeginRotation, IssueRotated, gateVars
<1> QED
  BY <1>1, <1>2, <1>3, <1>4

(* The invariant of the gate is inductive. *)
LEMMA GateKept ==
  ASSUME GateInv, [PlateNext \/ ReaderNext \/ OverlapNext]_gateVars
  PROVE  GateInv'
BY CredStep, PlateStep, GateRest DEF GateInv, GateTypeOK, CredStates

(* ... and holds at the start. *)
LEMMA GateStarts == GateInit => GateInv
<1> SUFFICES ASSUME GateInit PROVE GateInv
  OBVIOUS
<1>1. PICK c \in Credentials : cred = [k \in Credentials |->
        IF k = c THEN [NoCredential EXCEPT !.issued = TRUE] ELSE NoCredential]
  BY DEF GateInit
<1>2. NoCredential \in CredStates
  BY GateTimeAssumption DEF NoCredential, CredStates, Never
<1>3. cred \in [Credentials -> CredStates]
  BY <1>1, <1>2, IssuedFields
<1>4. plate \in [PlateRows -> Status]
  BY DEF GateInit, Status
<1>5. plateReview \in [PlateRows -> [step : {"idle", "read", "free"}, seen : Status]]
  BY DEF GateInit, Status
<1>6. OneHolder
  BY DEF OneHolder, GateInit, PlateRows
<1>7. lives \subseteq Holders /\ rotation = {} /\ events = {} /\ gateTime \in 0 .. MaxGateTime
  BY GateTimeAssumption DEF GateInit
<1>8. GateTypeOK
  BY <1>3, <1>4, <1>5, <1>7 DEF GateTypeOK, CredStates
<1>9. RotationsNew
  BY <1>7 DEF RotationsNew
<1> QED
  BY <1>6, <1>8, <1>9 DEF GateInv

(* One holder at most is counted. *)
LEMMA GateImplies == GateInv => PlateHeldOnce
<1> SUFFICES ASSUME GateInv, NEW p \in Plates
             PROVE  GateTypeOK /\ Cardinality({o \in Holders : plate[<<o, p>>] = "APPROVED"}) <= 1
  BY DEF PlateHeldOnce, GateInv
<1> DEFINE S == {o \in Holders : plate[<<o, p>>] = "APPROVED"}
<1>1. ASSUME S = {} PROVE Cardinality(S) <= 1
  <2>1. Cardinality(S) = 0
    BY <1>1, FS_EmptySet
  <2> HIDE DEF S
  <2> QED
    BY <2>1
<1>2. ASSUME NEW o \in S PROVE Cardinality(S) <= 1
  <2>1. S = {o}
    BY <1>2 DEF GateInv, OneHolder
  <2> HIDE DEF S
  <2>2. Cardinality(S) = 1
    BY <2>1, FS_Singleton
  <2> QED
    BY <2>2
<1> QED
  BY <1>1, <1>2 DEF GateInv

(* Whatever managers approve at the same moment, a plate has one holder    *)
(* (approve_plate and the constraint gate_approved_plate_once_per_building).*)
THEOREM PlatesCorrect == GateSpec => []PlateHeldOnce
<1>1. GateInv /\ [PlateNext \/ ReaderNext \/ OverlapNext]_gateVars => GateInv'
  BY GateKept
<1> QED
  BY <1>1, GateStarts, GateImplies, PTL DEF GateSpec

(* Rotations, overlapping or not, lock no reader out and let no credential *)
(* live longer (rotate_credential, revoke_credential).                     *)
THEOREM RotationCorrect == GateSpec => RotationKeepsReader
<1>1. GateInv /\ [PlateNext \/ ReaderNext \/ OverlapNext]_gateVars => GateInv'
  BY GateKept
<1>2. GateInv /\ [PlateNext \/ ReaderNext \/ OverlapNext]_gateVars =>
        [\A c \in Credentials : cred[c].issued =>
            /\ cred'[c].expires <= cred[c].expires
            /\ cred[c].revoked => cred'[c].revoked
            /\ IsValid(c) /\ ~cred'[c].revoked =>
                  \/ cred'[c].expires = cred[c].expires
                  \/ cred'[c].expires >= gateTime + Grace]_gateVars
  BY CredStep
<1> QED
  BY <1>1, <1>2, GateStarts, PTL DEF GateSpec, RotationKeepsReader

-----------------------------------------------------------------------------
(* The gate: faces. *)

(* A photo that was ever reviewed at o is one whose submission is over. *)
Reviewed(p, o) == p # NoPhoto => submit[p].step = "done" /\ submit[p].occ = o

PhotosDone ==
    /\ \A o \in Occupancies : Reviewed(photo[o], o) /\ Reviewed(revoke[o].previous, o)
    /\ \A p \in Submissions : Reviewed(submit[p].previous, submit[p].occ)
    /\ \A p \in deletions : submit[p].step = "done"

(* A submission that is under way has its photo in the storage. *)
UploadsStored == \A p \in Submissions : submit[p].step \in {"stored", "read"} => p \in blobs

(* A revocation under way was counted. *)
RevocationsCounted == \A o \in Occupancies : revoke[o].step = "read" => revocations > 0

SubmitStates == [step : {"new", "stored", "read", "done"}, occ : Occupancies, previous : Maybe]

(* A submission goes on to step s. *)
LEMMA SubmitMoves ==
  ASSUME EnrolTypeOK, NEW p \in Submissions, NEW s \in {"new", "stored", "read", "done"},
         submit' = [submit EXCEPT ![p].step = s]
  PROVE  /\ submit' \in [Submissions -> SubmitStates]
         /\ \A q \in Submissions : /\ submit'[q].step = IF q = p THEN s ELSE submit[q].step
                                   /\ submit'[q].occ = submit[q].occ
                                   /\ submit'[q].previous = submit[q].previous
<1>1. submit \in [Submissions -> SubmitStates]
  BY DEF EnrolTypeOK, SubmitStates
<1>2. \A f \in SubmitStates : /\ [f EXCEPT !.step = s] \in SubmitStates /\ [f EXCEPT !.step = s].step = s
                              /\ [f EXCEPT !.step = s].occ = f.occ /\ [f EXCEPT !.step = s].previous = f.previous
  BY DEF SubmitStates
<1>3. submit' = [submit EXCEPT ![p] = [submit[p] EXCEPT !.step = s]]
  BY <1>1
<1> QED
  BY <1>1, <1>2, <1>3

(* A submission looks up the photo it replaces. *)
LEMMA FindEffect ==
  ASSUME EnrolTypeOK, NEW p \in Submissions, FindPrevious(p)
  PROVE  /\ submit' \in [Submissions -> SubmitStates]
         /\ \A q \in Submissions :
               /\ submit'[q].step = IF q = p THEN "read" ELSE submit[q].step
               /\ submit'[q].occ = submit[q].occ
               /\ submit'[q].previous = IF q = p THEN photo[submit[p].occ] ELSE submit[q].previous
<1> DEFINE f1 == [submit[p] EXCEPT !.step = "read"]
           f2 == [f1 EXCEPT !.previous = photo[submit[p].occ]]
<1>1. submit \in [Submissions -> SubmitStates] /\ submit[p] \in SubmitStates
  BY DEF EnrolTypeOK, SubmitStates
<1>2. photo[submit[p].occ] \in Maybe
  BY <1>1 DEF EnrolTypeOK, SubmitStates
<1>3. submit' = [submit EXCEPT ![p] = f2]
  BY <1>1 DEF FindPrevious
<1>4. f1 \in SubmitStates /\ f1.step = "read" /\ f1.occ = submit[p].occ
  BY <1>1 DEF SubmitStates
<1> HIDE DEF f1
<1>5. /\ f2 \in SubmitStates /\ f2.step = f1.step /\ f2.occ = f1.occ
      /\ f2.previous = photo[submit[p].occ]
  BY <1>2, <1>4 DEF SubmitStates
<1> HIDE DEF f2
<1> QED
  BY <1>1, <1>3, <1>4, <1>5

(* The types are inductive. *)
LEMMA EnrolTyped ==
  ASSUME EnrolTypeOK, [EnrolNext]_enrolVars
  PROVE  EnrolTypeOK'
<1> USE DEF EnrolTypeOK, data
<1>1. \A p \in Submissions : submit[p] \in SubmitStates /\ submit[p].occ \in Occupancies
                             /\ submit[p].previous \in Maybe
  BY DEF SubmitStates
<1>2. \A p \in Maybe : {p} \ {NoPhoto} \subseteq Submissions
  BY DEF Maybe
<1>3. \A o \in Occupancies : photo[o] \in Maybe /\ revoke[o].previous \in Maybe
  OBVIOUS
<1>4. ASSUME NEW p \in Submissions, Store(p) PROVE EnrolTypeOK'
  <2>1. submit' \in [Submissions -> SubmitStates]
    BY <1>4, SubmitMoves DEF Store
  <2> QED
    BY <1>4, <2>1 DEF Store, SubmitStates
<1>5. ASSUME NEW p \in Submissions, FindPrevious(p) PROVE EnrolTypeOK'
  <2>1. submit' \in [Submissions -> SubmitStates]
    BY <1>5, FindEffect
  <2> QED
    BY <1>5, <2>1 DEF FindPrevious, SubmitStates
<1>6. ASSUME NEW p \in Submissions, CommitSubmission(p) \/ FailCallback(p) PROVE EnrolTypeOK'
  <2>1. submit' \in [Submissions -> SubmitStates]
    BY <1>6, SubmitMoves DEF CommitSubmission, FailCallback
  <2>2. deletions' \subseteq Submissions
    BY <1>1, <1>2, <1>6 DEF CommitSubmission, FailCallback, Queued
  <2>3. enrolment' \in [Occupancies -> [status : ReviewStatus, vector : Maybe]]
        /\ photo' \in [Occupancies -> Maybe]
    <3>1. p \in Maybe /\ [status |-> "PENDING", vector |-> p] \in [status : ReviewStatus, vector : Maybe]
      BY DEF ReviewStatus, Maybe
    <3>2. /\ enrolment' = [enrolment EXCEPT ![submit[p].occ] = [status |-> "PENDING", vector |-> p]]
          /\ photo' = [photo EXCEPT ![submit[p].occ] = p]
      BY <1>6 DEF CommitSubmission, FailCallback
    <3>3. enrolment' \in [Occupancies -> [status : ReviewStatus, vector : Maybe]]
      BY <3>1, <3>2
    <3>4. photo' \in [Occupancies -> Maybe]
      BY <3>1, <3>2
    <3> QED
      BY <3>3, <3>4
  <2>4. gateFaults' \in 0 .. MaxGateFaults
    BY <1>6, EnrolBoundAssumption DEF CommitSubmission, FailCallback
  <2> QED
    BY <1>6, <2>1, <2>2, <2>3, <2>4 DEF CommitSubmission, FailCallback, SubmitStates
<1>7. ASSUME NEW p \in Submissions, RefuseSubmission(p) \/ FailSubmission(p) \/ RequestDies(p)
      PROVE  EnrolTypeOK'
  <2>1. submit' \in [Submissions -> SubmitStates]
    BY <1>7, SubmitMoves DEF RefuseSubmission, FailSubmission, RequestDies, TakeBack
  <2>2. gateFaults' \in 0 .. MaxGateFaults
    BY <1>7, EnrolBoundAssumption DEF RefuseSubmission, FailSubmission, RequestDies
  <2> QED
    BY <1>7, <2>1, <2>2 DEF RefuseSubmission, FailSubmission, RequestDies, TakeBack, SubmitStates
<1>8. ASSUME NEW p \in Submissions, ProcessDeletion(p) \/ Expire(p) PROVE EnrolTypeOK'
  BY <1>8 DEF ProcessDeletion, Expire
<1>9. ASSUME NEW o \in Occupancies, FindRevoked(o) PROVE EnrolTypeOK'
  <2>1. revocations' \in 0 .. MaxRevocations
    BY <1>9, EnrolBoundAssumption DEF FindRevoked
  <2>2. revoke' \in [Occupancies -> [step : {"idle", "read"}, previous : Maybe]]
    BY <1>3, <1>9 DEF FindRevoked
  <2> QED
    BY <1>9, <2>1, <2>2 DEF FindRevoked
<1>10. ASSUME NEW o \in Occupancies, CommitRevocation(o) PROVE EnrolTypeOK'
  <2>1. revoke' \in [Occupancies -> [step : {"idle", "read"}, previous : Maybe]]
    BY <1>10 DEF CommitRevocation, Maybe
  <2>2. deletions' \subseteq Submissions
    BY <1>2, <1>3, <1>10 DEF CommitRevocation, Queued
  <2>3. enrolment' \in [Occupancies -> [status : ReviewStatus, vector : Maybe]]
        /\ photo' \in [Occupancies -> Maybe]
    <3>1. NoPhoto \in Maybe /\ [status |-> "NONE", vector |-> NoPhoto] \in [status : ReviewStatus, vector : Maybe]
      BY DEF ReviewStatus, Maybe
    <3>2. \/ UNCHANGED <<enrolment, photo>>
          \/ /\ enrolment' = [enrolment EXCEPT ![o] = [status |-> "NONE", vector |-> NoPhoto]]
             /\ photo' = [photo EXCEPT ![o] = NoPhoto]
      BY <1>10 DEF CommitRevocation
    <3>3. enrolment' \in [Occupancies -> [status : ReviewStatus, vector : Maybe]]
      BY <3>1, <3>2
    <3>4. photo' \in [Occupancies -> Maybe]
      BY <3>1, <3>2
    <3> QED
      BY <3>3, <3>4
  <2> QED
    BY <1>10, <2>1, <2>2, <2>3 DEF CommitRevocation
<1>11. ASSUME NEW o \in Occupancies, ReadRequest(o) \/ NotPossible(o) PROVE EnrolTypeOK'
  BY <1>11 DEF ReadRequest, NotPossible, ReviewStatus
<1>12. ASSUME NEW o \in Occupancies, ApproveFace(o) PROVE EnrolTypeOK'
  <2>1. deletions' \subseteq Submissions
    BY <1>2, <1>3, <1>12 DEF ApproveFace, Queued
  <2>2. enrolment' \in [Occupancies -> [status : ReviewStatus, vector : Maybe]]
        /\ photo' \in [Occupancies -> Maybe]
    BY <1>12 DEF ApproveFace, ReviewStatus, Maybe
  <2>3. review' \in [Occupancies -> ReviewStatus]
    BY <1>12 DEF ApproveFace, ReviewStatus
  <2> QED
    BY <1>12, <2>1, <2>2, <2>3 DEF ApproveFace
<1>13. ASSUME NEW o \in Occupancies, CloseFace(o) PROVE EnrolTypeOK'
  <2>1. deletions' \subseteq Submissions
    BY <1>2, <1>3, <1>13 DEF CloseFace, Queued
  <2>2. enrolment' \in [Occupancies -> [status : ReviewStatus, vector : Maybe]]
        /\ photo' \in [Occupancies -> Maybe]
    BY <1>13 DEF CloseFace, ReviewStatus, Maybe
  <2>3. review' \in [Occupancies -> ReviewStatus]
    BY <1>13 DEF CloseFace, ReviewStatus
  <2> QED
    BY <1>13, <2>1, <2>2, <2>3 DEF CloseFace
<1>14. ASSUME NEW o \in Occupancies, PurgePhoto(o) PROVE EnrolTypeOK'
  <2>1. deletions' \subseteq Submissions
    BY <1>2, <1>3, <1>14 DEF PurgePhoto, Queued
  <2>2. enrolment' \in [Occupancies -> [status : ReviewStatus, vector : Maybe]]
        /\ photo' \in [Occupancies -> Maybe]
    BY <1>14 DEF PurgePhoto, ReviewStatus, Maybe
  <2> QED
    BY <1>14, <2>1, <2>2 DEF PurgePhoto
<1>15. CASE UNCHANGED enrolVars
  BY <1>15 DEF enrolVars
<1> QED
  BY <1>4, <1>5, <1>6, <1>7, <1>8, <1>9, <1>10, <1>11, <1>12, <1>13, <1>14, <1>15 DEF EnrolNext

(* A photo stays with the enrolment and its vector. *)
LEMMA ReviewKept ==
  ASSUME EnrolTypeOK, ReviewIsConsistent, [EnrolNext]_enrolVars
  PROVE  ReviewIsConsistent'
<1> USE DEF EnrolTypeOK, data
<1>1. CASE UNCHANGED <<enrolment, photo>>
  BY <1>1 DEF ReviewIsConsistent
<1>2. ASSUME NEW o \in Occupancies, NEW e \in [status : ReviewStatus, vector : Maybe], NEW p \in Maybe,
             enrolment' = [enrolment EXCEPT ![o] = e], photo' = [photo EXCEPT ![o] = p],
             (p # NoPhoto) <=> (e.status = "PENDING"), p # NoPhoto => p = e.vector,
             (e.vector # NoPhoto) <=> (e.status \in {"PENDING", "APPROVED"})
      PROVE  ReviewIsConsistent'
  <2>1. \A x \in Occupancies : enrolment'[x] = (IF x = o THEN e ELSE enrolment[x])
                               /\ photo'[x] = IF x = o THEN p ELSE photo[x]
    BY <1>2
  <2> QED
    BY <1>2, <2>1 DEF ReviewIsConsistent
<1>3. \A p \in Submissions : submit[p].occ \in Occupancies /\ p # NoPhoto /\ p \in Maybe
  BY NoPhotoAssumption DEF Maybe
<1>4. ASSUME NEW p \in Submissions, CommitSubmission(p) \/ FailCallback(p) PROVE ReviewIsConsistent'
  <2>1. [status |-> "PENDING", vector |-> p] \in [status : ReviewStatus, vector : Maybe]
    BY <1>3 DEF ReviewStatus
  <2> QED
    BY <1>2, <1>3, <1>4, <2>1 DEF CommitSubmission, FailCallback
<1>5. [status |-> "NONE", vector |-> NoPhoto] \in [status : ReviewStatus, vector : Maybe]
      /\ [status |-> "REJECTED", vector |-> NoPhoto] \in [status : ReviewStatus, vector : Maybe]
      /\ [status |-> "EXPIRED", vector |-> NoPhoto] \in [status : ReviewStatus, vector : Maybe]
      /\ NoPhoto \in Maybe
  BY DEF ReviewStatus, Maybe
<1>6. ASSUME NEW o \in Occupancies, CommitRevocation(o) PROVE ReviewIsConsistent'
  BY <1>1, <1>2, <1>5, <1>6 DEF CommitRevocation
<1>7. ASSUME NEW o \in Occupancies, ApproveFace(o) PROVE ReviewIsConsistent'
  <2> DEFINE e == [enrolment[o] EXCEPT !.status = "APPROVED"]
  <2>1. enrolment[o] \in [status : ReviewStatus, vector : Maybe]
    OBVIOUS
  <2>2. e \in [status : ReviewStatus, vector : Maybe] /\ e.status = "APPROVED" /\ e.vector = enrolment[o].vector
    BY <2>1 DEF ReviewStatus
  <2>3. enrolment' = [enrolment EXCEPT ![o] = e] /\ photo' = [photo EXCEPT ![o] = NoPhoto]
        /\ enrolment[o].vector # NoPhoto
    BY <1>7 DEF ApproveFace, Approvable
  <2> HIDE DEF e
  <2> QED
    BY <1>2, <1>5, <2>2, <2>3
<1>8. ASSUME NEW o \in Occupancies, CloseFace(o) PROVE ReviewIsConsistent'
  BY <1>2, <1>5, <1>8 DEF CloseFace
<1>9. ASSUME NEW o \in Occupancies, PurgePhoto(o) PROVE ReviewIsConsistent'
  <2>1. photo[o] # NoPhoto
    BY <1>3, <1>9 DEF PurgePhoto
  <2>2. enrolment[o].status = "PENDING"
    BY <2>1 DEF ReviewIsConsistent
  <2>3. enrolment' = [enrolment EXCEPT ![o] = [status |-> "EXPIRED", vector |-> NoPhoto]]
    BY <1>9, <2>2 DEF PurgePhoto
  <2>4. photo' = [photo EXCEPT ![o] = NoPhoto]
    BY <1>9 DEF PurgePhoto
  <2> QED
    BY <1>2, <1>5, <2>3, <2>4
<1> QED
  BY <1>1, <1>4, <1>6, <1>7, <1>8, <1>9
     DEF EnrolNext, Store, FindPrevious, RefuseSubmission, FailSubmission, TakeBack, ProcessDeletion, Expire,
         RequestDies, FindRevoked, ReadRequest, NotPossible, enrolVars

(* What the photos have to do with submissions, storage and deletions. *)
PhotosHold ==
    /\ PhotosDone /\ UploadsStored /\ RevocationsCounted
    /\ gateFaults = 0 => ReviewPhotoIsStored
    /\ gateFaults = 0 /\ revocations = 0 => PhotosAccounted

(* Steps of a submission before its transaction commits or fails. *)
LEMMA UploadKept ==
  ASSUME EnrolTypeOK, PhotosHold, NEW p \in Submissions, Store(p) \/ FindPrevious(p)
  PROVE  PhotosHold'
<1>1. /\ \A q \in Submissions : /\ q # p => submit'[q].step = submit[q].step
                                /\ submit'[q].occ = submit[q].occ
      /\ submit[p].step \in {"new", "stored"} /\ submit'[p].step \in {"stored", "read"}
      /\ submit[p].step = "stored" \/ p \in blobs'
      /\ \A q \in Submissions : \/ submit'[q].previous = submit[q].previous
                                \/ submit'[q].previous = photo[submit[q].occ]
  <2>1. CASE Store(p)
    <3>1. submit' = [submit EXCEPT ![p].step = "stored"]
      BY <2>1 DEF Store
    <3>2. \A q \in Submissions : /\ submit'[q].step = IF q = p THEN "stored" ELSE submit[q].step
                                 /\ submit'[q].occ = submit[q].occ
                                 /\ submit'[q].previous = submit[q].previous
      BY <3>1, SubmitMoves
    <3>3. submit[p].step = "new" /\ p \in blobs'
      BY <2>1 DEF Store
    <3> QED
      BY <3>2, <3>3
  <2>2. CASE FindPrevious(p)
    BY <2>2, FindEffect DEF FindPrevious
  <2> QED
    BY <2>1, <2>2
<1>2. blobs' = blobs \cup {p}
  BY DEF Store, FindPrevious, data, PhotosHold, UploadsStored
<1>3. UNCHANGED <<photo, deletions, revoke, revocations, gateFaults>>
  BY DEF Store, FindPrevious, data
<1>4. /\ \A q \in Submissions : submit[q].occ \in Occupancies /\ submit[q].previous \in Maybe
      /\ \A o \in Occupancies : photo[o] \in Maybe /\ revoke[o].previous \in Maybe
      /\ deletions \subseteq Submissions /\ blobs \subseteq Submissions
  BY DEF EnrolTypeOK
<1>5. \A q \in Submissions : submit[q].step = "done" => submit'[q].step = "done" /\ submit'[q].occ = submit[q].occ
  BY <1>1
<1>6. PhotosDone'
  <2>1. \A q \in Maybe, o \in Occupancies : Reviewed(q, o) => Reviewed(q, o)'
    BY <1>5 DEF Reviewed, Maybe
  <2>2. \A o \in Occupancies : Reviewed(photo[o], o) /\ Reviewed(revoke[o].previous, o)
    BY DEF PhotosHold, PhotosDone
  <2>3. \A o \in Occupancies : (Reviewed(photo[o], o) /\ Reviewed(revoke[o].previous, o))'
    BY <1>3, <1>4, <2>1, <2>2 DEF Reviewed
  <2>4. \A q \in Submissions : Reviewed(submit[q].previous, submit[q].occ)'
    BY <1>1, <1>4, <1>5, <2>2 DEF PhotosHold, PhotosDone, Reviewed, Maybe
  <2> QED
    BY <1>3, <1>4, <1>5, <2>3, <2>4 DEF PhotosHold, PhotosDone
<1>7. UploadsStored'
  BY <1>1, <1>2 DEF PhotosHold, UploadsStored
<1>8. RevocationsCounted'
  BY <1>3 DEF PhotosHold, RevocationsCounted
<1>9. gateFaults' = 0 => ReviewPhotoIsStored'
  BY <1>2, <1>3 DEF PhotosHold, ReviewPhotoIsStored, UnderReview
<1>10. gateFaults' = 0 /\ revocations' = 0 => PhotosAccounted'
  BY <1>1, <1>2, <1>3, <1>4 DEF PhotosHold, PhotosAccounted, UnderReview
<1> QED
  BY <1>6, <1>7, <1>8, <1>9, <1>10 DEF PhotosHold

(* A submission whose photo is taken back, or whose process died. *)
LEMMA TakenBackKept ==
  ASSUME EnrolTypeOK, PhotosHold, NEW p \in Submissions,
         RefuseSubmission(p) \/ FailSubmission(p) \/ RequestDies(p)
  PROVE  PhotosHold'
<1>1. /\ submit' = [submit EXCEPT ![p].step = "done"] /\ submit[p].step \in {"stored", "read"}
      /\ UNCHANGED <<photo, deletions, revoke, revocations>>
      /\ blobs' = blobs \ {p} \/ (blobs' = blobs /\ gateFaults' # 0)
      /\ gateFaults' = 0 => gateFaults = 0
  BY DEF RefuseSubmission, FailSubmission, RequestDies, TakeBack, data, EnrolTypeOK
<1>2. \A q \in Submissions : /\ submit'[q].step = IF q = p THEN "done" ELSE submit[q].step
                             /\ submit'[q].occ = submit[q].occ
                             /\ submit'[q].previous = submit[q].previous
  BY <1>1, SubmitMoves
<1>3. /\ \A q \in Submissions : submit[q].occ \in Occupancies /\ submit[q].previous \in Maybe
      /\ \A o \in Occupancies : photo[o] \in Maybe /\ revoke[o].previous \in Maybe
      /\ deletions \subseteq Submissions /\ blobs \subseteq Submissions
  BY DEF EnrolTypeOK
<1>4. PhotosDone'
  <2>1. \A q \in Maybe, o \in Occupancies : Reviewed(q, o) => Reviewed(q, o)'
    BY <1>2 DEF Reviewed, Maybe
  <2>2. \A o \in Occupancies : (Reviewed(photo[o], o) /\ Reviewed(revoke[o].previous, o))'
    BY <1>1, <1>3, <2>1 DEF PhotosHold, PhotosDone, Reviewed
  <2>3. \A q \in Submissions : Reviewed(submit[q].previous, submit[q].occ)'
    BY <1>2, <1>3, <2>1 DEF PhotosHold, PhotosDone, Reviewed
  <2> QED
    BY <1>1, <1>2, <1>3, <2>2, <2>3 DEF PhotosHold, PhotosDone
<1>5. UploadsStored'
  BY <1>1, <1>2 DEF PhotosHold, UploadsStored
<1>6. RevocationsCounted'
  BY <1>1 DEF PhotosHold, RevocationsCounted
<1>7. gateFaults' = 0 => ReviewPhotoIsStored'
  <2>1. \A o \in Occupancies : photo[o] # p
    BY <1>1, NoPhotoAssumption DEF PhotosHold, PhotosDone, Reviewed
  <2> QED
    BY <1>1, <2>1 DEF PhotosHold, ReviewPhotoIsStored, UnderReview
<1>8. gateFaults' = 0 /\ revocations' = 0 => PhotosAccounted'
  BY <1>1, <1>2, <1>3 DEF PhotosHold, PhotosAccounted, UnderReview
<1> QED
  BY <1>4, <1>5, <1>6, <1>7, <1>8 DEF PhotosHold

(* A submission commits: the photo it found is queued for deletion and no  *)
(* longer under review anywhere.                                           *)
LEMMA CommitKept ==
  ASSUME EnrolTypeOK, PhotosHold, NEW p \in Submissions, CommitSubmission(p) \/ FailCallback(p)
  PROVE  PhotosHold'
<1> DEFINE o == submit[p].occ
           q == submit[p].previous
<1>1. /\ submit' = [submit EXCEPT ![p].step = "done"] /\ submit[p].step = "read"
      /\ photo' = [photo EXCEPT ![o] = p] /\ deletions' = deletions \cup ({q} \ {NoPhoto})
      /\ photo[o] \in {q, NoPhoto}
      /\ UNCHANGED <<revoke, revocations>>
      /\ (blobs' = blobs /\ gateFaults' = gateFaults) \/ (blobs' = blobs \ {p} /\ gateFaults' # 0)
  BY DEF CommitSubmission, FailCallback, Queued, Inserts, EnrolTypeOK
<1>2. \A x \in Submissions : /\ submit'[x].step = IF x = p THEN "done" ELSE submit[x].step
                             /\ submit'[x].occ = submit[x].occ
                             /\ submit'[x].previous = submit[x].previous
  BY <1>1, SubmitMoves
<1>3. /\ \A x \in Submissions : submit[x].occ \in Occupancies /\ submit[x].previous \in Maybe
      /\ \A x \in Occupancies : photo[x] \in Maybe /\ revoke[x].previous \in Maybe
      /\ deletions \subseteq Submissions /\ blobs \subseteq Submissions
      /\ photo \in [Occupancies -> Maybe]
  BY DEF EnrolTypeOK
<1>4. /\ \A x \in Occupancies : photo'[x] = IF x = o THEN p ELSE photo[x]
      /\ q # NoPhoto => q \in Submissions /\ submit[q].step = "done" /\ submit[q].occ = o
      /\ q # p /\ p # NoPhoto
  BY <1>1, <1>3, NoPhotoAssumption DEF PhotosHold, PhotosDone, Reviewed, Maybe
<1> HIDE DEF o, q
<1>5. o = submit[p].occ /\ o \in Occupancies
  BY <1>3 DEF o
<1>6. PhotosDone'
  <2>1. \A x \in Maybe, y \in Occupancies : Reviewed(x, y) => Reviewed(x, y)'
    BY <1>2 DEF Reviewed, Maybe
  <2>2. \A y \in Occupancies : Reviewed(photo[y], y)'
    BY <1>2, <1>3, <1>4, <1>5, <2>1 DEF PhotosHold, PhotosDone, Reviewed
  <2>3. \A y \in Occupancies : Reviewed(revoke[y].previous, y)'
    BY <1>1, <1>3, <2>1 DEF PhotosHold, PhotosDone, Reviewed
  <2>4. \A x \in Submissions : Reviewed(submit[x].previous, submit[x].occ)'
    BY <1>2, <1>3, <2>1 DEF PhotosHold, PhotosDone, Reviewed
  <2>5. \A x \in deletions' : submit'[x].step = "done"
    BY <1>1, <1>2, <1>3, <1>4 DEF PhotosHold, PhotosDone
  <2> QED
    BY <2>2, <2>3, <2>4, <2>5 DEF PhotosDone
<1>7. UploadsStored'
  BY <1>1, <1>2 DEF PhotosHold, UploadsStored
<1>8. RevocationsCounted'
  BY <1>1 DEF PhotosHold, RevocationsCounted
<1>9. ASSUME gateFaults' = 0 PROVE ReviewPhotoIsStored'
  <2>1. blobs' = blobs /\ gateFaults = 0
    BY <1>1, <1>9
  <2>2. ASSUME NEW x \in Submissions, NEW y \in Occupancies, photo'[y] = x PROVE x \in blobs' \ deletions'
    <3>1. CASE y = o
      <4>1. x = p
        BY <1>4, <2>2, <3>1
      <4>2. p \in blobs /\ p \notin deletions
        BY <1>1 DEF PhotosHold, UploadsStored, PhotosDone
      <4> QED
        BY <1>1, <1>4, <2>1, <4>1, <4>2
    <3>2. CASE y # o
      <4>1. photo[y] = x /\ x # NoPhoto
        BY <1>4, <2>2, <3>2, NoPhotoAssumption
      <4>2. x \in blobs \ deletions
        BY <2>1, <4>1 DEF PhotosHold, ReviewPhotoIsStored, UnderReview
      <4>3. submit[x].occ = y
        BY <4>1 DEF PhotosHold, PhotosDone, Reviewed
      <4>4. x # q
        BY <1>4, <3>2, <4>1, <4>3
      <4> QED
        BY <1>1, <2>1, <4>2, <4>4
    <3> QED
      BY <3>1, <3>2
  <2> QED
    BY <2>2 DEF ReviewPhotoIsStored, UnderReview
<1>10. ASSUME gateFaults' = 0, revocations' = 0 PROVE PhotosAccounted'
  <2>1. blobs' = blobs /\ gateFaults = 0 /\ revocations = 0
    BY <1>1, <1>10
  <2>2. ASSUME NEW x \in blobs
        PROVE  UnderReview(x)' \/ x \in deletions' \/ submit'[x].step \in {"stored", "read"}
    <3>1. x \in Submissions
      BY <1>3
    <3>2. CASE x = p
      BY <1>4, <1>5, <3>2 DEF UnderReview
    <3>3. CASE x \in deletions \/ (submit[x].step \in {"stored", "read"} /\ x # p)
      BY <1>1, <1>2, <3>1, <3>3
    <3>4. ASSUME NEW y \in Occupancies, photo[y] = x
          PROVE  UnderReview(x)' \/ x \in deletions'
      <4>1. CASE y = o
        <5>1. x = q /\ x # NoPhoto
          BY <1>1, <3>1, <3>4, <4>1, NoPhotoAssumption
        <5> QED
          BY <1>1, <5>1
      <4>2. CASE y # o
        BY <1>4, <3>4, <4>2 DEF UnderReview
      <4> QED
        BY <4>1, <4>2
    <3> QED
      BY <2>1, <3>2, <3>3, <3>4 DEF PhotosHold, PhotosAccounted, UnderReview
  <2> QED
    BY <2>1, <2>2 DEF PhotosAccounted
<1> QED
  BY <1>6, <1>7, <1>8, <1>9, <1>10 DEF PhotosHold

(* A photo leaves the review of o and is queued for deletion. *)
LEMMA DropKept ==
  ASSUME EnrolTypeOK, PhotosHold, NEW o \in Occupancies, NEW q \in Maybe, Reviewed(q, o),
         photo' = [photo EXCEPT ![o] = NoPhoto], deletions' = deletions \cup ({q} \ {NoPhoto}),
         UNCHANGED <<blobs, submit, revocations, gateFaults>>,
         \A y \in Occupancies : revoke'[y].previous \in {revoke[y].previous, NoPhoto},
         RevocationsCounted',
         q = photo[o] \/ revocations # 0
  PROVE  PhotosHold'
<1>1. /\ \A y \in Occupancies : photo[y] \in Maybe /\ photo'[y] = IF y = o THEN NoPhoto ELSE photo[y]
      /\ deletions \subseteq Submissions /\ blobs \subseteq Submissions
  BY DEF EnrolTypeOK
<1>2. PhotosDone'
  <2>1. \A y \in Occupancies : Reviewed(photo[y], y)'
    BY <1>1 DEF PhotosHold, PhotosDone, Reviewed
  <2>2. \A y \in Occupancies : Reviewed(revoke[y].previous, y)'
    BY DEF PhotosHold, PhotosDone, Reviewed
  <2>3. \A x \in Submissions : Reviewed(submit[x].previous, submit[x].occ)'
    BY DEF PhotosHold, PhotosDone, Reviewed
  <2>4. \A x \in deletions' : submit'[x].step = "done"
    BY DEF PhotosHold, PhotosDone, Reviewed
  <2> QED
    BY <2>1, <2>2, <2>3, <2>4 DEF PhotosDone
<1>3. UploadsStored'
  BY DEF PhotosHold, UploadsStored
<1>4. ASSUME gateFaults' = 0 PROVE ReviewPhotoIsStored'
  <2>1. ASSUME NEW x \in Submissions, NEW y \in Occupancies, photo'[y] = x PROVE x \in blobs' \ deletions'
    <3>1. photo[y] = x /\ y # o
      BY <1>1, <2>1, NoPhotoAssumption
    <3>2. x \in blobs \ deletions
      BY <1>4, <3>1 DEF PhotosHold, ReviewPhotoIsStored, UnderReview
    <3>3. submit[x].occ = y
      BY <3>1, NoPhotoAssumption DEF PhotosHold, PhotosDone, Reviewed
    <3>4. x # q
      BY <3>1, <3>3, NoPhotoAssumption DEF Reviewed
    <3> QED
      BY <3>2, <3>4
  <2> QED
    BY <2>1 DEF ReviewPhotoIsStored, UnderReview
<1>5. ASSUME gateFaults' = 0, revocations' = 0 PROVE PhotosAccounted'
  <2>1. ASSUME NEW x \in blobs
        PROVE  UnderReview(x)' \/ x \in deletions' \/ submit'[x].step \in {"stored", "read"}
    <3>1. x \in Submissions
      BY <1>1
    <3>2. CASE x \in deletions \/ submit[x].step \in {"stored", "read"}
      BY <3>2
    <3>3. ASSUME NEW y \in Occupancies, photo[y] = x
          PROVE  UnderReview(x)' \/ x \in deletions'
      <4>1. CASE y = o
        BY <1>5, <3>1, <3>3, <4>1, NoPhotoAssumption
      <4>2. CASE y # o
        BY <1>1, <3>3, <4>2 DEF UnderReview
      <4> QED
        BY <4>1, <4>2
    <3> QED
      BY <1>5, <3>2, <3>3 DEF PhotosHold, PhotosAccounted, UnderReview
  <2> QED
    BY <2>1 DEF PhotosAccounted
<1> QED
  BY <1>2, <1>3, <1>4, <1>5 DEF PhotosHold

(* Steps that touch no photo. *)
LEMMA NoPhotoKept ==
  ASSUME PhotosHold, UNCHANGED <<photo, deletions, blobs, submit, revoke, revocations, gateFaults>>
  PROVE  PhotosHold'
BY DEF PhotosHold, PhotosDone, Reviewed, UploadsStored, RevocationsCounted, ReviewPhotoIsStored,
       PhotosAccounted, UnderReview

(* Every step keeps what the photos have to do with the rest. *)
LEMMA PhotosKept ==
  ASSUME EnrolTypeOK, ReviewIsConsistent, PhotosHold, [EnrolNext]_enrolVars
  PROVE  PhotosHold'
<1>1. ASSUME NEW p \in Submissions,
             \/ Store(p) \/ FindPrevious(p) \/ CommitSubmission(p) \/ RefuseSubmission(p)
             \/ FailSubmission(p) \/ FailCallback(p) \/ RequestDies(p)
      PROVE  PhotosHold'
  BY <1>1, UploadKept, CommitKept, TakenBackKept
<1>2. ASSUME NEW p \in Submissions, ProcessDeletion(p) PROVE PhotosHold'
  <2>1. /\ p \in deletions /\ blobs' = blobs \ {p} /\ deletions' = deletions \ {p}
        /\ UNCHANGED <<photo, submit, revoke, revocations, gateFaults>>
    BY <1>2 DEF ProcessDeletion
  <2>2. submit[p].step = "done"
    BY <2>1 DEF PhotosHold, PhotosDone
  <2>3. PhotosDone'
    BY <2>1 DEF PhotosHold, PhotosDone, Reviewed
  <2>4. UploadsStored' /\ RevocationsCounted'
    BY <2>1, <2>2 DEF PhotosHold, UploadsStored, RevocationsCounted
  <2>5. gateFaults' = 0 => ReviewPhotoIsStored'
    BY <2>1 DEF PhotosHold, ReviewPhotoIsStored, UnderReview
  <2>6. gateFaults' = 0 /\ revocations' = 0 => PhotosAccounted'
    BY <2>1 DEF PhotosHold, PhotosAccounted, UnderReview
  <2> QED
    BY <2>3, <2>4, <2>5, <2>6 DEF PhotosHold
<1>3. ASSUME NEW p \in Submissions, Expire(p) PROVE PhotosHold'
  BY <1>3, NoPhotoKept DEF Expire, data
<1>4. ASSUME NEW o \in Occupancies, ReadRequest(o) \/ NotPossible(o) PROVE PhotosHold'
  BY <1>4, NoPhotoKept DEF ReadRequest, NotPossible, data
<1>5. ASSUME NEW o \in Occupancies, FindRevoked(o) PROVE PhotosHold'
  <2>1. /\ revoke' = [revoke EXCEPT ![o] = [step |-> "read", previous |-> photo[o]]]
        /\ revocations' = revocations + 1 /\ UNCHANGED <<photo, deletions, blobs, submit, gateFaults>>
    BY <1>5 DEF FindRevoked, data
  <2>2. \A y \in Occupancies : revoke'[y].previous \in {revoke[y].previous, photo[y]}
    BY <2>1 DEF EnrolTypeOK
  <2>3. revocations' > 0
    BY <2>1 DEF EnrolTypeOK
  <2>4. PhotosDone'
    BY <2>1, <2>2 DEF PhotosHold, PhotosDone, Reviewed
  <2>5. UploadsStored' /\ RevocationsCounted'
    BY <2>1, <2>3 DEF PhotosHold, UploadsStored, RevocationsCounted
  <2>6. gateFaults' = 0 => ReviewPhotoIsStored'
    BY <2>1 DEF PhotosHold, ReviewPhotoIsStored, UnderReview
  <2> QED
    BY <2>3, <2>4, <2>5, <2>6 DEF PhotosHold
<1>6. ASSUME NEW o \in Occupancies, CommitRevocation(o) PROVE PhotosHold'
  <2>1. /\ revoke[o].step = "read"
        /\ revoke' = [revoke EXCEPT ![o] = [step |-> "idle", previous |-> NoPhoto]]
        /\ UNCHANGED <<blobs, submit, revocations, gateFaults>>
    BY <1>6 DEF CommitRevocation, data
  <2>2. \A y \in Occupancies : /\ revoke'[y].previous \in {revoke[y].previous, NoPhoto}
                               /\ revoke'[y].step = "read" => revoke[y].step = "read"
    BY <2>1 DEF EnrolTypeOK
  <2>3. RevocationsCounted' /\ revocations > 0
    BY <2>1, <2>2 DEF PhotosHold, RevocationsCounted
  <2>4. CASE revoke[o].previous \in deletions
    <3>1. UNCHANGED <<photo, deletions>>
      BY <1>6, <2>4 DEF CommitRevocation, data
    <3>2. PhotosDone'
      BY <2>1, <2>2, <3>1 DEF PhotosHold, PhotosDone, Reviewed
    <3>3. UploadsStored'
      BY <2>1 DEF PhotosHold, UploadsStored
    <3>4. gateFaults' = 0 => ReviewPhotoIsStored'
      BY <2>1, <3>1 DEF PhotosHold, ReviewPhotoIsStored, UnderReview
    <3> QED
      BY <2>1, <2>3, <3>2, <3>3, <3>4 DEF PhotosHold, EnrolTypeOK
  <2>5. CASE revoke[o].previous \notin deletions
    <3>1. /\ photo' = [photo EXCEPT ![o] = NoPhoto]
          /\ deletions' = deletions \cup ({revoke[o].previous} \ {NoPhoto})
      BY <1>6, <2>5 DEF CommitRevocation, Queued
    <3>2. revoke[o].previous \in Maybe /\ Reviewed(revoke[o].previous, o) /\ revocations # 0
      BY <2>3 DEF PhotosHold, PhotosDone, EnrolTypeOK
    <3> QED
      BY <2>1, <2>2, <2>3, <3>1, <3>2, DropKept
  <2> QED
    BY <2>4, <2>5
<1>7. ASSUME NEW o \in Occupancies, ApproveFace(o) \/ CloseFace(o) \/ PurgePhoto(o) PROVE PhotosHold'
  <2>1. /\ photo' = [photo EXCEPT ![o] = NoPhoto]
        /\ deletions' = deletions \cup ({photo[o]} \ {NoPhoto})
        /\ UNCHANGED <<blobs, submit, revoke, revocations, gateFaults>>
    BY <1>7 DEF ApproveFace, CloseFace, PurgePhoto, Queued
  <2>2. photo[o] \in Maybe /\ Reviewed(photo[o], o) /\ RevocationsCounted'
    BY <2>1 DEF PhotosHold, PhotosDone, EnrolTypeOK, RevocationsCounted
  <2> QED
    BY <2>1, <2>2, DropKept
<1>8. CASE UNCHANGED enrolVars
  BY <1>8, NoPhotoKept DEF enrolVars, data
<1> QED
  BY <1>1, <1>2, <1>3, <1>4, <1>5, <1>6, <1>7, <1>8 DEF EnrolNext

(* However uploads, decisions, revocations and the purge interleave, what  *)
(* a manager approves is what the resident last submitted, its photo is    *)
(* there to look at, and no photo stays behind unaccounted                 *)
(* (submit_face_enrollment, approve_face, process_photo_deletions).        *)
THEOREM EnrolmentsCorrect == EnrolSpec => []EnrolmentsHold
<1> DEFINE Inv == EnrolTypeOK /\ ReviewIsConsistent /\ PhotosHold
<1>1. EnrolInit => Inv
  <2> SUFFICES ASSUME EnrolInit PROVE Inv
    OBVIOUS
  <2>1. /\ \A o \in Occupancies : /\ photo[o] = NoPhoto /\ revoke[o].previous = NoPhoto /\ revoke[o].step = "idle"
                                  /\ enrolment[o].status = "NONE" /\ enrolment[o].vector = NoPhoto
        /\ \A p \in Submissions : submit[p].step = "new" /\ submit[p].previous = NoPhoto
        /\ deletions = {} /\ blobs = {}
    BY DEF EnrolInit
  <2>2. EnrolTypeOK
    <3>1. submit \in [Submissions -> SubmitStates]
      BY DEF EnrolInit, SubmitStates, Maybe
    <3> QED
      BY <3>1, EnrolBoundAssumption DEF EnrolInit, EnrolTypeOK, SubmitStates, ReviewStatus, Maybe
  <2>3. ReviewIsConsistent
    BY <2>1 DEF ReviewIsConsistent
  <2>4. PhotosHold
    BY <2>1, NoPhotoAssumption DEF PhotosHold, PhotosDone, Reviewed, UploadsStored, RevocationsCounted,
       ReviewPhotoIsStored, PhotosAccounted, UnderReview
  <2> QED
    BY <2>2, <2>3, <2>4
<1>2. Inv /\ [EnrolNext]_enrolVars => Inv'
  BY EnrolTyped, ReviewKept, PhotosKept
<1>3. Inv => EnrolmentsHold
  BY DEF EnrolmentsHold, PhotosHold
<1> QED
  BY <1>1, <1>2, <1>3, PTL DEF EnrolSpec

-----------------------------------------------------------------------------
(* The resident API: tokens and flats. *)

(* The states of a login and of a request. *)
LoginForms ==
    {NoCall, [at |-> "eligible"], [at |-> "issuing"]} \cup [at : {"evicting"}, stale : SUBSET Nat]
CallForms ==
    {NoCall} \cup [at : {"known", "in"}, token : Nat]
    \cup [at : {"serving"}, header : Flats \cup {NoFlat}, token : Nat, flat : Flats, others : SUBSET Flats]

Evicting == {l \in Logins : login[l].at = "evicting"}
Issuing == {l \in Logins : login[l].at = "issuing"}

(* What the evictions of E leave. *)
LeftBy(E) == {t \in tokens : \A l \in E : t \notin login[l].stale}

(* The token each login in E or past its eviction will add has room beside *)
(* the tokens the evictions of E leave, whichever logins E are.            *)
RoomForTokens ==
    \A E \in SUBSET Evicting :
        Cardinality(LeftBy(E)) + Cardinality(Issuing \cup E) <= Cap - 1 + Cardinality(Logins)

AccessInv ==
    /\ AccessTypeOK /\ login \in [Logins -> LoginForms] /\ call \in [Calls -> CallForms]
    /\ RoomForTokens /\ ServedFlatIsMeant

(* The sets that are counted. *)
LEMMA TokenCounts ==
  ASSUME AccessTypeOK
  PROVE  /\ IsFiniteSet(tokens) /\ tokens \subseteq Nat /\ Cardinality(tokens) \in Nat
         /\ \A E \in SUBSET Evicting : /\ IsFiniteSet(LeftBy(E)) /\ Cardinality(LeftBy(E)) \in Nat
                                       /\ IsFiniteSet(Issuing \cup E) /\ Cardinality(Issuing \cup E) \in Nat
                                       /\ Cardinality(Issuing \cup E) <= Cardinality(Logins)
         /\ Cardinality(Logins) \in Nat
<1>1. tokens \subseteq Nat /\ IsFiniteSet(tokens) /\ Cardinality(tokens) \in Nat
  <2>1. 1 \in Int /\ issued \in Int /\ tokens \in SUBSET (1 .. issued)
    BY AccessBoundsAssumption DEF AccessTypeOK
  <2>2. IsFiniteSet(1 .. issued)
    BY <2>1, FS_Interval
  <2>3. IsFiniteSet(tokens)
    BY <2>1, <2>2, FS_Subset
  <2>4. tokens \subseteq Nat
    BY <2>1
  <2> QED
    BY <2>3, <2>4, FS_CardinalityType
<1>2. \A E \in SUBSET Evicting : LeftBy(E) \in SUBSET tokens /\ Issuing \cup E \in SUBSET Logins
  BY DEF LeftBy, Evicting, Issuing
<1>3. \A E \in SUBSET Evicting : IsFiniteSet(LeftBy(E)) /\ Cardinality(LeftBy(E)) \in Nat
  BY <1>1, <1>2, FS_Subset, FS_CardinalityType
<1>4. \A E \in SUBSET Evicting : IsFiniteSet(Issuing \cup E) /\ Cardinality(Issuing \cup E) \in Nat
                                 /\ Cardinality(Issuing \cup E) <= Cardinality(Logins)
  BY <1>2, FS_Subset, FS_CardinalityType, LoginsAssumption
<1> QED
  BY <1>1, <1>3, <1>4, FS_CardinalityType, LoginsAssumption

(* LoginView.post keeps at most Cap - 1 of the tokens it read. *)
LEMMA KeepsFew ==
  ASSUME AccessTypeOK
  PROVE  Cardinality(tokens \ StaleTokens) <= Cap - 1
<1> DEFINE K == tokens \ StaleTokens
<1>1. tokens \subseteq Nat /\ IsFiniteSet(tokens)
  BY TokenCounts
<1>2. IsFiniteSet(K) /\ Cardinality(K) \in Nat
  BY <1>1, FS_Subset, FS_CardinalityType
<1>3. CASE K = {}
  BY <1>3, FS_EmptySet, CapAssumption
<1>4. CASE K # {}
  <2>1. PICK t \in K : \A u \in K : t <= u
    BY <1>1, <1>4, Smallest
  <2> DEFINE above == {u \in tokens : u > t}
  <2>2. IsFiniteSet(above) /\ Cardinality(above) \in Nat
    BY <1>1, FS_Subset, FS_CardinalityType
  <2>3. Cardinality(above) < Cap - 1
    BY <2>1, <2>2, CapAssumption DEF StaleTokens
  <2>4. K \ {t} \subseteq above
    <3> SUFFICES ASSUME NEW u \in K, u # t PROVE u > t
      OBVIOUS
    <3>1. u \in Nat /\ t \in Nat /\ t <= u
      BY <1>1, <2>1
    <3> QED
      BY <3>1
  <2>5. Cardinality(K \ {t}) <= Cardinality(above)
    BY <2>2, <2>4, FS_Subset
  <2>6. Cardinality(K \ {t}) = Cardinality(K) - 1
    BY <1>2, <2>1, FS_RemoveElement
  <2> QED
    BY <1>2, <2>2, <2>3, <2>5, <2>6, CapAssumption
<1> QED
  BY <1>3, <1>4

(* The types and the flats. *)
LEMMA AccessTyped ==
  ASSUME AccessInv, [AccessNext]_accessVars
  PROVE  /\ AccessTypeOK' /\ (login \in [Logins -> LoginForms])' /\ (call \in [Calls -> CallForms])'
         /\ ServedFlatIsMeant'
<1> USE DEF AccessInv
<1>1. \A l \in Logins : login[l] \in LoginForms
  OBVIOUS
<1>2. \A c \in Calls : call[c] \in CallForms
  OBVIOUS
<1>3. issued' \in 0 .. MaxToken /\ tokens' \subseteq 1 .. issued'
  <2>1. \/ issued' = issued + 1 /\ issued < MaxToken /\ tokens' = tokens \cup {issued'}
        \/ issued' = issued /\ tokens' \subseteq tokens
    <3>1. CASE LoginStep
      BY <3>1 DEF LoginStep, LoginChecks, LoginReads, LoginEvicts, LoginIssues, AfterCleanup
    <3>2. CASE CallStep
      BY <3>2 DEF CallStep, Authenticate, CheckOccupancy, Resolve, Respond, AfterCleanup
    <3>3. CASE LogoutStep
      BY <3>3 DEF LogoutStep, Logout
    <3>4. CASE RightsStep
      BY <3>4 DEF RightsStep, DeactivateOccupancy, BulkDeactivate, DeactivateUser, Restore
    <3>5. CASE Revoke \/ UNCHANGED accessVars
      BY <3>5 DEF Revoke, AfterCleanup, accessVars
    <3> QED
      BY <3>1, <3>2, <3>3, <3>4, <3>5 DEF AccessNext
  <2>2. issued \in 0 .. MaxToken /\ tokens \subseteq 1 .. issued
    BY DEF AccessTypeOK
  <2>3. issued' \in 0 .. MaxToken /\ issued' \in issued .. issued + 1
    BY <2>1, <2>2, AccessBoundsAssumption
  <2>4. \A t \in 1 .. issued : t \in 1 .. issued'
    BY <2>2, <2>3, AccessBoundsAssumption
  <2>5. issued' = issued + 1 => issued' \in 1 .. issued'
    BY <2>2, AccessBoundsAssumption
  <2> QED
    BY <2>1, <2>2, <2>3, <2>4, <2>5
<1>4. changes' \in 0 .. MaxChange
  <2>1. \/ changes' = changes
        \/ changes' = changes + 1 /\ changes < MaxChange
    <3>1. CASE LoginStep
      BY <3>1 DEF LoginStep, LoginChecks, LoginReads, LoginEvicts, LoginIssues
    <3>2. CASE CallStep
      BY <3>2 DEF CallStep, Authenticate, CheckOccupancy, Resolve, Respond
    <3>3. CASE LogoutStep
      BY <3>3 DEF LogoutStep, Logout
    <3>4. CASE RightsStep
      BY <3>4 DEF RightsStep, DeactivateOccupancy, BulkDeactivate, DeactivateUser, Restore, Change
    <3>5. CASE Revoke \/ UNCHANGED accessVars
      BY <3>5 DEF Revoke, accessVars
    <3> QED
      BY <3>1, <3>2, <3>3, <3>4, <3>5 DEF AccessNext
  <2> QED
    BY <2>1, AccessBoundsAssumption DEF AccessTypeOK
<1>5. active' \in BOOLEAN
  BY Zenon DEF AccessNext, LoginStep, LoginChecks, LoginReads, LoginEvicts, LoginIssues, CallStep, Authenticate,
           CheckOccupancy, Resolve, Respond, LogoutStep, Logout, RightsStep, DeactivateOccupancy,
           BulkDeactivate, DeactivateUser, Restore, Revoke, accessVars, AccessTypeOK
<1>6. flats' \subseteq Flats /\ job' \in {"none", "occupancy", "user"}
  BY DEF AccessNext, LoginStep, LoginChecks, LoginReads, LoginEvicts, LoginIssues, CallStep, Authenticate,
           CheckOccupancy, Resolve, Respond, LogoutStep, Logout, RightsStep, DeactivateOccupancy,
           BulkDeactivate, DeactivateUser, Restore, Revoke, accessVars, AccessTypeOK
<1>7. login' \in [Logins -> LoginForms]
  <2>1. CASE LoginStep
    <3>1. PICK l \in Logins : LoginChecks(l) \/ LoginReads(l) \/ LoginEvicts(l) \/ LoginIssues(l)
      BY <2>1 DEF LoginStep
    <3>2. StaleTokens \in SUBSET Nat
      BY TokenCounts DEF StaleTokens
    <3>3. NoCall \in LoginForms /\ [at |-> "eligible"] \in LoginForms /\ [at |-> "issuing"] \in LoginForms
          /\ [at |-> "evicting", stale |-> StaleTokens] \in LoginForms
      BY <3>2 DEF LoginForms
    <3>4. login' = login \/ \E f \in LoginForms : login' = [login EXCEPT ![l] = f]
      BY <3>1, <3>3 DEF LoginChecks, LoginReads, LoginEvicts, LoginIssues
    <3> QED
      BY <3>4
  <2>2. CASE ~LoginStep
    BY <2>2 DEF AccessNext, CallStep, Authenticate, CheckOccupancy, Resolve, Respond, LogoutStep, Logout,
           RightsStep, DeactivateOccupancy, BulkDeactivate, DeactivateUser, Restore, Revoke, accessVars
  <2> QED
    BY <2>1, <2>2
<1>8. call' \in [Calls -> CallForms] /\ ServedFlatIsMeant'
  <2> DEFINE Meant(f) == f.at = "serving" =>
                /\ f.flat \in f.others
                /\ IF f.header = NoFlat THEN f.others = {f.flat} ELSE f.flat = f.header
  <2>1. \A c \in Calls : Meant(call[c])
    BY DEF ServedFlatIsMeant
  <2>2. NoCall \in CallForms /\ Meant(NoCall)
    BY DEF CallForms, NoCall
  <2>3. ASSUME NEW c \in Calls, NEW f \in CallForms, Meant(f), call' = [call EXCEPT ![c] = f]
        PROVE  call' \in [Calls -> CallForms] /\ ServedFlatIsMeant'
    <3> HIDE DEF Meant
    <3>1. call' \in [Calls -> CallForms] /\ \A d \in Calls : Meant(call'[d])
      BY <2>1, <2>3
    <3> QED
      BY <3>1 DEF ServedFlatIsMeant, Meant
  <2>4. CASE call' = call
    BY <2>4 DEF ServedFlatIsMeant
  <2>5. ASSUME NEW c \in Calls, NEW t \in tokens, Authenticate(c, t)
        PROVE  call' \in [Calls -> CallForms] /\ ServedFlatIsMeant'
    <3>1. [at |-> "known", token |-> t] \in CallForms
      BY TokenCounts DEF CallForms
    <3>2. Meant([at |-> "known", token |-> t])
      OBVIOUS
    <3>3. call' = [call EXCEPT ![c] = [at |-> "known", token |-> t]]
      BY <2>5 DEF Authenticate
    <3> QED
      BY <2>3, <3>1, <3>2, <3>3
  <2>6. ASSUME NEW c \in Calls, CheckOccupancy(c)
        PROVE  call' \in [Calls -> CallForms] /\ ServedFlatIsMeant'
    <3> DEFINE f == [at |-> "in", token |-> call[c].token]
    <3>1. f \in CallForms
      BY <1>2, <2>6 DEF CallForms, CheckOccupancy, NoCall
    <3>2. Meant(f)
      OBVIOUS
    <3>3. call' = [call EXCEPT ![c] = f] \/ call' = [call EXCEPT ![c] = NoCall]
      BY <2>6 DEF CheckOccupancy
    <3> QED
      BY <2>2, <2>3, <3>1, <3>2, <3>3
  <2>7. ASSUME NEW c \in Calls, NEW h \in Flats \cup {NoFlat}, Resolve(c, h)
        PROVE  call' \in [Calls -> CallForms] /\ ServedFlatIsMeant'
    <3>1. CASE Selected(h) = {}
      <4>1. call' = [call EXCEPT ![c] = NoCall]
        BY <2>7, <3>1 DEF Resolve
      <4> QED
        BY <2>2, <2>3, <4>1
    <3>2. CASE Selected(h) # {}
      <4> DEFINE flat == CHOOSE g \in Selected(h) : TRUE
      <4> DEFINE f == [at |-> "serving", header |-> h, token |-> call[c].token, flat |-> flat, others |-> flats]
      <4>1. flat \in Selected(h)
        BY <3>2
      <4>2. call[c].token \in Nat
        BY <1>2, <2>7 DEF CallForms, Resolve, NoCall
      <4>3. call' = [call EXCEPT ![c] = f]
        BY <2>7, <3>2 DEF Resolve
      <4> HIDE DEF flat
      <4>4. flat \in flats /\ flats \subseteq Flats
        BY <4>1 DEF Selected, AccessTypeOK
      <4>5. f \in CallForms
        BY <4>2, <4>4 DEF CallForms
      <4>6. Meant(f)
        BY <4>1, <4>4 DEF Selected
      <4> QED
        BY <2>3, <4>3, <4>5, <4>6
    <3> QED
      BY <3>1, <3>2
  <2>8. ASSUME NEW c \in Calls, Respond(c) \/ \E all \in BOOLEAN : Logout(c, all)
        PROVE  call' \in [Calls -> CallForms] /\ ServedFlatIsMeant'
    <3>1. call' = [call EXCEPT ![c] = NoCall]
      BY <2>8 DEF Respond, Logout
    <3> QED
      BY <2>2, <2>3, <3>1
  <2> QED
    BY <2>4, <2>5, <2>6, <2>7, <2>8
       DEF AccessNext, LoginStep, LoginChecks, LoginReads, LoginEvicts, LoginIssues, CallStep, LogoutStep,
           RightsStep, DeactivateOccupancy, BulkDeactivate, DeactivateUser, Restore, Revoke, accessVars
<1>9. \A l \in Logins : login'[l].at \in {"idle", "eligible", "evicting", "issuing"}
  BY <1>7 DEF LoginForms, NoCall
<1>10. \A c \in Calls : call'[c].at \in {"idle", "known", "in", "serving"}
  BY <1>8 DEF CallForms, NoCall
<1> QED
  BY <1>3, <1>4, <1>5, <1>6, <1>7, <1>8, <1>9, <1>10 DEF AccessTypeOK

(* A step that removes tokens and leaves the logins alone. *)
LEMMA RoomStays ==
  ASSUME AccessInv, AccessTypeOK', tokens' \subseteq tokens,
         \A l \in Logins : login'[l] = login[l] \/ login'[l].at \notin {"evicting", "issuing"}
  PROVE  RoomForTokens'
<1> SUFFICES ASSUME NEW E \in SUBSET Evicting'
             PROVE  Cardinality(LeftBy(E)') + Cardinality(Issuing' \cup E) <= Cap - 1 + Cardinality(Logins)
  BY DEF RoomForTokens, LeftBy
<1>1. E \in SUBSET Evicting /\ Issuing' \cup E \subseteq Issuing \cup E
  BY DEF Evicting, Issuing
<1>2. LeftBy(E)' \subseteq LeftBy(E)
  BY DEF LeftBy, Evicting
<1>3. Cardinality(LeftBy(E)') <= Cardinality(LeftBy(E)) /\ Cardinality(LeftBy(E)') \in Nat
  BY <1>1, <1>2, TokenCounts, FS_Subset, FS_CardinalityType DEF AccessInv
<1>4. Cardinality(Issuing' \cup E) <= Cardinality(Issuing \cup E) /\ Cardinality(Issuing' \cup E) \in Nat
  BY <1>1, TokenCounts, FS_Subset, FS_CardinalityType DEF AccessInv
<1>5. Cardinality(LeftBy(E)) + Cardinality(Issuing \cup E) <= Cap - 1 + Cardinality(Logins)
  BY <1>1 DEF AccessInv, RoomForTokens
<1>6. Cardinality(LeftBy(E)) \in Nat /\ Cardinality(Issuing \cup E) \in Nat /\ Cardinality(Logins) \in Nat
  BY <1>1, TokenCounts DEF AccessInv
<1> QED
  BY <1>3, <1>4, <1>5, <1>6, CapAssumption

(* Logins keep their tokens bounded. *)
LEMMA RoomKept ==
  ASSUME AccessInv, [AccessNext]_accessVars
  PROVE  RoomForTokens'
<1> USE DEF AccessInv
<1>0. AccessTypeOK' /\ login' \in [Logins -> LoginForms]
  BY AccessTyped
<1>1. ASSUME NEW l \in Logins, LoginChecks(l) PROVE RoomForTokens'
  <2>1. tokens' \subseteq tokens
    BY <1>1 DEF LoginChecks, AfterCleanup
  <2>2. \A m \in Logins : login'[m] = login[m] \/ login'[m].at \notin {"evicting", "issuing"}
    BY <1>1 DEF LoginChecks
  <2> QED
    BY <1>0, <2>1, <2>2, RoomStays
<1>2. ASSUME NEW l \in Logins, LoginReads(l) PROVE RoomForTokens'
  <2>1. login' = [login EXCEPT ![l] = [at |-> "evicting", stale |-> StaleTokens]] /\ tokens' = tokens
    BY <1>2 DEF LoginReads
  <2>2. login'[l].at = "evicting" /\ login'[l].stale = StaleTokens /\ login[l].at = "eligible"
        /\ \A m \in Logins \ {l} : login'[m] = login[m]
    BY <1>2, <2>1 DEF LoginReads
  <2> SUFFICES ASSUME NEW E \in SUBSET Evicting'
               PROVE  Cardinality(LeftBy(E)') + Cardinality(Issuing' \cup E) <= Cap - 1 + Cardinality(Logins)
    BY DEF RoomForTokens, LeftBy
  <2>3. Issuing' = Issuing
    BY <2>2 DEF Issuing
  <2>4. CASE l \notin E
    <3>1. E \in SUBSET Evicting
      BY <2>2, <2>4 DEF Evicting
    <3>2. LeftBy(E)' = LeftBy(E)
      BY <2>1, <2>2, <2>4, <3>1 DEF LeftBy, Evicting
    <3> QED
      BY <2>3, <3>1, <3>2 DEF RoomForTokens
  <2>5. CASE l \in E
    <3>1. LeftBy(E)' \subseteq tokens \ StaleTokens
      BY <2>1, <2>2, <2>5 DEF LeftBy
    <3>2. IsFiniteSet(tokens \ StaleTokens)
      BY TokenCounts, FS_Subset
    <3>3. Cardinality(LeftBy(E)') <= Cap - 1 /\ Cardinality(LeftBy(E)') \in Nat
      BY <3>1, <3>2, KeepsFew, FS_Subset, FS_CardinalityType, CapAssumption
    <3>4. Issuing' \cup E \in SUBSET Logins
      BY DEF Issuing, Evicting
    <3>5. Cardinality(Issuing' \cup E) <= Cardinality(Logins) /\ Cardinality(Issuing' \cup E) \in Nat
      BY <3>4, FS_Subset, FS_CardinalityType, LoginsAssumption
    <3> QED
      BY <3>3, <3>5, TokenCounts, CapAssumption
  <2> QED
    BY <2>4, <2>5
<1>3. ASSUME NEW l \in Logins, LoginEvicts(l) PROVE RoomForTokens'
  <2>1. login' = [login EXCEPT ![l] = [at |-> "issuing"]] /\ tokens' = tokens \ login[l].stale
    BY <1>3 DEF LoginEvicts
  <2>2. login'[l].at = "issuing" /\ login[l].at = "evicting"
        /\ \A m \in Logins \ {l} : login'[m] = login[m]
    BY <1>3, <2>1 DEF LoginEvicts
  <2> SUFFICES ASSUME NEW E \in SUBSET Evicting'
               PROVE  Cardinality(LeftBy(E)') + Cardinality(Issuing' \cup E) <= Cap - 1 + Cardinality(Logins)
    BY DEF RoomForTokens, LeftBy
  <2> DEFINE D == E \cup {l}
  <2>3. D \in SUBSET Evicting /\ l \notin E
    BY <2>2 DEF Evicting
  <2>4. Issuing' \cup E = Issuing \cup D
    BY <2>2 DEF Issuing
  <2>5. LeftBy(E)' = LeftBy(D)
    BY <2>1, <2>2, <2>3 DEF LeftBy, Evicting
  <2> HIDE DEF D
  <2> QED
    BY <2>3, <2>4, <2>5 DEF RoomForTokens
<1>4. ASSUME NEW l \in Logins, LoginIssues(l) PROVE RoomForTokens'
  <2>1. login' = [login EXCEPT ![l] = NoCall] /\ tokens' = tokens \cup {issued'}
    BY <1>4 DEF LoginIssues
  <2>2. login'[l].at = "idle" /\ login[l].at = "issuing"
        /\ \A m \in Logins \ {l} : login'[m] = login[m]
    BY <1>4, <2>1 DEF LoginIssues, NoCall
  <2> SUFFICES ASSUME NEW E \in SUBSET Evicting'
               PROVE  Cardinality(LeftBy(E)') + Cardinality(Issuing' \cup E) <= Cap - 1 + Cardinality(Logins)
    BY DEF RoomForTokens, LeftBy
  <2>3. E \in SUBSET Evicting /\ l \notin E
    BY <2>2 DEF Evicting
  <2>4. Issuing' \cup E = (Issuing \cup E) \ {l} /\ l \in Issuing \cup E
    BY <2>2, <2>3 DEF Issuing
  <2>5. LeftBy(E)' \subseteq LeftBy(E) \cup {issued'}
    BY <2>1, <2>2, <2>3 DEF LeftBy, Evicting
  <2>6. /\ IsFiniteSet(LeftBy(E)) /\ Cardinality(LeftBy(E)) \in Nat
        /\ IsFiniteSet(Issuing \cup E) /\ Cardinality(Issuing \cup E) \in Nat /\ Cardinality(Logins) \in Nat
    BY <2>3, TokenCounts
  <2>7. Cardinality(Issuing' \cup E) = Cardinality(Issuing \cup E) - 1
    <3>1. Cardinality((Issuing \cup E) \ {l}) = Cardinality(Issuing \cup E) - 1
      BY <2>4, <2>6, FS_RemoveElement
    <3> QED
      BY <2>4, <3>1
  <2>8. IsFiniteSet(LeftBy(E) \cup {issued'}) /\ Cardinality(LeftBy(E) \cup {issued'}) \in Nat
        /\ Cardinality(LeftBy(E) \cup {issued'}) <= Cardinality(LeftBy(E)) + 1
    <3> DEFINE L == LeftBy(E)
    <3>1. IsFiniteSet(L) /\ Cardinality(L) \in Nat
      BY <2>6
    <3> HIDE DEF L
    <3>2. IsFiniteSet(L \cup {issued'})
          /\ Cardinality(L \cup {issued'}) = IF issued' \in L THEN Cardinality(L) ELSE Cardinality(L) + 1
      BY <3>1, FS_AddElement
    <3>3. IsFiniteSet(L \cup {issued'}) /\ Cardinality(L \cup {issued'}) \in Nat
          /\ Cardinality(L \cup {issued'}) <= Cardinality(L) + 1
      BY <3>1, <3>2
    <3> QED
      BY <3>3 DEF L
  <2>9. Cardinality(LeftBy(E)') <= Cardinality(LeftBy(E) \cup {issued'}) /\ Cardinality(LeftBy(E)') \in Nat
    BY <2>5, <2>8, FS_Subset, FS_CardinalityType
  <2>10. Cardinality(LeftBy(E)) + Cardinality(Issuing \cup E) <= Cap - 1 + Cardinality(Logins)
    BY <2>3 DEF RoomForTokens
  <2> QED
    BY <2>6, <2>7, <2>8, <2>9, <2>10, CapAssumption
<1>5. CASE ~LoginStep
  <2>1. login' = login /\ tokens' \subseteq tokens
    BY <1>5 DEF AccessNext, CallStep, Authenticate, CheckOccupancy, Resolve, Respond, LogoutStep, Logout,
           RightsStep, DeactivateOccupancy, BulkDeactivate, DeactivateUser, Restore, Revoke, AfterCleanup,
           accessVars
  <2> QED
    BY <1>0, <2>1, RoomStays
<1> QED
  BY <1>1, <1>2, <1>3, <1>4, <1>5 DEF LoginStep

(* Nobody is logged in. *)
LEMMA AccessStarts == AccessInit => AccessInv
<1> SUFFICES ASSUME AccessInit PROVE AccessInv
  OBVIOUS
<1>1. active \in BOOLEAN
  BY DEF AccessInit
<1>2. login \in [Logins -> LoginForms] /\ call \in [Calls -> CallForms]
  BY DEF AccessInit, LoginForms, CallForms
<1>3. \A l \in Logins : login[l].at = "idle"
  BY DEF AccessInit, NoCall
<1>4. \A c \in Calls : call[c].at = "idle"
  BY DEF AccessInit, NoCall
<1>5. issued \in 0 .. MaxToken /\ tokens \subseteq 1 .. issued /\ changes \in 0 .. MaxChange
      /\ flats \subseteq Flats /\ job \in {"none", "occupancy", "user"}
  BY AccessBoundsAssumption DEF AccessInit
<1>6. AccessTypeOK
  BY <1>1, <1>3, <1>4, <1>5 DEF AccessTypeOK
<1>7. RoomForTokens
  <2> SUFFICES ASSUME NEW E \in SUBSET Evicting
               PROVE  Cardinality(LeftBy(E)) + Cardinality(Issuing \cup E) <= Cap - 1 + Cardinality(Logins)
    BY DEF RoomForTokens
  <2>1. LeftBy(E) = {}
    BY DEF LeftBy, AccessInit
  <2>2. Cardinality(LeftBy(E)) = 0
    BY <2>1, FS_EmptySet
  <2>3. Cardinality(Issuing \cup E) \in Nat /\ Cardinality(Issuing \cup E) <= Cardinality(Logins)
        /\ Cardinality(Logins) \in Nat
    BY <1>6, TokenCounts
  <2> QED
    BY <2>2, <2>3, CapAssumption
<1> QED
  BY <1>2, <1>4, <1>6, <1>7 DEF AccessInv, ServedFlatIsMeant

(* However many devices log in at once, the live tokens of a resident stay *)
(* within Cap - 1 and one for each login that is running, and a request is *)
(* served the flat it named or the only one there was (LoginView.post,     *)
(* resolve_api_occupancy).                                                 *)
THEOREM TokensCorrect == AccessSpec => []AccessHolds
<1>1. AccessInv /\ [AccessNext]_accessVars => AccessInv'
  BY AccessTyped, RoomKept DEF AccessInv
<1>2. AccessInv => AccessHolds
  <2> SUFFICES ASSUME AccessInv PROVE TokensBounded
    BY DEF AccessInv, AccessHolds
  <2>1. {} \in SUBSET Evicting /\ LeftBy({}) = tokens
    BY DEF LeftBy
  <2>2. Cardinality(LeftBy({})) + Cardinality(Issuing \cup {}) <= Cap - 1 + Cardinality(Logins)
    BY <2>1 DEF AccessInv, RoomForTokens
  <2>3. AccessTypeOK
    BY DEF AccessInv
  <2>4. Cardinality(tokens) \in Nat /\ Cardinality(Issuing \cup {}) \in Nat /\ Cardinality(Logins) \in Nat
    BY <2>1, <2>3, TokenCounts
  <2>5. Cardinality(tokens) + Cardinality(Issuing \cup {}) <= Cap - 1 + Cardinality(Logins)
    BY <2>1, <2>2
  <2> QED
    BY <2>4, <2>5, CapAssumption DEF TokensBounded
<1> QED
  BY <1>1, <1>2, AccessStarts, PTL DEF AccessSpec

-----------------------------------------------------------------------------
(* Registration. *)

RequestStatus == {"PENDING", "APPROVED", "REJECTED", "EXPIRED"}
RequestRows == [status : RequestStatus, phone : Phones, email : Emails \cup {Nothing}, unit : Units,
                hash : BOOLEAN, expires : Nat, decidedAt : Nat \cup {Nothing},
                decidedBy : Managers \cup {Nothing}]
RequestForms == {NoRequest} \cup RequestRows
SubmissionForms ==
    {NotSubmitting} \cup [pc : {"checked"}, phone : Phones, email : Emails \cup {Nothing}, unit : Units,
                          locked : SUBSET Requests]
UserRows == [phone : Phones \cup {Nothing}, email : Addresses \cup {Nothing},
             unit : Units \cup {Nothing}, of : Requests \cup {Nothing}]

(* A row a submission has locked is past its time and nobody else's. *)
LocksHold ==
    \A s \in Submitters :
        /\ \A r \in sub[s].locked : Stale(r)
        /\ \A t \in Submitters : s # t => sub[s].locked \cap sub[t].locked = {}

(* The account of one request. *)
Accounted(r, f, us) ==
    LET own == {u \in us : u.of = r}
    IN  IF f.status = "APPROVED"
        THEN /\ Cardinality(own) = 1
             /\ ManagerOf[f.decidedBy] = BuildingOf[f.unit]
             /\ f.decidedAt < f.expires
             /\ \A u \in own : u.unit = f.unit /\ u.phone = NormalizePhone(f.phone)
        ELSE own = {}

RegistrationInv ==
    /\ day \in 0 .. MaxDay /\ users \subseteq UserRows
    /\ req \in [Requests -> RequestForms] /\ sub \in [Submitters -> SubmissionForms]
    /\ HashOnlyWhilePending /\ OnePendingPerContact /\ ApprovedHasItsAccount
    /\ LocksHold

(* How a row is closed, by the clock or by a decision. *)
ClosedRow(f, s, d) == [f EXCEPT !.status = s, !.hash = FALSE, !.decidedAt = d]

(* A closed row has no password and its old contact. *)
LEMMA RowClosed ==
  ASSUME NEW f \in RequestRows, NEW d \in Nat, NEW s \in RequestStatus
  PROVE  /\ ClosedRow(f, s, d) \in RequestRows
         /\ ClosedRow(f, s, d).status = s /\ ClosedRow(f, s, d).hash = FALSE /\ ClosedRow(f, s, d).decidedAt = d
         /\ ClosedRow(f, s, d).phone = f.phone /\ ClosedRow(f, s, d).email = f.email
         /\ ClosedRow(f, s, d).unit = f.unit /\ ClosedRow(f, s, d).expires = f.expires
<1> DEFINE e1 == [f EXCEPT !.status = s]
           e2 == [e1 EXCEPT !.hash = FALSE]
           e3 == [e2 EXCEPT !.decidedAt = d]
<1>1. e1 \in RequestRows /\ e1.status = s /\ e1.phone = f.phone /\ e1.email = f.email /\ e1.unit = f.unit
      /\ e1.expires = f.expires
  BY DEF RequestRows
<1> HIDE DEF e1
<1>2. e2 \in RequestRows /\ e2.status = s /\ e2.hash = FALSE /\ e2.phone = f.phone /\ e2.email = f.email
      /\ e2.unit = f.unit /\ e2.expires = f.expires
  BY <1>1 DEF RequestRows
<1> HIDE DEF e2
<1>3. e3 \in RequestRows /\ e3.status = s /\ e3.hash = FALSE /\ e3.decidedAt = d /\ e3.phone = f.phone
      /\ e3.email = f.email /\ e3.unit = f.unit /\ e3.expires = f.expires
  BY <1>1, <1>2 DEF RequestRows
<1>4. e3 = ClosedRow(f, s, d)
  BY DEF e1, e2, RequestRows, ClosedRow
<1> QED
  BY <1>3, <1>4

(* What an open request is made of. *)
LEMMA OpenRow ==
  ASSUME RegistrationInv, NEW r \in Requests, Pending(r)
  PROVE  req[r] \in RequestRows /\ req[r].hash = TRUE
<1>1. req[r] \in RequestRows
  BY DEF RegistrationInv, RequestForms, Pending, NoRequest
<1> QED
  BY <1>1 DEF RegistrationInv, HashOnlyWhilePending, Pending, RequestRows

(* The same invariant, request by request. *)
LEMMA AccountedForAll ==
  /\ ApprovedHasItsAccount <=> \A r \in Requests : Accounted(r, req[r], users)
  /\ ApprovedHasItsAccount' <=> \A r \in Requests : Accounted(r, req'[r], users')
<1>1. ApprovedHasItsAccount <=> \A r \in Requests : Accounted(r, req[r], users)
  BY DEF ApprovedHasItsAccount, Accounted
<1>2. ApprovedHasItsAccount' <=> \A r \in Requests : Accounted(r, req'[r], users')
  BY DEF ApprovedHasItsAccount, Accounted
<1> QED
  BY <1>1, <1>2

(* _expire_requests. *)
LEMMA ExpireEffect ==
  ASSUME RegistrationInv, NEW C \in SUBSET Requests, \A r \in C : Pending(r)
  PROVE  /\ ExpireAll(C) \in [Requests -> RequestForms]
         /\ \A r \in C : ExpireAll(C)[r].status = "EXPIRED" /\ ExpireAll(C)[r].hash = FALSE
         /\ \A r \in Requests \ C : ExpireAll(C)[r] = req[r]
<1>1. day \in Nat /\ \A r \in Requests : req[r] \in RequestForms
  BY RegistrationTimeAssumption DEF RegistrationInv
<1>2. \A r \in C : req[r] \in RequestRows
  BY OpenRow
<1>3. "EXPIRED" \in RequestStatus
  BY DEF RequestStatus
<1>4. \A r \in C : Expired(r) \in RequestRows /\ Expired(r).status = "EXPIRED" /\ Expired(r).hash = FALSE
  <2> SUFFICES ASSUME NEW r \in C
               PROVE  Expired(r) \in RequestRows /\ Expired(r).status = "EXPIRED" /\ Expired(r).hash = FALSE
    OBVIOUS
  <2>1. req[r] \in RequestRows
    BY <1>2
  <2> DEFINE e == ClosedRow(req[r], "EXPIRED", day)
  <2>2. e \in RequestRows /\ e.status = "EXPIRED" /\ e.hash = FALSE
    BY <1>1, <1>3, <2>1, RowClosed
  <2>3. Expired(r) = e
    BY DEF Expired, ClosedRow
  <2> QED
    BY <2>2, <2>3
<1> HIDE DEF Expired
<1>5. ExpireAll(C) = [r \in Requests |-> IF r \in C THEN Expired(r) ELSE req[r]]
  BY DEF ExpireAll
<1>6. \A r \in C : r \in Requests
  OBVIOUS
<1>7. \A r \in Requests : ExpireAll(C)[r] = IF r \in C THEN Expired(r) ELSE req[r]
  BY <1>5
<1>8. \A r \in Requests : (IF r \in C THEN Expired(r) ELSE req[r]) \in RequestForms
  BY <1>1, <1>4 DEF RequestForms
<1>9. ExpireAll(C) \in [Requests -> RequestForms]
  BY <1>5, <1>8
<1> QED
  BY <1>4, <1>6, <1>7, <1>9

(* Rows that are closed leave the rest of the invariant alone. *)
LEMMA ClosingKeeps ==
  ASSUME RegistrationInv, NEW C \in SUBSET Requests,
         \A r \in C : Pending(r) /\ r \notin Locked,
         req' \in [Requests -> RequestForms],
         \A r \in C : req'[r].status \in RequestStatus \ {"PENDING"} /\ req'[r].hash = FALSE,
         \A r \in Requests \ C : req'[r] = req[r],
         UNCHANGED <<day, sub>>, users' \subseteq UserRows,
         \A r \in C : Accounted(r, req'[r], users'),
         \A r \in Requests \ C : {u \in users' : u.of = r} = {u \in users : u.of = r}
  PROVE  RegistrationInv'
<1> USE DEF RegistrationInv
<1>1. HashOnlyWhilePending'
  BY DEF HashOnlyWhilePending, Pending, RequestStatus
<1>2. \A r \in Requests : Pending(r)' => Pending(r) /\ r \notin C /\ req'[r] = req[r]
  BY DEF Pending
<1>3. OnePendingPerContact'
  BY <1>2 DEF OnePendingPerContact
<1>4. ApprovedHasItsAccount'
  <2>1. \A r \in Requests \ C : Accounted(r, req'[r], users')
    <3> SUFFICES ASSUME NEW r \in Requests \ C PROVE Accounted(r, req'[r], users')
      OBVIOUS
    <3>1. Accounted(r, req[r], users) /\ req'[r] = req[r]
      BY AccountedForAll
    <3>2. {u \in users' : u.of = r} = {u \in users : u.of = r}
      OBVIOUS
    <3> QED
      BY <3>1, <3>2 DEF Accounted
  <2> QED
    BY <2>1, AccountedForAll
<1>5. LocksHold'
  <2>1. \A s \in Submitters : \A r \in sub[s].locked : r \in Locked /\ r \in Requests
    BY DEF Locked, SubmissionForms, NotSubmitting
  <2>2. \A s \in Submitters : \A r \in sub[s].locked : req'[r] = req[r] /\ Stale(r)
    BY <2>1 DEF LocksHold
  <2>3. \A s \in Submitters : \A r \in sub'[s].locked : Stale(r)'
    BY <2>2 DEF Stale, Pending
  <2> QED
    BY <2>3 DEF LocksHold
<1> QED
  BY <1>1, <1>3, <1>4, <1>5

(* The expiry of rows nobody holds. *)
LEMMA ExpiryKeeps ==
  ASSUME RegistrationInv, NEW C \in SUBSET Requests, \A r \in C : Pending(r) /\ r \notin Locked,
         req' = ExpireAll(C), UNCHANGED <<day, users, sub>>
  PROVE  RegistrationInv'
<1>1. /\ req' \in [Requests -> RequestForms]
      /\ \A r \in C : req'[r].status = "EXPIRED" /\ req'[r].hash = FALSE
      /\ \A r \in Requests \ C : req'[r] = req[r]
  BY ExpireEffect
<1>2. \A r \in C : Accounted(r, req'[r], users')
  <2> SUFFICES ASSUME NEW r \in C PROVE Accounted(r, req'[r], users')
    OBVIOUS
  <2>1. Accounted(r, req[r], users) /\ req[r].status = "PENDING"
    BY AccountedForAll DEF RegistrationInv, Pending
  <2> QED
    BY <1>1, <2>1 DEF Accounted
<1>3. \A r \in C : req'[r].status \in RequestStatus \ {"PENDING"}
  BY <1>1 DEF RequestStatus
<1>4. users' \subseteq UserRows
  BY DEF RegistrationInv
<1> QED
  BY <1>1, <1>2, <1>3, <1>4, ClosingKeeps

(* submit_registration reads. *)
LEMMA CheckKeeps ==
  ASSUME RegistrationInv, NEW s \in Submitters, NEW raw \in RawPhones, NEW email \in Emails \cup {Nothing},
         NEW unit \in Units, SubmitCheck(s, raw, email, unit)
  PROVE  RegistrationInv'
<1> USE DEF RegistrationInv
<1> DEFINE phone == NormalizePhone(raw)
           rivals == Matching(International(phone), email)
           held == {r \in rivals : Stale(r)} \cup ({r \in Requests : Stale(r)} \ Locked)
           new == [pc |-> "checked", phone |-> International(phone), email |-> email, unit |-> unit,
                   locked |-> held]
<1>1. sub' = [sub EXCEPT ![s] = new] /\ phone # Nothing /\ {r \in rivals : Stale(r)} \cap Locked = {}
      /\ UNCHANGED <<day, req, users>>
  BY DEF SubmitCheck
<1>2. phone = [form |-> "local", number |-> raw.number] /\ raw.number \in Numbers
  BY <1>1 DEF NormalizePhone, RawPhones
<1>3. International(phone) \in Phones
  BY <1>2 DEF International, Phones
<1>4. held \subseteq Requests /\ (\A r \in held : Stale(r) /\ r \notin Locked)
  BY <1>1 DEF Matching
<1> HIDE DEF held, rivals, phone
<1>5. new \in SubmissionForms
  BY <1>3, <1>4 DEF SubmissionForms
<1>6. new.locked = held
  OBVIOUS
<1> HIDE DEF new
<1>7. sub' \in [Submitters -> SubmissionForms] /\ sub'[s] = new
      /\ \A t \in Submitters \ {s} : sub'[t] = sub[t]
  BY <1>1, <1>5
<1>8. \A r \in Requests : Stale(r)' = Stale(r)
  BY <1>1 DEF Stale, Pending
<1>9. LocksHold'
  <2>1. \A t \in Submitters : sub[t].locked \subseteq Locked /\ sub[t].locked \subseteq Requests
    BY DEF Locked, SubmissionForms, NotSubmitting
  <2>2. \A t \in Submitters : \A r \in sub'[t].locked : Stale(r)'
    BY <1>4, <1>6, <1>7, <1>8, <2>1 DEF LocksHold
  <2>3. \A t, u \in Submitters : t # u => sub'[t].locked \cap sub'[u].locked = {}
    BY <1>4, <1>6, <1>7, <2>1 DEF LocksHold
  <2> QED
    BY <2>2, <2>3 DEF LocksHold
<1>10. (HashOnlyWhilePending /\ OnePendingPerContact /\ ApprovedHasItsAccount)'
  BY <1>1 DEF HashOnlyWhilePending, OnePendingPerContact, ApprovedHasItsAccount, Pending
<1> QED
  BY <1>1, <1>7, <1>9, <1>10

(* submit_registration inserts. *)
LEMMA InsertKeeps ==
  ASSUME RegistrationInv, NEW s \in Submitters, SubmitInsert(s)
  PROVE  RegistrationInv'
<1> USE DEF RegistrationInv
<1> DEFINE C == sub[s].locked
<1>1. sub' = [sub EXCEPT ![s] = NotSubmitting] /\ UNCHANGED <<day, users>> /\ sub[s].pc = "checked"
  BY DEF SubmitInsert
<1>2. sub' \in [Submitters -> SubmissionForms] /\ sub'[s].locked = {}
      /\ \A t \in Submitters \ {s} : sub'[t] = sub[t]
  BY <1>1 DEF SubmissionForms, NotSubmitting
<1>3. C \in SUBSET Requests /\ (\A r \in C : Pending(r))
  BY DEF LocksHold, SubmissionForms, NotSubmitting, Stale
<1>4. CASE req' = req
  <2>1. \A r \in Requests : Stale(r)' = Stale(r)
    BY <1>1, <1>4 DEF Stale, Pending
  <2>2. \A t \in Submitters : sub'[t].locked \subseteq sub[t].locked /\ sub[t].locked \subseteq Requests
    BY <1>2 DEF SubmissionForms, NotSubmitting
  <2>3. LocksHold'
    BY <2>1, <2>2 DEF LocksHold
  <2>4. (HashOnlyWhilePending /\ OnePendingPerContact /\ ApprovedHasItsAccount)'
    BY <1>1, <1>4 DEF HashOnlyWhilePending, OnePendingPerContact, ApprovedHasItsAccount, Pending
  <2> QED
    BY <1>1, <1>2, <1>4, <2>3, <2>4
<1>5. ASSUME PendingIsUnique(s), NEW r \in Requests, req[r].status = "none",
             req' = [ExpireAll(C) EXCEPT ![r] =
                        [status |-> "PENDING", phone |-> sub[s].phone, email |-> sub[s].email,
                         unit |-> sub[s].unit, hash |-> TRUE, expires |-> ExpiresAt,
                         decidedAt |-> Nothing, decidedBy |-> Nothing]]
      PROVE  RegistrationInv'
  <2> DEFINE new == [status |-> "PENDING", phone |-> sub[s].phone, email |-> sub[s].email,
                     unit |-> sub[s].unit, hash |-> TRUE, expires |-> ExpiresAt,
                     decidedAt |-> Nothing, decidedBy |-> Nothing]
  <2>1. sub[s].phone \in Phones /\ sub[s].email \in Emails \cup {Nothing} /\ sub[s].unit \in Units
    BY <1>1 DEF SubmissionForms, NotSubmitting
  <2>2. ExpiresAt \in Nat
    BY RegistrationTimeAssumption DEF ExpiresAt
  <2>3. new \in RequestRows /\ new.status = "PENDING" /\ new.hash = TRUE /\ new.phone = sub[s].phone
        /\ new.email = sub[s].email
    BY <2>1, <2>2 DEF RequestRows, RequestStatus
  <2> HIDE DEF new
  <2>4. ExpireAll(C) \in [Requests -> RequestForms]
        /\ (\A q \in C : ExpireAll(C)[q].status = "EXPIRED" /\ ExpireAll(C)[q].hash = FALSE)
        /\ \A q \in Requests \ C : ExpireAll(C)[q] = req[q]
    BY <1>3, ExpireEffect
  <2>5. r \notin C
    BY <1>3, <1>5 DEF Pending
  <2>6. req' = [ExpireAll(C) EXCEPT ![r] = new]
    BY <1>5 DEF new
  <2>7. /\ req' \in [Requests -> RequestForms] /\ req'[r] = new
        /\ \A q \in C : req'[q].status = "EXPIRED" /\ req'[q].hash = FALSE
        /\ \A q \in (Requests \ C) \ {r} : req'[q] = req[q]
    <3>1. new \in RequestForms
      BY <2>3 DEF RequestForms
    <3>2. req' \in [Requests -> RequestForms] /\ req'[r] = new
          /\ \A q \in Requests \ {r} : req'[q] = ExpireAll(C)[q]
      BY <2>4, <2>6, <3>1
    <3> QED
      BY <1>3, <2>4, <2>5, <3>2
  <2> HIDE DEF C
  <2>8. HashOnlyWhilePending'
    BY <2>3, <2>7 DEF HashOnlyWhilePending, Pending
  <2>9. \A q \in Requests \ {r} : Pending(q)' => q \notin C /\ Pending(q) /\ req'[q] = req[q]
    BY <2>7 DEF Pending
  <2>10. \A q \in Requests \ {r} : Pending(q)' =>
             ~SameContact(req[q].phone, req[q].email, sub[s].phone, sub[s].email)
    BY <1>5, <2>9 DEF PendingIsUnique, Matching, Pending, C
  <2>11. OnePendingPerContact'
    <3> SUFFICES ASSUME NEW p \in Requests, NEW q \in Requests, p # q, Pending(p)', Pending(q)'
                 PROVE  ~SameContact(req'[p].phone, req'[p].email, req'[q].phone, req'[q].email)
      BY DEF OnePendingPerContact
    <3>1. CASE p = r
      BY <2>3, <2>7, <2>9, <2>10, <3>1 DEF SameContact
    <3>2. CASE q = r
      BY <2>3, <2>7, <2>9, <2>10, <3>2 DEF SameContact
    <3>3. CASE p # r /\ q # r
      BY <2>9, <3>3 DEF OnePendingPerContact
    <3> QED
      BY <3>1, <3>2, <3>3
  <2>12. ApprovedHasItsAccount'
    <3>1. \A q \in Requests : Accounted(q, req[q], users)
      BY AccountedForAll
    <3>2. \A q \in C \cup {r} : req'[q].status # "APPROVED" /\ req[q].status # "APPROVED"
      BY <1>3, <1>5, <2>3, <2>7 DEF Pending
    <3>3. \A q \in C \cup {r} : Accounted(q, req'[q], users')
      BY <1>1, <1>3, <3>1, <3>2 DEF Accounted
    <3>4. \A q \in Requests \ (C \cup {r}) : Accounted(q, req'[q], users')
      <4>1. \A q \in Requests \ (C \cup {r}) : req'[q] = req[q]
        BY <2>7
      <4> QED
        BY <1>1, <3>1, <4>1
    <3> QED
      BY <3>3, <3>4, AccountedForAll
  <2>13. LocksHold'
    <3>1. \A t \in Submitters \ {s} : \A q \in sub[t].locked : q \in Requests /\ q \notin C /\ Stale(q)
      BY DEF LocksHold, SubmissionForms, NotSubmitting, C
    <3>2. \A t \in Submitters \ {s} : \A q \in sub[t].locked : q # r /\ req'[q] = req[q]
      BY <1>5, <2>7, <3>1 DEF Stale, Pending
    <3>3. \A t \in Submitters \ {s} : \A q \in sub[t].locked : Stale(q)'
      BY <1>1, <3>1, <3>2 DEF Stale, Pending
    <3> QED
      BY <1>2, <3>3 DEF LocksHold
  <2> QED
    BY <1>1, <1>2, <2>7, <2>8, <2>11, <2>12, <2>13
<1> QED
  BY <1>4, <1>5 DEF SubmitInsert

(* The rows after a decision of m on r. *)
DecidedAs(new, m, r, s) ==
    /\ new \in [Requests -> RequestForms]
    /\ \A q \in Requests \ {r} : new[q] = req[q]
    /\ new[r].status = s /\ new[r].hash = FALSE /\ new[r].decidedAt = day /\ new[r].decidedBy = m
    /\ new[r].phone = req[r].phone /\ new[r].unit = req[r].unit /\ new[r].expires = req[r].expires

(* What a decision writes. *)
LEMMA DecisionEffect ==
  ASSUME RegistrationInv, NEW m \in Managers, NEW r \in Requests, Pending(r), NEW s \in RequestStatus
  PROVE  DecidedAs(Decided(m, r, s), m, r, s)
<1> DEFINE f == req[r]
           e == ClosedRow(f, s, day)
           g == [e EXCEPT !.decidedBy = m]
<1>1. day \in Nat /\ f \in RequestRows
  <2>1. f \in RequestRows
    BY OpenRow
  <2>2. day \in Nat
    BY RegistrationTimeAssumption DEF RegistrationInv
  <2> QED
    BY <2>1, <2>2
<1> HIDE DEF f
<1>2. /\ e \in RequestRows /\ e.status = s /\ e.hash = FALSE /\ e.decidedAt = day
      /\ e.phone = f.phone /\ e.unit = f.unit /\ e.expires = f.expires
  BY <1>1, RowClosed
<1>3. Decided(m, r, s) = [req EXCEPT ![r] = g]
  BY <1>1 DEF Decided, RequestRows, ClosedRow, f
<1> HIDE DEF e
<1>4. /\ g \in RequestRows /\ g.status = s /\ g.hash = FALSE /\ g.decidedAt = day /\ g.decidedBy = m
      /\ g.phone = req[r].phone /\ g.unit = req[r].unit /\ g.expires = req[r].expires
  BY <1>2 DEF RequestRows, f
<1> HIDE DEF g
<1>5. g \in RequestForms
  BY <1>4 DEF RequestForms
<1>6. Decided(m, r, s) \in [Requests -> RequestForms] /\ Decided(m, r, s)[r] = g
      /\ \A q \in Requests \ {r} : Decided(m, r, s)[q] = req[q]
  BY <1>3, <1>5 DEF RegistrationInv
<1> QED
  BY <1>4, <1>6 DEF DecidedAs

(* reject_registration. *)
LEMMA RejectKeeps ==
  ASSUME RegistrationInv, NEW m \in Managers, NEW r \in Requests, RejectRegistration(m, r)
  PROVE  RegistrationInv'
<1>1. Pending(r) /\ r \notin Locked /\ UNCHANGED <<day, users, sub>>
  BY DEF RejectRegistration, Decidable
<1>2. CASE Stale(r)
  <2>1. req' = ExpireAll({r})
    BY <1>2 DEF RejectRegistration
  <2>2. {r} \in SUBSET Requests /\ \A q \in {r} : Pending(q) /\ q \notin Locked
    BY <1>1
  <2> QED
    BY <1>1, <2>1, <2>2, ExpiryKeeps
<1>3. CASE ~Stale(r)
  <2>1. req' = Decided(m, r, "REJECTED")
    BY <1>3 DEF RejectRegistration
  <2>2. "REJECTED" \in RequestStatus /\ "REJECTED" \in RequestStatus \ {"PENDING"}
    BY DEF RequestStatus
  <2>9. DecidedAs(req', m, r, "REJECTED")
    BY <1>1, <2>1, <2>2, DecisionEffect
  <2>3. /\ req' \in [Requests -> RequestForms] /\ (\A q \in Requests \ {r} : req'[q] = req[q])
        /\ req'[r].status = "REJECTED" /\ req'[r].hash = FALSE
    BY <2>9 DEF DecidedAs
  <2>4. Accounted(r, req'[r], users')
    <3>1. Accounted(r, req[r], users) /\ req[r].status = "PENDING"
      BY <1>1, AccountedForAll DEF RegistrationInv, Pending
    <3> QED
      BY <1>1, <2>3, <3>1 DEF Accounted
  <2> DEFINE C == {r}
  <2>5. C \in SUBSET Requests /\ \A q \in C : Pending(q) /\ q \notin Locked
    BY <1>1
  <2>6. \A q \in C : /\ req'[q].status \in RequestStatus \ {"PENDING"} /\ req'[q].hash = FALSE
                     /\ Accounted(q, req'[q], users')
    BY <2>2, <2>3, <2>4
  <2>7. \A q \in Requests \ C : req'[q] = req[q] /\ {u \in users' : u.of = q} = {u \in users : u.of = q}
    BY <1>1, <2>3
  <2>8. users' \subseteq UserRows
    BY <1>1 DEF RegistrationInv
  <2> HIDE DEF C
  <2> QED
    BY <1>1, <2>3, <2>5, <2>6, <2>7, <2>8, ClosingKeeps
<1> QED
  BY <1>2, <1>3

(* The account of an open request. *)
LEMMA ResidentIs ==
  ASSUME RegistrationInv, NEW r \in Requests, Pending(r)
  PROVE  /\ NewResident(r) \in UserRows /\ NewResident(r).of = r /\ NewResident(r).unit = req[r].unit
         /\ NewResident(r).phone = NormalizePhone(req[r].phone)
<1>1. req[r].phone \in Phones /\ req[r].email \in Emails \cup {Nothing} /\ req[r].unit \in Units
  BY OpenRow DEF RequestRows
<1>2. NormalizePhone(req[r].phone) \in Phones
  BY <1>1 DEF NormalizePhone, Phones
<1> DEFINE email == IF req[r].email = Nothing THEN Nothing ELSE [folded |-> req[r].email, spelling |-> Lower]
<1>3. email \in Addresses \cup {Nothing}
  BY <1>1, SpellingsAssumption DEF Addresses, Lower
<1>4. NewResident(r) = [phone |-> NormalizePhone(req[r].phone), email |-> email, unit |-> req[r].unit, of |-> r]
  BY DEF NewResident, SavedPhone
<1> HIDE DEF email
<1> QED
  BY <1>1, <1>2, <1>3, <1>4 DEF UserRows

(* approve_registration. *)
LEMMA ApproveKeeps ==
  ASSUME RegistrationInv, NEW m \in Managers, NEW r \in Requests, ApproveRegistration(m, r)
  PROVE  RegistrationInv'
<1>1. Pending(r) /\ r \notin Locked /\ UNCHANGED <<day, sub>> /\ ManagerOf[m] = BuildingOf[req[r].unit]
  BY DEF ApproveRegistration, Decidable
<1>2. CASE Stale(r)
  <2>1. req' = ExpireAll({r}) /\ UNCHANGED users
    BY <1>2 DEF ApproveRegistration
  <2>2. {r} \in SUBSET Requests /\ \A q \in {r} : Pending(q) /\ q \notin Locked
    BY <1>1
  <2> QED
    BY <1>1, <2>1, <2>2, ExpiryKeeps
<1>3. CASE ~Stale(r)
  <2>1. req' = Decided(m, r, "APPROVED") /\ users' = users \cup {NewResident(r)}
    BY <1>3 DEF ApproveRegistration
  <2>2. "APPROVED" \in RequestStatus /\ "APPROVED" \in RequestStatus \ {"PENDING"}
    BY DEF RequestStatus
  <2>3. /\ req' \in [Requests -> RequestForms] /\ (\A q \in Requests \ {r} : req'[q] = req[q])
        /\ req'[r].status = "APPROVED" /\ req'[r].hash = FALSE
        /\ req'[r].decidedAt = day /\ req'[r].decidedBy = m
        /\ req'[r].phone = req[r].phone /\ req'[r].unit = req[r].unit
        /\ req'[r].expires = req[r].expires
    <3>1. DecidedAs(req', m, r, "APPROVED")
      BY <1>1, <2>1, <2>2, DecisionEffect
    <3> QED
      BY <3>1 DEF DecidedAs
  <2>4. day < req[r].expires
    <3>1. req[r].expires \in Nat
      BY <1>1, OpenRow DEF RequestRows
    <3>2. day \in Nat
      BY RegistrationTimeAssumption DEF RegistrationInv
    <3> QED
      BY <1>1, <1>3, <3>1, <3>2 DEF Stale
  <2> DEFINE new == NewResident(r)
  <2>5. new \in UserRows /\ new.of = r /\ new.unit = req[r].unit /\ new.phone = NormalizePhone(req[r].phone)
    BY <1>1, ResidentIs
  <2>6. users' = users \cup {new}
    BY <2>1
  <2> HIDE DEF new
  <2>7. Accounted(r, req'[r], users')
    <3>1. Accounted(r, req[r], users) /\ req[r].status = "PENDING"
      BY <1>1, AccountedForAll DEF RegistrationInv, Pending
    <3>2. {u \in users : u.of = r} = {}
      BY <3>1 DEF Accounted
    <3>3. {u \in users' : u.of = r} = {new}
      BY <2>5, <2>6, <3>2
    <3>4. Cardinality({new}) = 1
      BY FS_Singleton
    <3> QED
      BY <1>1, <2>3, <2>4, <2>5, <3>3, <3>4 DEF Accounted
  <2> DEFINE C == {r}
  <2>8. C \in SUBSET Requests /\ \A q \in C : Pending(q) /\ q \notin Locked
    BY <1>1
  <2>9. \A q \in C : /\ req'[q].status \in RequestStatus \ {"PENDING"} /\ req'[q].hash = FALSE
                     /\ Accounted(q, req'[q], users')
    BY <2>2, <2>3, <2>7
  <2>10. \A q \in Requests \ C : req'[q] = req[q] /\ {u \in users' : u.of = q} = {u \in users : u.of = q}
    BY <2>3, <2>5, <2>6
  <2>11. users' \subseteq UserRows
    BY <2>5, <2>6 DEF RegistrationInv
  <2> HIDE DEF C
  <2> QED
    BY <1>1, <2>3, <2>8, <2>9, <2>10, <2>11, ClosingKeeps
<1> QED
  BY <1>2, <1>3

(* Every step keeps requests, locks and accounts as they should be. *)
LEMMA RegistrationStep ==
  ASSUME RegistrationInv, [RegistrationNext]_registrationVars
  PROVE  RegistrationInv'
<1>1. CASE Submit
  BY <1>1, CheckKeeps DEF Submit
<1>2. CASE Insert
  BY <1>2, InsertKeeps DEF Insert
<1>3. ASSUME NEW r \in Requests, GetRegistrationStatus(r) PROVE RegistrationInv'
  <2>1. {r} \in SUBSET Requests /\ \A q \in {r} : Pending(q) /\ q \notin Locked
    BY <1>3 DEF GetRegistrationStatus, Stale
  <2>2. req' = ExpireAll({r}) /\ UNCHANGED <<day, users, sub>>
    BY <1>3 DEF GetRegistrationStatus
  <2> QED
    BY <2>1, <2>2, ExpiryKeeps
<1>4. CASE ExpireBatch
  <2>1. PICK C \in SUBSET ({r \in Requests : Stale(r)} \ Locked) :
              req' = ExpireAll(C) /\ UNCHANGED <<day, users, sub>>
    BY <1>4 DEF ExpireBatch
  <2>2. C \in SUBSET Requests /\ \A q \in C : Pending(q) /\ q \notin Locked
    BY DEF Stale
  <2> QED
    BY <2>1, <2>2, ExpiryKeeps
<1>5. CASE Approve
  BY <1>5, ApproveKeeps DEF Approve
<1>6. CASE Reject
  BY <1>6, RejectKeeps DEF Reject
<1>7. ASSUME NEW a \in Addresses, OnboardManager(a) PROVE RegistrationInv'
  <2> DEFINE new == [phone |-> Nothing, email |-> a, unit |-> Nothing, of |-> Nothing]
  <2>1. users' = users \cup {new} /\ UNCHANGED <<day, req, sub>>
    BY <1>7 DEF OnboardManager
  <2>2. new \in UserRows /\ new.of \notin Requests
    BY NothingAssumption DEF UserRows
  <2> HIDE DEF new
  <2>3. \A r \in Requests : {u \in users' : u.of = r} = {u \in users : u.of = r}
    BY <2>1, <2>2
  <2> DEFINE C == {}
  <2>4. C \in SUBSET Requests
        /\ \A r \in C : /\ Pending(r) /\ r \notin Locked
                        /\ req'[r].status \in RequestStatus \ {"PENDING"} /\ req'[r].hash = FALSE
                        /\ Accounted(r, req'[r], users')
    OBVIOUS
  <2>5. \A r \in Requests \ C : req'[r] = req[r] /\ {u \in users' : u.of = r} = {u \in users : u.of = r}
    BY <2>1, <2>3
  <2>6. req' \in [Requests -> RequestForms] /\ users' \subseteq UserRows
    BY <2>1, <2>2 DEF RegistrationInv
  <2> HIDE DEF C
  <2> QED
    BY <2>1, <2>4, <2>5, <2>6, ClosingKeeps
<1>8. CASE NextDay
  <2>1. day \in Nat /\ day' = day + 1 /\ day' \in 0 .. MaxDay /\ UNCHANGED <<req, users, sub>>
    BY <1>8, RegistrationTimeAssumption DEF NextDay, RegistrationInv
  <2>2. \A r \in Requests : Stale(r) => Stale(r)'
    <3> SUFFICES ASSUME NEW r \in Requests, Stale(r) PROVE Stale(r)'
      OBVIOUS
    <3>1. req[r].expires \in Nat
      BY OpenRow DEF Stale, RequestRows
    <3> QED
      BY <2>1, <3>1 DEF Stale, Pending
  <2>3. \A s \in Submitters : sub[s].locked \subseteq Requests
    BY DEF RegistrationInv, SubmissionForms, NotSubmitting
  <2>4. LocksHold'
    BY <2>1, <2>2, <2>3 DEF LocksHold, RegistrationInv
  <2>5. (HashOnlyWhilePending /\ OnePendingPerContact /\ ApprovedHasItsAccount)'
    BY <2>1 DEF HashOnlyWhilePending, OnePendingPerContact, ApprovedHasItsAccount, Pending, RegistrationInv
  <2> QED
    BY <2>1, <2>4, <2>5 DEF RegistrationInv
<1>9. CASE UNCHANGED registrationVars
  BY <1>9 DEF registrationVars, RegistrationInv, HashOnlyWhilePending, OnePendingPerContact,
              ApprovedHasItsAccount, LocksHold, Stale, Pending
<1> QED
  BY <1>1, <1>2, <1>3, <1>4, <1>5, <1>6, <1>7, <1>8, <1>9 DEF RegistrationNext, AskStatus, Onboard

(* The invariant, and the type of the state with it. *)
LEMMA RegistrationTyped ==
  ASSUME RegistrationInv
  PROVE  RegistrationTypeOK
<1>1. \A r \in Requests : req[r] = NoRequest \/ req[r] \in RequestRows
  BY DEF RegistrationInv, RequestForms
<1>2. \A s \in Submitters : sub[s].pc \in {"idle", "checked"} /\ sub[s].locked \subseteq Requests
  BY DEF RegistrationInv, SubmissionForms, NotSubmitting
<1> QED
  BY <1>1, <1>2 DEF RegistrationTypeOK, RegistrationInv, RequestRows, RequestStatus, UserRows

(* No requests, no accounts. *)
LEMMA RegistrationStarts == RegistrationInit => RegistrationInv
<1> SUFFICES ASSUME RegistrationInit PROVE RegistrationInv
  OBVIOUS
<1>1. req \in [Requests -> RequestForms] /\ sub \in [Submitters -> SubmissionForms]
  BY DEF RegistrationInit, RequestForms, SubmissionForms
<1>2. \A r \in Requests : req[r].status = "none"
  BY DEF RegistrationInit, NoRequest
<1>3. \A s \in Submitters : sub[s].locked = {}
  BY DEF RegistrationInit, NotSubmitting
<1>4. day \in 0 .. MaxDay /\ users = {}
  BY RegistrationTimeAssumption DEF RegistrationInit
<1>5. ApprovedHasItsAccount
  BY <1>2, <1>4, AccountedForAll DEF Accounted
<1> QED
  BY <1>1, <1>2, <1>3, <1>4, <1>5
     DEF RegistrationInv, HashOnlyWhilePending, OnePendingPerContact, LocksHold, Pending

(* Whatever submissions, decisions and expiry passes interleave, the       *)
(* password a stranger chose is gone when the request is closed, one open  *)
(* request holds a number or an address, and an approved request has one   *)
(* account, made in time by its own management (submit_registration,       *)
(* approve_registration, expire_registration_requests).                    *)
THEOREM RequestsCorrect ==
    RegistrationSpec => [](HashOnlyWhilePending /\ OnePendingPerContact /\ ApprovedHasItsAccount)
<1>1. RegistrationInv => HashOnlyWhilePending /\ OnePendingPerContact /\ ApprovedHasItsAccount
  BY DEF RegistrationInv
<1> QED
  BY <1>1, RegistrationStarts, RegistrationStep, PTL DEF RegistrationSpec

(* Accounts made by an approval have an address in lower case. *)
ResidentsAreLower ==
    \A u \in users : u.of = Nothing \/ u.email = Nothing \/ u.email.spelling = Lower

(* Two addresses in lower case that differ in case only are one, and the   *)
(* unique index tells them apart.                                          *)
LEMMA OneAccountPerIdentifier ==
  ASSUME RegistrationInv, ResidentsAreLower, LoginIsUnambiguous, [RegistrationNext]_registrationVars
  PROVE  ResidentsAreLower' /\ LoginIsUnambiguous'
<1> DEFINE Plain(u) == u.of = Nothing \/ u.email = Nothing \/ u.email.spelling = Lower
           Apart(u, v) == \/ u.email = Nothing \/ v.email = Nothing \/ u.email.folded # v.email.folded
                          \/ KeptSpelling(u) \/ KeptSpelling(v)
<1>1. ASSUME NEW u \in UserRows, NEW v \in UserRows, Plain(u), Plain(v), u.email # v.email
      PROVE  Apart(u, v) /\ Apart(v, u)
  <2> SUFFICES ASSUME u.email # Nothing, v.email # Nothing, u.email.folded = v.email.folded,
                      ~KeptSpelling(u), ~KeptSpelling(v)
               PROVE  FALSE
    OBVIOUS
  <2>1. u.email \in Addresses /\ v.email \in Addresses
    BY DEF UserRows
  <2>2. u.email.spelling = Lower /\ v.email.spelling = Lower
    BY <1>1 DEF KeptSpelling
  <2>3. u.email = v.email
    BY <2>1, <2>2 DEF Addresses
  <2> QED
    BY <1>1, <2>3
<1>2. users \subseteq UserRows /\ \A u \in users : Plain(u)
  BY DEF RegistrationInv, ResidentsAreLower
<1>3. ASSUME NEW new \in UserRows, users' = users \cup {new}, Plain(new),
             \A u \in users : /\ u.phone = Nothing \/ u.phone # new.phone
                              /\ u.email = Nothing \/ u.email # new.email
      PROVE  ResidentsAreLower' /\ LoginIsUnambiguous'
  <2>1. \A u \in users : /\ u.phone = Nothing \/ u.phone # new.phone
                         /\ new.phone = Nothing \/ new.phone # u.phone
    BY <1>3
  <2>2. ASSUME NEW u \in users PROVE Apart(u, new) /\ Apart(new, u)
    <3>1. CASE u.email = Nothing
      BY <3>1
    <3>2. CASE u.email # Nothing
      <4>1. u \in UserRows /\ Plain(u) /\ u.email # new.email
        BY <1>2, <1>3, <3>2
      <4> HIDE DEF Plain, Apart
      <4> QED
        BY <1>1, <1>3, <4>1
    <3> QED
      BY <3>1, <3>2
  <2>3. ResidentsAreLower'
    BY <1>2, <1>3 DEF ResidentsAreLower
  <2>4. \A u, v \in users : u # v => (u.phone = Nothing \/ u.phone # v.phone) /\ Apart(u, v)
    BY DEF LoginIsUnambiguous
  <2>5. \A u, v \in users' : u # v => (u.phone = Nothing \/ u.phone # v.phone) /\ Apart(u, v)
    <3> HIDE DEF Apart
    <3> QED
      BY <1>3, <2>1, <2>2, <2>4
  <2>6. LoginIsUnambiguous'
    BY <2>5 DEF LoginIsUnambiguous, KeptSpelling
  <2> QED
    BY <2>3, <2>6
<1>4. CASE users' = users
  BY <1>4 DEF LoginIsUnambiguous, ResidentsAreLower, KeptSpelling
<1>5. ASSUME NEW m \in Managers, NEW r \in Requests, ApproveRegistration(m, r)
      PROVE  ResidentsAreLower' /\ LoginIsUnambiguous'
  <2>1. CASE Stale(r)
    BY <1>4, <1>5, <2>1 DEF ApproveRegistration
  <2>2. CASE ~Stale(r)
    <3>1. NewResident(r) \in UserRows
      BY <1>5, ResidentIs DEF ApproveRegistration, Decidable
    <3>2. users' = users \cup {NewResident(r)} /\ UserIsUnique(NewResident(r))
      BY <1>5, <2>2 DEF ApproveRegistration
    <3>3. Plain(NewResident(r))
      BY DEF NewResident
    <3> HIDE DEF Plain
    <3> QED
      BY <1>3, <3>1, <3>2, <3>3 DEF UserIsUnique
  <2> QED
    BY <2>1, <2>2
<1>6. ASSUME NEW a \in Addresses, OnboardManager(a) PROVE ResidentsAreLower' /\ LoginIsUnambiguous'
  <2> DEFINE new == [phone |-> Nothing, email |-> a, unit |-> Nothing, of |-> Nothing]
  <2>1. users' = users \cup {new} /\ ~ \E u \in users : u.email = a
    BY <1>6 DEF OnboardManager
  <2>2. new \in UserRows /\ new.phone = Nothing /\ new.email = a /\ new.of = Nothing
    BY DEF UserRows
  <2> HIDE DEF new
  <2> QED
    BY <1>3, <2>1, <2>2
<1> QED
  BY <1>4, <1>5, <1>6
     DEF RegistrationNext, Submit, SubmitCheck, Insert, SubmitInsert, AskStatus, GetRegistrationStatus,
         ExpireBatch, Approve, Reject, RejectRegistration, Onboard, NextDay, registrationVars

(* All of it, and a login that names at most one account unless the        *)
(* onboarding command kept an address in another spelling than lower case, *)
(* for every number of requests, submitters and spellings                  *)
(* (approve_registration, onboard_building).                               *)
THEOREM RegistrationsCorrect == RegistrationSpec => []RegistrationsHold
<1> DEFINE Inv == RegistrationInv /\ ResidentsAreLower /\ LoginIsUnambiguous
<1>1. RegistrationInit => Inv
  BY RegistrationStarts DEF RegistrationInit, ResidentsAreLower, LoginIsUnambiguous
<1>2. Inv /\ [RegistrationNext]_registrationVars => Inv'
  BY RegistrationStep, OneAccountPerIdentifier
<1>3. Inv => RegistrationsHold
  BY RegistrationTyped DEF RegistrationInv, RegistrationsHold
<1> HIDE DEF Inv
<1> QED
  BY <1>1, <1>2, <1>3, PTL DEF RegistrationSpec

-----------------------------------------------------------------------------
(* The Management workspace. *)

SessionRows == [building : Buildings \cup {0}, expiry : Nat, password : Nat]
TabForms ==
    [kind : Kinds \cup {"idle"}, step : Steps, key : Nat, session : SessionRows,
     shown : Buildings \cup {0}, moved : BOOLEAN, began : Nat, checked : Nat, event : Nat,
     rows : SUBSET Nat]
WrittenForms ==
    [id : Nat, kind : {"form", "record", "export"}, building : Buildings, shown : Buildings \cup {0},
     moved : BOOLEAN, event : Nat, member : BOOLEAN, late : BOOLEAN]
FileForms == [building : Buildings, event : Nat, began : Nat, rows : SUBSET Nat]

InFlight(t) == request[t].kind # "idle"

WorkTyped ==
    /\ rows \in [1 .. MaxLogins -> SessionRows]
    /\ cookie \in 0 .. logins /\ logins \in 0 .. MaxLogins
    /\ memberships \subseteq Buildings /\ enabled \in BOOLEAN /\ password \in Nat \ {0}
    /\ accountChanges \in Nat
    /\ request \in [Tabs -> TabForms]
    /\ \A t \in Tabs : ~InFlight(t) => request[t] = NoTabRequest
    /\ page \in [Tabs -> Buildings \cup {0}] /\ moved \subseteq Tabs
    /\ ended \subseteq 1 .. logins /\ today \in 0 .. MaxDays /\ used \in 0 .. today

(* A request holds the session of its browser, read and renewed today.     *)
(* The row in the database is as good, or good until the request is done.  *)
SessionsHold ==
    /\ \A t \in Tabs : InFlight(t) =>
          /\ request[t].key \in 1 .. logins /\ request[t].session.password # 0 /\ used = today
          /\ request[t].session.expiry = today + MaxAge /\ request[t].session.building \in Buildings
          /\ cookie # 0 => request[t].key = cookie
    /\ cookie # 0 => /\ rows[cookie].password # 0
                     /\ \/ rows[cookie].expiry >= used + MaxAge
                        \/ /\ today < rows[cookie].expiry
                           /\ \E t \in Tabs : InFlight(t) /\ request[t].step # "stream"
    /\ LoggedOutStaysOut

(* A page whose session nobody moved shows the building of the session, of *)
(* which the manager is a member; a form sent from it acts there.          *)
PagesHold ==
    /\ \A t \in Tabs : page[t] # 0 /\ t \notin moved /\ cookie # 0 =>
          rows[cookie].building = page[t] /\ page[t] \in memberships
    /\ \A t \in Tabs : request[t].kind = "form" /\ request[t].moved = FALSE =>
          request[t].session.building = request[t].shown

(* What an export of building b that began when the log was this long may  *)
(* have read, of the n records ws.                                         *)
Covers(ws, n, b, began, ids) ==
    /\ began \in 0 .. n /\ ids \subseteq 0 .. n - 1
    /\ \A w \in ws : /\ w.building = b /\ w.event <= began => w.id \in ids
                     /\ w.id \in ids => w.building = b

(* The export of building b with audit event e is on the record. *)
Logged(ws, b, e) == \E w \in ws : w.kind = "export" /\ w.event = e /\ w.building = b

(* What a request r has behind it at its step: when c changes were made to *)
(* the account and ms are the memberships; of n records ws.                *)
ChecksDone(r, c, ms) ==
    /\ r.checked <= c
    /\ r.step \in {"collected", "stream"} => r.kind = "export"
    /\ r.step = "checked" =>
          /\ r.kind \in {"form", "record", "export"}
          /\ r.kind = "record" => r.shown = r.session.building
          /\ r.checked = c => r.session.building \in ms
    /\ r.step = "stream" => r.event # 0

RowsRead(r, ws, n) ==
    /\ r.began <= n
    /\ r.kind = "export" /\ r.step # "open" => Covers(ws, n, r.session.building, r.began, r.rows)
    /\ r.kind = "export" /\ r.event # 0 => Logged(ws, r.session.building, r.event)

(* Records are numbered as they are logged. *)
WritesHold ==
    /\ written \subseteq WrittenForms /\ files \subseteq FileForms
    /\ IsFiniteSet(written) /\ log = Cardinality(written) /\ log \in Nat
    /\ \A w \in written : w.id < log /\ w.event = w.id + 1
    /\ \A v, w \in written : v.id = w.id => v = w
    /\ RevokedStops /\ PostsActWhereShown
    /\ \A f \in files : /\ Covers(written, log, f.building, f.began, f.rows)
                        /\ Logged(written, f.building, f.event)
    /\ \A t \in Tabs : RowsRead(request[t], written, log)

ChecksHold == \A t \in Tabs : ChecksDone(request[t], accountChanges, memberships)

WorkspaceInv == WorkTyped /\ SessionsHold /\ PagesHold /\ WritesHold /\ ChecksHold

(* The parts of a request that stay while it goes on, and those that do not. *)
Same(n, f) ==
    /\ n.kind = f.kind /\ n.key = f.key /\ n.session = f.session /\ n.shown = f.shown
    /\ n.moved = f.moved /\ n.began = f.began
TabIs(n, f, step, checked, event, ids) ==
    /\ n \in TabForms /\ Same(n, f) /\ n.step = step /\ n.checked = checked /\ n.event = event
    /\ n.rows = ids

(* Changes of one field. *)
LEMMA TabFields ==
  /\ \A f \in TabForms, s \in Steps : TabIs([f EXCEPT !.step = s], f, s, f.checked, f.event, f.rows)
  /\ \A f \in TabForms, c \in Nat : TabIs([f EXCEPT !.checked = c], f, f.step, c, f.event, f.rows)
  /\ \A f \in TabForms, e \in Nat : TabIs([f EXCEPT !.event = e], f, f.step, f.checked, e, f.rows)
  /\ \A f \in TabForms, ids \in SUBSET Nat : TabIs([f EXCEPT !.rows = ids], f, f.step, f.checked, f.event, ids)
<1>1. \A f \in TabForms, s \in Steps : TabIs([f EXCEPT !.step = s], f, s, f.checked, f.event, f.rows)
  BY DEF TabIs, Same, TabForms
<1>2. \A f \in TabForms, c \in Nat : TabIs([f EXCEPT !.checked = c], f, f.step, c, f.event, f.rows)
  BY DEF TabIs, Same, TabForms
<1>3. \A f \in TabForms, e \in Nat : TabIs([f EXCEPT !.event = e], f, f.step, f.checked, e, f.rows)
  BY DEF TabIs, Same, TabForms
<1>4. \A f \in TabForms, ids \in SUBSET Nat : TabIs([f EXCEPT !.rows = ids], f, f.step, f.checked, f.event, ids)
  BY DEF TabIs, Same, TabForms
<1> QED
  BY <1>1, <1>2, <1>3, <1>4

(* A tab without a request. *)
LEMMA IdleTab == NoTabRequest \in TabForms /\ NoTabRequest.kind = "idle" /\ NoTabRequest.step = "done"
                 /\ NoTabRequest.began = 0 /\ NoTabRequest.checked = 0
BY DEF NoTabRequest, TabForms, NoRow, SessionRows, Steps

(* resolve_active_management gives one of the memberships. *)
LEMMA BuildingResolved ==
  ASSUME WorkTyped, memberships # {}, NEW b
  PROVE  ResolveBuilding(b) \in memberships /\ (b \in memberships => ResolveBuilding(b) = b)
<1>1. memberships \in SUBSET Nat
  BY BuildingsAssumption DEF WorkTyped
<1>2. \E x \in memberships : \A c \in memberships : x <= c
  BY <1>1, Smallest
<1>3. First(memberships) \in memberships
  BY <1>2 DEF First
<1> QED
  BY <1>3 DEF ResolveBuilding

(* How a request begins. *)
LEMMA BeginEffect ==
  ASSUME WorkspaceInv, NEW t \in Tabs, NEW kind \in Kinds, NEW posted \in Buildings \cup {0},
         Begin(t, kind, posted)
  PROVE  /\ request' \in [Tabs -> TabForms] /\ (\A u \in Tabs \ {t} : request'[u] = request[u])
         /\ request'[t].kind = kind /\ request'[t].key = cookie /\ request'[t].shown = page[t]
         /\ request'[t].step = (IF kind = "page" THEN "done" ELSE "open")
         /\ request'[t].began = log /\ request'[t].checked = 0 /\ request'[t].event = 0
         /\ (request'[t].moved = FALSE => t \notin moved)
         /\ request'[t].session.expiry = today + MaxAge /\ request'[t].session.password = rows[cookie].password
         /\ request'[t].session.building \in memberships
         /\ LET wanted == IF posted # 0 THEN posted ELSE rows[cookie].building
            IN  wanted \in memberships => request'[t].session.building = wanted
<1> USE DEF WorkspaceInv
<1> DEFINE old == rows[cookie]
           wanted == IF posted # 0 THEN posted ELSE old.building
           building == ResolveBuilding(Wanted(posted, old))
           session == [Renewed(old) EXCEPT !.building = building]
           step == IF kind = "page" THEN "done" ELSE "open"
           new == [kind |-> kind, step |-> step, key |-> cookie, shown |-> page[t], moved |-> t \in moved,
                   began |-> log, checked |-> 0, event |-> 0, rows |-> {}, session |-> session]
<1>1. request' = [request EXCEPT ![t] = new] /\ cookie # 0 /\ memberships # {}
  BY DEF Begin, Authenticated
<1>2. cookie \in 1 .. MaxLogins
  BY <1>1, WorkspaceBoundsAssumption DEF WorkTyped
<1>3. old \in SessionRows
  BY <1>2 DEF WorkTyped
<1>4. building \in memberships /\ (wanted \in memberships => building = wanted)
  BY <1>1, BuildingResolved DEF Wanted
<1>5. memberships \subseteq Buildings /\ page[t] \in Buildings \cup {0} /\ cookie \in Nat /\ log \in Nat
  BY <1>2 DEF WorkTyped, WritesHold
<1> HIDE DEF building, old, wanted
<1>6. today + MaxAge \in Nat
  BY WorkspaceBoundsAssumption DEF WorkTyped
<1>7. session \in SessionRows /\ session.expiry = today + MaxAge /\ session.password = old.password
      /\ session.building = building
  <2> DEFINE mid == [old EXCEPT !.expiry = today + MaxAge]
  <2>1. mid \in SessionRows /\ mid.expiry = today + MaxAge /\ mid.password = old.password
    BY <1>3, <1>6 DEF SessionRows
  <2>2. session = [mid EXCEPT !.building = building]
    BY DEF Renewed
  <2> HIDE DEF mid
  <2> QED
    BY <1>4, <1>5, <2>1, <2>2 DEF SessionRows
<1> HIDE DEF session
<1>8. (t \in moved) \in BOOLEAN /\ step \in Steps
  BY DEF Steps
<1> HIDE DEF step
<1>9. new \in TabForms
  BY <1>5, <1>7, <1>8 DEF TabForms
<1>10. new.kind = kind /\ new.key = cookie /\ new.shown = page[t] /\ (new.moved = FALSE => t \notin moved)
       /\ new.session = session /\ new.step = step /\ new.began = log /\ new.checked = 0 /\ new.event = 0
  OBVIOUS
<1> HIDE DEF new
<1>11. request' \in [Tabs -> TabForms] /\ (\A u \in Tabs \ {t} : request'[u] = request[u]) /\ request'[t] = new
  BY <1>1, <1>9 DEF WorkTyped
<1> QED
  BY <1>4, <1>7, <1>10, <1>11 DEF old, step, wanted

(* A request that goes on: its session and its page are what they were. *)
GoesOn(t) == request[t].kind # "idle" /\ Same(request'[t], request[t])

(* A step of one request. *)
StepOf(t, step, checked, event, ids) ==
    /\ request' \in [Tabs -> TabForms] /\ \A u \in Tabs \ {t} : request'[u] = request[u]
    /\ GoesOn(t)
    /\ TabIs(request'[t], request[t], step, checked, event, ids)

(* A request that takes the value n. *)
LEMMA TabSteps ==
  ASSUME WorkspaceInv, NEW t \in Tabs, InFlight(t), NEW n, NEW step, NEW checked, NEW event, NEW ids,
         TabIs(n, request[t], step, checked, event, ids), request' = [request EXCEPT ![t] = n]
  PROVE  StepOf(t, step, checked, event, ids)
<1>1. request \in [Tabs -> TabForms] /\ n \in TabForms
  BY DEF WorkspaceInv, WorkTyped, TabIs
<1>2. request' \in [Tabs -> TabForms] /\ (\A u \in Tabs \ {t} : request'[u] = request[u]) /\ request'[t] = n
  BY <1>1
<1> QED
  BY <1>2 DEF StepOf, GoesOn, InFlight, TabIs

(* The rows are collected. *)
LEMMA CollectEffect ==
  ASSUME WorkspaceInv, NEW t \in Tabs, Collect(t)
  PROVE  StepOf(t, "collected", request[t].checked, request[t].event, ExportRows(ActiveBuilding(t)))
<1> DEFINE f == request[t]
           ids == ExportRows(ActiveBuilding(t))
           n1 == [f EXCEPT !.step = "collected"]
           n2 == [n1 EXCEPT !.rows = ids]
<1>1. f \in TabForms /\ request \in [Tabs -> TabForms] /\ "collected" \in Steps /\ InFlight(t)
  BY DEF WorkspaceInv, WorkTyped, Steps, Collect, InFlight
<1>2. ids \in SUBSET Nat
  BY DEF ExportRows, WorkspaceInv, WritesHold, WrittenForms
<1>3. request' = [request EXCEPT ![t].step = "collected", ![t].rows = ids]
  BY DEF Collect
<1> HIDE DEF ids
<1>4. request' = [request EXCEPT ![t] = n2]
  BY <1>1, <1>3
<1>5. TabIs(n1, f, "collected", f.checked, f.event, f.rows)
  BY <1>1, TabFields
<1>6. TabIs(n2, n1, n1.step, n1.checked, n1.event, ids)
  <2> HIDE DEF n1
  <2> QED
    BY <1>2, <1>5, TabFields DEF TabIs
<1> HIDE DEF n1, n2
<1>7. TabIs(n2, f, "collected", f.checked, f.event, ids)
  BY <1>5, <1>6, Zenon DEF TabIs, Same
<1> HIDE DEF f
<1> QED
  BY <1>1, <1>4, <1>7, TabSteps DEF f, ids

(* The membership is looked at. *)
LEMMA CheckEffect ==
  ASSUME WorkspaceInv, NEW t \in Tabs, CheckMembership(t)
  PROVE  StepOf(t, IF OwnRecord(t) /\ StillMember(ActiveBuilding(t)) THEN "checked" ELSE "done",
                accountChanges, request[t].event, request[t].rows)
<1> DEFINE f == request[t]
           s == IF OwnRecord(t) /\ StillMember(ActiveBuilding(t)) THEN "checked" ELSE "done"
           n1 == [f EXCEPT !.step = s]
           n2 == [n1 EXCEPT !.checked = accountChanges]
<1>1. f \in TabForms /\ request \in [Tabs -> TabForms] /\ s \in Steps /\ accountChanges \in Nat
  BY DEF WorkspaceInv, WorkTyped, Steps
<1>2. InFlight(t)
  BY DEF CheckMembership, InFlight, WorkspaceInv, ChecksHold, ChecksDone
<1>3. request' = [request EXCEPT ![t].step = s, ![t].checked = accountChanges]
  BY DEF CheckMembership
<1> HIDE DEF s
<1>4. request' = [request EXCEPT ![t] = n2]
  BY <1>1, <1>3
<1>5. TabIs(n1, f, s, f.checked, f.event, f.rows)
  BY <1>1, TabFields
<1>6. TabIs(n2, n1, n1.step, accountChanges, n1.event, n1.rows)
  <2> HIDE DEF n1
  <2> QED
    BY <1>1, <1>5, TabFields DEF TabIs
<1> HIDE DEF n1, n2
<1>7. TabIs(n2, f, s, accountChanges, f.event, f.rows)
  BY <1>5, <1>6, Zenon DEF TabIs, Same
<1> HIDE DEF f
<1>8. StepOf(t, s, accountChanges, f.event, f.rows)
  BY <1>2, <1>4, <1>7, TabSteps DEF f
<1> QED
  BY <1>8 DEF f, s

(* The record and its event are committed. *)
LEMMA CommitEffect ==
  ASSUME WorkspaceInv, NEW t \in Tabs, Commit(t)
  PROVE  StepOf(t, "done", request[t].checked, log + 1, request[t].rows)
<1> DEFINE f == request[t]
           n1 == [f EXCEPT !.step = "done"]
           n2 == [n1 EXCEPT !.event = log + 1]
<1>1. f \in TabForms /\ request \in [Tabs -> TabForms] /\ "done" \in Steps /\ log + 1 \in Nat
  BY DEF WorkspaceInv, WorkTyped, Steps, WritesHold
<1>2. InFlight(t)
  BY DEF Commit, InFlight, WorkspaceInv, ChecksHold, ChecksDone
<1>3. request' = [request EXCEPT ![t].step = "done", ![t].event = log + 1]
  BY DEF Commit
<1>4. request' = [request EXCEPT ![t] = n2]
  BY <1>1, <1>3
<1>5. TabIs(n1, f, "done", f.checked, f.event, f.rows)
  BY <1>1, TabFields
<1>6. TabIs(n2, n1, n1.step, n1.checked, log + 1, n1.rows)
  <2> HIDE DEF n1
  <2> QED
    BY <1>1, <1>5, TabFields DEF TabIs
<1> HIDE DEF n1, n2
<1>7. TabIs(n2, f, "done", f.checked, log + 1, f.rows)
  BY <1>5, <1>6, Zenon DEF TabIs, Same
<1> HIDE DEF f
<1>8. StepOf(t, "done", f.checked, log + 1, f.rows)
  BY <1>2, <1>4, <1>7, TabSteps DEF f
<1> QED
  BY <1>8 DEF f

(* A request that is over. *)
Ends(t) ==
    /\ request' \in [Tabs -> TabForms] /\ \A u \in Tabs \ {t} : request'[u] = request[u]
    /\ request'[t] = NoTabRequest

(* What SendPage does: the request is over, or its file is to be streamed. *)
LEMMA SendEffect ==
  ASSUME WorkspaceInv, NEW t \in Tabs, SendPage(t)
  PROVE  /\ \/ ~Streams(t) /\ Ends(t)
            \/ /\ Streams(t)
               /\ StepOf(t, "stream", request[t].checked, request[t].event, request[t].rows)
         /\ InFlight(t)
         /\ request[t].key \in 1 .. MaxLogins /\ request[t].session \in SessionRows
         /\ ActiveBuilding(t) \in Buildings
<1>1. InFlight(t)
  BY DEF SendPage, InFlight
<1>2. request[t].key \in 1 .. MaxLogins
  BY <1>1, WorkspaceBoundsAssumption DEF WorkspaceInv, SessionsHold, WorkTyped
<1>3. ~Streams(t) => Ends(t)
  BY IdleTab DEF SendPage, WorkspaceInv, WorkTyped, Ends
<1>4. ASSUME Streams(t)
      PROVE  StepOf(t, "stream", request[t].checked, request[t].event, request[t].rows)
  <2> DEFINE f == request[t]
             n == [f EXCEPT !.step = "stream"]
  <2>1. f \in TabForms /\ "stream" \in Steps
    BY DEF WorkspaceInv, WorkTyped, Steps
  <2>2. request' = [request EXCEPT ![t] = n]
    BY <1>4 DEF SendPage
  <2>3. TabIs(n, f, "stream", f.checked, f.event, f.rows)
    BY <2>1, TabFields
  <2> HIDE DEF n
  <2> QED
    BY <1>1, <2>2, <2>3, TabSteps
<1>5. request[t].session \in SessionRows
  BY DEF WorkspaceInv, WorkTyped, TabForms
<1> QED
  BY <1>1, <1>2, <1>3, <1>4, <1>5 DEF ActiveBuilding, WorkspaceInv, SessionsHold

(* The file ends its request. *)
LEMMA StreamEffect ==
  ASSUME WorkspaceInv, NEW t \in Tabs, Stream(t)
  PROVE  Ends(t) /\ InFlight(t)
<1>1. InFlight(t)
  BY DEF Stream, InFlight, WorkspaceInv, ChecksHold, ChecksDone
<1> QED
  BY <1>1, IdleTab DEF Stream, Ends, WorkspaceInv, WorkTyped

(* The types are kept. *)
LEMMA WorkTypedKept ==
  ASSUME WorkspaceInv, [WorkspaceNext]_workspaceVars
  PROVE  WorkTyped'
<1> USE DEF WorkspaceInv, account
<1>1. CASE StartSession
  <2> DEFINE new == [building |-> 0, expiry |-> today + MaxAge, password |-> password]
  <2>1. new \in SessionRows
    BY WorkspaceBoundsAssumption DEF WorkTyped, SessionRows
  <2>2. rows' = [rows EXCEPT ![logins + 1] = new]
    BY <1>1 DEF StartSession
  <2> HIDE DEF new
  <2>3. rows' \in [1 .. MaxLogins -> SessionRows]
    BY <2>1, <2>2 DEF WorkTyped
  <2>4. cookie' \in 0 .. logins' /\ logins' \in 0 .. MaxLogins /\ ended' \subseteq 1 .. logins' /\ used' \in 0 .. today'
    BY <1>1, WorkspaceBoundsAssumption DEF WorkTyped, StartSession
  <2>5. page' \in [Tabs -> Buildings \cup {0}]
    BY <1>1 DEF StartSession
  <2> QED
    BY <1>1, <2>3, <2>4, <2>5 DEF StartSession, WorkTyped, InFlight
<1>2. CASE EndSession
  <2>1. NoRow \in SessionRows
    BY DEF NoRow, SessionRows
  <2>2. rows' \in [1 .. MaxLogins -> SessionRows]
    BY <1>2, <2>1 DEF EndSession, WorkTyped
  <2>3. cookie' \in 0 .. logins' /\ ended' \subseteq 1 .. logins'
    BY <1>2, WorkspaceBoundsAssumption DEF EndSession, WorkTyped
  <2> QED
    BY <1>2, <2>2, <2>3 DEF EndSession, WorkTyped, InFlight
<1>3. CASE ChangePassword
  BY <1>3 DEF ChangePassword, AccountChange, WorkTyped, InFlight
<1>4. CASE SetEnabled
  <2>1. enabled' \in BOOLEAN
    BY <1>4 DEF SetEnabled
  <2> QED
    BY <1>4, <2>1 DEF SetEnabled, AccountChange, WorkTyped, InFlight
<1>5. CASE NextSessionDay
  BY <1>5, WorkspaceBoundsAssumption DEF NextSessionDay, WorkTyped, InFlight
<1>6. ASSUME NEW b \in Buildings, SetMembership(b) PROVE WorkTyped'
  BY <1>6 DEF SetMembership, AccountChange, WorkTyped, InFlight
<1>7. ASSUME NEW t \in Tabs, NEW kind \in Kinds, NEW b \in Buildings \cup {0}, Begin(t, kind, b) PROVE WorkTyped'
  <2>1. request' \in [Tabs -> TabForms] /\ (\A u \in Tabs \ {t} : request'[u] = request[u])
        /\ request'[t].kind = kind
    BY <1>7, BeginEffect
  <2>2. kind # "idle"
    BY DEF Kinds
  <2>3. UNCHANGED <<rows, cookie, logins, account, page, moved, ended, today>> /\ used' = today
    BY <1>7 DEF Begin
  <2>4. used' \in 0 .. today'
    BY <2>3, WorkspaceBoundsAssumption DEF WorkTyped
  <2>5. \A u \in Tabs : ~InFlight(u)' => request'[u] = NoTabRequest
    BY <2>1, <2>2 DEF WorkTyped, InFlight
  <2> QED
    BY <2>1, <2>3, <2>4, <2>5 DEF WorkTyped
<1>8. ASSUME NEW t \in Tabs, Collect(t) \/ CheckMembership(t) \/ Commit(t) PROVE WorkTyped'
  <2>1. request' \in [Tabs -> TabForms] /\ (\A u \in Tabs \ {t} : request'[u] = request[u])
        /\ GoesOn(t)
    BY <1>8, CollectEffect, CheckEffect, CommitEffect DEF StepOf
  <2>2. UNCHANGED <<rows, cookie, logins, account, page, moved, ended, used, today>>
    BY <1>8 DEF Collect, CheckMembership, Commit
  <2>3. \A u \in Tabs : ~InFlight(u)' => request'[u] = NoTabRequest
    BY <2>1 DEF WorkTyped, InFlight, GoesOn, Same
  <2> QED
    BY <2>1, <2>2, <2>3 DEF WorkTyped
<1>9. ASSUME NEW t \in Tabs, Stream(t) PROVE WorkTyped'
  <2>1. Ends(t)
    BY <1>9, StreamEffect
  <2>2. UNCHANGED <<rows, cookie, logins, account, page, moved, ended, used, today>>
    BY <1>9 DEF Stream
  <2>3. \A u \in Tabs : ~InFlight(u)' => request'[u] = NoTabRequest
    BY <2>1 DEF WorkTyped, InFlight, Ends
  <2> QED
    BY <2>1, <2>2, <2>3 DEF WorkTyped, Ends
<1>10. ASSUME NEW t \in Tabs, SendPage(t) PROVE WorkTyped'
  <2>1. /\ request[t].key \in 1 .. MaxLogins /\ request[t].session \in SessionRows
        /\ ActiveBuilding(t) \in Buildings
        /\ request' \in [Tabs -> TabForms] /\ \A u \in Tabs \ {t} : request'[u] = request[u]
        /\ GoesOn(t) \/ request'[t] = NoTabRequest
    BY <1>10, SendEffect DEF StepOf, Ends
  <2>2. rows' \in [1 .. MaxLogins -> SessionRows]
    BY <1>10, <2>1 DEF SendPage, SaveSession, WorkTyped
  <2>3. PageAfter(t) \in Buildings \cup {0}
    BY <2>1 DEF PageAfter, WorkTyped
  <2>4. page' \in [Tabs -> Buildings \cup {0}] /\ moved' \subseteq Tabs
    BY <1>10, <2>3 DEF SendPage, WorkTyped
  <2>5. UNCHANGED <<cookie, logins, account, ended, used, today>>
    BY <1>10 DEF SendPage
  <2>6. \A u \in Tabs : ~InFlight(u)' => request'[u] = NoTabRequest
    BY <2>1 DEF WorkTyped, InFlight, GoesOn, Same
  <2> QED
    BY <2>1, <2>2, <2>4, <2>5, <2>6 DEF WorkTyped
<1>11. CASE UNCHANGED workspaceVars
  BY <1>11 DEF workspaceVars, WorkTyped, InFlight
<1> QED
  BY <1>1, <1>2, <1>3, <1>4, <1>5, <1>6, <1>7, <1>8, <1>9, <1>10, <1>11 DEF WorkspaceNext

(* Requests that only go on, while the sessions stay as they are. *)
LEMMA GoingOnKeeps ==
  ASSUME WorkspaceInv, NEW t \in Tabs, \A u \in Tabs \ {t} : request'[u] = request[u], GoesOn(t),
         request'[t].step # "stream",
         UNCHANGED <<rows, cookie, logins, memberships, page, moved, ended, used, today>>
  PROVE  SessionsHold' /\ PagesHold'
<1> USE DEF WorkspaceInv
<1>1. \A u \in Tabs : InFlight(u)' <=> InFlight(u)
  BY DEF GoesOn, Same, InFlight
<1>2. \A u \in Tabs : Same(request'[u], request[u])
  BY DEF GoesOn, Same
<1>3. \A u \in Tabs : request[u].step # "stream" => request'[u].step # "stream"
  OBVIOUS
<1>5. SessionsHold'
  BY <1>1, <1>2, <1>3 DEF SessionsHold, LoggedOutStaysOut, Same
<1>4. PagesHold'
  BY <1>2 DEF PagesHold, Same
<1> QED
  BY <1>4, <1>5

(* Sessions and pages are kept. *)
LEMMA SessionsKept ==
  ASSUME WorkspaceInv, [WorkspaceNext]_workspaceVars
  PROVE  SessionsHold' /\ PagesHold'
<1> USE DEF WorkspaceInv, account
<1>0. /\ logins \in Nat /\ cookie \in 0 .. logins /\ ended \subseteq 1 .. logins /\ today \in Nat /\ used \in Nat
      /\ used <= today /\ password # 0 /\ MaxAge \in Nat /\ MaxLogins \in Nat /\ logins <= MaxLogins
      /\ \A k \in 1 .. MaxLogins : rows[k].expiry \in Nat
  BY WorkspaceBoundsAssumption DEF WorkTyped, SessionRows
<1>1. CASE StartSession
  <2> DEFINE new == [building |-> 0, expiry |-> today + MaxAge, password |-> password]
             k == logins + 1
  <2>1. /\ rows' = [rows EXCEPT ![k] = new] /\ cookie' = k /\ used' = today /\ page' = [t \in Tabs |-> 0]
        /\ logins < MaxLogins
        /\ UNCHANGED <<request, ended, today>> /\ \A t \in Tabs : request[t] = NoTabRequest
    BY <1>1 DEF StartSession
  <2>2. k \in 1 .. MaxLogins /\ k \notin ended
    BY <1>0, <2>1
  <2>3. rows'[k] = new /\ \A j \in 1 .. MaxLogins \ {k} : rows'[j] = rows[j]
    BY <2>1, <2>2 DEF WorkTyped
  <2>4. new.expiry = today + MaxAge /\ new.password # 0
    BY <1>0
  <2> HIDE DEF new, k
  <2>5. \A t \in Tabs : request'[t] = NoTabRequest /\ request'[t].kind = "idle"
    BY <2>1, IdleTab
  <2>6. \A j \in ended : j \in 1 .. MaxLogins
    <3>1. ended \subseteq 1 .. logins /\ logins \in Nat /\ MaxLogins \in Nat /\ logins <= MaxLogins
      BY <1>0
    <3> QED
      BY <3>1
  <2>7. LoggedOutStaysOut'
    BY <2>1, <2>2, <2>3, <2>6 DEF SessionsHold, LoggedOutStaysOut
  <2>8. rows'[cookie'].password # 0 /\ rows'[cookie'].expiry >= used' + MaxAge
    BY <1>0, <2>1, <2>3, <2>4
  <2>9. SessionsHold'
    BY <2>5, <2>7, <2>8 DEF SessionsHold, InFlight
  <2> QED
    BY <2>1, <2>5, <2>9 DEF PagesHold
<1>2. CASE EndSession
  <2>1. rows' = [rows EXCEPT ![cookie] = NoRow] /\ ended' = ended \cup {cookie} /\ cookie' = 0 /\ cookie # 0
        /\ UNCHANGED <<logins, request, used, today>>
    BY <1>2 DEF EndSession
  <2>2. cookie \in 1 .. MaxLogins
    BY <1>0, <2>1
  <2>3. rows'[cookie] = NoRow /\ \A j \in 1 .. MaxLogins \ {cookie} : rows'[j] = rows[j]
    BY <2>1, <2>2 DEF WorkTyped
  <2>4. \A j \in ended : j \in 1 .. MaxLogins
    <3>1. ended \subseteq 1 .. logins /\ logins \in Nat /\ MaxLogins \in Nat /\ logins <= MaxLogins
      BY <1>0
    <3> QED
      BY <3>1
  <2>5. LoggedOutStaysOut'
    BY <2>1, <2>3, <2>4 DEF SessionsHold, LoggedOutStaysOut
  <2>6. SessionsHold'
    BY <2>1, <2>5 DEF SessionsHold, InFlight
  <2>7. PagesHold'
    BY <2>1 DEF PagesHold
  <2> QED
    BY <2>6, <2>7
<1>3. CASE ChangePassword \/ SetEnabled
  BY <1>3 DEF ChangePassword, SetEnabled, SessionsHold, PagesHold, LoggedOutStaysOut, InFlight
<1>4. CASE NextSessionDay
  <2>1. today' = today + 1 /\ (\A t \in Tabs : request[t] = NoTabRequest)
        /\ UNCHANGED <<rows, cookie, logins, memberships, request, page, moved, ended, used>>
    BY <1>4 DEF NextSessionDay
  <2>2. \A t \in Tabs : ~InFlight(t) /\ ~InFlight(t)' /\ request'[t].kind = "idle"
    BY <2>1, IdleTab DEF InFlight
  <2>3. cookie # 0 => rows[cookie].password # 0 /\ rows[cookie].expiry >= used + MaxAge
    BY <2>2 DEF SessionsHold
  <2>4. SessionsHold'
    BY <2>1, <2>2, <2>3 DEF SessionsHold, LoggedOutStaysOut
  <2> QED
    BY <2>1, <2>2, <2>4 DEF PagesHold
<1>5. ASSUME NEW b \in Buildings, SetMembership(b) PROVE SessionsHold' /\ PagesHold'
  BY <1>5 DEF SetMembership, SessionsHold, PagesHold, LoggedOutStaysOut, InFlight, WorkTyped
<1>6. ASSUME NEW t \in Tabs, NEW kind \in Kinds, NEW b \in Buildings \cup {0}, Begin(t, kind, b)
      PROVE  SessionsHold' /\ PagesHold'
  <2>1. /\ request' \in [Tabs -> TabForms] /\ (\A u \in Tabs \ {t} : request'[u] = request[u])
        /\ request'[t].kind = kind /\ request'[t].key = cookie /\ request'[t].shown = page[t]
        /\ (request'[t].moved = FALSE => t \notin moved)
        /\ request'[t].session.expiry = today + MaxAge /\ request'[t].session.password = rows[cookie].password
        /\ request'[t].session.building \in memberships
        /\ LET wanted == IF b # 0 THEN b ELSE rows[cookie].building
           IN  wanted \in memberships => request'[t].session.building = wanted
    BY <1>6, BeginEffect
  <2>2. /\ UNCHANGED <<rows, cookie, logins, memberships, page, moved, ended, today>> /\ used' = today
        /\ cookie # 0 /\ rows[cookie].password = password /\ today < rows[cookie].expiry
        /\ (kind \in {"form", "record"} => page[t] # 0 /\ b \in {0, page[t]})
    BY <1>6 DEF Begin, Authenticated
  <2>3. kind # "idle" /\ cookie \in 1 .. logins /\ memberships \subseteq Buildings
    BY <1>0, <2>2 DEF Kinds, WorkTyped
  <2>4. \A u \in Tabs \ {t} : InFlight(u)' <=> InFlight(u)
    BY <2>1 DEF InFlight
  <2>5. InFlight(t)'
    BY <2>1, <2>3 DEF InFlight
  <2>6. \A u \in Tabs : InFlight(u)' =>
            /\ request'[u].key \in 1 .. logins' /\ request'[u].session.password # 0 /\ used' = today'
            /\ request'[u].session.expiry = today' + MaxAge /\ request'[u].session.building \in Buildings
            /\ cookie' # 0 => request'[u].key = cookie'
    <3>1. ASSUME NEW u \in Tabs \ {t}, InFlight(u)'
          PROVE  /\ request'[u].key \in 1 .. logins' /\ request'[u].session.password # 0 /\ used' = today'
                 /\ request'[u].session.expiry = today' + MaxAge /\ request'[u].session.building \in Buildings
                 /\ cookie' # 0 => request'[u].key = cookie'
      BY <2>1, <2>2, <2>4, <3>1 DEF SessionsHold
    <3>2. /\ request'[t].key \in 1 .. logins' /\ request'[t].session.password # 0 /\ used' = today'
          /\ request'[t].session.expiry = today' + MaxAge /\ request'[t].session.building \in Buildings
          /\ cookie' # 0 => request'[t].key = cookie'
      BY <1>0, <2>1, <2>2, <2>3
    <3> QED
      BY <3>1, <3>2
  <2>10. request'[t].step # "stream"
    BY <1>6, BeginEffect
  <2>7. SessionsHold'
    BY <1>0, <2>2, <2>5, <2>6, <2>10 DEF SessionsHold, LoggedOutStaysOut
  <2>8. request'[t].kind = "form" /\ request'[t].moved = FALSE => request'[t].session.building = request'[t].shown
    BY <2>1, <2>2 DEF PagesHold
  <2>9. PagesHold'
    BY <2>1, <2>2, <2>8 DEF PagesHold
  <2> QED
    BY <2>7, <2>9
<1>7. ASSUME NEW t \in Tabs, Collect(t) \/ CheckMembership(t) \/ Commit(t) PROVE SessionsHold' /\ PagesHold'
  <2>1. (\A u \in Tabs \ {t} : request'[u] = request[u]) /\ GoesOn(t) /\ request'[t].step # "stream"
    BY <1>7, CollectEffect, CheckEffect, CommitEffect DEF StepOf, TabIs
  <2>2. UNCHANGED <<rows, cookie, logins, memberships, page, moved, ended, used, today>>
    BY <1>7 DEF Collect, CheckMembership, Commit
  <2> QED
    BY <2>1, <2>2, GoingOnKeeps
<1>8. ASSUME NEW t \in Tabs, Stream(t) PROVE SessionsHold' /\ PagesHold'
  <2>1. Ends(t) /\ InFlight(t) /\ NoTabRequest.kind = "idle" /\ request[t].step = "stream"
    BY <1>8, StreamEffect, IdleTab DEF Stream
  <2>2. UNCHANGED <<rows, cookie, logins, memberships, page, moved, ended, used, today>>
    BY <1>8 DEF Stream
  <2>3. \A u \in Tabs : InFlight(u)' => InFlight(u) /\ request'[u] = request[u]
    BY <2>1 DEF InFlight, Ends
  <2>4. \A u \in Tabs : InFlight(u) /\ request[u].step # "stream" => InFlight(u)' /\ request'[u] = request[u]
    BY <2>1 DEF InFlight, Ends
  <2>5. SessionsHold'
    BY <2>2, <2>3, <2>4 DEF SessionsHold, LoggedOutStaysOut
  <2>6. PagesHold'
    BY <2>1, <2>2 DEF PagesHold, Ends
  <2> QED
    BY <2>5, <2>6
<1>9. ASSUME NEW t \in Tabs, SendPage(t) PROVE SessionsHold' /\ PagesHold'
  <2> DEFINE k == request[t].key
             s == request[t].session
             b == ActiveBuilding(t)
             p == PageAfter(t)
  <2>1. /\ \A u \in Tabs \ {t} : request'[u] = request[u]
        /\ request'[t] = NoTabRequest \/ GoesOn(t)
        /\ InFlight(t) /\ k \in 1 .. MaxLogins /\ s \in SessionRows /\ b \in Buildings
    BY <1>9, SendEffect DEF Ends, StepOf
  <2>2. /\ UNCHANGED <<cookie, logins, memberships, ended, used, today>>
        /\ rows' = IF rows[k] = NoRow THEN rows ELSE [rows EXCEPT ![k] = s]
        /\ page' = [page EXCEPT ![t] = p]
        /\ moved' = (IF b \in memberships /\ p = b THEN moved \ {t} ELSE moved \cup {t})
                    \cup {u \in Tabs \ {t} : page[u] \notin {0, b}}
    BY <1>9 DEF SendPage, SaveSession
  <2>3. s.building = b /\ s.password # 0 /\ s.expiry = today + MaxAge /\ used = today /\ (cookie # 0 => k = cookie)
    BY <2>1 DEF SessionsHold, ActiveBuilding
  <2>4. NoRow.password = 0
    BY DEF NoRow
  <2>5. cookie # 0 => rows[k] # NoRow
    BY <2>3, <2>4 DEF SessionsHold
  <2>6. rows[k] # NoRow => rows'[k] = s
    BY <2>1, <2>2 DEF WorkTyped
  <2>7. \A j \in 1 .. MaxLogins \ {k} : rows'[j] = rows[j]
    BY <2>1, <2>2 DEF WorkTyped
  <2>8. rows[k] = NoRow => rows' = rows
    BY <2>2
  <2> HIDE DEF k, s, b, p
  <2>9. LoggedOutStaysOut'
    <3>1. \A j \in ended : j \in 1 .. MaxLogins /\ rows[j] = NoRow
      BY <1>0 DEF SessionsHold, LoggedOutStaysOut
    <3>2. \A j \in ended : rows'[j] = NoRow
      BY <2>7, <2>8, <3>1
    <3> QED
      BY <2>2, <3>2 DEF LoggedOutStaysOut
  <2>10. (request'[t].kind = "idle" /\ ~InFlight(t)') \/ Same(request'[t], request[t])
    BY <2>1, IdleTab DEF InFlight, GoesOn
  <2>11. \A u \in Tabs : InFlight(u)' =>
            /\ request'[u].key \in 1 .. logins' /\ request'[u].session.password # 0 /\ used' = today'
            /\ request'[u].session.expiry = today' + MaxAge /\ request'[u].session.building \in Buildings
            /\ cookie' # 0 => request'[u].key = cookie'
    BY <2>1, <2>2, <2>10 DEF SessionsHold, InFlight, Same
  <2>12. cookie' # 0 => rows'[cookie'] = s
    BY <2>2, <2>3, <2>5, <2>6
  <2>13. cookie' # 0 => rows'[cookie'].password # 0 /\ rows'[cookie'].expiry >= used' + MaxAge
    BY <1>0, <2>2, <2>3, <2>12
  <2>14. SessionsHold'
    BY <2>9, <2>11, <2>13 DEF SessionsHold
  <2>15. ASSUME NEW u \in Tabs, page'[u] # 0, u \notin moved', cookie' # 0
         PROVE  rows'[cookie'].building = page'[u] /\ page'[u] \in memberships'
    <3>1. rows'[cookie'].building = b
      BY <2>3, <2>12, <2>15
    <3>2. CASE u = t
      BY <2>2, <2>5, <2>15, <3>1, <3>2 DEF WorkTyped
    <3>3. CASE u # t
      BY <2>2, <2>15, <3>1, <3>3 DEF WorkTyped, PagesHold
    <3> QED
      BY <3>2, <3>3
  <2>16. \A u \in Tabs : request'[u].kind = "form" /\ request'[u].moved = FALSE =>
            request'[u].session.building = request'[u].shown
    BY <2>1, <2>10 DEF PagesHold, Same
  <2> QED
    BY <2>14, <2>15, <2>16 DEF PagesHold
<1>10. CASE UNCHANGED workspaceVars
  BY <1>10 DEF workspaceVars, SessionsHold, PagesHold, LoggedOutStaysOut, InFlight
<1> QED
  BY <1>1, <1>2, <1>3, <1>4, <1>5, <1>6, <1>7, <1>8, <1>9, <1>10 DEF WorkspaceNext

(* One more record: what was exported before still covers its building, and *)
(* its event is still there.                                                *)
LEMMA CoversMore ==
  ASSUME NEW ws, NEW n \in Nat, NEW w, w.id = n, w.event = n + 1, NEW b, NEW began, NEW ids,
         Covers(ws, n, b, began, ids)
  PROVE  Covers(ws \cup {w}, n + 1, b, began, ids)
<1>1. began \in 0 .. n /\ ids \subseteq 0 .. n - 1
  BY DEF Covers
<1>2. began \in 0 .. n + 1 /\ ~(w.event <= began) /\ w.id \notin ids /\ ids \subseteq 0 .. (n + 1) - 1
  BY <1>1
<1> QED
  BY <1>2 DEF Covers

(* The rows of now cover a building, for a request that began before. *)
LEMMA RowsCover ==
  ASSUME WritesHold, NEW b, NEW began \in 0 .. log
  PROVE  Covers(written, log, b, began, ExportRows(b)) /\ ExportRows(b) \in SUBSET Nat
<1>1. \A w \in written : w.id \in Nat /\ w.id < log /\ log \in Nat
  BY DEF WritesHold, WrittenForms
<1>2. ExportRows(b) \subseteq 0 .. log - 1
  BY <1>1 DEF ExportRows
<1>3. \A w \in written : w.building = b <=> w.id \in ExportRows(b)
  BY DEF ExportRows, WritesHold
<1> QED
  BY <1>1, <1>2, <1>3 DEF Covers

(* Nothing is written; the requests of the tabs are covered. *)
LEMMA WritesStay ==
  ASSUME WorkspaceInv, UNCHANGED <<written, files, log>>,
         \A t \in Tabs : request'[t] = request[t] \/ RowsRead(request'[t], written, log)
  PROVE  WritesHold'
<1>1. \A t \in Tabs : RowsRead(request'[t], written, log)
  BY DEF WorkspaceInv, WritesHold
<1> QED
  BY <1>1 DEF WorkspaceInv, WritesHold, RevokedStops, PostsActWhereShown

(* A request that is over has read nothing. *)
LEMMA EndedRead ==
  ASSUME WorkspaceInv
  PROVE  RowsRead(NoTabRequest, written, log) /\ ChecksDone(NoTabRequest, accountChanges, memberships)
BY IdleTab DEF WorkspaceInv, WorkTyped, WritesHold, RowsRead, ChecksDone

(* A request that goes on without reading. *)
LEMMA OnlyStepRead ==
  ASSUME NEW r, NEW n, NEW step, NEW checked, NEW ws, NEW m, RowsRead(r, ws, m), r.step # "open" \/ r.kind # "export",
         TabIs(n, r, step, checked, r.event, r.rows)
  PROVE  RowsRead(n, ws, m)
BY DEF RowsRead, TabIs, Same

(* The rows are collected, or the membership is looked at. *)
LEMMA StepWrites ==
  ASSUME WorkspaceInv, NEW t \in Tabs, Collect(t) \/ CheckMembership(t)
  PROVE  WritesHold'
<1> USE DEF WorkspaceInv
<1>1. UNCHANGED <<written, files, log>> /\ RowsRead(request[t], written, log)
  BY DEF Collect, CheckMembership, WritesHold
<1>2. CASE Collect(t)
  <2> DEFINE ids == ExportRows(ActiveBuilding(t))
  <2>1. StepOf(t, "collected", request[t].checked, request[t].event, ids)
    BY <1>2, CollectEffect
  <2>2. request[t].began \in 0 .. log
    BY <1>1 DEF RowsRead, WorkTyped, TabForms, WritesHold
  <2>3. Covers(written, log, ActiveBuilding(t), request[t].began, ids)
    BY <2>2, RowsCover
  <2> HIDE DEF ids
  <2>4. RowsRead(request'[t], written, log)
    BY <1>1, <2>1, <2>3 DEF StepOf, TabIs, Same, RowsRead, ActiveBuilding
  <2> QED
    BY <1>1, <2>1, <2>4, WritesStay DEF StepOf
<1>3. CASE CheckMembership(t)
  <2> DEFINE s == IF OwnRecord(t) /\ StillMember(ActiveBuilding(t)) THEN "checked" ELSE "done"
  <2>1. StepOf(t, s, accountChanges, request[t].event, request[t].rows)
    BY <1>3, CheckEffect
  <2> HIDE DEF s
  <2>2. request[t].step # "open" \/ request[t].kind # "export"
    BY <1>3 DEF CheckMembership
  <2>3. RowsRead(request'[t], written, log)
    BY <1>1, <2>1, <2>2, OnlyStepRead DEF StepOf
  <2> QED
    BY <1>1, <2>1, <2>3, WritesStay DEF StepOf
<1> QED
  BY <1>2, <1>3

(* A record, or the event of an export, is committed. *)
LEMMA CommitWrites ==
  ASSUME WorkspaceInv, NEW t \in Tabs, Commit(t)
  PROVE  WritesHold'
<1> USE DEF WorkspaceInv
<1> DEFINE b == request[t].session.building
           member == b \in memberships
           late == accountChanges # request[t].checked
           new == [id |-> Cardinality(written), kind |-> request[t].kind, building |-> b,
                   shown |-> request[t].shown, moved |-> request[t].moved, event |-> log',
                   member |-> member, late |-> late]
<1>1. /\ log' = log + 1 /\ written' = written \cup {new} /\ UNCHANGED files
      /\ request[t].step = "checked"
  BY DEF Commit, ActiveBuilding
<1>2. request[t].kind \in {"form", "record", "export"} /\ InFlight(t)
  BY <1>1 DEF InFlight, ChecksHold, ChecksDone
<1>3. log \in Nat /\ IsFiniteSet(written) /\ Cardinality(written) = log /\ b \in Buildings
  BY <1>2 DEF WritesHold, SessionsHold
<1>4. request[t].shown \in Buildings \cup {0} /\ request[t].moved \in BOOLEAN
  BY DEF WorkTyped, TabForms
<1>5. request[t].kind = "record" => request[t].shown = b
  BY <1>1 DEF ChecksHold, ChecksDone
<1>6. request[t].kind = "form" /\ request[t].moved = FALSE => request[t].shown = b
  BY DEF PagesHold
<1>6a. (member = TRUE \/ late = TRUE) /\ member \in BOOLEAN /\ late \in BOOLEAN
  BY <1>1 DEF ChecksHold, ChecksDone
<1> HIDE DEF b, member, late
<1>7. new \in WrittenForms /\ new.id = log /\ new.event = log + 1 /\ new.building = b
      /\ new.kind = request[t].kind /\ new.shown = request[t].shown /\ new.moved = request[t].moved
      /\ new.member = member /\ new.late = late
  BY <1>1, <1>2, <1>3, <1>4, <1>6a DEF WrittenForms
<1> HIDE DEF new
<1>8. \A w \in written : w.id \in Nat /\ w.id < log
  BY DEF WritesHold, WrittenForms
<1>9. new \notin written
  BY <1>3, <1>7, <1>8
<1>10. IsFiniteSet(written') /\ log' = Cardinality(written') /\ log' \in Nat
  <2>1. IsFiniteSet(written \cup {new}) /\ Cardinality(written \cup {new}) = Cardinality(written) + 1
    BY <1>3, <1>9, FS_AddElement
  <2> QED
    BY <1>1, <1>3, <2>1
<1>11. written' \subseteq WrittenForms /\ files' \subseteq FileForms
  BY <1>1, <1>7 DEF WritesHold
<1>12. \A w \in written' : w.id < log' /\ w.event = w.id + 1
  BY <1>1, <1>3, <1>7, <1>8 DEF WritesHold
<1>13. \A v, w \in written' : v.id = w.id => v = w
  BY <1>1, <1>3, <1>7, <1>8 DEF WritesHold
<1>14. RevokedStops'
  BY <1>1, <1>6a, <1>7 DEF WritesHold, RevokedStops
<1>15. PostsActWhereShown'
  <2>1. new.kind = "record" \/ (new.kind = "form" /\ ~new.moved) => new.building = new.shown
    BY <1>4, <1>5, <1>6, <1>7
  <2> QED
    BY <1>1, <2>1 DEF WritesHold, PostsActWhereShown
<1>16. \A f \in files' : Covers(written', log', f.building, f.began, f.rows) /\ Logged(written', f.building, f.event)
  <2>1. ASSUME NEW f \in files
        PROVE  Covers(written', log', f.building, f.began, f.rows) /\ Logged(written', f.building, f.event)
    <3>1. Covers(written, log, f.building, f.began, f.rows) /\ Logged(written, f.building, f.event)
      BY DEF WritesHold
    <3>2. Covers(written \cup {new}, log + 1, f.building, f.began, f.rows)
      BY <1>3, <1>7, <3>1, CoversMore
    <3> QED
      BY <1>1, <3>1, <3>2 DEF Logged
  <2> QED
    BY <1>1, <2>1
<1>17. StepOf(t, "done", request[t].checked, log + 1, request[t].rows)
  BY CommitEffect
<1>18. ASSUME NEW u \in Tabs
       PROVE  RowsRead(request'[u], written', log')
  <2>1. RowsRead(request[u], written, log) /\ request[u].began \in Nat
    BY DEF WritesHold, WorkTyped, TabForms
  <2>2. request[u].began <= log'
    BY <1>1, <1>3, <2>1 DEF RowsRead
  <2>3. request[u].kind = "export" /\ request[u].step # "open" =>
           Covers(written', log', request[u].session.building, request[u].began, request[u].rows)
    <3>1. ASSUME request[u].kind = "export", request[u].step # "open"
          PROVE  Covers(written \cup {new}, log + 1, request[u].session.building, request[u].began, request[u].rows)
      <4>1. Covers(written, log, request[u].session.building, request[u].began, request[u].rows)
        BY <2>1, <3>1 DEF RowsRead
      <4> QED
        BY <1>3, <1>7, <4>1, CoversMore
    <3> QED
      BY <1>1, <3>1
  <2>4. CASE u # t
    <3>1. request[u].kind = "export" /\ request[u].event # 0 => Logged(written', request[u].session.building, request[u].event)
      BY <1>1, <2>1 DEF RowsRead, Logged
    <3> QED
      BY <1>17, <2>2, <2>3, <2>4, <3>1 DEF StepOf, RowsRead
  <2>5. CASE u = t
    <3>1. request[t].kind = "export" => Logged(written', b, log + 1)
      BY <1>1, <1>7 DEF Logged
    <3> QED
      BY <1>1, <1>17, <2>2, <2>3, <2>5, <3>1 DEF StepOf, TabIs, Same, RowsRead, b
  <2> QED
    BY <2>4, <2>5
<1> QED
  BY <1>10, <1>11, <1>12, <1>13, <1>14, <1>15, <1>16, <1>18 DEF WritesHold

(* An export that is streamed. *)
LEMMA StreamWrites ==
  ASSUME WorkspaceInv, NEW t \in Tabs, Stream(t)
  PROVE  WritesHold'
<1> USE DEF WorkspaceInv
<1> DEFINE b == request[t].session.building
           e == request[t].event
           g == request[t].began
<1>1. UNCHANGED <<written, log>> /\ request[t].step = "stream"
  BY DEF Stream
<1>2. PICK read \in {request[t].rows, ExportRows(b)} :
            files' = files \cup {[building |-> b, event |-> e, began |-> g, rows |-> read]}
  BY DEF Stream, ActiveBuilding
<1>3. Covers(written, log, b, g, request[t].rows) /\ Logged(written, b, e) /\ g \in 0 .. log
  <2>1. request[t].kind = "export" /\ e # 0
    BY <1>1 DEF ChecksHold, ChecksDone
  <2>2. RowsRead(request[t], written, log)
    BY DEF WritesHold
  <2> QED
    BY <1>1, <2>1, <2>2 DEF RowsRead, Covers
<1>4. Covers(written, log, b, g, ExportRows(b)) /\ ExportRows(b) \in SUBSET Nat
  BY <1>3, RowsCover
<1>5. Covers(written, log, b, g, read)
  BY <1>2, <1>3, <1>4
<1> DEFINE new == [building |-> b, event |-> e, began |-> g, rows |-> read]
<1>6. new \in FileForms /\ new.building = b /\ new.event = e /\ new.began = g /\ new.rows = read
  <2>1. b \in Buildings
    BY StreamEffect DEF SessionsHold
  <2>2. e \in Nat /\ g \in Nat /\ request[t].rows \in SUBSET Nat
    BY DEF WorkTyped, TabForms
  <2>3. read \in SUBSET Nat
    BY <1>2, <1>4, <2>2
  <2> HIDE DEF b, e, g
  <2> QED
    BY <2>1, <2>2, <2>3 DEF FileForms
<1>7. files' = files \cup {new}
  BY <1>2
<1> HIDE DEF new
<1>8. files' \subseteq FileForms
      /\ \A f \in files' : Covers(written, log, f.building, f.began, f.rows) /\ Logged(written, f.building, f.event)
  BY <1>3, <1>5, <1>6, <1>7 DEF WritesHold
<1>9. \A u \in Tabs : RowsRead(request'[u], written, log)
  BY StreamEffect, EndedRead DEF Ends, WritesHold
<1> QED
  BY <1>1, <1>8, <1>9 DEF WritesHold, RevokedStops, PostsActWhereShown

(* What is written, logged and exported is kept as it should be. *)
LEMMA WritesKept ==
  ASSUME WorkspaceInv, [WorkspaceNext]_workspaceVars
  PROVE  WritesHold'
<1> USE DEF account
<1>1. CASE StartSession \/ EndSession \/ ChangePassword \/ SetEnabled \/ NextSessionDay \/ UNCHANGED workspaceVars
  BY <1>1, WritesStay DEF StartSession, EndSession, ChangePassword, SetEnabled, NextSessionDay, workspaceVars
<1>2. ASSUME NEW b \in Buildings, SetMembership(b) PROVE WritesHold'
  BY <1>2, WritesStay DEF SetMembership
<1>3. ASSUME NEW t \in Tabs, NEW kind \in Kinds, NEW b \in Buildings \cup {0}, Begin(t, kind, b) PROVE WritesHold'
  <2>1. /\ \A u \in Tabs \ {t} : request'[u] = request[u]
        /\ request'[t].kind = kind /\ request'[t].step = (IF kind = "page" THEN "done" ELSE "open")
        /\ request'[t].began = log /\ request'[t].event = 0
    BY <1>3, BeginEffect
  <2>2. UNCHANGED <<written, files, log>> /\ log \in Nat
    BY <1>3 DEF Begin, WorkspaceInv, WritesHold
  <2>3. RowsRead(request'[t], written, log)
    BY <2>1, <2>2 DEF RowsRead
  <2> QED
    BY <2>1, <2>2, <2>3, WritesStay
<1>4. ASSUME NEW t \in Tabs, Collect(t) \/ CheckMembership(t) PROVE WritesHold'
  BY <1>4, StepWrites
<1>5. ASSUME NEW t \in Tabs, Commit(t) PROVE WritesHold'
  BY <1>5, CommitWrites
<1>6. ASSUME NEW t \in Tabs, Stream(t) PROVE WritesHold'
  BY <1>6, StreamWrites
<1>7. ASSUME NEW t \in Tabs, SendPage(t) PROVE WritesHold'
  <2>1. UNCHANGED <<written, files, log>> /\ request[t].step = "done" /\ RowsRead(request[t], written, log)
    BY <1>7 DEF SendPage, WorkspaceInv, WritesHold
  <2>2. \/ Ends(t)
        \/ StepOf(t, "stream", request[t].checked, request[t].event, request[t].rows)
    BY <1>7, SendEffect
  <2>3. CASE Ends(t)
    BY <2>1, <2>3, EndedRead, WritesStay DEF Ends
  <2>4. CASE StepOf(t, "stream", request[t].checked, request[t].event, request[t].rows)
    <3>1. RowsRead(request'[t], written, log)
      BY <2>1, <2>4, OnlyStepRead DEF StepOf
    <3> QED
      BY <2>1, <2>4, <3>1, WritesStay DEF StepOf
  <2> QED
    BY <2>2, <2>3, <2>4
<1> QED
  BY <1>1, <1>2, <1>3, <1>4, <1>5, <1>6, <1>7 DEF WorkspaceNext

(* What a request has passed is kept: a change to the account comes after  *)
(* the look at the membership.                                             *)
LEMMA ChecksKept ==
  ASSUME WorkspaceInv, [WorkspaceNext]_workspaceVars
  PROVE  ChecksHold'
<1> USE DEF WorkspaceInv, account
<1>0. accountChanges \in Nat /\ \A t \in Tabs : request[t].checked \in Nat
  BY DEF WorkTyped, TabForms
<1>a. ASSUME UNCHANGED <<accountChanges, memberships>>,
             \A t \in Tabs : request'[t] = request[t] \/ ChecksDone(request'[t], accountChanges, memberships)
      PROVE  ChecksHold'
  BY <1>a DEF ChecksHold
<1>1. CASE StartSession \/ EndSession \/ NextSessionDay \/ UNCHANGED workspaceVars
  BY <1>1, <1>a DEF StartSession, EndSession, NextSessionDay, workspaceVars
<1>2. CASE AccountChange /\ UNCHANGED request
  BY <1>0, <1>2 DEF AccountChange, ChecksHold, ChecksDone
<1>3. ASSUME NEW t \in Tabs, NEW kind \in Kinds, NEW b \in Buildings \cup {0}, Begin(t, kind, b) PROVE ChecksHold'
  <2>1. /\ \A u \in Tabs \ {t} : request'[u] = request[u]
        /\ request'[t].step = (IF kind = "page" THEN "done" ELSE "open") /\ request'[t].checked = 0
    BY <1>3, BeginEffect
  <2>2. UNCHANGED <<accountChanges, memberships>>
    BY <1>3 DEF Begin
  <2>3. ChecksDone(request'[t], accountChanges, memberships)
    BY <1>0, <2>1 DEF ChecksDone
  <2> QED
    BY <1>a, <2>1, <2>2, <2>3
<1>4. ASSUME NEW t \in Tabs, Collect(t) PROVE ChecksHold'
  <2>1. StepOf(t, "collected", request[t].checked, request[t].event, ExportRows(ActiveBuilding(t)))
    BY <1>4, CollectEffect
  <2>2. UNCHANGED <<accountChanges, memberships>> /\ request[t].kind = "export"
    BY <1>4 DEF Collect
  <2>3. ChecksDone(request'[t], accountChanges, memberships)
    BY <1>0, <2>1, <2>2 DEF ChecksHold, ChecksDone, StepOf, TabIs, Same
  <2> QED
    BY <1>a, <2>1, <2>2, <2>3 DEF StepOf
<1>5. ASSUME NEW t \in Tabs, CheckMembership(t) PROVE ChecksHold'
  <2> DEFINE s == IF OwnRecord(t) /\ StillMember(ActiveBuilding(t)) THEN "checked" ELSE "done"
  <2>1. StepOf(t, s, accountChanges, request[t].event, request[t].rows)
    BY <1>5, CheckEffect
  <2>2. UNCHANGED <<accountChanges, memberships>>
    BY <1>5 DEF CheckMembership
  <2>3. request[t].kind \in {"form", "record", "export"}
    BY <1>5 DEF CheckMembership, ChecksHold, ChecksDone
  <2>4. s = "checked" => (request[t].kind = "record" => request[t].shown = request[t].session.building)
                         /\ request[t].session.building \in memberships
    BY DEF OwnRecord, StillMember, ActiveBuilding
  <2>5. s \in {"checked", "done"}
    OBVIOUS
  <2> HIDE DEF s
  <2>6. ChecksDone(request'[t], accountChanges, memberships)
    BY <1>0, <2>1, <2>3, <2>4, <2>5 DEF ChecksDone, StepOf, TabIs, Same
  <2> QED
    BY <1>a, <2>1, <2>2, <2>6 DEF StepOf
<1>6. ASSUME NEW t \in Tabs, Commit(t) PROVE ChecksHold'
  <2>1. StepOf(t, "done", request[t].checked, log + 1, request[t].rows)
    BY <1>6, CommitEffect
  <2>2. UNCHANGED <<accountChanges, memberships>>
    BY <1>6 DEF Commit
  <2>3. ChecksDone(request'[t], accountChanges, memberships)
    BY <2>1 DEF ChecksHold, ChecksDone, StepOf, TabIs, Same
  <2> QED
    BY <1>a, <2>1, <2>2, <2>3 DEF StepOf
<1>7. ASSUME NEW t \in Tabs, Stream(t) PROVE ChecksHold'
  BY <1>7, <1>a, StreamEffect, EndedRead DEF Stream, Ends
<1>8. ASSUME NEW t \in Tabs, SendPage(t) PROVE ChecksHold'
  <2>1. UNCHANGED <<accountChanges, memberships>>
    BY <1>8 DEF SendPage
  <2>2. \/ Ends(t)
        \/ Streams(t) /\ StepOf(t, "stream", request[t].checked, request[t].event, request[t].rows)
    BY <1>8, SendEffect
  <2>3. CASE Ends(t)
    BY <1>a, <2>1, <2>3, EndedRead DEF Ends
  <2>4. CASE Streams(t) /\ StepOf(t, "stream", request[t].checked, request[t].event, request[t].rows)
    <3>1. ChecksDone(request'[t], accountChanges, memberships)
      BY <2>4 DEF ChecksHold, ChecksDone, StepOf, TabIs, Same, Streams
    <3> QED
      BY <1>a, <2>1, <2>4, <3>1 DEF StepOf
  <2> QED
    BY <2>2, <2>3, <2>4
<1> QED
  BY <1>1, <1>2, <1>3, <1>4, <1>5, <1>6, <1>7, <1>8
     DEF WorkspaceNext, ChangePassword, SetEnabled, SetMembership

(* The browser is closed. *)
LEMMA WorkspaceStarts == WorkspaceInit => WorkspaceInv
<1> SUFFICES ASSUME WorkspaceInit PROVE WorkspaceInv
  OBVIOUS
<1>1. enabled \in BOOLEAN
  BY DEF WorkspaceInit
<1>2. NoRow \in SessionRows
  BY DEF NoRow, SessionRows
<1>3. request \in [Tabs -> TabForms] /\ \A t \in Tabs : request[t] = NoTabRequest /\ request[t].kind = "idle"
  BY IdleTab DEF WorkspaceInit
<1>4. rows \in [1 .. MaxLogins -> SessionRows]
  BY <1>2 DEF WorkspaceInit
<1>5. WorkTyped
  BY <1>1, <1>3, <1>4, WorkspaceBoundsAssumption DEF WorkspaceInit, WorkTyped, InFlight
<1>6. SessionsHold /\ PagesHold
  BY <1>3 DEF WorkspaceInit, SessionsHold, PagesHold, InFlight, LoggedOutStaysOut
<1>7. WritesHold
  BY <1>3, IdleTab, FS_EmptySet DEF WorkspaceInit, WritesHold, RevokedStops, PostsActWhereShown, RowsRead
<1>8. ChecksHold
  BY <1>3, IdleTab DEF WorkspaceInit, ChecksHold, ChecksDone
<1> QED
  BY <1>5, <1>6, <1>7, <1>8 DEF WorkspaceInv

(* A manager with any number of tabs acts only where the page said, as a   *)
(* member when last looked at, on the record and never with a session that *)
(* was logged out; a session in use does not run out, and an exported file *)
(* holds the rows its building had when the request began and no others    *)
(* (resolve_active_management, record_audit, renew_management_session,     *)
(* audit_export).                                                          *)
THEOREM WorkspaceCorrect == WorkspaceSpec => []WorkspaceHolds
<1>1. WorkspaceInv /\ [WorkspaceNext]_workspaceVars => WorkspaceInv'
  BY WorkTypedKept, SessionsKept, WritesKept, ChecksKept DEF WorkspaceInv
<1>2. WorkspaceInv => WorkspaceHolds
  <2> SUFFICES ASSUME WorkspaceInv PROVE WorkspaceHolds
    OBVIOUS
  <2> USE DEF WorkspaceInv
  <2>1. WorkspaceTypeOK
    <3>1. \A t \in Tabs : request[t] # NoTabRequest => ActiveBuilding(t) \in Buildings
      BY DEF WorkTyped, SessionsHold, ActiveBuilding
    <3>2. \A w \in written : w.kind \in {"form", "record", "export"} /\ w.building \in Buildings
      BY DEF WritesHold, WrittenForms
    <3>3. DOMAIN rows = 1 .. MaxLogins
      BY DEF WorkTyped
    <3> QED
      BY <3>1, <3>2, <3>3 DEF WorkTyped, WorkspaceTypeOK
  <2>2. UsedSessionSurvives
    <3> SUFFICES ASSUME cookie # 0, today < used + MaxAge PROVE today < rows[cookie].expiry
      BY DEF UsedSessionSurvives
    <3>1. cookie \in 1 .. MaxLogins
      BY WorkspaceBoundsAssumption DEF WorkTyped
    <3>2. rows[cookie].expiry \in Nat
      BY <3>1 DEF WorkTyped, SessionRows
    <3> QED
      BY <3>2, WorkspaceBoundsAssumption DEF SessionsHold, WorkTyped
  <2>3. FilesCoverTheirBuilding
    BY DEF WritesHold, FilesCoverTheirBuilding, Covers
  <2>4. ActionsAreLogged
    <3>1. \A w \in written : w.id \in Nat /\ w.id < log /\ w.event = w.id + 1
      BY DEF WritesHold, WrittenForms
    <3>2. log \in Nat
      BY DEF WritesHold
    <3>3. \A w \in written : w.event \in 1 .. log
      BY <3>1, <3>2
    <3>4. \A v, w \in written : v.event = w.event => v.id = w.id
      BY <3>1
    <3> QED
      BY <3>3, <3>4 DEF ActionsAreLogged, WritesHold, Logged
  <2> QED
    BY <2>1, <2>2, <2>3, <2>4 DEF WorkspaceHolds, SessionsHold, WritesHold
<1> QED
  BY <1>1, <1>2, WorkspaceStarts, PTL DEF WorkspaceSpec

-----------------------------------------------------------------------------
(* The throttle: attempts per key and period.  The invariant is stated for *)
(* the row b of one key, the attempts f let through per moment, the number *)
(* F of requests between the check and the count, and the number n of      *)
(* requests that can be there at once.                                     *)

Times == 0 .. MaxThrottleTime
RowForms == [count : Nat, start : Int \cup {NoTime}, until : Int \cup {NoTime}]

(* The attempts from x on, and those of the period that begins at t. *)
Since(f, x) == SumOver(f, {u \in Times : x <= u})
Within(f, t) == SumOver(f, {u \in Times : t <= u /\ u < t + Window})

(* The attempts a period may see: of a window that never filled, of one that *)
(* did, and the late ones of each.                                           *)
Limit(n) == 2 * MaxFailures - 2 + 2 * (n - 1)

(* Nothing was let through since the row was made or emptied. *)
RowNew(b, f) ==
    /\ b = NoTime \/ (b \in RowForms /\ b.start = NoTime /\ b.until = NoTime)
    /\ \A u \in Times : f[u] = 0

(* A window that has not reached the limit. *)
RowOpen(c, b, f, n) ==
    /\ b \in RowForms /\ b.until = NoTime
    /\ b.count \in 1 .. MaxFailures - 1 /\ b.start \in 0 .. c
    /\ Since(f, b.start + 1) <= b.count - 1
    /\ Since(f, b.start - Window + 1) <= b.count + MaxFailures + n - 3

(* A window that has: nothing was let through after the moment its lock was *)
(* last extended, and while it lasts the late requests are counted in.      *)
RowFull(c, b, f, F, n) ==
    /\ b \in RowForms /\ b.until \in Int
    /\ b.count >= MaxFailures /\ b.start \in 0 .. c
    /\ b.start <= b.until - Window /\ b.until - Window <= c
    /\ Since(f, b.until - Window + 1) = 0
    /\ b.until > c => /\ Since(f, c - Window + 1) + F <= Limit(n)
                      /\ Since(f, b.start + 1) + F <= MaxFailures + n - 2

KeyHolds(c, b, f, F, n) ==
    /\ f \in [Times -> Nat] /\ \A u \in Times : u > c => f[u] = 0
    /\ F \in 0 .. n
    /\ \A t \in Times : Within(f, t) <= Limit(n)
    /\ RowNew(b, f) \/ RowOpen(c, b, f, n) \/ RowFull(c, b, f, F, n)

(* Periods are finite. *)
LEMMA PeriodsFinite ==
  /\ IsFiniteSet(Times)
  /\ \A x : IsFiniteSet({u \in Times : x <= u}) /\ IsFiniteSet({u \in Times : x <= u /\ u < x + Window})
<1>1. IsFiniteSet(Times)
  BY FS_Interval, ThrottleAssumption DEF Times
<1>2. \A x : {u \in Times : x <= u} \in SUBSET Times /\ {u \in Times : x <= u /\ u < x + Window} \in SUBSET Times
  OBVIOUS
<1> QED
  BY <1>1, <1>2, FS_Subset

(* Fewer attempts are later than a later moment. *)
LEMMA SinceFacts ==
  ASSUME NEW f \in [Times -> Nat]
  PROVE  /\ \A x : Since(f, x) \in Nat /\ Within(f, x) \in Nat /\ Within(f, x) <= Since(f, x)
         /\ \A x, y \in Int : x <= y => Since(f, y) <= Since(f, x)
<1>1. ASSUME NEW x PROVE Since(f, x) \in Nat /\ Within(f, x) \in Nat /\ Within(f, x) <= Since(f, x)
  <2>1. {u \in Times : x <= u /\ u < x + Window} \in SUBSET {u \in Times : x <= u}
    OBVIOUS
  <2>2. \A u \in {u \in Times : x <= u} : f[u] \in Nat
    OBVIOUS
  <2> QED
    BY <2>1, <2>2, PeriodsFinite, SumPart DEF Since, Within
<1>2. ASSUME NEW x \in Int, NEW y \in Int, x <= y PROVE Since(f, y) <= Since(f, x)
  <2>1. {u \in Times : y <= u} \in SUBSET {u \in Times : x <= u}
    BY <1>2 DEF Times
  <2>2. \A u \in {u \in Times : x <= u} : f[u] \in Nat
    OBVIOUS
  <2> QED
    BY <2>1, <2>2, PeriodsFinite, SumPart DEF Since
<1> QED
  BY <1>1, <1>2

(* Without attempts the sums are zero. *)
LEMMA SinceZero ==
  ASSUME NEW f, NEW x
  PROVE  /\ (\A u \in Times : x <= u => f[u] = 0) => Since(f, x) = 0
         /\ (\A u \in Times : f[u] = 0) => Within(f, x) = 0
<1>1. ASSUME \A u \in Times : x <= u => f[u] = 0 PROVE Since(f, x) = 0
  <2>1. \A u \in {u \in Times : x <= u} : f[u] = 0
    BY <1>1
  <2> QED
    BY <2>1, PeriodsFinite, SumZero DEF Since
<1>2. ASSUME \A u \in Times : f[u] = 0 PROVE Within(f, x) = 0
  <2>1. \A u \in {u \in Times : x <= u /\ u < x + Window} : f[u] = 0
    BY <1>2
  <2> QED
    BY <2>1, PeriodsFinite, SumZero DEF Within
<1> QED
  BY <1>1, <1>2

(* The attempts g are those of f and d more at the moment c. *)
Put(f, g, c, d) ==
    g \in [Times -> Nat] /\ g[c] = f[c] + d /\ \A u \in Times : u # c => g[u] = f[u]

(* What d more attempts at the moment c do to the sums. *)
LEMMA SincePut ==
  ASSUME NEW f \in [Times -> Nat], NEW c \in Times, NEW d \in {0, 1}, NEW x \in Int,
         NEW g, Put(f, g, c, d)
  PROVE  /\ g \in [Times -> Nat]
         /\ x <= c => Since(g, x) = Since(f, x) + d
         /\ x > c => Since(g, x) = Since(f, x)
         /\ ~(x <= c /\ c < x + Window) => Within(g, x) = Within(f, x)
<1>1. /\ g \in [Times -> Nat] /\ g[c] = f[c] + d
      /\ \A u \in Times : f[u] \in Int /\ g[u] \in Int /\ (u # c => g[u] = f[u])
  BY DEF Put
<1>0. c \in Int /\ d \in Int /\ f[c] \in Int
  BY <1>1 DEF Times
<1>2. ASSUME x <= c PROVE Since(g, x) = Since(f, x) + d
  <2> DEFINE S == {u \in Times : x <= u}
  <2>1. c \in S /\ IsFiniteSet(S) /\ \A u \in S : f[u] \in Int /\ g[u] \in Int /\ (u # c => g[u] = f[u])
    BY <1>1, <1>2, PeriodsFinite
  <2>2. SumOver(f, S) \in Int
    BY <2>1, SumInt
  <2> HIDE DEF S
  <2>3. SumOver(g, S) = SumOver(f, S) - f[c] + g[c]
    BY <2>1, SumPut
  <2>4. SumOver(g, S) = SumOver(f, S) + d
    BY <1>0, <1>1, <2>2, <2>3
  <2> QED
    BY <2>4 DEF Since, S
<1>3. ASSUME x > c PROVE Since(g, x) = Since(f, x)
  <2> DEFINE S == {u \in Times : x <= u}
  <2>1. \A u \in S : f[u] \in Int /\ g[u] = f[u]
    BY <1>0, <1>1, <1>3 DEF Times
  <2>2. SumOver(g, S) = SumOver(f, S)
    BY <2>1, PeriodsFinite, SumSame
  <2> QED
    BY <2>2 DEF Since
<1>4. ASSUME ~(x <= c /\ c < x + Window) PROVE Within(g, x) = Within(f, x)
  <2> DEFINE S == {u \in Times : x <= u /\ u < x + Window}
  <2>1. \A u \in S : f[u] \in Int /\ g[u] = f[u]
    BY <1>0, <1>1, <1>4 DEF Times
  <2>2. SumOver(g, S) = SumOver(f, S)
    BY <2>1, PeriodsFinite, SumSame
  <2> QED
    BY <2>2 DEF Within
<1> QED
  BY <1>1, <1>2, <1>3, <1>4

(* A row after one more attempt: a new window, or one more in this one. *)
LEMMA RowCounted ==
  ASSUME NEW k \in Keys, clock \in Times, bucket[k] = NoTime \/ bucket[k] \in RowForms,
         bucket[k] \in RowForms /\ bucket[k].start = NoTime => bucket[k].until = NoTime
  PROVE  LET b == bucket[k]  r == WithLock(Counted(Row(k)))
         IN  /\ r \in RowForms
             /\ b = NoTime \/ b.start = NoTime \/ (b.start \in Int /\ clock - b.start > Window) =>
                   r.count = 1 /\ r.start = clock /\ r.until = NoTime
             /\ b \in RowForms /\ b.start \in Int /\ ~(clock - b.start > Window) =>
                   /\ r.count = b.count + 1 /\ r.start = b.start
                   /\ b.count + 1 >= MaxFailures => r.until = clock + Window
                   /\ b.count + 1 < MaxFailures => r.until = b.until
<1> DEFINE b == bucket[k]
           r == WithLock(Counted(Row(k)))
           one == [count |-> 1, start |-> clock, until |-> NoTime]
<1>1. clock \in Int /\ clock + Window \in Int /\ NoTime \notin Int /\ NoTime \notin RowForms
  BY ThrottleAssumption, NoTimeAssumption DEF Times, RowForms
<1>2. one \in RowForms /\ one.count = 1 /\ one.start = clock /\ one.until = NoTime
  BY <1>1 DEF RowForms
<1>3. ~(1 >= MaxFailures)
  BY ThrottleAssumption
<1>4. CASE b = NoTime
  <2>1. Row(k) = [count |-> 0, start |-> clock, until |-> NoTime]
    BY <1>4 DEF Row, Fresh
  <2>2. ~WindowOver(Row(k))
    BY <1>1, <2>1, ThrottleAssumption DEF WindowOver
  <2>3. Counted(Row(k)) = [Row(k) EXCEPT !.count = @ + 1]
    BY <2>2 DEF Counted
  <2>4. Counted(Row(k)) = one
    BY <2>1, <2>3
  <2>5. r = one
    BY <1>2, <1>3, <2>4 DEF WithLock
  <2> QED
    BY <1>1, <1>2, <1>4, <2>5
<1>5. CASE b \in RowForms /\ (b.start = NoTime \/ (b.start \in Int /\ clock - b.start > Window))
  <2>1. Row(k) = b
    BY <1>1, <1>5 DEF Row
  <2>2. WindowOver(Row(k))
    BY <1>5, <2>1 DEF WindowOver
  <2>3. Counted(Row(k)) = one
    BY <2>2 DEF Counted
  <2>5. r = one
    BY <1>2, <1>3, <2>3 DEF WithLock
  <2> QED
    BY <1>1, <1>2, <1>5, <2>5
<1>6. CASE b \in RowForms /\ b.start \in Int /\ ~(clock - b.start > Window)
  <2>1. Row(k) = b
    BY <1>1, <1>6 DEF Row
  <2>2. ~WindowOver(Row(k))
    BY <1>1, <1>6, <2>1 DEF WindowOver
  <2> DEFINE more == [b EXCEPT !.count = @ + 1]
  <2>3. Counted(Row(k)) = more
    BY <2>1, <2>2 DEF Counted
  <2>4. \A q \in RowForms : LET z == [q EXCEPT !.until = clock + Window]
                            IN  z \in RowForms /\ z.count = q.count /\ z.start = q.start /\ z.until = clock + Window
    BY <1>1 DEF RowForms
  <2>5. more \in RowForms /\ more.count = b.count + 1 /\ more.start = b.start /\ more.until = b.until /\ b.count \in Nat
    BY <1>6 DEF RowForms
  <2> HIDE DEF more
  <2>6. CASE b.count + 1 >= MaxFailures
    <3>1. r = [more EXCEPT !.until = clock + Window]
      BY <2>3, <2>5, <2>6 DEF WithLock
    <3>2. r \in RowForms /\ r.count = b.count + 1 /\ r.start = b.start /\ r.until = clock + Window
      BY <2>4, <2>5, <3>1
    <3>3. ~(b.count + 1 < MaxFailures)
      BY <2>5, <2>6, ThrottleAssumption
    <3> QED
      BY <1>1, <1>6, <3>2, <3>3
  <2>7. CASE ~(b.count + 1 >= MaxFailures)
    <3>1. r = more
      BY <2>3, <2>5, <2>7 DEF WithLock
    <3>2. r \in RowForms /\ r.count = b.count + 1 /\ r.start = b.start /\ r.until = b.until
      BY <2>5, <3>1
    <3> QED
      BY <1>1, <1>6, <2>7, <3>2
  <2> QED
    BY <2>6, <2>7
<1>7. b = NoTime \/ (b \in RowForms /\ b.start \in Int \cup {NoTime})
  BY DEF RowForms
<1> QED
  BY <1>4, <1>5, <1>6, <1>7

(* What a count has to establish for the row to hold: d attempts more, of *)
(* which the last window sees at most the limit.                          *)
LEMMA PeriodsKept ==
  ASSUME NEW f \in [Times -> Nat], NEW c \in Times, NEW d \in {0, 1}, NEW n \in Nat,
         \A t \in Times : Within(f, t) <= Limit(n),
         \A u \in Times : u > c => f[u] = 0,
         Since(f, c - Window + 1) + d <= Limit(n),
         NEW g, Put(f, g, c, d)
  PROVE  /\ g \in [Times -> Nat] /\ \A u \in Times : u > c => g[u] = 0
         /\ \A t \in Times : Within(g, t) <= Limit(n)
         /\ Since(g, c + 1) = 0
         /\ \A x \in Int : x <= c => Since(g, x) = Since(f, x) + d
         /\ \A x \in Int : Since(g, x) <= Since(f, x) + d
<1>1. c \in Int /\ c + 1 \in Int /\ c + 1 > c /\ c - Window + 1 \in Int /\ c - Window + 1 <= c /\ Limit(n) \in Int
  BY ThrottleAssumption DEF Times, Limit
<1>2. g \in [Times -> Nat] /\ \A u \in Times : u # c => g[u] = f[u]
  BY DEF Put
<1>3. \A u \in Times : u > c => g[u] = 0
  BY <1>1, <1>2 DEF Times
<1>4. ASSUME NEW x \in Int
      PROVE  /\ x <= c => Since(g, x) = Since(f, x) + d
             /\ x > c => Since(g, x) = Since(f, x)
             /\ ~(x <= c /\ c < x + Window) => Within(g, x) = Within(f, x)
  BY SincePut
<1>5. Since(g, c + 1) = 0
  <2>1. \A u \in Times : c + 1 <= u => g[u] = 0
    BY <1>1, <1>3 DEF Times
  <2> QED
    BY <2>1, SinceZero
<1>6. ASSUME NEW t \in Times PROVE Within(g, t) <= Limit(n)
  <2>1. t \in Int
    BY DEF Times
  <2>2. CASE ~(t <= c /\ c < t + Window)
    BY <1>4, <2>1, <2>2
  <2>3. CASE t <= c /\ c < t + Window
    <3>1. Within(g, t) \in Nat /\ Within(g, t) <= Since(g, t) /\ Since(g, t) \in Nat
      BY <1>2, SinceFacts
    <3>2. c - Window + 1 <= t
      BY <1>1, <2>1, <2>3, ThrottleAssumption
    <3>3. Since(f, t) <= Since(f, c - Window + 1) /\ Since(f, t) \in Nat /\ Since(f, c - Window + 1) \in Nat
      BY <1>1, <2>1, <3>2, SinceFacts
    <3>4. Since(g, t) = Since(f, t) + d
      BY <1>4, <2>1, <2>3
    <3> QED
      BY <1>1, <3>1, <3>3, <3>4
  <2> QED
    BY <2>2, <2>3
<1>7. \A x \in Int : Since(g, x) <= Since(f, x) + d
  <2>1. \A x : Since(f, x) \in Nat
    BY SinceFacts
  <2>2. \A x \in Int : x <= c \/ x > c
    BY <1>1
  <2> QED
    BY <1>4, <2>1, <2>2
<1> QED
  BY <1>2, <1>3, <1>4, <1>5, <1>6, <1>7

(* One more count keeps the row and its periods: a request that was let   *)
(* through (d = 1) or a refusal of the workspace login (d = 0), with G of *)
(* the requests still between the check and the count.                    *)
LEMMA CountKeeps ==
  ASSUME NEW k \in Keys, clock \in Times, NEW n \in Nat \ {0}, NEW F,
         KeyHolds(clock, bucket[k], taken[k], F, n),
         NEW d \in {0, 1}, NEW G \in 0 .. n - 1, LockedOut(k) => G + d <= F,
         NEW g, Put(taken[k], g, clock, d)
  PROVE  KeyHolds(clock, WithLock(Counted(Row(k))), g, G, n)
<1> DEFINE c == clock  b == bucket[k]  f == taken[k]
           r == WithLock(Counted(Row(k)))
           first == c - Window + 1
           R == Since(f, first)
<1>1. /\ f \in [Times -> Nat] /\ F \in 0 .. n /\ \A t \in Times : Within(f, t) <= Limit(n)
      /\ \A u \in Times : u > c => f[u] = 0
      /\ RowNew(b, f) \/ RowOpen(c, b, f, n) \/ RowFull(c, b, f, F, n)
  BY DEF KeyHolds
<1>2. /\ c \in Nat /\ c + 1 \in Int /\ n \in Nat /\ n >= 1 /\ d \in 0 .. 1 /\ G \in Nat /\ G <= n - 1
      /\ F \in Nat /\ MaxFailures \in Nat /\ MaxFailures >= 2 /\ Window \in Nat /\ Window >= 1
      /\ first \in Int /\ first <= c /\ Limit(n) = 2 * MaxFailures + 2 * n - 4 /\ Limit(n) \in Int
      /\ NoTime \notin Int
  <2>1. c \in Nat /\ c + 1 \in Int /\ d \in 0 .. 1
    BY ThrottleAssumption DEF Times
  <2>2. n \in Nat /\ n >= 1 /\ G \in Nat /\ G <= n - 1 /\ F \in Nat
    BY <1>1
  <2>3. MaxFailures \in Nat /\ MaxFailures >= 2 /\ Window \in Nat /\ Window >= 1 /\ NoTime \notin Int
    BY ThrottleAssumption, NoTimeAssumption
  <2>4. first \in Int /\ first <= c
    BY <2>1, <2>3
  <2>5. Limit(n) = 2 * MaxFailures + 2 * n - 4 /\ Limit(n) \in Int
    BY <2>2, <2>3 DEF Limit
  <2> QED
    BY <2>1, <2>2, <2>3, <2>4, <2>5
<1>3. /\ \A x : Since(f, x) \in Nat
      /\ \A x, y \in Int : x <= y => Since(f, y) <= Since(f, x)
  BY <1>1, SinceFacts
<1>4. ASSUME R + d <= Limit(n)
      PROVE  /\ g \in [Times -> Nat] /\ \A u \in Times : u > c => g[u] = 0
             /\ \A t \in Times : Within(g, t) <= Limit(n)
             /\ Since(g, c + 1) = 0
             /\ \A x \in Int : x <= c => Since(g, x) = Since(f, x) + d
             /\ \A x \in Int : Since(g, x) <= Since(f, x) + d
             /\ \A x : Since(g, x) \in Nat
  <2>1. /\ g \in [Times -> Nat] /\ \A u \in Times : u > c => g[u] = 0
        /\ \A t \in Times : Within(g, t) <= Limit(n)
        /\ Since(g, c + 1) = 0
        /\ \A x \in Int : x <= c => Since(g, x) = Since(f, x) + d
        /\ \A x \in Int : Since(g, x) <= Since(f, x) + d
    BY <1>1, <1>2, <1>4, PeriodsKept
  <2> QED
    BY <2>1, SinceFacts
<1>5. G \in 0 .. n
  BY <1>2
<1>6. b = NoTime \/ b \in RowForms
  BY <1>1 DEF RowNew, RowOpen, RowFull
<1>7. b \in RowForms /\ b.start = NoTime => b.until = NoTime
  BY <1>1, <1>2, NoTimeAssumption DEF RowNew, RowOpen, RowFull, RowForms
<1>8. /\ r \in RowForms
      /\ b = NoTime \/ b.start = NoTime \/ (b.start \in Int /\ c - b.start > Window) =>
            r.count = 1 /\ r.start = c /\ r.until = NoTime
      /\ b \in RowForms /\ b.start \in Int /\ ~(c - b.start > Window) =>
            /\ r.count = b.count + 1 /\ r.start = b.start
            /\ b.count + 1 >= MaxFailures => r.until = c + Window
            /\ b.count + 1 < MaxFailures => r.until = b.until
  BY <1>6, <1>7, RowCounted
<1>9. LockedOut(k) <=> b # NoTime /\ b.until # NoTime /\ b.until > c
  BY DEF LockedOut, LockedRow
<1> HIDE DEF c, b, f, r, first, R
(* A new window begins. *)
<1>10. ASSUME r.count = 1, r.start = c, r.until = NoTime, R + d <= MaxFailures + n - 2
       PROVE  KeyHolds(c, r, g, G, n)
  <2>1. R \in Nat
    BY <1>3 DEF R
  <2>2. R + d <= Limit(n)
    BY <1>2, <1>10, <2>1
  <2>3. Since(g, first) = R + d /\ Since(g, c + 1) = 0
    BY <1>2, <1>4, <2>2 DEF R
  <2>4. Since(g, r.start + 1) <= r.count - 1
    BY <1>2, <1>10, <2>3
  <2>5. Since(g, r.start - Window + 1) <= r.count + MaxFailures + n - 3
    <3>1. r.start - Window + 1 = first
      BY <1>10 DEF first
    <3> QED
      BY <1>2, <1>10, <2>1, <2>3, <3>1
  <2>6. r.count \in 1 .. MaxFailures - 1 /\ r.start \in 0 .. c
    BY <1>2, <1>10
  <2>7. RowOpen(c, r, g, n)
    BY <1>8, <1>10, <2>4, <2>5, <2>6 DEF RowOpen
  <2> QED
    BY <1>4, <1>5, <2>2, <2>7 DEF KeyHolds
(* The lock is set or extended. *)
<1>11. ASSUME b.start \in 0 .. c, r.count >= MaxFailures, r.start = b.start, r.until = c + Window,
              R + d + G <= Limit(n), Since(f, b.start + 1) + d + G <= MaxFailures + n - 2
       PROVE  KeyHolds(c, r, g, G, n)
  <2>1. R \in Nat /\ Since(f, b.start + 1) \in Nat
    BY <1>3 DEF R
  <2>2. R + d <= Limit(n)
    BY <1>2, <1>11, <2>1
  <2>3. Since(g, first) = R + d /\ Since(g, c + 1) = 0
    BY <1>2, <1>4, <2>2 DEF R
  <2>4. /\ r.until \in Int /\ r.until - Window = c /\ r.until - Window + 1 = c + 1 /\ r.start \in 0 .. c
        /\ r.start <= r.until - Window /\ r.until - Window <= c
    BY <1>2, <1>11
  <2>5. Since(g, r.until - Window + 1) = 0
    BY <2>3, <2>4
  <2>6. Since(g, first) + G <= Limit(n)
    BY <1>2, <1>11, <2>1, <2>3
  <2>7. b.start + 1 \in Int
    BY <1>2, <1>11
  <2>8. Since(g, b.start + 1) <= Since(f, b.start + 1) + d /\ Since(g, b.start + 1) \in Nat
    BY <1>4, <2>2, <2>7
  <2>9. Since(g, r.start + 1) + G <= MaxFailures + n - 2
    <3>1. Since(g, b.start + 1) + G <= MaxFailures + n - 2
      BY <1>2, <1>11, <2>1, <2>8
    <3> QED
      BY <1>11, <3>1
  <2>10. RowFull(c, r, g, G, n)
    BY <1>8, <1>11, <2>4, <2>5, <2>6, <2>9 DEF RowFull, first
  <2> QED
    BY <1>4, <1>5, <2>2, <2>10 DEF KeyHolds
<1>12. CASE RowNew(b, f)
  <2>1. r.count = 1 /\ r.start = c /\ r.until = NoTime
    BY <1>8, <1>12 DEF RowNew
  <2>2. R = 0
    BY <1>12, SinceZero DEF RowNew, R
  <2>3. R + d <= MaxFailures + n - 2
    BY <1>2, <2>2
  <2> QED
    BY <1>10, <2>1, <2>3 DEF c, r
<1>13. CASE RowOpen(c, b, f, n)
  <2> DEFINE s == b.start
  <2>1. /\ b \in RowForms /\ b.until = NoTime /\ b.count \in 1 .. MaxFailures - 1 /\ s \in 0 .. c
        /\ Since(f, s + 1) <= b.count - 1
        /\ Since(f, s - Window + 1) <= b.count + MaxFailures + n - 3
    BY <1>13 DEF RowOpen
  <2>2. s \in Int /\ s <= c /\ 0 <= s /\ b.count \in Nat /\ b.count >= 1 /\ b.count <= MaxFailures - 1
    BY <1>2, <2>1
  <2>3. R \in Nat /\ Since(f, s + 1) \in Nat /\ Since(f, s - Window + 1) \in Nat
    BY <1>3 DEF R
  <2>4. CASE c - s > Window
    <3>1. s + 1 <= first /\ s + 1 \in Int
      BY <1>2, <2>2, <2>4 DEF first
    <3>2. R <= Since(f, s + 1)
      BY <1>2, <1>3, <3>1 DEF R
    <3>3. R + d <= MaxFailures + n - 2
      BY <1>2, <2>1, <2>2, <2>3, <3>2
    <3>4. r.count = 1 /\ r.start = c /\ r.until = NoTime
      BY <1>8, <2>1, <2>2, <2>4
    <3> QED
      BY <1>10, <3>3, <3>4 DEF c, r
  <2>5. CASE ~(c - s > Window)
    <3>1. /\ r.count = b.count + 1 /\ r.start = s
          /\ b.count + 1 >= MaxFailures => r.until = c + Window
          /\ b.count + 1 < MaxFailures => r.until = NoTime
      BY <1>8, <2>1, <2>2, <2>5
    <3>2. s - Window + 1 <= first /\ s - Window + 1 \in Int /\ s + 1 \in Int /\ s - Window + 1 <= c
      BY <1>2, <2>2, <2>5 DEF first
    <3>3. R <= Since(f, s - Window + 1)
      BY <1>2, <1>3, <3>2 DEF R
    <3>4. CASE b.count + 1 >= MaxFailures
      <4>1. R + d + G <= Limit(n)
        BY <1>2, <2>1, <2>2, <2>3, <3>3
      <4>2. Since(f, s + 1) + d + G <= MaxFailures + n - 2
        BY <1>2, <2>1, <2>2, <2>3
      <4>3. r.count >= MaxFailures
        BY <3>1, <3>4
      <4> QED
        BY <1>11, <2>1, <3>1, <3>4, <4>1, <4>2, <4>3 DEF c, r
    <3>5. CASE b.count + 1 < MaxFailures
      <4>1. R + d <= Limit(n)
        BY <1>2, <2>1, <2>2, <2>3, <3>3
      <4>2. Since(g, s + 1) <= Since(f, s + 1) + d /\ Since(g, s + 1) \in Nat
        BY <1>4, <3>2, <4>1
      <4>3. Since(g, s - Window + 1) = Since(f, s - Window + 1) + d
        BY <1>4, <3>2, <4>1
      <4>4. Since(g, s + 1) <= b.count /\ Since(g, s - Window + 1) <= b.count + 1 + MaxFailures + n - 3
        BY <1>2, <2>1, <2>2, <2>3, <4>2, <4>3
      <4>5. Since(g, r.start + 1) <= r.count - 1 /\ Since(g, r.start - Window + 1) <= r.count + MaxFailures + n - 3
        <5>1. b.count = (b.count + 1) - 1
          BY <2>2
        <5> QED
          BY <3>1, <4>4, <5>1
      <4>6. r.count \in 1 .. MaxFailures - 1 /\ r.start \in 0 .. c /\ r.until = NoTime
        BY <1>2, <2>1, <2>2, <3>1, <3>5
      <4>7. RowOpen(c, r, g, n)
        BY <1>8, <4>5, <4>6 DEF RowOpen
      <4> QED
        BY <1>4, <1>5, <4>1, <4>7 DEF KeyHolds, c, r
    <3> QED
      BY <1>2, <2>2, <3>4, <3>5
  <2> QED
    BY <2>4, <2>5
<1>14. CASE RowFull(c, b, f, F, n)
  <2> DEFINE s == b.start
             e == b.until - Window
  <2>1. /\ b \in RowForms /\ b.until \in Int /\ b.count >= MaxFailures /\ s \in 0 .. c
        /\ s <= e /\ e <= c /\ Since(f, e + 1) = 0
        /\ b.until > c => Since(f, first) + F <= Limit(n) /\ Since(f, s + 1) + F <= MaxFailures + n - 2
    BY <1>14 DEF RowFull, first
  <2>2. s \in Int /\ s <= c /\ 0 <= s /\ b.count \in Nat /\ e \in Int /\ b.until = e + Window /\ b # NoTime
    BY <1>2, <2>1, NoTimeAssumption DEF RowForms
  <2> HIDE DEF e
  <2>3. R \in Nat /\ Since(f, s + 1) \in Nat
    BY <1>3 DEF R
  <2>4. CASE b.until > c
    <3>1. LockedOut(k)
      BY <1>2, <1>9, <2>1, <2>2, <2>4
    <3>2. G + d <= F
      BY <3>1
    <3>3. R + F <= Limit(n) /\ Since(f, s + 1) + F <= MaxFailures + n - 2
      BY <2>1, <2>4 DEF R
    <3>4. CASE c - s > Window
      <4>1. s + 1 <= first /\ s + 1 \in Int
        BY <1>2, <2>2, <3>4 DEF first
      <4>2. R <= Since(f, s + 1)
        BY <1>2, <1>3, <4>1 DEF R
      <4>3. R + d <= MaxFailures + n - 2
        BY <1>2, <2>3, <3>2, <3>3, <4>2
      <4>4. r.count = 1 /\ r.start = c /\ r.until = NoTime
        BY <1>8, <2>1, <2>2, <3>4
      <4> QED
        BY <1>10, <4>3, <4>4 DEF c, r
    <3>5. CASE ~(c - s > Window)
      <4>1. b.count + 1 >= MaxFailures
        BY <1>2, <2>1, <2>2
      <4>2. r.count = b.count + 1 /\ r.start = s /\ r.until = c + Window
        BY <1>8, <2>1, <2>2, <3>5, <4>1
      <4>3. R + d + G <= Limit(n) /\ Since(f, s + 1) + d + G <= MaxFailures + n - 2
        BY <1>2, <2>3, <3>2, <3>3
      <4> QED
        BY <1>11, <2>1, <4>1, <4>2, <4>3 DEF c, r
    <3> QED
      BY <3>4, <3>5
  <2>5. CASE ~(b.until > c)
    <3>1. e + 1 <= first /\ e + 1 \in Int
      BY <1>2, <2>1, <2>2, <2>5 DEF first
    <3>2. R = 0
      <4>1. R <= Since(f, e + 1)
        BY <1>2, <1>3, <3>1 DEF R
      <4> QED
        BY <2>1, <2>3, <4>1
    <3>3. CASE c - s > Window
      <4>1. R + d <= MaxFailures + n - 2
        BY <1>2, <3>2
      <4>2. r.count = 1 /\ r.start = c /\ r.until = NoTime
        BY <1>8, <2>1, <2>2, <3>3
      <4> QED
        BY <1>10, <4>1, <4>2 DEF c, r
    <3>4. CASE ~(c - s > Window)
      <4>1. b.count + 1 >= MaxFailures
        BY <1>2, <2>1, <2>2
      <4>2. r.count = b.count + 1 /\ r.start = s /\ r.until = c + Window
        BY <1>8, <2>1, <2>2, <3>4, <4>1
      <4>3. e = s
        BY <1>2, <2>1, <2>2, <2>5, <3>4
      <4>4. Since(f, s + 1) = 0
        BY <2>1, <4>3
      <4>5. R + d + G <= Limit(n) /\ Since(f, s + 1) + d + G <= MaxFailures + n - 2
        BY <1>2, <3>2, <4>4
      <4> QED
        BY <1>11, <2>1, <4>1, <4>2, <4>5 DEF c, r
    <3> QED
      BY <3>3, <3>4
  <2> QED
    BY <2>4, <2>5
<1> QED
  BY <1>1, <1>12, <1>13, <1>14 DEF c, b, f

(* reset_auth_throttle: nothing is left to hold against the key. *)
LEMMA ResetKeeps ==
  ASSUME NEW c \in Times, NEW b, NEW f, NEW n \in Nat \ {0}, NEW G \in 0 .. n,
         f \in [Times -> Nat], RowNew(b, f)
  PROVE  KeyHolds(c, b, f, G, n)
<1>1. \A u \in Times : f[u] = 0
  BY DEF RowNew
<1>2. Limit(n) \in Int /\ 0 <= Limit(n)
  BY ThrottleAssumption DEF Limit
<1>3. \A t \in Times : Within(f, t) = 0
  BY <1>1, SinceZero
<1> QED
  BY <1>1, <1>2, <1>3 DEF KeyHolds

(* A request that finds the key unlocked may come to be late. *)
LEMMA FoundUnlocked ==
  ASSUME NEW c \in Times, NEW b, NEW f, NEW n \in Nat \ {0}, NEW F, NEW G \in 0 .. n,
         KeyHolds(c, b, f, F, n), G <= F \/ ~(b # NoTime /\ b.until # NoTime /\ b.until > c)
  PROVE  KeyHolds(c, b, f, G, n)
<1>1. /\ f \in [Times -> Nat] /\ \A u \in Times : u > c => f[u] = 0
      /\ F \in 0 .. n /\ \A t \in Times : Within(f, t) <= Limit(n)
      /\ RowNew(b, f) \/ RowOpen(c, b, f, n) \/ RowFull(c, b, f, F, n)
  BY DEF KeyHolds
<1>2. ASSUME RowFull(c, b, f, F, n) PROVE RowFull(c, b, f, G, n)
  <2>1. \A x : Since(f, x) \in Nat
    BY <1>1, SinceFacts
  <2>2. c \in Int /\ b.until \in Int /\ b.until # NoTime /\ b # NoTime /\ Limit(n) \in Int
    BY <1>2, NoTimeAssumption, ThrottleAssumption DEF RowFull, RowForms, Times, Limit
  <2>3. b.until > c => G <= F /\ Since(f, c - Window + 1) + F <= Limit(n)
                       /\ Since(f, b.start + 1) + F <= MaxFailures + n - 2
    BY <1>2, <2>2 DEF RowFull
  <2>4. b.until > c => Since(f, c - Window + 1) + G <= Limit(n)
                       /\ Since(f, b.start + 1) + G <= MaxFailures + n - 2
    <3> DEFINE x == Since(f, c - Window + 1)
               y == Since(f, b.start + 1)
    <3>1. x \in Nat /\ y \in Nat
      BY <2>1
    <3> HIDE DEF x, y
    <3>2. b.until > c => x + G <= Limit(n) /\ y + G <= MaxFailures + n - 2
      BY <1>1, <2>2, <2>3, <3>1, ThrottleAssumption DEF x, y
    <3> QED
      BY <3>2 DEF x, y
  <2> QED
    BY <1>2, <2>4 DEF RowFull
<1> QED
  BY <1>1, <1>2 DEF KeyHolds

(* Time passes. *)
LEMMA TickKeeps ==
  ASSUME NEW c \in Times, c + 1 \in Times, NEW b, NEW f, NEW n \in Nat \ {0}, NEW F,
         KeyHolds(c, b, f, F, n)
  PROVE  KeyHolds(c + 1, b, f, F, n)
<1>1. /\ f \in [Times -> Nat] /\ \A u \in Times : u > c => f[u] = 0
      /\ F \in 0 .. n /\ \A t \in Times : Within(f, t) <= Limit(n)
      /\ RowNew(b, f) \/ RowOpen(c, b, f, n) \/ RowFull(c, b, f, F, n)
  BY DEF KeyHolds
<1>2. c \in Nat /\ \A u \in Times : u > c + 1 => f[u] = 0
  BY <1>1 DEF Times
<1>3. ASSUME RowOpen(c, b, f, n) PROVE RowOpen(c + 1, b, f, n)
  <2>1. b.start \in 0 .. c + 1
    BY <1>2, <1>3 DEF RowOpen
  <2> QED
    BY <1>3, <2>1 DEF RowOpen
<1>4. ASSUME RowFull(c, b, f, F, n) PROVE RowFull(c + 1, b, f, F, n)
  <2>1. b.start \in 0 .. c + 1 /\ b.until - Window <= c + 1 /\ (b.until > c + 1 => b.until > c)
    BY <1>2, <1>4, ThrottleAssumption DEF RowFull
  <2>2. c - Window + 1 \in Int /\ (c + 1) - Window + 1 \in Int /\ c - Window + 1 <= (c + 1) - Window + 1
    BY <1>2, ThrottleAssumption
  <2> DEFINE x == Since(f, c - Window + 1)
             y == Since(f, (c + 1) - Window + 1)
  <2>3. x \in Nat /\ y \in Nat /\ y <= x
    BY <1>1, <2>2, SinceFacts
  <2>4. b.until > c + 1 => x + F <= Limit(n) /\ Since(f, b.start + 1) + F <= MaxFailures + n - 2
    BY <1>4, <2>1 DEF RowFull
  <2>5. Limit(n) \in Int /\ F \in Nat
    BY <1>1, ThrottleAssumption DEF Limit
  <2> HIDE DEF x, y
  <2>6. b.until > c + 1 => y + F <= Limit(n)
    BY <2>3, <2>4, <2>5
  <2> QED
    BY <1>4, <2>1, <2>4, <2>6 DEF RowFull, y
<1> QED
  BY <1>1, <1>2, <1>3, <1>4 DEF KeyHolds

(* The requests between the check of key k and its count, in att. *)
LateOn(att, k) == {a \in Attempts : att[a].at = "checked" /\ att[a].key = k}
Late(att, k) == Cardinality(LateOn(att, k))

(* How many of them there can be: the form admits and counts in one go. *)
Slots(k) == IF k \in LoginKeys THEN Cardinality(Attempts) ELSE 1

AttemptForms ==
    {NoAttempt} \cup [at : {"checked", "in"}, key : LoginKeys] \cup [at : {"address"}, key : AddressKeys]

ThrottleInv ==
    /\ clock \in Times /\ attempt \in [Attempts -> AttemptForms]
    /\ bucket \in [Keys -> RowForms \cup {NoTime}] /\ taken \in [Keys -> [Times -> Nat]]
    /\ \A k \in Keys : KeyHolds(clock, bucket[k], taken[k], Late(attempt, k), Slots(k))

(* What each form of a request is about. *)
LEMMA AttemptFields ==
  /\ \A q \in AttemptForms : /\ q.at \in {"idle", "checked", "in", "address"}
                             /\ q.at \in {"checked", "in"} => q.key \in LoginKeys
  /\ NoAttempt \in AttemptForms /\ NoAttempt.at = "idle"
  /\ \A k \in LoginKeys, s \in {"checked", "in"} :
        [at |-> s, key |-> k] \in AttemptForms
  /\ \A k \in AddressKeys : [at |-> "address", key |-> k] \in AttemptForms
BY DEF AttemptForms, NoAttempt

(* The number of late requests is bounded. *)
LEMMA LateBounds ==
  ASSUME NEW att \in [Attempts -> AttemptForms], NEW k \in Keys
  PROVE  /\ IsFiniteSet(LateOn(att, k)) /\ Late(att, k) \in 0 .. Slots(k)
         /\ Slots(k) \in Nat \ {0} /\ (k \notin LoginKeys => Late(att, k) = 0)
<1>1. LateOn(att, k) \in SUBSET Attempts
  BY DEF LateOn
<1>2. /\ IsFiniteSet(LateOn(att, k)) /\ Late(att, k) \in Nat /\ Late(att, k) <= Cardinality(Attempts)
      /\ Cardinality(Attempts) \in Nat
  BY <1>1, FS_Subset, FS_CardinalityType, ThrottleAssumption DEF Late
<1>3. Cardinality(Attempts) # 0
  BY FS_EmptySet, ThrottleAssumption
<1>4. CASE k \in LoginKeys
  BY <1>2, <1>3, <1>4 DEF Slots
<1>5. CASE k \notin LoginKeys
  <2>1. LateOn(att, k) = {}
    BY <1>5, AttemptFields DEF LateOn
  <2>2. Late(att, k) = 0
    BY <2>1, FS_EmptySet DEF Late
  <2> QED
    BY <1>2, <1>5, <2>2 DEF Slots
<1> QED
  BY <1>4, <1>5

(* Request a becomes q. *)
Moves(att, new, a, q) ==
    new \in [Attempts -> AttemptForms] /\ new[a] = q /\ \A x \in Attempts : x # a => new[x] = att[x]

(* A request that moves changes what is late on its own key only. *)
LEMMA LateMoves ==
  ASSUME NEW att \in [Attempts -> AttemptForms], NEW a \in Attempts, NEW q \in AttemptForms,
         NEW new, Moves(att, new, a, q), NEW k \in Keys
  PROVE  /\ new \in [Attempts -> AttemptForms]
         /\ ~(att[a].at = "checked" /\ att[a].key = k) /\ ~(q.at = "checked" /\ q.key = k) =>
               Late(new, k) = Late(att, k)
         /\ att[a].at = "checked" /\ att[a].key = k /\ q.at # "checked" =>
               Late(new, k) = Late(att, k) - 1
         /\ att[a].at # "checked" =>
               /\ Late(att, k) \in 0 .. Cardinality(Attempts) - 1
               /\ q.at = "checked" /\ q.key = k => Late(new, k) = Late(att, k) + 1
<1> DEFINE L == LateOn(att, k)
<1>1. IsFiniteSet(L) /\ Cardinality(L) \in Nat /\ Late(att, k) = Cardinality(L)
  BY LateBounds, FS_CardinalityType DEF Late
<1>2. new \in [Attempts -> AttemptForms] /\ new[a] = q /\ \A x \in Attempts : x # a => new[x] = att[x]
  BY DEF Moves
<1>3. ASSUME ~(att[a].at = "checked" /\ att[a].key = k), ~(q.at = "checked" /\ q.key = k)
      PROVE  Late(new, k) = Late(att, k)
  <2>1. LateOn(new, k) = L
    BY <1>2, <1>3, Zenon DEF LateOn
  <2> QED
    BY <2>1, Zenon DEF Late
<1>4. ASSUME att[a].at = "checked", att[a].key = k, q.at # "checked"
      PROVE  Late(new, k) = Late(att, k) - 1
  <2>1. LateOn(new, k) = L \ {a} /\ a \in L
    BY <1>2, <1>4, Zenon DEF LateOn
  <2>2. Cardinality(L \ {a}) = Cardinality(L) - 1
    BY <1>1, <2>1, FS_RemoveElement
  <2> QED
    BY <1>1, <2>1, <2>2 DEF Late
<1>5. ASSUME att[a].at # "checked"
      PROVE  /\ Late(att, k) \in 0 .. Cardinality(Attempts) - 1
             /\ q.at = "checked" /\ q.key = k => Late(new, k) = Late(att, k) + 1
  <2>1. a \notin L /\ L \cup {a} \in SUBSET Attempts
    BY <1>5, Zenon DEF LateOn
  <2>2. IsFiniteSet(L \cup {a}) /\ Cardinality(L \cup {a}) = Cardinality(L) + 1
    BY <1>1, <2>1, FS_AddElement
  <2>3. Cardinality(L \cup {a}) <= Cardinality(Attempts) /\ Cardinality(Attempts) \in Nat
    BY <2>1, FS_Subset, FS_CardinalityType, ThrottleAssumption
  <2>4. Late(att, k) \in 0 .. Cardinality(Attempts) - 1
    BY <1>1, <2>2, <2>3
  <2>5. ASSUME q.at = "checked", q.key = k PROVE Late(new, k) = Late(att, k) + 1
    <3>1. LateOn(new, k) = L \cup {a}
      BY <1>2, <2>5, Zenon DEF LateOn
    <3> QED
      BY <1>1, <2>2, <3>1 DEF Late
  <2> QED
    BY <2>4, <2>5
<1> QED
  BY <1>2, <1>3, <1>4, <1>5

(* A step that is about one key. *)
LEMMA OneKeyStep ==
  ASSUME ThrottleInv, NEW k \in Keys, clock' = clock, attempt' \in [Attempts -> AttemptForms],
         bucket' \in [Keys -> RowForms \cup {NoTime}], taken' \in [Keys -> [Times -> Nat]],
         \A j \in Keys : j # k => /\ bucket'[j] = bucket[j] /\ taken'[j] = taken[j]
                                  /\ Late(attempt', j) = Late(attempt, j),
         KeyHolds(clock, bucket'[k], taken'[k], Late(attempt', k), Slots(k))
  PROVE  ThrottleInv'
<1>1. \A j \in Keys : KeyHolds(clock', bucket'[j], taken'[j], Late(attempt', j), Slots(j))
  <2> TAKE j \in Keys
  <2>1. CASE j = k
    BY <2>1
  <2>2. CASE j # k
    <3>1. KeyHolds(clock, bucket[j], taken[j], Late(attempt, j), Slots(j))
      BY DEF ThrottleInv
    <3> QED
      BY <2>2, <3>1
  <2> QED
    BY <2>1, <2>2
<1>2. (\A j \in Keys : KeyHolds(clock, bucket[j], taken[j], Late(attempt, j), Slots(j)))'
  BY <1>1
<1>3. clock' \in Times
  BY DEF ThrottleInv
<1> QED
  BY <1>2, <1>3 DEF ThrottleInv

(* The step lets d attempts through on key k. *)
Lets(k, d) == (d = 1 /\ Take(k)) \/ (d = 0 /\ taken' = taken)

(* A step that counts on key k, and lets d attempts through. *)
LEMMA RecordStep ==
  ASSUME ThrottleInv, NEW k \in Keys, clock' = clock, Record(k), attempt' \in [Attempts -> AttemptForms],
         NEW d \in {0, 1}, Late(attempt', k) \in 0 .. Slots(k) - 1,
         LockedOut(k) => Late(attempt', k) + d <= Late(attempt, k),
         \A j \in Keys : j # k => Late(attempt', j) = Late(attempt, j),
         Lets(k, d)
  PROVE  ThrottleInv'
<1>1. /\ clock \in Times /\ bucket \in [Keys -> RowForms \cup {NoTime}] /\ taken \in [Keys -> [Times -> Nat]]
      /\ KeyHolds(clock, bucket[k], taken[k], Late(attempt, k), Slots(k))
  BY DEF ThrottleInv
<1>2. Slots(k) \in Nat \ {0}
  BY LateBounds DEF ThrottleInv
<1>3. /\ taken' \in [Keys -> [Times -> Nat]] /\ Put(taken[k], taken'[k], clock, d)
      /\ \A j \in Keys : j # k => taken'[j] = taken[j]
  <2>1. CASE d = 1 /\ Take(k)
    <3>1. taken' = [taken EXCEPT ![k] = [taken[k] EXCEPT ![clock] = taken[k][clock] + 1]]
      BY <2>1 DEF Take
    <3>2. taken[k] \in [Times -> Nat] /\ taken[k][clock] + 1 \in Nat
      BY <1>1
    <3>3. [taken[k] EXCEPT ![clock] = taken[k][clock] + 1] \in [Times -> Nat]
      BY <3>2
    <3>4. taken'[k] = [taken[k] EXCEPT ![clock] = taken[k][clock] + 1]
      BY <1>1, <3>1
    <3>5. taken' \in [Keys -> [Times -> Nat]] /\ \A j \in Keys : j # k => taken'[j] = taken[j]
      BY <1>1, <3>1, <3>3
    <3>6. Put(taken[k], taken'[k], clock, d)
      BY <1>1, <2>1, <3>2, <3>3, <3>4 DEF Put
    <3> QED
      BY <3>5, <3>6
  <2>2. CASE d = 0 /\ taken' = taken
    <3>1. taken[k] \in [Times -> Nat] /\ taken[k][clock] = taken[k][clock] + 0
      BY <1>1
    <3> QED
      BY <1>1, <2>2, <3>1 DEF Put
  <2> QED
    BY <2>1, <2>2 DEF Lets
<1>4. KeyHolds(clock, WithLock(Counted(Row(k))), taken'[k], Late(attempt', k), Slots(k))
  BY <1>1, <1>2, <1>3, CountKeeps
<1>5. WithLock(Counted(Row(k))) \in RowForms \cup {NoTime}
  BY <1>4 DEF KeyHolds, RowNew, RowOpen, RowFull
<1>6. /\ bucket' \in [Keys -> RowForms \cup {NoTime}] /\ bucket'[k] = WithLock(Counted(Row(k)))
      /\ \A j \in Keys : j # k => bucket'[j] = bucket[j]
  BY <1>1, <1>5 DEF Record
<1> QED
  BY <1>3, <1>4, <1>6, OneKeyStep

(* A step that empties the row of key k. *)
LEMMA ResetStep ==
  ASSUME ThrottleInv, NEW k \in Keys, clock' = clock, Reset(k), attempt' \in [Attempts -> AttemptForms],
         \A j \in Keys : j # k => Late(attempt', j) = Late(attempt, j)
  PROVE  ThrottleInv'
<1> DEFINE none == [t \in 0 .. MaxThrottleTime |-> 0]
           empty == [count |-> 0, start |-> NoTime, until |-> NoTime]
<1>1. clock \in Times /\ bucket \in [Keys -> RowForms \cup {NoTime}] /\ taken \in [Keys -> [Times -> Nat]]
  BY DEF ThrottleInv
<1>2. none \in [Times -> Nat] /\ \A u \in Times : none[u] = 0
  BY DEF Times
<1>3. empty \in RowForms /\ empty.start = NoTime /\ empty.until = NoTime
  BY DEF RowForms
<1>4. /\ taken' = [taken EXCEPT ![k] = none]
      /\ bucket' = [bucket EXCEPT ![k] = IF bucket[k] = NoTime THEN NoTime ELSE empty]
  BY DEF Reset
<1> HIDE DEF none, empty
<1>5. /\ taken' \in [Keys -> [Times -> Nat]] /\ taken'[k] = none
      /\ \A j \in Keys : j # k => taken'[j] = taken[j]
  BY <1>1, <1>2, <1>4
<1>6. /\ bucket' \in [Keys -> RowForms \cup {NoTime}] /\ bucket'[k] \in {NoTime, empty}
      /\ \A j \in Keys : j # k => bucket'[j] = bucket[j]
  BY <1>1, <1>3, <1>4
<1>7. RowNew(bucket'[k], taken'[k]) /\ taken'[k] \in [Times -> Nat]
  BY <1>2, <1>3, <1>5, <1>6 DEF RowNew
<1>8. Late(attempt', k) \in 0 .. Slots(k) /\ Slots(k) \in Nat \ {0}
  BY LateBounds
<1>9. KeyHolds(clock, bucket'[k], taken'[k], Late(attempt', k), Slots(k))
  BY <1>1, <1>7, <1>8, ResetKeeps
<1> QED
  BY <1>5, <1>6, <1>9, OneKeyStep

(* A step that leaves the rows alone and lets nobody be late on a locked key. *)
LEMMA RequestStep ==
  ASSUME ThrottleInv, UNCHANGED <<clock, bucket, taken>>, attempt' \in [Attempts -> AttemptForms],
         \A k \in Keys : Late(attempt', k) <= Late(attempt, k) \/ ~LockedOut(k)
  PROVE  ThrottleInv'
<1>1. /\ clock \in Times /\ bucket \in [Keys -> RowForms \cup {NoTime}] /\ taken \in [Keys -> [Times -> Nat]]
      /\ \A k \in Keys : KeyHolds(clock, bucket[k], taken[k], Late(attempt, k), Slots(k))
  BY DEF ThrottleInv
<1>2. ASSUME NEW k \in Keys PROVE KeyHolds(clock, bucket[k], taken[k], Late(attempt', k), Slots(k))
  <2>1. Late(attempt', k) \in 0 .. Slots(k) /\ Slots(k) \in Nat \ {0}
    BY LateBounds
  <2>2. \/ Late(attempt', k) <= Late(attempt, k)
        \/ ~(bucket[k] # NoTime /\ bucket[k].until # NoTime /\ bucket[k].until > clock)
    BY DEF LockedOut, LockedRow
  <2> QED
    BY <1>1, <2>1, <2>2, FoundUnlocked
<1>3. (\A k \in Keys : KeyHolds(clock, bucket[k], taken[k], Late(attempt, k), Slots(k)))'
  BY <1>2
<1> QED
  BY <1>1, <1>3 DEF ThrottleInv

(* Every step keeps the invariant. *)
LEMMA ThrottleKept == ThrottleInv /\ [ThrottleNext]_throttleVars => ThrottleInv'
<1> SUFFICES ASSUME ThrottleInv, [ThrottleNext]_throttleVars PROVE ThrottleInv'
  OBVIOUS
<1>0. /\ clock \in Times /\ attempt \in [Attempts -> AttemptForms]
      /\ bucket \in [Keys -> RowForms \cup {NoTime}]
      /\ LoginKeys \subseteq Keys /\ AddressKeys \subseteq Keys /\ PhoneKeys \subseteq Keys
  BY DEF ThrottleInv, Keys
<1>1. ASSUME NEW k \in Keys
      PROVE  /\ Late(attempt, k) \in 0 .. Slots(k) /\ Late(attempt, k) <= Late(attempt, k)
             /\ Slots(k) \in Nat \ {0}
             /\ (k \notin LoginKeys => Late(attempt, k) = 0)
  BY <1>0, LateBounds
<1>m. ASSUME NEW a \in Attempts, NEW q \in AttemptForms, attempt' = [attempt EXCEPT ![a] = q]
      PROVE  Moves(attempt, attempt', a, q)
  BY <1>0, <1>m DEF Moves
(* What is late when a request that is not, moves on. *)
<1>2. ASSUME NEW a \in Attempts, attempt[a].at # "checked", NEW q \in AttemptForms, q.at # "checked",
             attempt' = [attempt EXCEPT ![a] = q]
      PROVE  /\ attempt' \in [Attempts -> AttemptForms]
             /\ \A k \in Keys : Late(attempt', k) = Late(attempt, k)
  <2>1. Moves(attempt, attempt', a, q)
    BY <1>2, <1>m
  <2> QED
    BY <1>0, <1>2, <2>1, LateMoves
<1>3. ASSUME NEW a \in Attempts, NEW k \in LoginKeys, LoginCheck(a, k) PROVE ThrottleInv'
  <2> DEFINE q == [at |-> "checked", key |-> k]
  <2>1. q \in AttemptForms /\ q.at = "checked" /\ q.key = k /\ attempt[a].at = "idle" /\ attempt[a].at # "checked"
    BY <1>3, AttemptFields DEF LoginCheck
  <2>2. attempt' = [attempt EXCEPT ![a] = q] /\ ~LockedOut(k) /\ UNCHANGED <<clock, bucket, taken>>
    BY <1>3 DEF LoginCheck
  <2> HIDE DEF q
  <2>3. /\ attempt' \in [Attempts -> AttemptForms]
        /\ \A j \in Keys : j # k => Late(attempt', j) = Late(attempt, j)
    <3>1. Moves(attempt, attempt', a, q)
      BY <1>m, <2>1, <2>2
    <3> QED
      BY <1>0, <2>1, <3>1, LateMoves
  <2> QED
    BY <1>1, <2>2, <2>3, RequestStep
<1>4. ASSUME NEW a \in Attempts, LoginOutcome(a) PROVE ThrottleInv'
  <2> DEFINE k == attempt[a].key
  <2>1. attempt[a].at = "checked" /\ attempt' = [attempt EXCEPT ![a] = NoAttempt] /\ clock' = clock
    BY <1>4 DEF LoginOutcome
  <2>2. k \in LoginKeys /\ k \in Keys /\ NoAttempt \in AttemptForms /\ NoAttempt.at # "checked"
    BY <1>0, <2>1, AttemptFields
  <2>3. (Record(k) /\ Take(k)) \/ Reset(k)
    BY <1>4 DEF LoginOutcome
  <2>m. Moves(attempt, attempt', a, NoAttempt)
    BY <1>m, <2>1, <2>2
  <2>4. attempt' \in [Attempts -> AttemptForms] /\ Late(attempt', k) = Late(attempt, k) - 1
    BY <1>0, <2>1, <2>2, <2>m, LateMoves
  <2>5. \A j \in Keys : j # k => Late(attempt', j) = Late(attempt, j)
    BY <1>0, <2>1, <2>2, <2>m, LateMoves
  <2> HIDE DEF k
  <2>6. Late(attempt', k) \in 0 .. Slots(k) - 1 /\ Late(attempt', k) + 1 <= Late(attempt, k)
    <3>1. Late(attempt', k) \in 0 .. Slots(k)
      BY <2>2, <2>4, LateBounds
    <3> QED
      BY <1>1, <2>2, <2>4, <3>1
  <2>7. CASE Record(k) /\ Take(k)
    <3>1. Lets(k, 1)
      BY <2>7 DEF Lets
    <3> QED
      BY <2>1, <2>2, <2>4, <2>5, <2>6, <2>7, <3>1, RecordStep
  <2>8. CASE Reset(k)
    BY <2>1, <2>2, <2>4, <2>5, <2>8, ResetStep
  <2> QED
    BY <2>3, <2>7, <2>8
<1>5. ASSUME NEW a \in Attempts, NEW k \in LoginKeys, WebRefused(a, k) PROVE ThrottleInv'
  <2>1. attempt[a] = NoAttempt /\ Record(k) /\ UNCHANGED <<clock, attempt, taken>>
    BY <1>5 DEF WebRefused
  <2>2. attempt[a].at # "checked" /\ NoAttempt \in AttemptForms /\ k \in Keys
    BY <1>0, <2>1, AttemptFields
  <2>3. Late(attempt, k) \in 0 .. Cardinality(Attempts) - 1
    <3>1. Moves(attempt, attempt, a, NoAttempt)
      BY <1>0, <2>1 DEF Moves
    <3> QED
      BY <1>0, <2>2, <3>1, LateMoves
  <2>4. Late(attempt, k) \in 0 .. Slots(k) - 1 /\ Late(attempt, k) + 0 <= Late(attempt, k)
    BY <2>3 DEF Slots
  <2>5. Lets(k, 0)
    BY <2>1 DEF Lets
  <2> QED
    BY <1>0, <2>1, <2>2, <2>4, <2>5, RecordStep
<1>6. ASSUME NEW a \in Attempts, NEW k \in LoginKeys, WebAccepted(a, k) PROVE ThrottleInv'
  <2> DEFINE q == [at |-> "in", key |-> k]
  <2>1. q \in AttemptForms /\ q.at # "checked" /\ attempt[a].at # "checked"
    BY <1>6, AttemptFields DEF WebAccepted
  <2>2. attempt' = [attempt EXCEPT ![a] = q] /\ UNCHANGED <<clock, bucket, taken>>
    BY <1>6 DEF WebAccepted
  <2> HIDE DEF q
  <2> QED
    BY <1>1, <1>2, <2>1, <2>2, RequestStep
<1>7. ASSUME NEW a \in Attempts, WebReset(a) PROVE ThrottleInv'
  <2> DEFINE k == attempt[a].key
  <2>1. /\ attempt[a].at = "in" /\ attempt' = [attempt EXCEPT ![a] = NoAttempt] /\ clock' = clock
        /\ Reset(k)
    BY <1>7 DEF WebReset
  <2>2. k \in Keys /\ NoAttempt \in AttemptForms /\ NoAttempt.at # "checked" /\ attempt[a].at # "checked"
    BY <1>0, <2>1, AttemptFields
  <2> HIDE DEF k
  <2> QED
    BY <1>2, <2>1, <2>2, ResetStep
(* The form counts where the key is not locked, and nobody is late there. *)
<1>8. ASSUME NEW k \in AddressKeys \cup PhoneKeys, Admit(k), clock' = clock,
             attempt' \in [Attempts -> AttemptForms],
             \A j \in Keys : Late(attempt', j) = Late(attempt, j)
      PROVE  ThrottleInv'
  <2>1. k \in Keys /\ k \notin LoginKeys
    BY <1>0, KeysAssumption
  <2>2. Slots(k) = 1 /\ Late(attempt', k) = 0 /\ Late(attempt', k) \in 0 .. Slots(k) - 1
    BY <1>1, <1>8, <2>1 DEF Slots
  <2>3. ~LockedOut(k)
    BY <1>8 DEF Admit, LockedOut, Row
  <2>4. Record(k) /\ Lets(k, 1)
    BY <1>8 DEF Admit, Lets
  <2> QED
    BY <1>8, <2>1, <2>2, <2>3, <2>4, RecordStep
<1>9. ASSUME NEW a \in Attempts, NEW k \in AddressKeys, RegisterAddress(a, k) PROVE ThrottleInv'
  <2> DEFINE q == [at |-> "address", key |-> k]
  <2>1. q \in AttemptForms /\ q.at # "checked" /\ attempt[a].at # "checked"
    BY <1>9, AttemptFields DEF RegisterAddress
  <2>2. attempt' = [attempt EXCEPT ![a] = q] /\ Admit(k) /\ clock' = clock
    BY <1>9 DEF RegisterAddress
  <2> HIDE DEF q
  <2> QED
    BY <1>2, <1>8, <2>1, <2>2
<1>10. ASSUME NEW a \in Attempts, NEW k \in PhoneKeys, RegisterPhone(a, k) PROVE ThrottleInv'
  <2>1. attempt[a].at # "checked" /\ NoAttempt \in AttemptForms /\ NoAttempt.at # "checked"
    BY <1>10, AttemptFields DEF RegisterPhone
  <2>2. /\ attempt' = [attempt EXCEPT ![a] = NoAttempt] /\ clock' = clock
        /\ Admit(k) \/ UNCHANGED <<bucket, taken>>
    BY <1>10 DEF RegisterPhone
  <2>3. attempt' \in [Attempts -> AttemptForms] /\ \A j \in Keys : Late(attempt', j) = Late(attempt, j)
    BY <1>2, <2>1, <2>2
  <2>4. CASE Admit(k)
    BY <1>8, <2>2, <2>3, <2>4
  <2>5. CASE UNCHANGED <<bucket, taken>>
    BY <1>1, <2>2, <2>3, <2>5, RequestStep
  <2> QED
    BY <2>2, <2>4, <2>5
<1>11. ASSUME NEW a \in Attempts, RegisterWithoutPhone(a) PROVE ThrottleInv'
  <2>1. attempt[a].at # "checked" /\ NoAttempt \in AttemptForms /\ NoAttempt.at # "checked"
    BY <1>11, AttemptFields DEF RegisterWithoutPhone
  <2>2. attempt' = [attempt EXCEPT ![a] = NoAttempt] /\ UNCHANGED <<clock, bucket, taken>>
    BY <1>11 DEF RegisterWithoutPhone
  <2> QED
    BY <1>1, <1>2, <2>1, <2>2, RequestStep
<1>12. ASSUME ThrottleTick PROVE ThrottleInv'
  <2>1. clock' = clock + 1 /\ clock' \in Times /\ UNCHANGED <<bucket, attempt, taken>>
    BY <1>0, <1>12, ThrottleAssumption DEF ThrottleTick, Times
  <2>2. \A k \in Keys : KeyHolds(clock + 1, bucket[k], taken[k], Late(attempt, k), Slots(k))
    BY <1>0, <1>1, <2>1, TickKeeps DEF ThrottleInv
  <2>3. (\A k \in Keys : KeyHolds(clock, bucket[k], taken[k], Late(attempt, k), Slots(k)))'
    BY <2>1, <2>2
  <2> QED
    BY <2>1, <2>3 DEF ThrottleInv
<1>13. CASE UNCHANGED throttleVars
  <2>1. UNCHANGED <<clock, bucket, attempt, taken>>
    BY <1>13 DEF throttleVars
  <2> QED
    BY <1>0, <1>1, <2>1, RequestStep
<1> QED
  BY <1>3, <1>4, <1>5, <1>6, <1>7, <1>9, <1>10, <1>11, <1>12, <1>13
     DEF ThrottleNext, ApiLogin, Answer, WebForm, WebEnter, Register

(* No attempt has been made. *)
LEMMA ThrottleStarts == ThrottleInit => ThrottleInv
<1> SUFFICES ASSUME ThrottleInit PROVE ThrottleInv
  OBVIOUS
<1>1. /\ clock = 0 /\ bucket = [k \in Keys |-> NoTime] /\ attempt = [a \in Attempts |-> NoAttempt]
      /\ taken = [k \in Keys |-> [t \in Times |-> 0]]
  BY DEF ThrottleInit, Times
<1>2. clock \in Times /\ attempt \in [Attempts -> AttemptForms] /\ bucket \in [Keys -> RowForms \cup {NoTime}]
  BY <1>1, ThrottleAssumption, AttemptFields DEF Times
<1>3. taken \in [Keys -> [Times -> Nat]]
  BY <1>1
<1>4. ASSUME NEW k \in Keys PROVE KeyHolds(clock, bucket[k], taken[k], Late(attempt, k), Slots(k))
  <2>1. RowNew(bucket[k], taken[k]) /\ taken[k] \in [Times -> Nat]
    BY <1>1, <1>3 DEF RowNew
  <2>2. Late(attempt, k) \in 0 .. Slots(k) /\ Slots(k) \in Nat \ {0}
    BY <1>2, LateBounds
  <2> QED
    BY <1>2, <2>1, <2>2, ResetKeeps
<1> QED
  BY <1>2, <1>3, <1>4 DEF ThrottleInv

(* The invariant bounds the attempts of every period. *)
LEMMA ThrottleImplies == ThrottleInv => AttemptsAreBounded
<1> SUFFICES ASSUME ThrottleInv PROVE AttemptsAreBounded
  OBVIOUS
<1>1. /\ clock \in Times /\ attempt \in [Attempts -> AttemptForms]
      /\ \A k \in Keys : KeyHolds(clock, bucket[k], taken[k], Late(attempt, k), Slots(k))
  BY DEF ThrottleInv
<1>2. clock \in Nat /\ clock \in 0 .. MaxThrottleTime /\ 0 .. clock \subseteq Times
  BY <1>1, ThrottleAssumption DEF Times
<1>3. ASSUME NEW k \in Keys
      PROVE  \/ bucket[k] = NoTime
             \/ /\ bucket[k] \in [count : Nat, start : 0 .. clock \cup {NoTime},
                                  until : 0 .. clock + Window \cup {NoTime}]
                /\ bucket[k].until # NoTime => bucket[k].count >= MaxFailures
  <2> DEFINE b == bucket[k]
             typed == [count : Nat, start : 0 .. clock \cup {NoTime}, until : 0 .. clock + Window \cup {NoTime}]
  <2>1. \A q \in RowForms : q.start \in 0 .. clock \cup {NoTime} /\ q.until \in 0 .. clock + Window \cup {NoTime}
                               => q \in typed
    BY DEF RowForms
  <2>2. RowNew(b, taken[k]) \/ RowOpen(clock, b, taken[k], Slots(k))
          \/ RowFull(clock, b, taken[k], Late(attempt, k), Slots(k))
    BY <1>1 DEF KeyHolds
  <2> DEFINE Goal == b = NoTime \/ (b \in typed /\ (b.until # NoTime => b.count >= MaxFailures))
  <2> HIDE DEF typed
  <2> SUFFICES Goal
    BY DEF typed
  <2>3. CASE RowNew(b, taken[k])
    BY <2>1, <2>3 DEF RowNew
  <2>4. CASE RowOpen(clock, b, taken[k], Slots(k))
    BY <2>1, <2>4 DEF RowOpen
  <2>5. CASE RowFull(clock, b, taken[k], Late(attempt, k), Slots(k))
    <3>1. /\ b \in RowForms /\ b.until \in Int /\ b.count >= MaxFailures /\ b.start \in 0 .. clock
          /\ b.start <= b.until - Window /\ b.until - Window <= clock
      BY <2>5 DEF RowFull
    <3>2. b.until \in 0 .. clock + Window
      BY <1>2, <3>1, ThrottleAssumption
    <3> QED
      BY <2>1, <3>1, <3>2
  <2> QED
    BY <2>2, <2>3, <2>4, <2>5
<1>4. ThrottleTypeOK
  BY <1>1, <1>2, <1>3, AttemptFields DEF ThrottleTypeOK
<1>5. ASSUME NEW k \in Keys, NEW t \in 0 .. clock PROVE TakenFrom(k, t) <= Limit(Slots(k))
  <2>1. t \in Times /\ TakenFrom(k, t) = Within(taken[k], t)
    BY <1>2 DEF TakenFrom, Within, Times
  <2>2. KeyHolds(clock, bucket[k], taken[k], Late(attempt, k), Slots(k))
    BY <1>1
  <2> QED
    BY <2>1, <2>2 DEF KeyHolds
<1>6. RegistrationsBounded
  <2> SUFFICES ASSUME NEW k \in AddressKeys \cup PhoneKeys, NEW t \in 0 .. clock
               PROVE  TakenFrom(k, t) <= 2 * MaxFailures - 2
    BY DEF RegistrationsBounded
  <2>1. k \in Keys /\ Slots(k) = 1
    BY KeysAssumption DEF Keys, Slots
  <2>2. Limit(1) = 2 * MaxFailures - 2
    BY ThrottleAssumption DEF Limit
  <2> QED
    BY <1>5, <2>1, <2>2
<1>7. GuessesBounded
  <2>1. \A k \in LoginKeys : /\ k \in Keys
                             /\ Limit(Slots(k)) = 2 * MaxFailures - 2 + 2 * (Cardinality(Attempts) - 1)
    BY DEF Keys, Slots, Limit
  <2> QED
    BY <1>5, <2>1 DEF GuessesBounded
<1> QED
  BY <1>4, <1>6, <1>7 DEF AttemptsAreBounded

(* In every period of a window's length the resident login and the          *)
(* registration form let a bounded number of attempts through per key,      *)
(* whatever the number of requests in flight, the limit above one and the   *)
(* length of the window (assert_not_throttled, record_auth_failure,         *)
(* record_registration_attempt).                                            *)
THEOREM ThrottleCorrect == ThrottleSpec => []AttemptsAreBounded
<1>1. ThrottleSpec => []ThrottleInv
  BY ThrottleStarts, ThrottleKept, PTL DEF ThrottleSpec
<1> QED
  BY <1>1, ThrottleImplies, PTL
=============================================================================
