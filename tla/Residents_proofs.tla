--------------------------- MODULE Residents_proofs ---------------------------
(***************************************************************************)
(* Proofs about what residents send and are sent: ReportIntake,            *)
(* BuildingNotices and Notifications, each for any number of requests,     *)
(* photos, workers, residents, managers, announcements, bills, events and  *)
(* devices.                                                                *)
(***************************************************************************)
EXTENDS ReportIntake, BuildingNotices, Notifications, FiniteSetTheorems, TLAPS

-----------------------------------------------------------------------------
(* Report intake. *)

(* A version was created together with the link that shows it. *)
VersionsLinked == \A v \in versions : [report |-> v.report, sha |-> v.sha] \in photos

(* What a triage worker knows of its report: the candidates it offered to  *)
(* the provider are public reports other than its own, and a suggestion it *)
(* has stored is there.                                                    *)
WorkersKnow ==
    \A w \in TriageWorkers :
        /\ triage[w].pc = "asked" =>
              \A o \in triage[w].candidates :
                  o \in reports \ {triage[w].report} /\ ask[o].content \notin PrivateContents
        /\ triage[w].pc = "stored" => suggestion[triage[w].report].made

IntakeInv == IntakeConsistent /\ VersionsLinked /\ WorkersKnow

TriageStates == [pc : Phase, report : Posts, candidates : SUBSET Posts]

(* A triage worker that goes on keeps its type. *)
LEMMA WorkerTyped ==
  ASSUME NEW f \in [TriageWorkers -> TriageStates], NEW w \in TriageWorkers,
         NEW p \in Phase, NEW some \in SUBSET Posts
  PROVE  /\ [f EXCEPT ![w].pc = p] \in [TriageWorkers -> TriageStates]
         /\ [f EXCEPT ![w].pc = p, ![w].candidates = some] \in [TriageWorkers -> TriageStates]
<1>1. f[w] \in TriageStates
  OBVIOUS
<1>2. \A g \in TriageStates : [g EXCEPT !.pc = p] \in TriageStates
  BY DEF TriageStates
<1>3. \A g \in TriageStates : [g EXCEPT !.candidates = some] \in TriageStates
  BY DEF TriageStates
<1>4. [f EXCEPT ![w].pc = p] = [f EXCEPT ![w] = [f[w] EXCEPT !.pc = p]]
  OBVIOUS
<1>5. [f EXCEPT ![w].pc = p, ![w].candidates = some]
        = [f EXCEPT ![w] = [[f[w] EXCEPT !.pc = p] EXCEPT !.candidates = some]]
  OBVIOUS
<1> QED
  BY <1>1, <1>2, <1>3, <1>4, <1>5

(* The types are inductive. *)
LEMMA IntakeTyped ==
  ASSUME IntakeTypeOK, [IntakeNext]_intakeVars
  PROVE  IntakeTypeOK'
<1>0. ASSUME IntakeTypeOK, NEW w \in TriageWorkers, NEW p \in Phase, Goto(w, p)
      PROVE  triage' \in [TriageWorkers -> [pc : Phase, report : Posts, candidates : SUBSET Posts]]
  <2>1. triage \in [TriageWorkers -> TriageStates]
    BY <1>0 DEF IntakeTypeOK, TriageStates
  <2>2. triage' \in [TriageWorkers -> TriageStates]
    BY <1>0, <2>1, WorkerTyped DEF Goto
  <2> QED
    BY <2>2 DEF TriageStates
<1> USE DEF IntakeTypeOK
<1>1. ASSUME NEW q \in Posts, LookUp(q) PROVE IntakeTypeOK'
  <2>1. step' \in [Posts -> {"new", "checked", "answered"}]
    BY <1>1 DEF LookUp, AnswerExisting, Answer
  <2>2. answer' \in [Posts -> Answers]
    <3>1. CASE UNCHANGED answer
      BY <3>1
    <3>2. ASSUME NEW o \in Existing(q), AnswerExisting(q, o) PROVE answer' \in [Posts -> Answers]
      BY <3>2 DEF Existing, AnswerExisting, Answer, Answers
    <3> QED
      BY <1>1, <3>1, <3>2 DEF LookUp
  <2> QED
    BY <1>1, <2>1, <2>2 DEF LookUp, triageVars, photoVars
<1>2. ASSUME NEW q \in Posts, InsertReport(q) PROVE IntakeTypeOK'
  BY <1>2 DEF InsertReport, Answer, Answers, JobStatus, photoVars
<1>3. ASSUME NEW q \in Posts, InsertLoses(q) PROVE IntakeTypeOK'
  BY <1>3 DEF InsertLoses, AnswerExisting, Answer, Answers, Existing, triageVars, photoVars
<1>4. ASSUME NEW q \in Posts, StaffMove(q) PROVE IntakeTypeOK'
  BY <1>4 DEF StaffMove, Status, submissionVars, triageVars, photoVars
<1>5. ASSUME NEW u \in Uploads, CheckPhoto(u) PROVE IntakeTypeOK'
  BY <1>5 DEF CheckPhoto, submissionVars, triageVars
<1>6. ASSUME NEW u \in Uploads, AttachPhoto(u) PROVE IntakeTypeOK'
  <2>1. upload[u] \in [pc : {"new", "checked", "done"}, report : Posts, sha : Photos]
    OBVIOUS
  <2>2. /\ [upload |-> u, report |-> upload[u].report, sha |-> upload[u].sha]
              \in [upload : Uploads, report : Posts, sha : Photos]
        /\ Linked(u) \in [report : Posts, sha : Photos]
    BY <2>1 DEF Linked
  <2>3. versions' \subseteq [upload : Uploads, report : Posts, sha : Photos]
        /\ photos' \subseteq [report : Posts, sha : Photos]
    BY <1>6, <2>2 DEF AttachPhoto
  <2>4. upload' \in [Uploads -> [pc : {"new", "checked", "done"}, report : Posts, sha : Photos]]
    BY <1>6 DEF AttachPhoto, UploadDone
  <2> QED
    BY <1>6, <2>3, <2>4 DEF AttachPhoto, submissionVars, triageVars
<1>7. ASSUME NEW w \in TriageWorkers, NEW q \in Posts, ClaimTriageJob(w, q) PROVE IntakeTypeOK'
  BY <1>7 DEF ClaimTriageJob, JobStatus, Phase, submissionVars, photoVars
<1>8. ASSUME NEW w \in TriageWorkers, FindCandidates(w) PROVE IntakeTypeOK'
  <2>1. PICK some \in SUBSET Posts :
          triage' = [triage EXCEPT ![w].pc = "asked", ![w].candidates = some]
    BY <1>8 DEF FindCandidates, EligibleDuplicates
  <2>2. triage' \in [TriageWorkers -> [pc : Phase, report : Posts, candidates : SUBSET Posts]]
    <3>1. triage \in [TriageWorkers -> TriageStates] /\ "asked" \in Phase
      BY DEF TriageStates, Phase
    <3>2. triage' \in [TriageWorkers -> TriageStates]
      BY <2>1, <3>1, WorkerTyped
    <3> QED
      BY <3>2 DEF TriageStates
  <2> QED
    BY <1>8, <2>2 DEF FindCandidates, submissionVars, photoVars
<1>9. ASSUME NEW w \in TriageWorkers, StoreSuggestion(w) PROVE IntakeTypeOK'
  <2>1. PICK some \in SUBSET Posts :
          suggestion' = [suggestion EXCEPT ![triage[w].report] = [made |-> TRUE, duplicates |-> some]]
    BY <1>9 DEF StoreSuggestion
  <2>2. suggestion' \in [Posts -> [made : BOOLEAN, duplicates : SUBSET Posts]]
    BY <2>1
  <2>3. triage' \in [TriageWorkers -> [pc : Phase, report : Posts, candidates : SUBSET Posts]]
    BY <1>9, <1>0 DEF StoreSuggestion, Phase
  <2> QED
    BY <1>9, <2>2, <2>3 DEF StoreSuggestion, submissionVars, photoVars
<1>10. ASSUME NEW w \in TriageWorkers, ProviderFails(w) PROVE IntakeTypeOK'
  <2>1. triage' \in [TriageWorkers -> [pc : Phase, report : Posts, candidates : SUBSET Posts]]
    BY <1>10, <1>0 DEF ProviderFails, Phase
  <2> QED
    BY <1>10, <2>1 DEF ProviderFails, submissionVars, photoVars
<1>11. ASSUME NEW w \in TriageWorkers, SaveJob(w) PROVE IntakeTypeOK'
  <2>1. triage' \in [TriageWorkers -> [pc : Phase, report : Posts, candidates : SUBSET Posts]]
    BY <1>11, <1>0 DEF SaveJob, Phase
  <2>2. triageJob' \in [Posts -> JobStatus]
    BY <1>11 DEF SaveJob, JobOutcome, JobStatus
  <2> QED
    BY <1>11, <2>1, <2>2 DEF SaveJob, submissionVars, photoVars
<1>12. ASSUME NEW w \in TriageWorkers, MoveToReview(w) PROVE IntakeTypeOK'
  <2>1. triage' \in [TriageWorkers -> [pc : Phase, report : Posts, candidates : SUBSET Posts]]
    BY <1>12, <1>0 DEF MoveToReview, Phase
  <2>2. status' \in [Posts -> Status]
    BY <1>12 DEF MoveToReview, StatusAfterTriage, Status
  <2> QED
    BY <1>12, <2>1, <2>2 DEF MoveToReview, submissionVars, photoVars
<1>13. ASSUME NEW w \in TriageWorkers, TriageCrash(w) PROVE IntakeTypeOK'
  <2>1. triage' \in [TriageWorkers -> [pc : Phase, report : Posts, candidates : SUBSET Posts]]
    BY <1>13, <1>0 DEF TriageCrash, Phase
  <2>2. died' \subseteq Posts
    BY <1>13 DEF TriageCrash
  <2> QED
    BY <1>13, <2>1, <2>2 DEF TriageCrash, submissionVars, photoVars
<1>14. CASE UNCHANGED intakeVars
  BY <1>14 DEF intakeVars, submissionVars, triageVars, photoVars
<1> QED
  BY <1>1, <1>2, <1>3, <1>4, <1>5, <1>6, <1>7, <1>8, <1>9, <1>10, <1>11, <1>12, <1>13, <1>14
     DEF IntakeNext, TriageStep

(* Requests never change, and report rows are never deleted. *)
LEMMA IntakeGrows ==
  ASSUME IntakeTypeOK, [IntakeNext]_intakeVars
  PROVE  ask' = ask /\ reports \subseteq reports'
BY DEF IntakeNext, TriageStep, LookUp, InsertReport, InsertLoses, StaffMove, CheckPhoto, AttachPhoto,
       ClaimTriageJob, FindCandidates, StoreSuggestion, ProviderFails, SaveJob, MoveToReview,
       TriageCrash, intakeVars, submissionVars

(* Submission: a client_ref keeps its one report and answers stay true. *)
LEMMA SubmissionKept ==
  ASSUME IntakeInv, [IntakeNext]_intakeVars
  PROVE  OneReportPerRef' /\ AnswersAreTrue'
<1>0. IntakeTypeOK /\ OneReportPerRef /\ AnswersAreTrue
  BY DEF IntakeInv, IntakeConsistent
<1>1. ask' = ask /\ reports \subseteq reports'
  BY <1>0, IntakeGrows
<1>2. ASSUME NEW q \in Posts, NEW o \in Existing(q), AnswerExisting(q, o), reports' = reports
      PROVE  OneReportPerRef' /\ AnswersAreTrue'
  <2>1. ContentMatches(o, q) => ask[o] = ask[q]
    <3>1. /\ ask[o] \in [ref : Refs, content : ReportContents]
          /\ ask[q] \in [ref : Refs, content : ReportContents]
          /\ ask[o].ref = ask[q].ref
      BY <1>0 DEF IntakeTypeOK, Existing
    <3> QED
      BY <3>1 DEF ContentMatches
  <2>2. o \in reports
    BY DEF Existing
  <2> QED
    BY <1>0, <1>1, <1>2, <2>1, <2>2
       DEF IntakeTypeOK, OneReportPerRef, AnswersAreTrue, AnswerExisting, Answer
<1>3. ASSUME NEW q \in Posts, LookUp(q) PROVE OneReportPerRef' /\ AnswersAreTrue'
  <2>1. CASE \E o \in Existing(q) : AnswerExisting(q, o)
    BY <1>2, <1>3, <2>1 DEF LookUp
  <2>2. CASE UNCHANGED answer
    BY <1>0, <1>1, <1>3, <2>2 DEF LookUp, OneReportPerRef, AnswersAreTrue
  <2> QED
    BY <1>3, <2>1, <2>2 DEF LookUp
<1>4. ASSUME NEW q \in Posts, InsertReport(q) PROVE OneReportPerRef' /\ AnswersAreTrue'
  <2>1. OneReportPerRef'
    BY <1>0, <1>1, <1>4 DEF InsertReport, RefIsFree, Existing, OneReportPerRef
  <2>2. AnswersAreTrue'
    BY <1>0, <1>1, <1>4 DEF IntakeTypeOK, InsertReport, Answer, AnswersAreTrue
  <2> QED
    BY <2>1, <2>2
<1>5. ASSUME NEW q \in Posts, InsertLoses(q) PROVE OneReportPerRef' /\ AnswersAreTrue'
  BY <1>2, <1>5 DEF InsertLoses
<1>6. CASE UNCHANGED <<answer, reports>>
  BY <1>0, <1>1, <1>6 DEF OneReportPerRef, AnswersAreTrue
<1> QED
  BY <1>3, <1>4, <1>5, <1>6
     DEF IntakeNext, TriageStep, StaffMove, CheckPhoto, AttachPhoto,
         ClaimTriageJob, FindCandidates, StoreSuggestion, ProviderFails, SaveJob, MoveToReview,
         TriageCrash, intakeVars, submissionVars

(* Photos: the second look, with the report locked, lets one version in. *)
LEMMA PhotosKept ==
  ASSUME IntakeInv, [IntakeNext]_intakeVars
  PROVE  NoOrphanVersion' /\ VersionsLinked'
<1>1. IntakeTypeOK /\ NoOrphanVersion /\ VersionsLinked
  BY DEF IntakeInv, IntakeConsistent
<1>2. ASSUME NEW u \in Uploads, AttachPhoto(u) PROVE NoOrphanVersion' /\ VersionsLinked'
  <2>1. CASE ~PhotoStillNew(u)
    BY <1>1, <1>2, <2>1 DEF AttachPhoto, NoOrphanVersion, VersionsLinked
  <2>2. CASE PhotoStillNew(u)
    <3> DEFINE new == [upload |-> u, report |-> upload[u].report, sha |-> upload[u].sha]
    <3>1. /\ versions' = versions \cup {new} /\ photos' = photos \cup {Linked(u)}
          /\ Linked(u) \notin photos
      BY <1>2, <2>2 DEF AttachPhoto, PhotoStillNew
    <3>2. \A v \in versions : ~(v.report = new.report /\ v.sha = new.sha)
      BY <1>1, <3>1 DEF VersionsLinked, Linked
    <3>3. [report |-> new.report, sha |-> new.sha] = Linked(u)
      BY DEF Linked
    <3> HIDE DEF new
    <3>4. NoOrphanVersion'
      BY <1>1, <3>1, <3>2 DEF NoOrphanVersion
    <3>5. VersionsLinked'
      BY <1>1, <3>1, <3>3 DEF VersionsLinked
    <3> QED
      BY <3>4, <3>5
  <2> QED
    BY <2>1, <2>2
<1>3. CASE UNCHANGED <<photos, versions>>
  BY <1>1, <1>3 DEF NoOrphanVersion, VersionsLinked
<1> QED
  BY <1>2, <1>3
     DEF IntakeNext, TriageStep, LookUp, InsertReport, InsertLoses, StaffMove, CheckPhoto,
         ClaimTriageJob, FindCandidates, StoreSuggestion, ProviderFails, SaveJob, MoveToReview,
         TriageCrash, intakeVars, photoVars

(* Triage: what the workers know carries over to what is stored. *)
LEMMA TriageKept ==
  ASSUME IntakeInv, [IntakeNext]_intakeVars
  PROVE  DuplicatesArePublic' /\ SuccessHasSuggestion' /\ WorkersKnow'
<1> DEFINE Kept == DuplicatesArePublic' /\ SuccessHasSuggestion' /\ WorkersKnow'
<1>0. IntakeTypeOK /\ DuplicatesArePublic /\ SuccessHasSuggestion /\ WorkersKnow
  BY DEF IntakeInv, IntakeConsistent
<1>1. ask' = ask /\ reports \subseteq reports'
  BY <1>0, IntakeGrows
<1>2. CASE UNCHANGED triageVars
  BY <1>0, <1>1, <1>2 DEF triageVars, DuplicatesArePublic, SuccessHasSuggestion, WorkersKnow
<1>3. ASSUME NEW q \in Posts, InsertReport(q) PROVE Kept
  BY <1>0, <1>1, <1>3
     DEF IntakeTypeOK, InsertReport, DuplicatesArePublic, SuccessHasSuggestion, WorkersKnow
<1>4. ASSUME NEW w \in TriageWorkers, NEW q \in Posts, ClaimTriageJob(w, q) PROVE Kept
  BY <1>0, <1>1, <1>4
     DEF IntakeTypeOK, ClaimTriageJob, DuplicatesArePublic, SuccessHasSuggestion, WorkersKnow
<1>5. ASSUME NEW w \in TriageWorkers, FindCandidates(w) PROVE Kept
  <2>1. DuplicatesArePublic' /\ SuccessHasSuggestion'
    BY <1>0, <1>1, <1>5 DEF FindCandidates, DuplicatesArePublic, SuccessHasSuggestion
  <2>2. WorkersKnow'
    BY <1>0, <1>1, <1>5
       DEF IntakeTypeOK, FindCandidates, EligibleDuplicates, WorkersKnow
  <2> QED
    BY <2>1, <2>2
<1>6. ASSUME NEW w \in TriageWorkers, StoreSuggestion(w) PROVE Kept
  <2> DEFINE q == triage[w].report
  <2>1. PICK duplicates \in SUBSET reports :
          /\ duplicates \subseteq triage[w].candidates
          /\ suggestion' = [suggestion EXCEPT ![q] = [made |-> TRUE, duplicates |-> duplicates]]
    BY <1>6 DEF StoreSuggestion, ValidResponse
  <2>2. q \in Posts /\ triage[w].pc = "asked" /\ triageJob' = triageJob
    BY <1>0, <1>6 DEF IntakeTypeOK, StoreSuggestion
  <2>3. \A o \in duplicates : o \in reports \ {q} /\ ask[o].content \notin PrivateContents
    BY <1>0, <2>1, <2>2 DEF WorkersKnow
  <2>4. \A p \in Posts : suggestion'[p] = IF p = q THEN [made |-> TRUE, duplicates |-> duplicates]
                                          ELSE suggestion[p]
    BY <1>0, <2>1 DEF IntakeTypeOK
  <2>5. DuplicatesArePublic'
    BY <1>0, <1>1, <2>3, <2>4 DEF DuplicatesArePublic
  <2>6. SuccessHasSuggestion'
    BY <1>0, <2>2, <2>4 DEF SuccessHasSuggestion
  <2>7. WorkersKnow'
    BY <1>0, <1>1, <1>6, <2>2, <2>4 DEF IntakeTypeOK, StoreSuggestion, Goto, WorkersKnow
  <2> QED
    BY <2>5, <2>6, <2>7
<1>7. ASSUME NEW w \in TriageWorkers, ProviderFails(w) PROVE Kept
  BY <1>0, <1>1, <1>7
     DEF IntakeTypeOK, ProviderFails, Goto, DuplicatesArePublic, SuccessHasSuggestion, WorkersKnow
<1>8. ASSUME NEW w \in TriageWorkers, SaveJob(w) PROVE Kept
  BY <1>0, <1>1, <1>8
     DEF IntakeTypeOK, SaveJob, JobOutcome, Goto, DuplicatesArePublic, SuccessHasSuggestion, WorkersKnow
<1>9. ASSUME NEW w \in TriageWorkers, MoveToReview(w) PROVE Kept
  BY <1>0, <1>1, <1>9
     DEF IntakeTypeOK, MoveToReview, Goto, DuplicatesArePublic, SuccessHasSuggestion, WorkersKnow
<1>10. ASSUME NEW w \in TriageWorkers, TriageCrash(w) PROVE Kept
  BY <1>0, <1>1, <1>10
     DEF IntakeTypeOK, TriageCrash, Goto, DuplicatesArePublic, SuccessHasSuggestion, WorkersKnow
<1> QED
  BY <1>2, <1>3, <1>4, <1>5, <1>6, <1>7, <1>8, <1>9, <1>10
     DEF IntakeNext, TriageStep, LookUp, InsertLoses, StaffMove, CheckPhoto, AttachPhoto, intakeVars

(* The invariant holds before anything is sent. *)
LEMMA InitIntake == IntakeInit => IntakeInv
<1> SUFFICES ASSUME IntakeInit PROVE IntakeInv
  OBVIOUS
<1>1. (CHOOSE q \in Posts : TRUE) \in Posts
  BY PostsAssumption
<1>2. suggestion \in [Posts -> [made : BOOLEAN, duplicates : SUBSET Posts]]
  BY DEF IntakeInit, NoSuggestion
<1>3. answer \in [Posts -> Answers]
  BY DEF IntakeInit, Answers
<1>4. upload \in [Uploads -> [pc : {"new", "checked", "done"}, report : Posts, sha : Photos]]
  BY DEF IntakeInit
<1>5. triage \in [TriageWorkers -> [pc : Phase, report : Posts, candidates : SUBSET Posts]]
  BY <1>1 DEF IntakeInit, Phase
<1>6. IntakeTypeOK
  BY <1>2, <1>3, <1>4, <1>5 DEF IntakeInit, IntakeTypeOK, Status, JobStatus
<1>7. OneReportPerRef /\ AnswersAreTrue /\ NoOrphanVersion /\ VersionsLinked
  BY DEF IntakeInit, OneReportPerRef, AnswersAreTrue, NoOrphanVersion, VersionsLinked
<1>8. DuplicatesArePublic /\ SuccessHasSuggestion /\ WorkersKnow
  BY DEF IntakeInit, NoSuggestion, DuplicatesArePublic, SuccessHasSuggestion, WorkersKnow
<1> QED
  BY <1>6, <1>7, <1>8 DEF IntakeInv, IntakeConsistent

(* The invariant is inductive. *)
LEMMA NextPreservesIntake == IntakeInv /\ [IntakeNext]_intakeVars => IntakeInv'
BY IntakeTyped, SubmissionKept, PhotosKept, TriageKept DEF IntakeInv, IntakeConsistent

(* One client_ref makes one report and a success names it, one photo of a  *)
(* report makes one version, and suggestions name public reports, however  *)
(* requests are repeated and workers race (submit_report_idempotent,       *)
(* attach_report_photo, process_triage_job).                               *)
THEOREM IntakeCorrect == IntakeSpec => []IntakeConsistent
<1>1. IntakeInv => IntakeConsistent
  BY DEF IntakeInv
<1> QED
  BY <1>1, InitIntake, NextPreservesIntake, PTL DEF IntakeSpec

(* Triage that ends late takes nothing back: the update that moves a       *)
(* report to review is conditional on its status (process_triage_job).     *)
THEOREM TriageCorrect == IntakeSpec => TriageNeverOverrides
<1>1. IntakeInv /\ [IntakeNext]_intakeVars
        => [\A q \in Posts : status[q] = "MOVED" => status'[q] = "MOVED"]_intakeVars
  <2> SUFFICES ASSUME IntakeTypeOK, IntakeNext, NEW q \in Posts, status[q] = "MOVED"
               PROVE  status'[q] = "MOVED"
    BY DEF IntakeInv, IntakeConsistent
  <2>1. ASSUME NEW w \in TriageWorkers, MoveToReview(w) PROVE status'[q] = "MOVED"
    BY <2>1 DEF IntakeTypeOK, MoveToReview, StatusAfterTriage
  <2>2. ASSUME NEW p \in Posts, StaffMove(p) PROVE status'[q] = "MOVED"
    BY <2>2 DEF IntakeTypeOK, StaffMove
  <2>3. CASE status' = status
    BY <2>3
  <2> QED
    BY <2>1, <2>2, <2>3
       DEF IntakeNext, TriageStep, LookUp, InsertReport, InsertLoses, CheckPhoto, AttachPhoto,
           ClaimTriageJob, FindCandidates, StoreSuggestion, ProviderFails, SaveJob, TriageCrash
<1> QED
  BY <1>1, InitIntake, NextPreservesIntake, PTL DEF IntakeSpec, TriageNeverOverrides

-----------------------------------------------------------------------------
(* Announcements and bills. *)

Announced == [state : States, revision : 0 .. MaxRevision + 1, content : Contents]
Opened == [open : BOOLEAN, on : Announcements, revision : 0 .. MaxRevision + 1, seen : Contents]
Shown == [shown : BOOLEAN, content : Contents, read : BOOLEAN]
Owed == [status : BillStatus, resident : Residents, reference : References]
Paying == [open : BOOLEAN, bill : Bills, reference : References]

(* A page that was opened shows a revision that was there, and the text    *)
(* that belongs to it as long as nobody has made another.                  *)
PagesKnow ==
    \A m \in Managers : form[m].open =>
        LET a == announcement[form[m].on]
        IN  /\ a.state # "NONE" /\ form[m].revision <= a.revision
            /\ form[m].revision = a.revision => form[m].seen = a.content

(* Edits stay below the bound of the model. *)
RevisionsBounded ==
    \A a \in Announcements :
        announcement[a].state = "PUBLISHED" => announcement[a].revision <= MaxRevision

(* A payment is about a bill that was issued. *)
PaymentsKnow == \A r \in Residents : payment[r].open => bill[payment[r].bill].status # "NONE"

NoticesInv == NoticesMatch /\ PagesKnow /\ RevisionsBounded /\ PaymentsKnow

(* Announcements and bills have no step in common: a step of one side      *)
(* leaves the other as it is.                                              *)
AnnouncementPart ==
    /\ announcement \in [Announcements -> Announced]
    /\ form \in [Managers -> Opened]
    /\ notice \in [Residents \X Announcements -> Shown]
    /\ NoticeIsCurrent /\ PagesKnow /\ RevisionsBounded

BillPart ==
    /\ bill \in [Bills -> Owed]
    /\ billNotice \subseteq Bills
    /\ payment \in [Residents -> Paying]
    /\ receipts \in [Bills -> Nat]
    /\ PaymentRecordedOnce /\ BillNoticeMatches /\ PaymentsKnow

(* The invariant is the conjunction of its two sides. *)
LEMMA NoticesParts ==
  NoticesInv <=> AnnouncementPart /\ BillPart /\ manages \subseteq Managers /\ lives \subseteq Residents
BY DEF NoticesInv, NoticesMatch, NoticesTypeOK, AnnouncementPart, BillPart,
       Announced, Opened, Shown, Owed, Paying

(* A step that leaves the announcements alone. *)
LEMMA AnnouncementsStutter ==
  ASSUME AnnouncementPart, UNCHANGED announcementVars
  PROVE  AnnouncementPart'
BY DEF AnnouncementPart, announcementVars, NoticeIsCurrent, PagesKnow, RevisionsBounded

(* A step that leaves the bills alone. *)
LEMMA BillsStutter ==
  ASSUME BillPart, UNCHANGED billVars
  PROVE  BillPart'
BY DEF BillPart, billVars, PaymentRecordedOnce, BillNoticeMatches, PaymentsKnow, OwnBills

(* What a new text leaves in the residents' rows. *)
LEMMA NoticesWithTyped ==
  ASSUME notice \in [Residents \X Announcements -> Shown], NEW a \in Announcements, NEW c \in Contents
  PROVE  /\ NoticesWith(a, c) \in [Residents \X Announcements -> Shown]
         /\ \A r \in Residents, b \in Announcements :
               /\ b # a => NoticesWith(a, c)[<<r, b>>] = notice[<<r, b>>]
               /\ b = a /\ NoticesWith(a, c)[<<r, b>>].shown => NoticesWith(a, c)[<<r, b>>].content = c
<1>1. [shown |-> TRUE, content |-> c, read |-> FALSE] \in Shown
  BY DEF Shown
<1>2. \A x \in Residents \X Announcements : notice[x] \in Shown
  OBVIOUS
<1>3. NoticesWith(a, c) \in [Residents \X Announcements -> Shown]
  BY <1>1, <1>2 DEF NoticesWith
<1>4. \A r \in Residents, b \in Announcements :
          NoticesWith(a, c)[<<r, b>>] =
             IF b = a /\ (r \in lives \/ notice[<<r, b>>].shown)
             THEN [shown |-> TRUE, content |-> c, read |-> FALSE] ELSE notice[<<r, b>>]
  BY DEF NoticesWith
<1> QED
  BY <1>3, <1>4

(* publish_announcement. *)
LEMMA PublishKeeps ==
  ASSUME AnnouncementPart, NEW m \in Managers, NEW a \in Announcements, NEW c \in Contents,
         Publish(m, a, c)
  PROVE  AnnouncementPart'
<1>1. /\ announcement' \in [Announcements -> Announced]
      /\ announcement'[a] = [state |-> "PUBLISHED", revision |-> 1, content |-> c]
      /\ \A b \in Announcements : b # a => announcement'[b] = announcement[b]
  BY RevisionAssumption DEF AnnouncementPart, Publish, Announced, States
<1>2. form' = form /\ notice' = NoticesWith(a, c) /\ announcement[a].state = "NONE"
  BY DEF Publish
<1>3. notice' \in [Residents \X Announcements -> Shown]
  BY <1>2, NoticesWithTyped DEF AnnouncementPart
<1>4. NoticeIsCurrent'
  BY <1>1, <1>2, NoticesWithTyped DEF AnnouncementPart, NoticeIsCurrent
<1>5. PagesKnow'
  BY <1>1, <1>2 DEF AnnouncementPart, PagesKnow, Opened
<1>6. RevisionsBounded'
  BY <1>1, RevisionAssumption DEF AnnouncementPart, RevisionsBounded
<1> QED
  BY <1>1, <1>2, <1>3, <1>4, <1>5, <1>6 DEF AnnouncementPart

(* The page of an announcement. *)
LEMMA OpenFormKeeps ==
  ASSUME AnnouncementPart, NEW m \in Managers, NEW a \in Announcements, OpenForm(m, a)
  PROVE  AnnouncementPart'
<1> DEFINE new == [open |-> TRUE, on |-> a, revision |-> announcement[a].revision,
                   seen |-> announcement[a].content]
<1>1. announcement[a] \in Announced
  BY DEF AnnouncementPart
<1>2. new \in Opened
  BY <1>1 DEF Announced, Opened
<1>3. form' = [form EXCEPT ![m] = new] /\ announcement[a].state # "NONE"
      /\ UNCHANGED <<announcement, notice>>
  BY DEF OpenForm
<1> HIDE DEF new
<1>4. form' \in [Managers -> Opened]
  BY <1>2, <1>3 DEF AnnouncementPart
<1>5. \A n \in Managers : form'[n] = IF n = m THEN new ELSE form[n]
  BY <1>3 DEF AnnouncementPart
<1>6. /\ new.on = a /\ new.revision = announcement[a].revision /\ new.seen = announcement[a].content
      /\ new.revision <= announcement[a].revision
  BY <1>1 DEF new, Announced
<1>7. PagesKnow'
  BY <1>3, <1>5, <1>6 DEF AnnouncementPart, PagesKnow
<1> QED
  BY <1>3, <1>4, <1>7 DEF AnnouncementPart, NoticeIsCurrent, RevisionsBounded

(* A form that was submitted is closed and otherwise as it was. *)
LEMMA SubmittedForm ==
  ASSUME form \in [Managers -> Opened], NEW m \in Managers, Submitted(m)
  PROVE  /\ form' \in [Managers -> Opened]
         /\ \A n \in Managers : /\ n # m => form'[n] = form[n]
                                /\ form'[n].open => n # m
BY DEF Submitted, Opened

(* A new revision leaves every other open page behind it. *)
LEMMA NewRevision ==
  ASSUME AnnouncementPart, NEW m \in Managers, NEW a \in Announcements, Submitted(m),
         announcement'[a].state # "NONE", announcement'[a].revision = announcement[a].revision + 1,
         \A b \in Announcements : b # a => announcement'[b] = announcement[b]
  PROVE  PagesKnow'
<1>1. announcement[a].revision \in Nat
  BY RevisionAssumption DEF AnnouncementPart, Announced
<1> SUFFICES ASSUME NEW n \in Managers, form'[n].open
             PROVE  LET b == announcement'[form'[n].on]
                    IN  /\ b.state # "NONE" /\ form'[n].revision <= b.revision
                        /\ form'[n].revision = b.revision => form'[n].seen = b.content
  BY DEF PagesKnow
<1>2. form'[n] = form[n]
  BY SubmittedForm DEF AnnouncementPart
<1>3. form[n].on \in Announcements /\ form[n].revision \in Nat
  BY RevisionAssumption DEF AnnouncementPart, Opened
<1>4. LET b == announcement[form[n].on]
      IN  /\ b.state # "NONE" /\ form[n].revision <= b.revision
          /\ form[n].revision = b.revision => form[n].seen = b.content
  BY <1>2 DEF AnnouncementPart, PagesKnow
<1>5. CASE form[n].on = a
  BY <1>1, <1>2, <1>3, <1>4, <1>5
<1>6. CASE form[n].on # a
  BY <1>2, <1>3, <1>4, <1>6
<1> QED
  BY <1>5, <1>6

(* edit_announcement. *)
LEMMA EditKeeps ==
  ASSUME AnnouncementPart, NEW m \in Managers, NEW a \in Announcements, NEW c \in Contents,
         Edit(m, a, c)
  PROVE  AnnouncementPart'
<1>1. announcement[a] \in Announced /\ announcement[a].revision < MaxRevision
      /\ announcement[a].state = "PUBLISHED"
  BY DEF AnnouncementPart, Edit, Accepts
<1>2. announcement' = [announcement EXCEPT ![a] =
         [state |-> "PUBLISHED", revision |-> announcement[a].revision + 1, content |-> c]]
  BY <1>1 DEF AnnouncementPart, Edit, Announced
<1>3. [state |-> "PUBLISHED", revision |-> announcement[a].revision + 1, content |-> c] \in Announced
  BY <1>1, RevisionAssumption DEF Announced, States
<1>4. /\ announcement' \in [Announcements -> Announced]
      /\ announcement'[a] = [state |-> "PUBLISHED", revision |-> announcement[a].revision + 1, content |-> c]
      /\ \A b \in Announcements : b # a => announcement'[b] = announcement[b]
  BY <1>2, <1>3 DEF AnnouncementPart
<1>5. /\ form' \in [Managers -> Opened]
      /\ \A n \in Managers : (n # m => form'[n] = form[n]) /\ (form'[n].open => n # m)
  BY SubmittedForm DEF AnnouncementPart, Edit
<1>6. notice' = NoticesWith(a, c)
  BY DEF Edit
<1>7. notice' \in [Residents \X Announcements -> Shown]
  BY <1>6, NoticesWithTyped DEF AnnouncementPart
<1>8. NoticeIsCurrent'
  BY <1>4, <1>6, NoticesWithTyped DEF AnnouncementPart, NoticeIsCurrent
<1>9. announcement[a].revision \in Nat /\ \A n \in Managers : form[n].revision \in Nat
  BY <1>1, RevisionAssumption DEF AnnouncementPart, Announced, Opened
<1>10. PagesKnow'
  <2>1. announcement'[a].state # "NONE" /\ announcement'[a].revision = announcement[a].revision + 1
    BY <1>4
  <2>2. Submitted(m)
    BY DEF Edit
  <2> QED
    BY <1>4, <2>1, <2>2, NewRevision
<1>11. RevisionsBounded'
  BY <1>1, <1>4, <1>9, RevisionAssumption DEF AnnouncementPart, RevisionsBounded
<1> QED
  BY <1>4, <1>5, <1>7, <1>8, <1>10, <1>11 DEF AnnouncementPart

(* withdraw_announcement. *)
LEMMA WithdrawKeeps ==
  ASSUME AnnouncementPart, NEW m \in Managers, NEW a \in Announcements, Withdraw(m, a)
  PROVE  AnnouncementPart'
<1>1. announcement[a] \in Announced /\ announcement[a].state = "PUBLISHED"
      /\ announcement[a].revision <= MaxRevision
  BY DEF AnnouncementPart, Withdraw, Accepts, RevisionsBounded
<1> DEFINE n == announcement[a].revision + 1
           new == [[announcement[a] EXCEPT !.state = "WITHDRAWN"] EXCEPT !.revision = n]
<1>2. announcement' = [announcement EXCEPT ![a] = new]
  BY DEF AnnouncementPart, Withdraw
<1>3. new \in Announced /\ new.state = "WITHDRAWN" /\ new.revision = n
  <2>1. n \in 0 .. MaxRevision + 1
    BY <1>1, RevisionAssumption DEF Announced
  <2> HIDE DEF n
  <2>2. \A f \in Announced : [f EXCEPT !.state = "WITHDRAWN"] \in Announced
                             /\ [f EXCEPT !.state = "WITHDRAWN"].state = "WITHDRAWN"
    BY DEF Announced, States
  <2>3. \A f \in Announced : /\ [f EXCEPT !.revision = n] \in Announced
                             /\ [f EXCEPT !.revision = n].state = f.state
                             /\ [f EXCEPT !.revision = n].revision = n
    BY <2>1 DEF Announced
  <2> QED
    BY <1>1, <2>2, <2>3
<1> HIDE DEF new
<1>4. /\ announcement' \in [Announcements -> Announced]
      /\ announcement'[a] = new
      /\ \A b \in Announcements : b # a => announcement'[b] = announcement[b]
  BY <1>2, <1>3 DEF AnnouncementPart
<1>5. /\ form' \in [Managers -> Opened]
      /\ \A k \in Managers : (k # m => form'[k] = form[k]) /\ (form'[k].open => k # m)
  BY SubmittedForm DEF AnnouncementPart, Withdraw
<1>6. notice' = [x \in Residents \X Announcements |->
                    IF x[2] = a THEN [notice[x] EXCEPT !.shown = FALSE, !.read = FALSE] ELSE notice[x]]
  BY DEF Withdraw
<1>7. \A s \in Shown : [s EXCEPT !.shown = FALSE, !.read = FALSE] \in Shown
                       /\ [s EXCEPT !.shown = FALSE, !.read = FALSE].shown = FALSE
  BY DEF Shown
<1>8. notice' \in [Residents \X Announcements -> Shown]
  BY <1>6, <1>7 DEF AnnouncementPart
<1>9. \A r \in Residents, b \in Announcements :
         /\ b # a => notice'[<<r, b>>] = notice[<<r, b>>]
         /\ b = a => notice'[<<r, b>>].shown = FALSE
  BY <1>6, <1>7 DEF AnnouncementPart
<1>10. NoticeIsCurrent'
  BY <1>4, <1>9 DEF AnnouncementPart, NoticeIsCurrent
<1>11. announcement[a].revision \in Nat /\ \A k \in Managers : form[k].revision \in Nat
  BY <1>1, RevisionAssumption DEF AnnouncementPart, Announced, Opened
<1>12. PagesKnow'
  <2>1. announcement'[a].state # "NONE" /\ announcement'[a].revision = announcement[a].revision + 1
    BY <1>3, <1>4
  <2>2. Submitted(m)
    BY DEF Withdraw
  <2> QED
    BY <1>4, <2>1, <2>2, NewRevision
<1>13. RevisionsBounded'
  BY <1>3, <1>4 DEF AnnouncementPart, RevisionsBounded
<1> QED
  BY <1>4, <1>5, <1>8, <1>10, <1>12, <1>13 DEF AnnouncementPart

(* AnnouncementConflict. *)
LEMMA ConflictKeeps ==
  ASSUME AnnouncementPart, NEW m \in Managers, NEW a \in Announcements, Conflict(m, a)
  PROVE  AnnouncementPart'
<1>1. /\ form' \in [Managers -> Opened]
      /\ \A n \in Managers : (n # m => form'[n] = form[n]) /\ (form'[n].open => n # m)
  BY SubmittedForm DEF AnnouncementPart, Conflict
<1>2. UNCHANGED <<announcement, notice>>
  BY DEF Conflict
<1>3. PagesKnow'
  BY <1>1, <1>2 DEF AnnouncementPart, PagesKnow
<1> QED
  BY <1>1, <1>2, <1>3 DEF AnnouncementPart, NoticeIsCurrent, RevisionsBounded

(* mark_notification_read. *)
LEMMA MarkReadKeeps ==
  ASSUME AnnouncementPart, NEW r \in Residents, NEW a \in Announcements, MarkRead(r, a)
  PROVE  AnnouncementPart'
<1>1. /\ notice' = [notice EXCEPT ![<<r, a>>].read = TRUE]
      /\ UNCHANGED <<announcement, form>>
  BY DEF MarkRead
<1>2. <<r, a>> \in Residents \X Announcements
  OBVIOUS
<1>3. notice' \in [Residents \X Announcements -> Shown]
  BY <1>1, <1>2 DEF AnnouncementPart, Shown
<1>4. \A x \in Residents \X Announcements :
         notice'[x].shown = notice[x].shown /\ notice'[x].content = notice[x].content
  BY <1>1, <1>2 DEF AnnouncementPart, Shown
<1>5. NoticeIsCurrent'
  BY <1>1, <1>4 DEF AnnouncementPart, NoticeIsCurrent
<1> QED
  BY <1>1, <1>3, <1>5 DEF AnnouncementPart, PagesKnow, RevisionsBounded

(* issue_bill. *)
LEMMA IssueBillKeeps ==
  ASSUME BillPart, NEW m \in Managers, NEW b \in Bills, NEW r \in Residents, IssueBill(m, b, r)
  PROVE  BillPart'
<1>1. bill[b] \in Owed /\ bill[b].status = "NONE"
  BY DEF BillPart, IssueBill
<1> DEFINE new == [[bill[b] EXCEPT !.status = "ISSUED"] EXCEPT !.resident = r]
<1>2. bill' = [bill EXCEPT ![b] = new] /\ billNotice' = billNotice \cup {b}
      /\ UNCHANGED <<payment, receipts>>
  BY DEF BillPart, IssueBill
<1>3. new \in Owed /\ new.status = "ISSUED" /\ new.resident = r
  <2>1. \A f \in Owed : [f EXCEPT !.status = "ISSUED"] \in Owed
                        /\ [f EXCEPT !.status = "ISSUED"].status = "ISSUED"
    BY DEF Owed, BillStatus
  <2>2. \A f \in Owed : /\ [f EXCEPT !.resident = r] \in Owed
                        /\ [f EXCEPT !.resident = r].status = f.status
                        /\ [f EXCEPT !.resident = r].resident = r
    BY DEF Owed
  <2> QED
    BY <1>1, <2>1, <2>2
<1> HIDE DEF new
<1>4. /\ bill' \in [Bills -> Owed] /\ bill'[b] = new
      /\ \A d \in Bills : d # b => bill'[d] = bill[d]
  BY <1>2, <1>3 DEF BillPart
<1>5. PaymentRecordedOnce'
  BY <1>1, <1>2, <1>3, <1>4 DEF BillPart, PaymentRecordedOnce
<1>6. BillNoticeMatches'
  BY <1>2, <1>3, <1>4 DEF BillPart, BillNoticeMatches, OwnBills
<1>7. PaymentsKnow'
  BY <1>2, <1>3, <1>4 DEF BillPart, PaymentsKnow, Paying
<1> QED
  BY <1>2, <1>4, <1>5, <1>6, <1>7 DEF BillPart

(* BillConfirmPaymentView. *)
LEMMA OpenPaymentKeeps ==
  ASSUME BillPart, NEW r \in Residents, NEW b \in Bills, NEW ref \in References, OpenPayment(r, b, ref)
  PROVE  BillPart'
<1>1. /\ payment' = [payment EXCEPT ![r] = [open |-> TRUE, bill |-> b, reference |-> ref]]
      /\ UNCHANGED <<bill, billNotice, receipts>>
      /\ bill[b].status # "NONE"
  BY DEF OpenPayment, OwnBills
<1>2. payment' \in [Residents -> Paying]
  BY <1>1 DEF BillPart, Paying
<1>3. PaymentsKnow'
  BY <1>1 DEF BillPart, PaymentsKnow
<1> QED
  BY <1>1, <1>2, <1>3 DEF BillPart, PaymentRecordedOnce, BillNoticeMatches, OwnBills

(* A payment that was answered is closed and otherwise as it was. *)
LEMMA AnsweredPayment ==
  ASSUME payment \in [Residents -> Paying], NEW r \in Residents, Answered(r)
  PROVE  /\ payment' \in [Residents -> Paying]
         /\ \A q \in Residents : payment'[q].open => payment'[q] = payment[q]
BY DEF Answered, Paying

(* confirm_payment. *)
LEMMA ConfirmPaymentKeeps ==
  ASSUME BillPart, NEW r \in Residents, ConfirmPayment(r)
  PROVE  BillPart'
<1> DEFINE b == payment[r].bill
<1>1. b \in Bills /\ bill[b] \in Owed /\ bill[b].status \in {"ISSUED", "PAID"}
  BY DEF BillPart, ConfirmPayment, Payable, PaymentsKnow, Paying, Owed, BillStatus
<1>2. /\ bill' = [bill EXCEPT ![b].status = "PAID"]
      /\ receipts' = [receipts EXCEPT ![b] = IF Records(b) THEN receipts[b] + 1 ELSE receipts[b]]
      /\ billNotice' = billNotice
  BY DEF ConfirmPayment
<1>3. payment' \in [Residents -> Paying] /\ \A q \in Residents : payment'[q].open => payment'[q] = payment[q]
  BY AnsweredPayment DEF BillPart, ConfirmPayment
<1> HIDE DEF b
<1>4. /\ bill' \in [Bills -> Owed] /\ bill'[b].status = "PAID" /\ bill'[b].resident = bill[b].resident
      /\ \A d \in Bills : d # b => bill'[d] = bill[d]
  BY <1>1, <1>2 DEF BillPart, Owed, BillStatus
<1>5. receipts' \in [Bills -> Nat]
  BY <1>1, <1>2 DEF BillPart
<1>6. PaymentRecordedOnce'
  BY <1>1, <1>2, <1>4 DEF BillPart, PaymentRecordedOnce, Records
<1>7. BillNoticeMatches'
  BY <1>1, <1>2, <1>4 DEF BillPart, BillNoticeMatches, OwnBills
<1>8. PaymentsKnow'
  BY <1>3, <1>4 DEF BillPart, PaymentsKnow, Paying
<1> QED
  BY <1>2, <1>3, <1>4, <1>5, <1>6, <1>7, <1>8 DEF BillPart

(* BillVoidedError and BillReferenceError. *)
LEMMA RefusePaymentKeeps ==
  ASSUME BillPart, NEW r \in Residents, RefusePayment(r)
  PROVE  BillPart'
<1>1. payment' \in [Residents -> Paying] /\ \A q \in Residents : payment'[q].open => payment'[q] = payment[q]
  BY AnsweredPayment DEF BillPart, RefusePayment
<1>2. UNCHANGED <<bill, billNotice, receipts>>
  BY DEF RefusePayment
<1> QED
  BY <1>1, <1>2 DEF BillPart, PaymentRecordedOnce, BillNoticeMatches, OwnBills, PaymentsKnow

(* void_bill. *)
LEMMA VoidBillKeeps ==
  ASSUME BillPart, NEW m \in Managers, NEW b \in Bills, VoidBill(m, b)
  PROVE  BillPart'
<1>1. /\ bill' = [bill EXCEPT ![b].status = "VOID"] /\ bill[b].status = "ISSUED"
      /\ billNotice' = billNotice \ {b} /\ UNCHANGED <<payment, receipts>>
  BY DEF VoidBill
<1>2. /\ bill' \in [Bills -> Owed] /\ bill'[b].status = "VOID"
      /\ \A d \in Bills : d # b => bill'[d] = bill[d]
  BY <1>1 DEF BillPart, Owed, BillStatus
<1>3. PaymentRecordedOnce'
  BY <1>1, <1>2 DEF BillPart, PaymentRecordedOnce
<1>4. BillNoticeMatches'
  BY <1>1, <1>2 DEF BillPart, BillNoticeMatches, OwnBills
<1>5. PaymentsKnow'
  BY <1>1, <1>2 DEF BillPart, PaymentsKnow, Paying
<1> QED
  BY <1>1, <1>2, <1>3, <1>4, <1>5 DEF BillPart

(* The invariant is inductive. *)
LEMMA NextPreservesNotices == NoticesInv /\ [NoticesNext]_noticesVars => NoticesInv'
<1> SUFFICES ASSUME NoticesInv, [NoticesNext]_noticesVars PROVE NoticesInv'
  OBVIOUS
<1>1. AnnouncementPart /\ BillPart /\ manages \subseteq Managers /\ lives \subseteq Residents
  BY NoticesParts
<1>2. manages' \subseteq Managers /\ lives' \subseteq Residents
  BY <1>1 DEF NoticesNext, Publish, OpenForm, Edit, Withdraw, Conflict, MarkRead, IssueBill, OpenPayment,
              ConfirmPayment, RefusePayment, VoidBill, Move, LeaveManagement, noticesVars
<1>3. AnnouncementPart'
  BY <1>1, AnnouncementsStutter, PublishKeeps, OpenFormKeeps, EditKeeps, WithdrawKeeps, ConflictKeeps,
     MarkReadKeeps
     DEF NoticesNext, IssueBill, OpenPayment, ConfirmPayment, RefusePayment, VoidBill, Move,
         LeaveManagement, noticesVars
<1>4. BillPart'
  BY <1>1, BillsStutter, IssueBillKeeps, OpenPaymentKeeps, ConfirmPaymentKeeps, RefusePaymentKeeps,
     VoidBillKeeps
     DEF NoticesNext, Publish, OpenForm, Edit, Withdraw, Conflict, MarkRead, Move, LeaveManagement,
         noticesVars
<1> QED
  BY <1>2, <1>3, <1>4, NoticesParts DEF NoticesInv, NoticesMatch, NoticesTypeOK, AnnouncementPart, BillPart,
       Announced, Opened, Shown, Owed, Paying

(* The invariant holds before anything is published. *)
LEMMA InitNotices == NoticesInit => NoticesInv
<1> SUFFICES ASSUME NoticesInit PROVE NoticesInv
  OBVIOUS
<1>1. /\ Any(Announcements) \in Announcements /\ Any(Bills) \in Bills /\ Any(Residents) \in Residents
      /\ Any(Contents) \in Contents /\ Any(References) \in References
  BY NoticesAssumption DEF Any
<1>2. announcement \in [Announcements -> Announced]
  BY <1>1, RevisionAssumption DEF NoticesInit, Announced, States
<1>3. form \in [Managers -> Opened]
  BY <1>1, RevisionAssumption DEF NoticesInit, Opened
<1>4. notice \in [Residents \X Announcements -> Shown]
  BY <1>1 DEF NoticesInit, Shown
<1>5. NoticeIsCurrent /\ PagesKnow /\ RevisionsBounded
  BY DEF NoticesInit, NoticeIsCurrent, PagesKnow, RevisionsBounded
<1>6. bill \in [Bills -> Owed] /\ \A b \in Bills : bill[b].status = "NONE"
  BY <1>1 DEF NoticesInit, Owed, BillStatus
<1>7. payment \in [Residents -> Paying]
  BY <1>1 DEF NoticesInit, Paying
<1>8. PaymentRecordedOnce /\ BillNoticeMatches /\ PaymentsKnow
  BY <1>6 DEF NoticesInit, PaymentRecordedOnce, BillNoticeMatches, OwnBills, PaymentsKnow
<1>9. billNotice \subseteq Bills /\ receipts \in [Bills -> Nat]
      /\ manages \subseteq Managers /\ lives \subseteq Residents
  BY DEF NoticesInit
<1> QED
  BY <1>2, <1>3, <1>4, <1>5, <1>6, <1>7, <1>8, <1>9, NoticesParts DEF AnnouncementPart, BillPart

(* Residents see each announcement as it now stands and each bill they     *)
(* still owe or paid, and a payment is recorded once, whoever moved,       *)
(* edited, withdrew, paid or voided meanwhile (edit_announcement,          *)
(* confirm_payment, void_bill).                                            *)
THEOREM NoticesCorrect == NoticesSpec => []NoticesMatch
<1>1. NoticesInv => NoticesMatch
  BY DEF NoticesInv
<1> QED
  BY <1>1, InitNotices, NextPreservesNotices, PTL DEF NoticesSpec

(* A page opened earlier never overwrites what happened since: the text a  *)
(* submitted form replaces is the one it showed, and a bill that was paid  *)
(* or voided stays as it is (edit_announcement, withdraw_announcement,     *)
(* confirm_payment, void_bill).                                            *)
THEOREM StaleWritesRefused == NoticesSpec => NoStaleWrite
<1> DEFINE Fresh(m) == form[m].open /\ ~form'[m].open =>
                          LET a == form[m].on
                          IN  announcement'[a] = announcement[a] \/ announcement[a].content = form[m].seen
           Frozen(b) == bill[b].status \in {"PAID", "VOID"} => bill'[b] = bill[b]
<1>1. ASSUME NoticesInv, NoticesNext, NEW m \in Managers PROVE Fresh(m)
  <2> SUFFICES ASSUME form[m].open, ~form'[m].open
               PROVE  announcement'[form[m].on] = announcement[form[m].on]
                      \/ announcement[form[m].on].content = form[m].seen
    OBVIOUS
  <2>1. AnnouncementPart
    BY <1>1, NoticesParts
  <2>2. ASSUME NEW n \in Managers, NEW a \in Announcements, NEW c \in Contents,
               Edit(n, a, c) \/ Withdraw(n, a)
        PROVE  announcement[form[m].on].content = form[m].seen
    <3>1. Submitted(n) /\ form[n].on = a /\ announcement[a].revision = form[n].revision
      BY <2>2 DEF Edit, Withdraw, Accepts
    <3>2. n = m
      BY <2>1, <3>1, SubmittedForm DEF AnnouncementPart
    <3> QED
      BY <2>1, <3>1, <3>2 DEF AnnouncementPart, PagesKnow
  <2>3. ASSUME NEW n \in Managers, NEW a \in Announcements, NEW c \in Contents, Publish(n, a, c)
        PROVE  FALSE
    BY <2>3 DEF Publish
  <2>4. CASE announcement' = announcement
    BY <2>4
  <2>5. PICK c \in Contents : TRUE
    BY NoticesAssumption
  <2> QED
    BY <1>1, <2>2, <2>3, <2>4, <2>5
       DEF NoticesNext, OpenForm, Conflict, MarkRead, IssueBill, OpenPayment, ConfirmPayment, RefusePayment,
           VoidBill, Move, LeaveManagement, announcementVars
<1>2. ASSUME NoticesInv, NoticesNext, NEW b \in Bills PROVE Frozen(b)
  <2> SUFFICES ASSUME bill[b].status \in {"PAID", "VOID"} PROVE bill'[b] = bill[b]
    OBVIOUS
  <2>1. BillPart
    BY <1>2, NoticesParts
  <2>2. ASSUME NEW r \in Residents, ConfirmPayment(r) PROVE bill'[b] = bill[b]
    <3>1. bill[b] \in Owed /\ payment[r].bill \in Bills
      BY <2>1 DEF BillPart, Paying
    <3>2. payment[r].bill = b => bill[b].status = "PAID"
      BY <2>2 DEF ConfirmPayment, Payable
    <3>3. bill' = [bill EXCEPT ![payment[r].bill].status = "PAID"]
      BY <2>2 DEF ConfirmPayment
    <3> QED
      BY <2>1, <3>1, <3>2, <3>3 DEF BillPart, Owed
  <2>3. ASSUME NEW d \in Bills, NEW r \in Residents, NEW m \in Managers, IssueBill(m, d, r)
        PROVE  bill'[b] = bill[b]
    BY <2>1, <2>3 DEF BillPart, IssueBill
  <2>4. ASSUME NEW d \in Bills, NEW m \in Managers, VoidBill(m, d) PROVE bill'[b] = bill[b]
    BY <2>1, <2>4 DEF BillPart, VoidBill
  <2>5. CASE bill' = bill
    BY <2>5
  <2> QED
    BY <1>2, <2>2, <2>3, <2>4, <2>5
       DEF NoticesNext, Publish, OpenForm, Edit, Withdraw, Conflict, MarkRead, OpenPayment, RefusePayment,
           Move, LeaveManagement, billVars
<1>3. NoticesInv /\ [NoticesNext]_noticesVars
        => [(\A m \in Managers : Fresh(m)) /\ (\A b \in Bills : Frozen(b))]_noticesVars
  BY <1>1, <1>2
<1> QED
  BY <1>3, InitNotices, NextPreservesNotices, PTL DEF NoticesSpec, NoStaleWrite

-----------------------------------------------------------------------------
(* Notifications. *)

(* What a worker has locked: one row at a time, of the batch it claimed,   *)
(* not finished, of the channel of its step, and locked by nobody else.    *)
Locks ==
    \A w \in Workers :
        /\ worker[w].pc \in {"idle", "batch"} => worker[w].rows = {}
        /\ \A r \in worker[w].rows :
              /\ r \in worker[w].batch /\ row[r].status \notin Final
              /\ Channel(r) = IF worker[w].pc = "mailed" THEN "EMAIL" ELSE "PUSH"
              /\ \A q \in worker[w].rows : q = r
              /\ \A v \in Workers : r \in worker[v].rows => v = w

(* A row that was claimed exists. *)
Claimed == \A w \in Workers : \A r \in worker[w].batch : row[r].status # "NONE"

(* Worker w had a mail accepted that it has not saved yet. *)
MailedBy(w, r) == worker[w].pc = "mailed" /\ r \in worker[w].rows /\ ~worker[w].failed

(* The mail server accepted what workers and rows say it did and, unless a *)
(* process died, nothing else.                                             *)
MailLedger ==
    /\ \A w \in Workers, r \in Rows : MailedBy(w, r) => mails[r] > 0
    /\ crashes = 0 => \A r \in Rows :
          mails[r] = 0 \/ (mails[r] = 1 /\ (row[r].status = "SENT" \/ \E w \in Workers : MailedBy(w, r)))

(* Worker w has served device d with row r in its open transaction, or     *)
(* found it served.                                                        *)
PushedBy(w, r, d) == worker[w].pc = "push" /\ r \in worker[w].rows /\ d \in worker[w].sentTo

(* FCM accepted what workers and rows say it did and, unless a process     *)
(* died, nothing else; a worker has each device before it once, and none   *)
(* that was served.                                                        *)
PushLedger ==
    /\ \A w \in Workers, r \in Rows :
          worker[w].pc = "push" /\ r \in worker[w].rows =>
              /\ row[r].sentTo \subseteq worker[w].sentTo
              /\ \A d \in worker[w].sentTo : pushes[<<r, d>>] > 0
              /\ \A x \in worker[w].left :
                    /\ x[1] \notin worker[w].sentTo
                    /\ \A y \in worker[w].left : y[1] = x[1] => y = x
    /\ crashes = 0 => \A r \in Rows, d \in Devices :
          \/ pushes[<<r, d>>] = 0
          \/ pushes[<<r, d>>] = 1 /\ (d \in row[r].sentTo \/ \E w \in Workers : PushedBy(w, r, d))

(* The row is not taken up again. *)
Parked(r) == row[r].status \in Final \/ (row[r].status = "FAILED" /\ row[r].retry = "never")

(* The workers that have row r in their batch. *)
HoldersOf(r) == {w \in Workers : r \in worker[w].batch}

(* E-mail ends with its last attempt.  A push that has used up its         *)
(* attempts is parked, and each worker that had claimed it before can add  *)
(* one.                                                                    *)
AttemptsAt(r) ==
    IF Channel(r) = "PUSH"
    THEN \/ row[r].attempts < MaxPushAttempts
         \/ /\ Parked(r)
            /\ row[r].attempts + Cardinality(HoldersOf(r)) <= MaxPushAttempts + Cardinality(Workers) - 1
    ELSE /\ row[r].attempts <= MaxEmailAttempts
         /\ row[r].status \notin Final => row[r].attempts < MaxEmailAttempts
AttemptsLeft == \A r \in Rows : AttemptsAt(r)

LedgersHold == Locks /\ Claimed /\ MailLedger /\ PushLedger /\ SentIsTrue /\ AttemptsLeft

NotifyInv == NotifyTypeOK /\ LedgersHold

(* Row n and worker n with their fields. *)
RowIs(n, state, attempts, retry, error, sentTo) ==
    /\ n \in RowStates /\ n.status = state /\ n.attempts = attempts
    /\ n.retry = retry /\ n.error = error /\ n.sentTo = sentTo

WorkerIs(n, pc, batch, rows, left, sentTo, dead, failed) ==
    /\ n \in WorkerStates /\ n.pc = pc /\ n.batch = batch /\ n.rows = rows
    /\ n.left = left /\ n.sentTo = sentTo /\ n.dead = dead /\ n.failed = failed

(* A row and a worker with one field changed. *)
LEMMA RowFields ==
  /\ \A f \in RowStates, s \in {"NONE", "PENDING", "FAILED"} \cup Final :
        RowIs([f EXCEPT !.status = s], s, f.attempts, f.retry, f.error, f.sentTo)
  /\ \A f \in RowStates, a \in Nat :
        RowIs([f EXCEPT !.attempts = a], f.status, a, f.retry, f.error, f.sentTo)
  /\ \A f \in RowStates, t \in {"never", "later", "due"} :
        RowIs([f EXCEPT !.retry = t], f.status, f.attempts, t, f.error, f.sentTo)
  /\ \A f \in RowStates, e \in {"none", "error", "suppressed"} :
        RowIs([f EXCEPT !.error = e], f.status, f.attempts, f.retry, e, f.sentTo)
  /\ \A f \in RowStates, ds \in SUBSET Devices :
        RowIs([f EXCEPT !.sentTo = ds], f.status, f.attempts, f.retry, f.error, ds)
BY DEF RowIs, RowStates

(* A worker with one field changed. *)
LEMMA WorkerFields ==
  /\ \A f \in WorkerStates, p \in {"idle", "batch", "mailed", "push"} :
        WorkerIs([f EXCEPT !.pc = p], p, f.batch, f.rows, f.left, f.sentTo, f.dead, f.failed)
  /\ \A f \in WorkerStates, b \in SUBSET Rows :
        WorkerIs([f EXCEPT !.batch = b], f.pc, b, f.rows, f.left, f.sentTo, f.dead, f.failed)
  /\ \A f \in WorkerStates, rs \in SUBSET Rows :
        WorkerIs([f EXCEPT !.rows = rs], f.pc, f.batch, rs, f.left, f.sentTo, f.dead, f.failed)
  /\ \A f \in WorkerStates, l \in SUBSET (Devices \X Tokens) :
        WorkerIs([f EXCEPT !.left = l], f.pc, f.batch, f.rows, l, f.sentTo, f.dead, f.failed)
  /\ \A f \in WorkerStates, ds \in SUBSET Devices :
        WorkerIs([f EXCEPT !.sentTo = ds], f.pc, f.batch, f.rows, f.left, ds, f.dead, f.failed)
  /\ \A f \in WorkerStates, l \in SUBSET (Devices \X Tokens) :
        WorkerIs([f EXCEPT !.dead = l], f.pc, f.batch, f.rows, f.left, f.sentTo, l, f.failed)
  /\ \A f \in WorkerStates, b \in BOOLEAN :
        WorkerIs([f EXCEPT !.failed = b], f.pc, f.batch, f.rows, f.left, f.sentTo, f.dead, b)
<1> USE DEF WorkerIs, WorkerStates
<1>1. \A f \in WorkerStates, p \in {"idle", "batch", "mailed", "push"} :
        WorkerIs([f EXCEPT !.pc = p], p, f.batch, f.rows, f.left, f.sentTo, f.dead, f.failed)
  OBVIOUS
<1>2. \A f \in WorkerStates, b \in SUBSET Rows :
        WorkerIs([f EXCEPT !.batch = b], f.pc, b, f.rows, f.left, f.sentTo, f.dead, f.failed)
  OBVIOUS
<1>3. \A f \in WorkerStates, rs \in SUBSET Rows :
        WorkerIs([f EXCEPT !.rows = rs], f.pc, f.batch, rs, f.left, f.sentTo, f.dead, f.failed)
  OBVIOUS
<1>4. \A f \in WorkerStates, l \in SUBSET (Devices \X Tokens) :
        WorkerIs([f EXCEPT !.left = l], f.pc, f.batch, f.rows, l, f.sentTo, f.dead, f.failed)
  OBVIOUS
<1>5. \A f \in WorkerStates, ds \in SUBSET Devices :
        WorkerIs([f EXCEPT !.sentTo = ds], f.pc, f.batch, f.rows, f.left, ds, f.dead, f.failed)
  OBVIOUS
<1>6. \A f \in WorkerStates, l \in SUBSET (Devices \X Tokens) :
        WorkerIs([f EXCEPT !.dead = l], f.pc, f.batch, f.rows, f.left, f.sentTo, l, f.failed)
  OBVIOUS
<1>7. \A f \in WorkerStates, b \in BOOLEAN :
        WorkerIs([f EXCEPT !.failed = b], f.pc, f.batch, f.rows, f.left, f.sentTo, f.dead, b)
  OBVIOUS
<1> HIDE DEF WorkerIs, WorkerStates
<1> QED
  BY <1>1, <1>2, <1>3, <1>4, <1>5, <1>6, <1>7

(* A worker that is done with a row. *)
LEMMA ReadyFields ==
  ASSUME NotifyTypeOK, NEW w \in Workers, NEW r \in Rows
  PROVE  \E p \in {"idle", "batch"} :
            WorkerIs(Ready(w, r), p, worker[w].batch \ {r}, {}, {}, {}, {}, FALSE)
<1> DEFINE rest == worker[w].batch \ {r}
           p == IF rest = {} THEN "idle" ELSE "batch"
           n1 == [Idle EXCEPT !.pc = p]
           n2 == [n1 EXCEPT !.batch = rest]
<1>1. worker[w] \in WorkerStates
  BY DEF NotifyTypeOK
<1>2. rest \in SUBSET Rows
  BY <1>1 DEF WorkerStates
<1>3. Idle \in WorkerStates
  BY DEF Idle, WorkerStates
<1>4. /\ Idle.rows = {} /\ Idle.left = {} /\ Idle.sentTo = {} /\ Idle.dead = {} /\ Idle.failed = FALSE
  BY DEF Idle
<1>5. Ready(w, r) = n2
  BY DEF Ready, Idle
<1>6. p \in {"idle", "batch"} /\ p \in {"idle", "batch", "mailed", "push"}
  OBVIOUS
<1> HIDE DEF rest, p
<1>7. WorkerIs(n1, p, Idle.batch, {}, {}, {}, {}, FALSE)
  BY <1>3, <1>4, <1>6, WorkerFields
<1> HIDE DEF n1
<1>8. n1 \in WorkerStates /\ WorkerIs(n2, n1.pc, rest, n1.rows, n1.left, n1.sentTo, n1.dead, n1.failed)
  BY <1>2, <1>7, WorkerFields DEF WorkerIs
<1> HIDE DEF n2
<1>9. WorkerIs(n2, p, rest, {}, {}, {}, {}, FALSE)
  BY Zenon, <1>7, <1>8 DEF WorkerIs
<1> QED
  BY <1>5, <1>6, <1>9 DEF rest

(* A step of worker w, and a step that saves row r, leave the others.      *)
OnlyWorker(w) ==
    worker' \in [Workers -> WorkerStates] /\ \A v \in Workers : v # w => worker'[v] = worker[v]
OnlyRow(r) == row' \in [Rows -> RowStates] /\ \A q \in Rows : q # r => row'[q] = row[q]

(* A step that changes the state of one worker. *)
LEMMA WorkerMoves ==
  ASSUME NotifyTypeOK, NEW w \in Workers, NEW n \in WorkerStates, worker' = [worker EXCEPT ![w] = n]
  PROVE  OnlyWorker(w) /\ worker'[w] = n
BY DEF NotifyTypeOK, OnlyWorker

(* A step that changes one row. *)
LEMMA RowMoves ==
  ASSUME NotifyTypeOK, NEW r \in Rows, NEW n \in RowStates, row' = [row EXCEPT ![r] = n]
  PROVE  OnlyRow(r) /\ row'[r] = n
BY DEF NotifyTypeOK, OnlyRow

(* What the steps do to workers and rows: a worker that is done with its row. *)
LEMMA ReadyEffect ==
  ASSUME NotifyTypeOK, NEW w \in Workers, NEW r \in Rows, worker' = [worker EXCEPT ![w] = Ready(w, r)]
  PROVE  /\ OnlyWorker(w)
         /\ \E p \in {"idle", "batch"} :
               WorkerIs(worker'[w], p, worker[w].batch \ {r}, {}, {}, {}, {}, FALSE)
<1>1. PICK p \in {"idle", "batch"} : WorkerIs(Ready(w, r), p, worker[w].batch \ {r}, {}, {}, {}, {}, FALSE)
  BY ReadyFields
<1>2. Ready(w, r) \in WorkerStates
  BY <1>1 DEF WorkerIs
<1>3. OnlyWorker(w) /\ worker'[w] = Ready(w, r)
  BY <1>2, WorkerMoves
<1> QED
  BY <1>1, <1>3

(* A worker that claims what is due. *)
LEMMA ClaimEffect ==
  ASSUME NotifyTypeOK, NEW w \in Workers, Claim(w)
  PROVE  /\ OnlyWorker(w)
         /\ LET f == worker[w]
            IN  WorkerIs(worker'[w], "batch", {r \in Rows \ LockedRows : Due(r)},
                         f.rows, f.left, f.sentTo, f.dead, f.failed)
<1> DEFINE due == {r \in Rows \ LockedRows : Due(r)}
           n1 == [worker[w] EXCEPT !.pc = "batch"]
           n2 == [n1 EXCEPT !.batch = due]
<1>1. worker[w] \in WorkerStates /\ due \in SUBSET Rows
  BY DEF NotifyTypeOK
<1>2. worker' = [worker EXCEPT ![w] = n2]
  BY DEF Claim, NotifyTypeOK
<1> HIDE DEF due
<1>3. WorkerIs(n1, "batch", worker[w].batch, worker[w].rows, worker[w].left, worker[w].sentTo,
               worker[w].dead, worker[w].failed)
  BY <1>1, WorkerFields
<1> HIDE DEF n1
<1>4. n1 \in WorkerStates /\ WorkerIs(n2, n1.pc, due, n1.rows, n1.left, n1.sentTo, n1.dead, n1.failed)
  BY <1>1, <1>3, WorkerFields DEF WorkerIs
<1> HIDE DEF n2
<1>5. WorkerIs(n2, "batch", due, worker[w].rows, worker[w].left, worker[w].sentTo,
               worker[w].dead, worker[w].failed)
  BY Zenon, <1>3, <1>4 DEF WorkerIs
<1>6. n2 \in WorkerStates
  BY <1>5 DEF WorkerIs
<1>7. OnlyWorker(w) /\ worker'[w] = n2
  BY <1>2, <1>6, WorkerMoves
<1> QED
  BY Zenon, <1>5, <1>7 DEF due

(* A worker that sends a mail. *)
LEMMA SendMailEffect ==
  ASSUME NotifyTypeOK, NEW w \in Workers, NEW r \in Rows, SendMail(w, r)
  PROVE  /\ OnlyWorker(w)
         /\ \E ok \in BOOLEAN :
               /\ mails' = [mails EXCEPT ![r] = IF ok THEN @ + 1 ELSE @]
               /\ LET f == worker[w]
                  IN  WorkerIs(worker'[w], "mailed", f.batch, {r}, f.left, f.sentTo, f.dead, ~ok)
<1>1. PICK ok \in BOOLEAN :
        /\ mails' = [mails EXCEPT ![r] = IF ok THEN @ + 1 ELSE @]
        /\ worker' = [worker EXCEPT ![w].pc = "mailed", ![w].rows = {r}, ![w].failed = ~ok]
  BY DEF SendMail
<1> DEFINE f == worker[w]
           n1 == [f EXCEPT !.pc = "mailed"]
           n2 == [n1 EXCEPT !.rows = {r}]
           no == ~ok
           n3 == [n2 EXCEPT !.failed = no]
<1>2. f \in WorkerStates /\ {r} \in SUBSET Rows /\ no \in BOOLEAN
  BY DEF NotifyTypeOK
<1>3. worker' = [worker EXCEPT ![w] = n3]
  BY <1>1 DEF NotifyTypeOK
<1> HIDE DEF f, no
<1>4. WorkerIs(n1, "mailed", f.batch, f.rows, f.left, f.sentTo, f.dead, f.failed)
  BY <1>2, WorkerFields
<1> HIDE DEF n1
<1>5. n1 \in WorkerStates /\ WorkerIs(n2, n1.pc, n1.batch, {r}, n1.left, n1.sentTo, n1.dead, n1.failed)
  BY <1>2, <1>4, WorkerFields DEF WorkerIs
<1> HIDE DEF n2
<1>6. n2 \in WorkerStates /\ WorkerIs(n3, n2.pc, n2.batch, n2.rows, n2.left, n2.sentTo, n2.dead, no)
  BY <1>2, <1>5, WorkerFields DEF WorkerIs
<1> HIDE DEF n3
<1>7. WorkerIs(n3, "mailed", f.batch, {r}, f.left, f.sentTo, f.dead, no)
  BY Zenon, <1>4, <1>5, <1>6 DEF WorkerIs
<1>8. n3 \in WorkerStates
  BY <1>7 DEF WorkerIs
<1>9. OnlyWorker(w) /\ worker'[w] = n3
  BY <1>3, <1>8, WorkerMoves
<1> QED
  BY Zenon, <1>1, <1>7, <1>9 DEF f, no

(* The devices a push still has to serve, with their tokens. *)
ToServe(r) == {<<d, device[d].token>> : d \in ActiveDevices(Recipient(r)) \ row[r].sentTo}

(* A worker that begins a push. *)
LEMMA BeginPushEffect ==
  ASSUME NotifyTypeOK, NEW w \in Workers, NEW r \in Rows, BeginPush(w, r)
  PROVE  /\ OnlyWorker(w)
         /\ LET f == worker[w]
            IN  WorkerIs(worker'[w], "push", f.batch, {r}, ToServe(r), row[r].sentTo, f.dead, f.failed)
<1> DEFINE f == worker[w]
           n1 == [f EXCEPT !.pc = "push"]
           n2 == [n1 EXCEPT !.rows = {r}]
           n3 == [n2 EXCEPT !.left = ToServe(r)]
           n4 == [n3 EXCEPT !.sentTo = row[r].sentTo]
<1>1. f \in WorkerStates /\ {r} \in SUBSET Rows
  BY DEF NotifyTypeOK
<1>2. ToServe(r) \in SUBSET (Devices \X Tokens)
  BY DEF NotifyTypeOK, ToServe, ActiveDevices, DeviceStates
<1>3. row[r].sentTo \in SUBSET Devices
  BY DEF NotifyTypeOK, RowStates
<1>4. worker' = [worker EXCEPT ![w] = n4]
  BY DEF BeginPush, NotifyTypeOK, ToServe
<1> HIDE DEF f
<1>5. WorkerIs(n1, "push", f.batch, f.rows, f.left, f.sentTo, f.dead, f.failed)
  BY <1>1, WorkerFields
<1> HIDE DEF n1
<1>6. n1 \in WorkerStates /\ WorkerIs(n2, n1.pc, n1.batch, {r}, n1.left, n1.sentTo, n1.dead, n1.failed)
  BY <1>1, <1>5, WorkerFields DEF WorkerIs
<1> HIDE DEF n2
<1>7. n2 \in WorkerStates /\ WorkerIs(n3, n2.pc, n2.batch, n2.rows, ToServe(r), n2.sentTo, n2.dead, n2.failed)
  BY <1>2, <1>6, WorkerFields DEF WorkerIs
<1> HIDE DEF n3
<1>8. n3 \in WorkerStates
      /\ WorkerIs(n4, n3.pc, n3.batch, n3.rows, n3.left, row[r].sentTo, n3.dead, n3.failed)
  BY <1>3, <1>7, WorkerFields DEF WorkerIs
<1> HIDE DEF n4
<1>9. WorkerIs(n4, "push", f.batch, {r}, ToServe(r), row[r].sentTo, f.dead, f.failed)
  BY Zenon, <1>5, <1>6, <1>7, <1>8 DEF WorkerIs
<1>10. n4 \in WorkerStates
  BY <1>9 DEF WorkerIs
<1>11. OnlyWorker(w) /\ worker'[w] = n4
  BY <1>4, <1>10, WorkerMoves
<1> QED
  BY Zenon, <1>9, <1>11 DEF f

(* A worker that sends a push to one device. *)
LEMMA SendPushEffect ==
  ASSUME NotifyTypeOK, NEW w \in Workers, NEW r \in Rows, NEW x \in worker[w].left, SendPush(w, r, x)
  PROVE  LET f == worker[w]
         IN  /\ OnlyWorker(w)
             /\ x[1] \in Devices /\ x \in Devices \X Tokens
             /\ \/ /\ pushes' = [pushes EXCEPT ![<<r, x[1]>>] = @ + 1]
                   /\ WorkerIs(worker'[w], f.pc, f.batch, f.rows, f.left \ {x}, f.sentTo \cup {x[1]},
                               f.dead, f.failed)
                \/ /\ pushes' = pushes
                   /\ \/ WorkerIs(worker'[w], f.pc, f.batch, f.rows, f.left \ {x}, f.sentTo, f.dead, TRUE)
                      \/ WorkerIs(worker'[w], f.pc, f.batch, f.rows, f.left \ {x}, f.sentTo,
                                  f.dead \cup {x}, f.failed)
<1> DEFINE f == worker[w]
           n1 == [f EXCEPT !.left = f.left \ {x}]
           nS == [n1 EXCEPT !.sentTo = n1.sentTo \cup {x[1]}]
           nF == [n1 EXCEPT !.failed = TRUE]
           nD == [n1 EXCEPT !.dead = n1.dead \cup {x}]
<1>1. f \in WorkerStates
  BY DEF NotifyTypeOK
<1>2. /\ x \in Devices \X Tokens /\ x[1] \in Devices
      /\ f.left \ {x} \in SUBSET (Devices \X Tokens)
      /\ f.sentTo \cup {x[1]} \in SUBSET Devices /\ f.dead \cup {x} \in SUBSET (Devices \X Tokens)
  BY <1>1 DEF WorkerStates
<1>3. \/ pushes' = [pushes EXCEPT ![<<r, x[1]>>] = @ + 1] /\ worker' = [worker EXCEPT ![w] = nS]
      \/ pushes' = [pushes EXCEPT ![<<r, x[1]>>] = @] /\ worker' = [worker EXCEPT ![w] = nF]
      \/ pushes' = [pushes EXCEPT ![<<r, x[1]>>] = @] /\ worker' = [worker EXCEPT ![w] = nD]
  BY DEF SendPush, NotifyTypeOK
<1>4. [pushes EXCEPT ![<<r, x[1]>>] = @] = pushes
  BY DEF NotifyTypeOK
<1> HIDE DEF f
<1>5. WorkerIs(n1, f.pc, f.batch, f.rows, f.left \ {x}, f.sentTo, f.dead, f.failed)
  BY <1>1, <1>2, WorkerFields
<1> HIDE DEF n1
<1>6. n1 \in WorkerStates /\ n1.sentTo = f.sentTo /\ n1.dead = f.dead
  BY <1>5 DEF WorkerIs
<1>7. WorkerIs(nS, n1.pc, n1.batch, n1.rows, n1.left, n1.sentTo \cup {x[1]}, n1.dead, n1.failed)
  <2>1. n1.sentTo \cup {x[1]} \in SUBSET Devices
    BY <1>2, <1>6
  <2> QED
    BY <1>6, <2>1, WorkerFields
<1>8. WorkerIs(nF, n1.pc, n1.batch, n1.rows, n1.left, n1.sentTo, n1.dead, TRUE)
  BY <1>6, WorkerFields
<1>9. WorkerIs(nD, n1.pc, n1.batch, n1.rows, n1.left, n1.sentTo, n1.dead \cup {x}, n1.failed)
  <2>1. n1.dead \cup {x} \in SUBSET (Devices \X Tokens)
    BY <1>2, <1>6
  <2> QED
    BY <1>6, <2>1, WorkerFields
<1> HIDE DEF nS, nF, nD
<1>10. WorkerIs(nS, f.pc, f.batch, f.rows, f.left \ {x}, f.sentTo \cup {x[1]}, f.dead, f.failed)
  BY Zenon, <1>5, <1>7 DEF WorkerIs
<1>11. WorkerIs(nF, f.pc, f.batch, f.rows, f.left \ {x}, f.sentTo, f.dead, TRUE)
  BY Zenon, <1>5, <1>8 DEF WorkerIs
<1>12. WorkerIs(nD, f.pc, f.batch, f.rows, f.left \ {x}, f.sentTo, f.dead \cup {x}, f.failed)
  BY Zenon, <1>5, <1>9 DEF WorkerIs
<1>13. nS \in WorkerStates /\ nF \in WorkerStates /\ nD \in WorkerStates
  BY Zenon, <1>10, <1>11, <1>12 DEF WorkerIs
<1>14. CASE pushes' = [pushes EXCEPT ![<<r, x[1]>>] = @ + 1] /\ worker' = [worker EXCEPT ![w] = nS]
  <2>1. OnlyWorker(w) /\ worker'[w] = nS
    BY <1>13, <1>14, WorkerMoves
  <2> QED
    BY Zenon, <1>2, <1>10, <1>14, <2>1 DEF f
<1>15. CASE pushes' = [pushes EXCEPT ![<<r, x[1]>>] = @] /\ worker' = [worker EXCEPT ![w] = nF]
  <2>1. OnlyWorker(w) /\ worker'[w] = nF
    BY <1>13, <1>15, WorkerMoves
  <2> QED
    BY Zenon, <1>2, <1>4, <1>11, <1>15, <2>1 DEF f
<1>16. CASE pushes' = [pushes EXCEPT ![<<r, x[1]>>] = @] /\ worker' = [worker EXCEPT ![w] = nD]
  <2>1. OnlyWorker(w) /\ worker'[w] = nD
    BY <1>13, <1>16, WorkerMoves
  <2> QED
    BY Zenon, <1>2, <1>4, <1>12, <1>16, <2>1 DEF f
<1> QED
  BY <1>3, <1>14, <1>15, <1>16

(* A row that is queued, unless it is there or not wanted. *)
LEMMA QueueEffect ==
  ASSUME NotifyTypeOK, NEW r \in Rows, Queue(r)
  PROVE  /\ OnlyRow(r)
         /\ \/ row' = row
            \/ /\ row[r].status = "NONE"
               /\ LET f == row[r] IN RowIs(row'[r], "PENDING", f.attempts, f.retry, f.error, f.sentTo)
<1> DEFINE f == row[r]
           n == [f EXCEPT !.status = "PENDING"]
<1>1. f \in RowStates
  BY DEF NotifyTypeOK
<1>2. RowIs(n, "PENDING", f.attempts, f.retry, f.error, f.sentTo)
  BY <1>1, RowFields
<1>3. row' = [row EXCEPT ![r] = f] \/ (f.status = "NONE" /\ row' = [row EXCEPT ![r] = n])
  BY DEF Queue, GetOrCreate
<1>4. [row EXCEPT ![r] = f] = row
  BY DEF NotifyTypeOK
<1>5. n \in RowStates
  BY <1>2 DEF RowIs
<1>6. CASE row' = row
  BY <1>6 DEF OnlyRow, NotifyTypeOK
<1>7. CASE f.status = "NONE" /\ row' = [row EXCEPT ![r] = n]
  <2>1. OnlyRow(r) /\ row'[r] = n
    BY <1>5, <1>7, RowMoves
  <2> QED
    BY Zenon, <1>2, <1>7, <2>1
<1> QED
  BY <1>3, <1>4, <1>6, <1>7

(* A row whose retry is due. *)
LEMMA RetryEffect ==
  ASSUME NotifyTypeOK, NEW r \in Rows, RetryDue(r)
  PROVE  /\ OnlyRow(r)
         /\ LET f == row[r] IN RowIs(row'[r], f.status, f.attempts, "due", f.error, f.sentTo)
<1> DEFINE f == row[r]
           n == [f EXCEPT !.retry = "due"]
<1>1. f \in RowStates
  BY DEF NotifyTypeOK
<1>2. RowIs(n, f.status, f.attempts, "due", f.error, f.sentTo)
  BY <1>1, RowFields
<1>3. row' = [row EXCEPT ![r] = n]
  BY DEF RetryDue, NotifyTypeOK
<1>4. n \in RowStates
  BY <1>2 DEF RowIs
<1>5. OnlyRow(r) /\ row'[r] = n
  BY <1>3, <1>4, RowMoves
<1> QED
  BY Zenon, <1>2, <1>5

(* A row that is shown. *)
LEMMA InAppEffect ==
  ASSUME NotifyTypeOK, NEW w \in Workers, NEW r \in Rows, DeliverInApp(w, r)
  PROVE  /\ OnlyRow(r)
         /\ LET f == row[r] IN RowIs(row'[r], "AVAILABLE", f.attempts + 1, f.retry, "none", f.sentTo)
<1> DEFINE f == row[r]
           n1 == [f EXCEPT !.status = "AVAILABLE"]
           n2 == [n1 EXCEPT !.attempts = f.attempts + 1]
           n3 == [n2 EXCEPT !.error = "none"]
<1>1. f \in RowStates /\ f.attempts + 1 \in Nat
  BY DEF NotifyTypeOK, RowStates
<1>2. row' = [row EXCEPT ![r] = n3]
  BY DEF DeliverInApp, NotifyTypeOK, RowStates
<1> HIDE DEF f
<1>3. RowIs(n1, "AVAILABLE", f.attempts, f.retry, f.error, f.sentTo)
  BY <1>1, RowFields DEF Final
<1> HIDE DEF n1
<1>4. n1 \in RowStates /\ RowIs(n2, n1.status, f.attempts + 1, n1.retry, n1.error, n1.sentTo)
  BY <1>1, <1>3, RowFields DEF RowIs
<1> HIDE DEF n2
<1>5. n2 \in RowStates /\ RowIs(n3, n2.status, n2.attempts, n2.retry, "none", n2.sentTo)
  BY <1>4, RowFields DEF RowIs
<1> HIDE DEF n3
<1>6. RowIs(n3, "AVAILABLE", f.attempts + 1, f.retry, "none", f.sentTo) /\ n3 \in RowStates
  BY Zenon, <1>3, <1>4, <1>5 DEF RowIs
<1>7. OnlyRow(r) /\ row'[r] = n3
  BY <1>2, <1>6, RowMoves
<1> QED
  BY Zenon, <1>6, <1>7 DEF f

(* A push that is not sent. *)
LEMMA SuppressEffect ==
  ASSUME NotifyTypeOK, NEW w \in Workers, NEW r \in Rows, SuppressPush(w, r)
  PROVE  /\ OnlyRow(r)
         /\ LET f == row[r] IN RowIs(row'[r], "SENT", f.attempts, f.retry, "suppressed", f.sentTo)
<1> DEFINE f == row[r]
           n1 == [f EXCEPT !.status = "SENT"]
           n2 == [n1 EXCEPT !.error = "suppressed"]
<1>1. f \in RowStates
  BY DEF NotifyTypeOK
<1>2. row' = [row EXCEPT ![r] = n2]
  BY DEF SuppressPush, NotifyTypeOK
<1> HIDE DEF f
<1>3. RowIs(n1, "SENT", f.attempts, f.retry, f.error, f.sentTo)
  BY <1>1, RowFields DEF Final
<1> HIDE DEF n1
<1>4. n1 \in RowStates /\ RowIs(n2, n1.status, n1.attempts, n1.retry, "suppressed", n1.sentTo)
  BY <1>3, RowFields DEF RowIs
<1> HIDE DEF n2
<1>5. RowIs(n2, "SENT", f.attempts, f.retry, "suppressed", f.sentTo) /\ n2 \in RowStates
  BY Zenon, <1>3, <1>4 DEF RowIs
<1>6. OnlyRow(r) /\ row'[r] = n2
  BY <1>2, <1>5, RowMoves
<1> QED
  BY Zenon, <1>5, <1>6 DEF f

(* A row with its outcome. *)
LEMMA SavedFields ==
  ASSUME NEW f \in RowStates, NEW a \in Nat, NEW e \in {"none", "error", "suppressed"},
         NEW s \in {"NONE", "PENDING", "FAILED"} \cup Final, NEW t \in {"never", "later", "due"}
  PROVE  RowIs([f EXCEPT !.attempts = a, !.error = e, !.status = s, !.retry = t], s, a, t, e, f.sentTo)
<1> DEFINE n1 == [f EXCEPT !.attempts = a]
           n2 == [n1 EXCEPT !.error = e]
           n3 == [n2 EXCEPT !.status = s]
           n4 == [n3 EXCEPT !.retry = t]
<1>1. [f EXCEPT !.attempts = a, !.error = e, !.status = s, !.retry = t] = n4
  BY DEF RowStates
<1>2. RowIs(n1, f.status, a, f.retry, f.error, f.sentTo)
  BY RowFields
<1> HIDE DEF n1
<1>3. n1 \in RowStates /\ RowIs(n2, n1.status, n1.attempts, n1.retry, e, n1.sentTo)
  <2>1. n1 \in RowStates
    BY <1>2 DEF RowIs
  <2> QED
    BY <2>1, RowFields
<1> HIDE DEF n2
<1>4. n2 \in RowStates /\ RowIs(n3, s, n2.attempts, n2.retry, n2.error, n2.sentTo)
  <2>1. n2 \in RowStates
    BY <1>3 DEF RowIs
  <2> QED
    BY <2>1, RowFields
<1> HIDE DEF n3
<1>5. n3 \in RowStates /\ RowIs(n4, n3.status, n3.attempts, t, n3.error, n3.sentTo)
  <2>1. n3 \in RowStates
    BY <1>4 DEF RowIs
  <2> QED
    BY <2>1, RowFields
<1> HIDE DEF n4
<1>6. RowIs(n4, s, a, t, e, f.sentTo)
  BY Zenon, <1>2, <1>3, <1>4, <1>5 DEF RowIs
<1> QED
  BY <1>1, <1>6

(* A row saved after its mail. *)
LEMMA SaveMailEffect ==
  ASSUME NotifyTypeOK, NEW w \in Workers, NEW r \in Rows, SaveMail(w, r)
  PROVE  LET f == row[r]
         IN  /\ OnlyRow(r)
             /\ \/ /\ ~worker[w].failed
                   /\ RowIs(row'[r], "SENT", f.attempts + 1, "never", "none", f.sentTo)
                \/ /\ worker[w].failed /\ f.attempts + 1 >= MaxEmailAttempts
                   /\ RowIs(row'[r], "DEAD", f.attempts + 1, "never", "error", f.sentTo)
                \/ /\ worker[w].failed /\ f.attempts + 1 < MaxEmailAttempts
                   /\ RowIs(row'[r], "FAILED", f.attempts + 1, "later", "error", f.sentTo)
<1> DEFINE f == row[r]
           a == f.attempts + 1
           nS == [f EXCEPT !.attempts = a, !.error = "none", !.status = "SENT", !.retry = "never"]
           nD == [f EXCEPT !.attempts = a, !.error = "error", !.status = "DEAD", !.retry = "never"]
           nF == [f EXCEPT !.attempts = a, !.error = "error", !.status = "FAILED", !.retry = "later"]
<1>1. f \in RowStates /\ a \in Nat
  BY DEF NotifyTypeOK, RowStates
<1>2. RowIs(nS, "SENT", a, "never", "none", f.sentTo)
  BY <1>1, SavedFields DEF Final
<1>3. RowIs(nD, "DEAD", a, "never", "error", f.sentTo)
  BY <1>1, SavedFields DEF Final
<1>4. RowIs(nF, "FAILED", a, "later", "error", f.sentTo)
  BY <1>1, SavedFields
<1>5. nS \in RowStates /\ nD \in RowStates /\ nF \in RowStates
  BY Zenon, <1>2, <1>3, <1>4 DEF RowIs
<1>6. \/ ~worker[w].failed /\ row' = [row EXCEPT ![r] = nS]
      \/ worker[w].failed /\ a >= MaxEmailAttempts /\ row' = [row EXCEPT ![r] = nD]
      \/ worker[w].failed /\ a < MaxEmailAttempts /\ row' = [row EXCEPT ![r] = nF]
  <2>1. MaxEmailAttempts \in Nat
    BY LimitAssumption
  <2>2. CASE ~worker[w].failed
    BY <2>2 DEF SaveMail
  <2>3. CASE worker[w].failed
    <3>1. row' = [row EXCEPT ![r] = MailFailed(r)]
      BY <2>3 DEF SaveMail
    <3>2. CASE a >= MaxEmailAttempts
      <4>1. MailFailed(r) = nD
        BY <3>2 DEF MailFailed
      <4> QED
        BY <2>3, <3>1, <3>2, <4>1
    <3>3. CASE a < MaxEmailAttempts
      <4>1. ~(a >= MaxEmailAttempts)
        BY <1>1, <2>1, <3>3
      <4>2. MailFailed(r) = nF
        BY <4>1 DEF MailFailed
      <4> QED
        BY <2>3, <3>1, <3>3, <4>2
    <3> QED
      BY <1>1, <2>1, <3>2, <3>3
  <2> QED
    BY <2>2, <2>3
<1> HIDE DEF nS, nD, nF
<1>7. CASE ~worker[w].failed /\ row' = [row EXCEPT ![r] = nS]
  <2>1. OnlyRow(r) /\ row'[r] = nS
    BY <1>5, <1>7, RowMoves
  <2> QED
    BY Zenon, <1>2, <1>7, <2>1
<1>8. CASE worker[w].failed /\ a >= MaxEmailAttempts /\ row' = [row EXCEPT ![r] = nD]
  <2>1. OnlyRow(r) /\ row'[r] = nD
    BY <1>5, <1>8, RowMoves
  <2> QED
    BY Zenon, <1>3, <1>8, <2>1
<1>9. CASE worker[w].failed /\ a < MaxEmailAttempts /\ row' = [row EXCEPT ![r] = nF]
  <2>1. OnlyRow(r) /\ row'[r] = nF
    BY <1>5, <1>9, RowMoves
  <2> QED
    BY Zenon, <1>4, <1>9, <2>1
<1> QED
  BY <1>6, <1>7, <1>8, <1>9

(* A row saved after its push. *)
LEMMA SavePushEffect ==
  ASSUME NotifyTypeOK, NEW w \in Workers, NEW r \in Rows, SavePush(w, r)
  PROVE  LET f == row[r]
             g == worker[w]
         IN  /\ OnlyRow(r)
             /\ \/ /\ g.failed
                   /\ \E t \in {"never", "later"} :
                         /\ f.attempts + 1 >= MaxPushAttempts => t = "never"
                         /\ RowIs(row'[r], "FAILED", f.attempts + 1, t, "error", g.sentTo)
                \/ /\ ~g.failed
                   /\ \E e \in {"none", "suppressed"} :
                         /\ e = "none" => g.sentTo # {}
                         /\ RowIs(row'[r], "SENT", f.attempts + 1, "never", e, g.sentTo)
<1> DEFINE f == row[r]
           g == worker[w]
           a == f.attempts + 1
           m1 == [f EXCEPT !.attempts = a]
           m == [m1 EXCEPT !.sentTo = g.sentTo]
           e == IF g.sentTo # {} THEN "none" ELSE "suppressed"
           t == IF a >= MaxPushAttempts THEN "never" ELSE "later"
           nS1 == [m EXCEPT !.status = "SENT"]
           nS2 == [nS1 EXCEPT !.retry = "never"]
           nS == [nS2 EXCEPT !.error = e]
           nF1 == [m EXCEPT !.status = "FAILED"]
           nF2 == [nF1 EXCEPT !.error = "error"]
           nF == [nF2 EXCEPT !.retry = t]
<1>1. f \in RowStates /\ a \in Nat /\ g.sentTo \in SUBSET Devices
  BY DEF NotifyTypeOK, RowStates, WorkerStates
<1>2. m.attempts = a
  BY <1>1 DEF RowStates
<1>3. m = [f EXCEPT !.attempts = @ + 1, !.sentTo = g.sentTo]
  BY <1>1 DEF RowStates
<1>4. RowIs(m1, f.status, a, f.retry, f.error, f.sentTo)
  BY <1>1, RowFields
<1> HIDE DEF m1
<1>5. m1 \in RowStates /\ RowIs(m, m1.status, m1.attempts, m1.retry, m1.error, g.sentTo)
  <2>1. m1 \in RowStates
    BY <1>4 DEF RowIs
  <2> QED
    BY <1>1, <2>1, RowFields
<1>6. m \in RowStates
  BY <1>5 DEF RowIs
<1>7. row' = [row EXCEPT ![r] = IF g.failed THEN nF ELSE nS]
  <2>1. row' = [row EXCEPT ![r] = PushOutcome(w, r)]
    BY DEF SavePush
  <2>2. PushOutcome(w, r)
          = IF g.failed
            THEN [m EXCEPT !.status = "FAILED", !.error = "error",
                     !.retry = IF m.attempts >= MaxPushAttempts THEN "never" ELSE "later"]
            ELSE [m EXCEPT !.status = "SENT", !.retry = "never", !.error = e]
    BY Zenon, <1>3 DEF PushOutcome, PushProgress
  <2>3. [m EXCEPT !.status = "FAILED", !.error = "error", !.retry = t] = nF
    BY <1>6 DEF RowStates
  <2>4. [m EXCEPT !.status = "SENT", !.retry = "never", !.error = e] = nS
    BY <1>6 DEF RowStates
  <2> HIDE DEF nF, nS, m, e
  <2> QED
    BY Zenon, <1>2, <2>1, <2>2, <2>3, <2>4
<1>8. e \in {"none", "error", "suppressed"} /\ t \in {"never", "later", "due"}
  OBVIOUS
<1> HIDE DEF m, e, t
<1>9. RowIs(nS1, "SENT", m.attempts, m.retry, m.error, m.sentTo)
  BY <1>6, RowFields DEF Final
<1>10. RowIs(nF1, "FAILED", m.attempts, m.retry, m.error, m.sentTo)
  BY <1>6, RowFields
<1> HIDE DEF nS1, nF1
<1>11. nS1 \in RowStates /\ RowIs(nS2, nS1.status, nS1.attempts, "never", nS1.error, nS1.sentTo)
  <2>1. nS1 \in RowStates
    BY <1>9 DEF RowIs
  <2> QED
    BY <2>1, RowFields
<1>12. nF1 \in RowStates /\ RowIs(nF2, nF1.status, nF1.attempts, nF1.retry, "error", nF1.sentTo)
  <2>1. nF1 \in RowStates
    BY <1>10 DEF RowIs
  <2> QED
    BY <2>1, RowFields
<1> HIDE DEF nS2, nF2
<1>13. nS2 \in RowStates /\ RowIs(nS, nS2.status, nS2.attempts, nS2.retry, e, nS2.sentTo)
  <2>1. nS2 \in RowStates
    BY <1>11 DEF RowIs
  <2> QED
    BY <1>8, <2>1, RowFields
<1>14. nF2 \in RowStates /\ RowIs(nF, nF2.status, nF2.attempts, t, nF2.error, nF2.sentTo)
  <2>1. nF2 \in RowStates
    BY <1>12 DEF RowIs
  <2> QED
    BY <1>8, <2>1, RowFields
<1> HIDE DEF nS, nF
<1>15. m.sentTo = g.sentTo
  BY <1>5 DEF RowIs
<1>16. RowIs(nS, "SENT", a, "never", e, g.sentTo) /\ nS \in RowStates
  BY Zenon, <1>2, <1>9, <1>11, <1>13, <1>15 DEF RowIs
<1>17. RowIs(nF, "FAILED", a, t, "error", g.sentTo) /\ nF \in RowStates
  BY Zenon, <1>2, <1>10, <1>12, <1>14, <1>15 DEF RowIs
<1>18. CASE g.failed
  <2>1. row' = [row EXCEPT ![r] = nF]
    BY <1>7, <1>18
  <2>2. OnlyRow(r) /\ row'[r] = nF
    BY <1>17, <2>1, RowMoves
  <2>3. t \in {"never", "later"} /\ (a >= MaxPushAttempts => t = "never")
    BY DEF t
  <2> QED
    BY Zenon, <1>17, <1>18, <2>2, <2>3
<1>19. CASE ~g.failed
  <2>1. row' = [row EXCEPT ![r] = nS]
    BY <1>7, <1>19
  <2>2. OnlyRow(r) /\ row'[r] = nS
    BY <1>16, <2>1, RowMoves
  <2>3. e \in {"none", "suppressed"} /\ (e = "none" => g.sentTo # {})
    BY DEF e
  <2> QED
    BY Zenon, <1>16, <1>19, <2>2, <2>3
<1> QED
  BY <1>18, <1>19

(* The types are inductive. *)
LEMMA NotifyTyped ==
  ASSUME NotifyTypeOK, [NotifyNext]_notifyVars
  PROVE  NotifyTypeOK'
<1> USE DEF NotifyTypeOK, queueVars, sentVars
<1>1. ASSUME NEW e \in Events, Notify(e) PROVE NotifyTypeOK'
  <2>1. notified' \in [Events -> 0 .. MaxNotify]
    BY <1>1, LimitAssumption DEF Notify
  <2>2. callback' \subseteq Rows
    BY <1>1 DEF Notify, RowsOf
  <2> QED
    BY <1>1, <2>1, <2>2 DEF Notify
<1>2. ASSUME NEW e \in Events, NEW u \in Users, DropCallback(u, e) PROVE NotifyTypeOK'
  <2>1. crashes' \in 0 .. MaxCrashes
    BY <1>2, LimitAssumption DEF DropCallback
  <2>2. callback' \subseteq Rows
    BY <1>2 DEF DropCallback
  <2> QED
    BY <1>2, <2>1, <2>2 DEF DropCallback
<1>3. ASSUME NEW r \in Rows, Queue(r) PROVE NotifyTypeOK'
  <2>1. row' \in [Rows -> RowStates]
    BY <1>3, QueueEffect DEF OnlyRow
  <2>2. callback' \subseteq Rows
    BY <1>3 DEF Queue
  <2> QED
    BY <1>3, <2>1, <2>2 DEF Queue
<1>4. ASSUME NEW r \in Rows, RetryDue(r) PROVE NotifyTypeOK'
  <2>1. row' \in [Rows -> RowStates]
    BY <1>4, RetryEffect DEF OnlyRow
  <2> QED
    BY <1>4, <2>1 DEF RetryDue
<1>5. ASSUME NEW w \in Workers, Claim(w) PROVE NotifyTypeOK'
  <2>1. worker' \in [Workers -> WorkerStates]
    BY <1>5, ClaimEffect DEF OnlyWorker
  <2> QED
    BY <1>5, <2>1 DEF Claim
<1>6. ASSUME NEW w \in Workers, Crash(w) PROVE NotifyTypeOK'
  <2>1. crashes' \in 0 .. MaxCrashes
    BY <1>6, LimitAssumption DEF Crash
  <2>2. worker' \in [Workers -> WorkerStates]
    <3>1. Idle \in WorkerStates
      BY DEF Idle, WorkerStates
    <3> QED
      BY <1>6, <3>1 DEF Crash
  <2> QED
    BY <1>6, <2>1, <2>2 DEF Crash
<1>7. ASSUME NEW w \in Workers, NEW r \in Rows, Deliver(w, r) PROVE NotifyTypeOK'
  <2>1. CASE SkipDelivery(w, r)
    <3>1. worker' \in [Workers -> WorkerStates]
      BY <2>1, ReadyEffect DEF SkipDelivery, OnlyWorker
    <3> QED
      BY <2>1, <3>1 DEF SkipDelivery
  <2>2. CASE DeliverInApp(w, r)
    <3>1. worker' \in [Workers -> WorkerStates]
      BY <2>2, ReadyEffect DEF DeliverInApp, OnlyWorker
    <3>2. row' \in [Rows -> RowStates]
      BY <2>2, InAppEffect DEF OnlyRow
    <3> QED
      BY <2>2, <3>1, <3>2 DEF DeliverInApp
  <2>3. CASE SendMail(w, r)
    <3>1. worker' \in [Workers -> WorkerStates]
      BY <2>3, SendMailEffect DEF OnlyWorker
    <3>2. mails' \in [Rows -> Nat]
      BY <2>3 DEF SendMail
    <3> QED
      BY <2>3, <3>1, <3>2 DEF SendMail
  <2>4. CASE SaveMail(w, r)
    <3>1. worker' \in [Workers -> WorkerStates]
      BY <2>4, ReadyEffect DEF SaveMail, OnlyWorker
    <3>2. row' \in [Rows -> RowStates]
      BY <2>4, SaveMailEffect DEF OnlyRow
    <3> QED
      BY <2>4, <3>1, <3>2 DEF SaveMail
  <2>5. CASE SuppressPush(w, r)
    <3>1. worker' \in [Workers -> WorkerStates]
      BY <2>5, ReadyEffect DEF SuppressPush, OnlyWorker
    <3>2. row' \in [Rows -> RowStates]
      BY <2>5, SuppressEffect DEF OnlyRow
    <3> QED
      BY <2>5, <3>1, <3>2 DEF SuppressPush
  <2>6. CASE BeginPush(w, r)
    <3>1. worker' \in [Workers -> WorkerStates]
      BY <2>6, BeginPushEffect DEF OnlyWorker
    <3> QED
      BY <2>6, <3>1 DEF BeginPush
  <2>7. CASE SavePush(w, r)
    <3>1. worker' \in [Workers -> WorkerStates]
      BY <2>7, ReadyEffect DEF SavePush, OnlyWorker
    <3>2. row' \in [Rows -> RowStates]
      BY <2>7, SavePushEffect DEF OnlyRow
    <3>3. device' \in [Devices -> DeviceStates]
      BY <2>7 DEF SavePush, DeviceStates
    <3> QED
      BY <2>7, <3>1, <3>2, <3>3 DEF SavePush
  <2>8. ASSUME NEW x \in worker[w].left, SendPush(w, r, x) PROVE NotifyTypeOK'
    <3>1. worker' \in [Workers -> WorkerStates]
      BY <2>8, SendPushEffect DEF OnlyWorker
    <3>2. pushes' \in [Rows \X Devices -> Nat]
      <4>1. pushes' = [pushes EXCEPT ![<<r, x[1]>>] = @ + 1] \/ pushes' = pushes
        BY <2>8, SendPushEffect
      <4>2. <<r, x[1]>> \in Rows \X Devices
        BY <2>8, SendPushEffect
      <4> QED
        BY <4>1, <4>2
    <3> QED
      BY <2>8, <3>1, <3>2 DEF SendPush
  <2> QED
    BY <1>7, <2>1, <2>2, <2>3, <2>4, <2>5, <2>6, <2>7, <2>8 DEF Deliver
<1>8. ASSUME NEW d \in Devices, NEW t \in Tokens, RegisterDevice(d, t) PROVE NotifyTypeOK'
  <2>1. device' \in [Devices -> DeviceStates]
    BY <1>8 DEF RegisterDevice, DeviceStates
  <2> QED
    BY <1>8, <2>1 DEF RegisterDevice
<1>9. ASSUME NEW some, Deactivate(some) PROVE NotifyTypeOK'
  <2>1. device' \in [Devices -> DeviceStates]
    BY <1>9 DEF Deactivate, DeviceStates
  <2> QED
    BY <1>9, <2>1 DEF Deactivate
<1>10. ASSUME NEW u \in Users, SetPreference(u) PROVE NotifyTypeOK'
  <2>1. pref' \in [Users -> [email : BOOLEAN, push : BOOLEAN]]
    BY <1>10 DEF SetPreference
  <2> QED
    BY <1>10, <2>1 DEF SetPreference
<1>11. ASSUME NEW u \in Users, LoseOccupancy(u) PROVE NotifyTypeOK'
  BY <1>11 DEF LoseOccupancy
<1>12. CASE UNCHANGED notifyVars
  BY <1>12 DEF notifyVars
<1> QED
  BY <1>1, <1>2, <1>3, <1>4, <1>5, <1>6, <1>7, <1>8, <1>9, <1>10, <1>11, <1>12
     DEF NotifyNext, WorkerStep

(* What keeps each part of the invariant: locks that nobody else holds. *)
LEMMA LocksKept ==
  ASSUME NotifyTypeOK, Locks, NEW w \in Workers, OnlyWorker(w),
         \A q \in Rows : row'[q].status \in Final /\ row[q].status \notin Final =>
             \A v \in Workers : v # w => q \notin worker[v].rows,
         worker'[w].pc \in {"idle", "batch"} => worker'[w].rows = {},
         \A q \in worker'[w].rows :
             /\ q \in worker'[w].batch /\ row'[q].status \notin Final
             /\ Channel(q) = IF worker'[w].pc = "mailed" THEN "EMAIL" ELSE "PUSH"
             /\ \A z \in worker'[w].rows : z = q
             /\ \A v \in Workers : v # w => q \notin worker[v].rows
  PROVE  Locks'
<1>1. \A v \in Workers : worker[v].rows \subseteq Rows
  BY DEF NotifyTypeOK, WorkerStates
<1> QED
  BY <1>1 DEF Locks, OnlyWorker

(* Claimed rows still exist. *)
LEMMA ClaimedKept ==
  ASSUME Claimed,
         \A q \in Rows : row'[q].status = "NONE" => row[q].status = "NONE",
         \A v \in Workers : \A q \in worker'[v].batch :
             q \in Rows /\ (q \in worker[v].batch \/ row[q].status # "NONE")
  PROVE  Claimed'
BY DEF Claimed

(* Steps that send no mail keep the ledger of mails. *)
LEMMA MailKept ==
  ASSUME NotifyTypeOK, MailLedger, NEW w \in Workers, OnlyWorker(w), mails' = mails,
         crashes' = 0 => crashes = 0,
         worker'[w].pc # "mailed",
         \A q \in Rows : row[q].status = "SENT" => row'[q].status = "SENT",
         \A q \in Rows : crashes' = 0 /\ MailedBy(w, q) => row'[q].status = "SENT"
  PROVE  MailLedger'
<1>1. ASSUME NEW v \in Workers, NEW q \in Rows, MailedBy(v, q)' PROVE mails'[q] > 0
  BY <1>1 DEF MailLedger, MailedBy, OnlyWorker
<1>2. ASSUME crashes' = 0, NEW q \in Rows
      PROVE  \/ mails'[q] = 0
             \/ mails'[q] = 1 /\ (row'[q].status = "SENT" \/ \E v \in Workers : MailedBy(v, q)')
  <2>1. \A v \in Workers : v # w /\ MailedBy(v, q) => MailedBy(v, q)'
    BY DEF MailedBy, OnlyWorker
  <2> QED
    BY <1>2, <2>1 DEF MailLedger
<1> QED
  BY <1>1, <1>2 DEF MailLedger

(* Steps outside of a push keep the ledger of pushes. *)
LEMMA PushKept ==
  ASSUME NotifyTypeOK, PushLedger, NEW w \in Workers, OnlyWorker(w), pushes' = pushes,
         crashes' = 0 => crashes = 0,
         worker'[w].pc # "push",
         \A q \in Rows : row[q].sentTo \subseteq row'[q].sentTo,
         \A v \in Workers : v # w => \A q \in worker[v].rows : row'[q].sentTo = row[q].sentTo,
         \A q \in Rows, d \in Devices : crashes' = 0 /\ PushedBy(w, q, d) => d \in row'[q].sentTo
  PROVE  PushLedger'
<1>1. ASSUME NEW v \in Workers, NEW q \in Rows, worker'[v].pc = "push", q \in worker'[v].rows
      PROVE  /\ row'[q].sentTo \subseteq worker'[v].sentTo
             /\ \A d \in worker'[v].sentTo : pushes'[<<q, d>>] > 0
             /\ \A x \in worker'[v].left :
                   /\ x[1] \notin worker'[v].sentTo
                   /\ \A y \in worker'[v].left : y[1] = x[1] => y = x
  <2>1. v # w /\ worker'[v] = worker[v]
    BY <1>1 DEF OnlyWorker
  <2> QED
    BY <1>1, <2>1 DEF PushLedger
<1>2. ASSUME crashes' = 0, NEW q \in Rows, NEW d \in Devices
      PROVE  \/ pushes'[<<q, d>>] = 0
             \/ pushes'[<<q, d>>] = 1 /\ (d \in row'[q].sentTo \/ \E v \in Workers : PushedBy(v, q, d)')
  <2>1. \A v \in Workers : v # w /\ PushedBy(v, q, d) => PushedBy(v, q, d)'
    BY DEF PushedBy, OnlyWorker
  <2>2. \/ pushes[<<q, d>>] = 0
        \/ pushes[<<q, d>>] = 1 /\ (d \in row[q].sentTo \/ \E v \in Workers : PushedBy(v, q, d))
    BY <1>2 DEF PushLedger
  <2> QED
    BY <1>2, <2>1, <2>2
<1> QED
  BY <1>1, <1>2 DEF PushLedger

(* What was accepted stays accepted. *)
LEMMA SentKept ==
  ASSUME SentIsTrue, NotifyTypeOK, NotifyTypeOK', row' = row,
         \A q \in Rows : mails[q] > 0 => mails'[q] > 0,
         \A q \in Rows, d \in Devices : pushes[<<q, d>>] > 0 => pushes'[<<q, d>>] > 0
  PROVE  SentIsTrue'
<1>1. \A q \in Rows : row[q].sentTo \subseteq Devices
  BY DEF NotifyTypeOK, RowStates
<1> QED
  BY <1>1 DEF SentIsTrue

(* Fewer workers have a row in their batch. *)
LEMMA HoldersShrink ==
  ASSUME NEW q \in Rows, HoldersOf(q)' \subseteq HoldersOf(q)
  PROVE  /\ Cardinality(HoldersOf(q)) \in Nat /\ Cardinality(HoldersOf(q)') \in Nat
         /\ Cardinality(HoldersOf(q)') <= Cardinality(HoldersOf(q))
<1>1. IsFiniteSet(HoldersOf(q))
  BY WorkersAssumption, FS_Subset DEF HoldersOf
<1>2. IsFiniteSet(HoldersOf(q)') /\ Cardinality(HoldersOf(q)') <= Cardinality(HoldersOf(q))
  BY <1>1, FS_Subset
<1> QED
  BY <1>1, <1>2, FS_CardinalityType

(* A row whose attempts stay keeps its bound. *)
LEMMA AttemptsKept ==
  ASSUME NotifyTypeOK, NotifyTypeOK', NEW q \in Rows, AttemptsAt(q),
         row'[q].attempts = row[q].attempts,
         row[q].status \in Final => row'[q].status \in Final,
         Parked(q) => Parked(q)' /\ \A v \in Workers : q \in worker'[v].batch => q \in worker[v].batch
  PROVE  AttemptsAt(q)'
<1>1. CASE Channel(q) # "PUSH"
  BY <1>1 DEF AttemptsAt
<1>2. CASE row[q].attempts < MaxPushAttempts /\ Channel(q) = "PUSH"
  BY <1>2 DEF AttemptsAt
<1>3. CASE Channel(q) = "PUSH" /\ ~(row[q].attempts < MaxPushAttempts)
  <2>1. /\ Parked(q)
        /\ row[q].attempts + Cardinality(HoldersOf(q)) <= MaxPushAttempts + Cardinality(Workers) - 1
    BY <1>3 DEF AttemptsAt
  <2>2. HoldersOf(q)' \subseteq HoldersOf(q)
    BY <2>1 DEF HoldersOf
  <2>3. /\ Cardinality(HoldersOf(q)) \in Nat /\ Cardinality(HoldersOf(q)') \in Nat
        /\ Cardinality(HoldersOf(q)') <= Cardinality(HoldersOf(q))
    BY <2>2, HoldersShrink
  <2>4. row[q].attempts \in Nat /\ MaxPushAttempts \in Nat /\ Cardinality(Workers) \in Nat
    BY LimitAssumption, WorkersAssumption, FS_CardinalityType DEF NotifyTypeOK, RowStates
  <2>5. row'[q].attempts + Cardinality(HoldersOf(q)') <= MaxPushAttempts + Cardinality(Workers) - 1
    BY <2>1, <2>3, <2>4
  <2> QED
    BY <1>3, <2>1, <2>5 DEF AttemptsAt
<1> QED
  BY <1>1, <1>2, <1>3

(* The rows that were not saved keep their attempts. *)
LEMMA OthersKept ==
  ASSUME NotifyTypeOK, NotifyTypeOK', NEW r \in Rows, OnlyRow(r), AttemptsLeft, AttemptsAt(r)',
         NEW w \in Workers, OnlyWorker(w), worker'[w].batch \subseteq worker[w].batch
  PROVE  AttemptsLeft'
<1>1. ASSUME NEW q \in Rows, q # r PROVE AttemptsAt(q)'
  <2>1. row'[q] = row[q]
    BY <1>1 DEF OnlyRow
  <2>2. Parked(q)' <=> Parked(q)
    BY <2>1 DEF Parked
  <2>3. \A v \in Workers : q \in worker'[v].batch => q \in worker[v].batch
    BY DEF OnlyWorker
  <2> QED
    BY <2>1, <2>2, <2>3, AttemptsKept DEF AttemptsLeft
<1> QED
  BY <1>1 DEF AttemptsLeft

(* A worker that saves a row gives up its claim. *)
LEMMA HolderGone ==
  ASSUME NotifyTypeOK, NEW w \in Workers, NEW r \in Rows, OnlyWorker(w),
         worker'[w].batch = worker[w].batch \ {r}
  PROVE  /\ Cardinality(HoldersOf(r)') \in Nat /\ Cardinality(Workers) \in Nat
         /\ Cardinality(HoldersOf(r)') <= Cardinality(Workers) - 1
         /\ r \in worker[w].batch =>
               /\ Cardinality(HoldersOf(r)) \in Nat
               /\ Cardinality(HoldersOf(r)') = Cardinality(HoldersOf(r)) - 1
<1>1. HoldersOf(r)' = HoldersOf(r) \ {w}
  BY DEF HoldersOf, OnlyWorker
<1>2. IsFiniteSet(Workers) /\ IsFiniteSet(HoldersOf(r))
  BY WorkersAssumption, FS_Subset DEF HoldersOf
<1>3. IsFiniteSet(Workers \ {w}) /\ Cardinality(Workers \ {w}) = Cardinality(Workers) - 1
  BY <1>2, FS_RemoveElement
<1>4. HoldersOf(r)' \subseteq Workers \ {w}
  BY <1>1 DEF HoldersOf
<1>5. IsFiniteSet(HoldersOf(r)') /\ Cardinality(HoldersOf(r)') <= Cardinality(Workers) - 1
  BY <1>3, <1>4, FS_Subset
<1>6. r \in worker[w].batch => Cardinality(HoldersOf(r)') = Cardinality(HoldersOf(r)) - 1
  <2>1. r \in worker[w].batch => w \in HoldersOf(r)
    BY DEF HoldersOf
  <2> QED
    BY <1>1, <1>2, <2>1, FS_RemoveElement
<1> QED
  BY <1>2, <1>5, <1>6, FS_CardinalityType

(* Steps that touch neither rows nor workers nor what was accepted. *)
LEMMA QuietKept ==
  ASSUME LedgersHold, UNCHANGED <<row, worker, mails, pushes>>, crashes' = 0 => crashes = 0
  PROVE  LedgersHold'
<1>1. Locks' /\ Claimed' /\ SentIsTrue'
  BY DEF LedgersHold, Locks, Claimed, SentIsTrue
<1>2. MailLedger'
  BY DEF LedgersHold, MailLedger, MailedBy
<1>3. PushLedger'
  BY DEF LedgersHold, PushLedger, PushedBy
<1>4. AttemptsLeft'
  BY DEF LedgersHold, AttemptsLeft, AttemptsAt, Parked, HoldersOf
<1> QED
  BY <1>1, <1>2, <1>3, <1>4 DEF LedgersHold

(* A row is queued or becomes due: no field that the ledgers read moves. *)
LEMMA RowWaits ==
  ASSUME NotifyTypeOK, NotifyTypeOK', LedgersHold, UNCHANGED <<worker, mails, pushes, crashes>>,
         NEW r \in Rows, OnlyRow(r),
         row'[r].attempts = row[r].attempts, row'[r].error = row[r].error,
         row'[r].sentTo = row[r].sentTo,
         row'[r].status = row[r].status \/ (row[r].status = "NONE" /\ row'[r].status = "PENDING"),
         Parked(r) => Parked(r)'
  PROVE  LedgersHold'
<1>1. \A q \in Rows :
        /\ row'[q].attempts = row[q].attempts /\ row'[q].error = row[q].error
        /\ row'[q].sentTo = row[q].sentTo
        /\ row'[q].status = row[q].status \/ (row[q].status = "NONE" /\ row'[q].status = "PENDING")
        /\ row'[q].status \in Final <=> row[q].status \in Final
        /\ row'[q].status = "SENT" <=> row[q].status = "SENT"
        /\ Parked(q) => Parked(q)'
  BY DEF OnlyRow, Final, Parked
<1>2. \A v \in Workers : worker[v].rows \subseteq Rows /\ worker[v].batch \subseteq Rows
  BY DEF NotifyTypeOK, WorkerStates
<1>3. Locks'
  BY <1>1, <1>2 DEF LedgersHold, Locks
<1>4. Claimed'
  BY <1>1, <1>2 DEF LedgersHold, Claimed
<1>5. MailLedger'
  BY <1>1 DEF LedgersHold, MailLedger, MailedBy
<1>6. PushLedger'
  BY <1>1 DEF LedgersHold, PushLedger, PushedBy
<1>7. SentIsTrue'
  BY <1>1 DEF LedgersHold, SentIsTrue
<1>8. ASSUME NEW q \in Rows PROVE AttemptsAt(q)'
  BY <1>1, AttemptsKept DEF LedgersHold, AttemptsLeft
<1> QED
  BY <1>3, <1>4, <1>5, <1>6, <1>7, <1>8 DEF LedgersHold, AttemptsLeft

(* A worker that claims, skips or dies leaves rows and servers alone. *)
LEMMA ClaimKept ==
  ASSUME NotifyTypeOK, NotifyTypeOK', LedgersHold, NEW w \in Workers, Claim(w)
  PROVE  LedgersHold'
<1>1. /\ OnlyWorker(w) /\ worker'[w].pc = "batch" /\ worker'[w].rows = worker[w].rows
      /\ worker'[w].batch = {r \in Rows \ LockedRows : Due(r)}
  BY ClaimEffect DEF WorkerIs
<1>2. worker[w].pc = "idle" /\ UNCHANGED <<row, mails, pushes, crashes>>
  BY DEF Claim, sentVars
<1>3. worker[w].rows = {}
  BY <1>2 DEF LedgersHold, Locks
<1>4. Locks'
  BY <1>1, <1>2, <1>3, LocksKept DEF LedgersHold
<1>5. Claimed'
  <2>1. \A q \in worker'[w].batch : q \in Rows /\ row[q].status # "NONE"
    BY <1>1 DEF Due
  <2>2. \A v \in Workers : v # w => worker'[v].batch \subseteq Rows /\ worker'[v].batch = worker[v].batch
    BY <1>1 DEF OnlyWorker, NotifyTypeOK, WorkerStates
  <2> QED
    BY <1>2, <2>1, <2>2, ClaimedKept DEF LedgersHold
<1>6. MailLedger'
  BY <1>1, <1>2, MailKept DEF LedgersHold, MailedBy
<1>7. PushLedger'
  BY <1>1, <1>2, PushKept DEF LedgersHold, PushedBy
<1>8. SentIsTrue'
  BY <1>2, SentKept DEF LedgersHold
<1>9. ASSUME NEW q \in Rows PROVE AttemptsAt(q)'
  <2>1. Parked(q) => q \notin worker'[w].batch
    BY <1>1 DEF Parked, Due, Final
  <2>2. Parked(q) => \A v \in Workers : q \in worker'[v].batch => q \in worker[v].batch
    BY <1>1, <2>1 DEF OnlyWorker
  <2>3. Parked(q)' <=> Parked(q)
    BY <1>2 DEF Parked
  <2> QED
    BY <1>2, <2>2, <2>3, AttemptsKept DEF LedgersHold, AttemptsLeft
<1> QED
  BY <1>4, <1>5, <1>6, <1>7, <1>8, <1>9 DEF LedgersHold, AttemptsLeft

(* A worker gives something up. *)
LEMMA DropsKept ==
  ASSUME NotifyTypeOK, NotifyTypeOK', LedgersHold, NEW w \in Workers, OnlyWorker(w),
         worker'[w].pc \in {"idle", "batch"}, worker'[w].rows = {},
         worker'[w].batch \subseteq worker[w].batch,
         UNCHANGED <<row, mails, pushes>>, crashes' = 0 => crashes = 0,
         crashes' # 0 \/ worker[w].pc \notin {"mailed", "push"}
  PROVE  LedgersHold'
<1>1. Locks'
  BY LocksKept DEF LedgersHold
<1>2. Claimed'
  <2>1. \A v \in Workers : worker'[v].batch \subseteq worker[v].batch /\ worker'[v].batch \subseteq Rows
    BY DEF OnlyWorker, NotifyTypeOK, WorkerStates
  <2> QED
    BY <2>1, ClaimedKept DEF LedgersHold
<1>3. MailLedger'
  BY MailKept DEF LedgersHold, MailedBy
<1>4. PushLedger'
  BY PushKept DEF LedgersHold, PushedBy
<1>5. SentIsTrue'
  BY SentKept DEF LedgersHold
<1>6. ASSUME NEW q \in Rows PROVE AttemptsAt(q)'
  <2>1. \A v \in Workers : q \in worker'[v].batch => q \in worker[v].batch
    BY DEF OnlyWorker
  <2>2. Parked(q)' <=> Parked(q)
    BY DEF Parked
  <2> QED
    BY <2>1, <2>2, AttemptsKept DEF LedgersHold, AttemptsLeft
<1> QED
  BY <1>1, <1>2, <1>3, <1>4, <1>5, <1>6 DEF LedgersHold, AttemptsLeft

(* A row finished by another worker is skipped, and a worker dies. *)
LEMMA SkipAndCrashKept ==
  ASSUME NotifyTypeOK, NotifyTypeOK', LedgersHold, NEW w \in Workers, NEW r \in Rows,
         SkipDelivery(w, r) \/ Crash(w)
  PROVE  LedgersHold'
<1>1. CASE SkipDelivery(w, r)
  <2>1. /\ OnlyWorker(w) /\ worker'[w].pc \in {"idle", "batch"} /\ worker'[w].rows = {}
        /\ worker'[w].batch \subseteq worker[w].batch
    BY <1>1, ReadyEffect DEF SkipDelivery, WorkerIs
  <2> QED
    BY <1>1, <2>1, DropsKept DEF SkipDelivery, Took, sentVars
<1>2. CASE Crash(w)
  <2>1. /\ Idle \in WorkerStates /\ Idle.pc = "idle" /\ Idle.rows = {} /\ Idle.batch = {}
    BY DEF Idle, WorkerStates
  <2>2. OnlyWorker(w) /\ worker'[w] = Idle
    BY <1>2, <2>1, WorkerMoves DEF Crash
  <2>3. /\ worker'[w].pc \in {"idle", "batch"} /\ worker'[w].rows = {}
        /\ worker'[w].batch \subseteq worker[w].batch
    BY <2>1, <2>2
  <2>4. crashes' # 0
    BY <1>2 DEF Crash, NotifyTypeOK
  <2> QED
    BY <1>2, <2>2, <2>3, <2>4, DropsKept DEF Crash, sentVars
<1> QED
  BY <1>1, <1>2

(* A worker saves the row it has locked, and is done with it. *)
LEMMA SaveKept ==
  ASSUME NotifyTypeOK, NotifyTypeOK', LedgersHold, NEW w \in Workers, NEW r \in Rows,
         OnlyRow(r), OnlyWorker(w), UNCHANGED <<mails, pushes, crashes>>,
         worker'[w].pc \in {"idle", "batch"}, worker'[w].rows = {},
         worker'[w].batch = worker[w].batch \ {r},
         \A v \in Workers : v # w => r \notin worker[v].rows,
         row[r].status \notin Final, row'[r].status # "NONE",
         \A q \in Rows : MailedBy(w, q) => row'[q].status = "SENT",
         row[r].sentTo \subseteq row'[r].sentTo,
         \A q \in Rows, d \in Devices : PushedBy(w, q, d) => d \in row'[q].sentTo,
         row'[r].status = "SENT" /\ Channel(r) = "EMAIL" => mails[r] > 0,
         row'[r].status = "SENT" /\ Channel(r) = "PUSH" /\ row'[r].error = "none" =>
             \E d \in Devices : pushes[<<r, d>>] > 0,
         \A d \in row'[r].sentTo : pushes[<<r, d>>] > 0,
         AttemptsAt(r)'
  PROVE  LedgersHold'
<1>1. Locks'
  BY LocksKept DEF LedgersHold, OnlyRow
<1>2. Claimed'
  <2>1. \A v \in Workers : worker'[v].batch \subseteq worker[v].batch /\ worker'[v].batch \subseteq Rows
    BY DEF OnlyWorker, NotifyTypeOK, WorkerStates
  <2>2. \A q \in Rows : row'[q].status = "NONE" => row[q].status = "NONE"
    BY DEF OnlyRow
  <2> QED
    BY <2>1, <2>2, ClaimedKept DEF LedgersHold
<1>3. MailLedger'
  <2>1. \A q \in Rows : row[q].status = "SENT" => row'[q].status = "SENT"
    BY DEF OnlyRow, Final
  <2> QED
    BY <2>1, MailKept DEF LedgersHold
<1>4. PushLedger'
  <2>1. \A q \in Rows : row[q].sentTo \subseteq row'[q].sentTo
    BY DEF OnlyRow
  <2>2. ASSUME NEW v \in Workers, v # w, NEW q \in worker[v].rows PROVE row'[q].sentTo = row[q].sentTo
    <3>1. q \in Rows
      BY DEF NotifyTypeOK, WorkerStates
    <3> QED
      BY <2>2, <3>1 DEF OnlyRow
  <2> QED
    BY <2>1, <2>2, PushKept DEF LedgersHold
<1>5. SentIsTrue'
  BY DEF LedgersHold, SentIsTrue, OnlyRow
<1>6. AttemptsLeft'
  BY OthersKept DEF LedgersHold
<1> QED
  BY <1>1, <1>2, <1>3, <1>4, <1>5, <1>6 DEF LedgersHold

(* The in-app branch of process_delivery. *)
LEMMA InAppKept ==
  ASSUME NotifyTypeOK, NotifyTypeOK', LedgersHold, NEW w \in Workers, NEW r \in Rows, DeliverInApp(w, r)
  PROVE  LedgersHold'
<1>1. /\ OnlyWorker(w) /\ worker'[w].pc \in {"idle", "batch"} /\ worker'[w].rows = {}
      /\ worker'[w].batch = worker[w].batch \ {r}
  BY ReadyEffect DEF DeliverInApp, WorkerIs
<1>2. /\ OnlyRow(r) /\ row'[r].status = "AVAILABLE" /\ row'[r].attempts = row[r].attempts + 1
      /\ row'[r].sentTo = row[r].sentTo
  BY InAppEffect DEF RowIs
<1>3. /\ worker[w].pc = "batch" /\ row[r].status \notin Final /\ Channel(r) = "IN_APP"
      /\ UNCHANGED <<mails, pushes, crashes>>
      /\ \A v \in Workers : r \notin worker[v].rows
  BY DEF DeliverInApp, Took, StillOpen, sentVars, LockedRows
<1>4. AttemptsAt(r)'
  <2>1. row[r].attempts < MaxEmailAttempts
    BY <1>3 DEF LedgersHold, AttemptsLeft, AttemptsAt
  <2>2. row'[r].attempts <= MaxEmailAttempts
    BY <1>2, <2>1, LimitAssumption DEF NotifyTypeOK, RowStates
  <2> QED
    BY <1>2, <1>3, <2>2 DEF AttemptsAt, Final
<1>5. \A q \in Rows, d \in Devices : ~MailedBy(w, q) /\ ~PushedBy(w, q, d)
  BY <1>3 DEF MailedBy, PushedBy
<1>6. \A q \in Rows : ~MailedBy(w, q)
  BY <1>3 DEF MailedBy
<1>7. \A d \in row'[r].sentTo : pushes[<<r, d>>] > 0
  BY <1>2 DEF LedgersHold, SentIsTrue
<1> QED
  BY <1>1, <1>2, <1>3, <1>4, <1>5, <1>6, <1>7, SaveKept

(* The early returns of _process_push_delivery. *)
LEMMA SuppressKept ==
  ASSUME NotifyTypeOK, NotifyTypeOK', LedgersHold, NEW w \in Workers, NEW r \in Rows, SuppressPush(w, r)
  PROVE  LedgersHold'
<1>1. /\ OnlyWorker(w) /\ worker'[w].pc \in {"idle", "batch"} /\ worker'[w].rows = {}
      /\ worker'[w].batch = worker[w].batch \ {r}
  BY ReadyEffect DEF SuppressPush, WorkerIs
<1>2. /\ OnlyRow(r) /\ row'[r].status = "SENT" /\ row'[r].attempts = row[r].attempts
      /\ row'[r].sentTo = row[r].sentTo /\ row'[r].error = "suppressed"
  BY SuppressEffect DEF RowIs
<1>3. /\ worker[w].pc = "batch" /\ row[r].status \notin Final /\ Channel(r) = "PUSH"
      /\ UNCHANGED <<mails, pushes, crashes>>
      /\ \A v \in Workers : r \notin worker[v].rows
  BY DEF SuppressPush, Took, StillOpen, sentVars, LockedRows
<1>4. AttemptsAt(r)'
  <2>1. Parked(r)'
    BY <1>2 DEF Parked, Final
  <2>2. \A v \in Workers : r \in worker'[v].batch => r \in worker[v].batch
    BY <1>1 DEF OnlyWorker
  <2> QED
    BY <1>2, <1>3, <2>1, <2>2, AttemptsKept DEF LedgersHold, AttemptsLeft
<1>5. \A q \in Rows, d \in Devices : ~PushedBy(w, q, d)
  BY <1>3 DEF PushedBy
<1>6. \A q \in Rows : ~MailedBy(w, q)
  BY <1>3 DEF MailedBy
<1>7. \A d \in row'[r].sentTo : pushes[<<r, d>>] > 0
  BY <1>2 DEF LedgersHold, SentIsTrue
<1> QED
  BY <1>1, <1>2, <1>3, <1>4, <1>5, <1>6, <1>7, SaveKept

(* The save after a mail. *)
LEMMA SaveMailKept ==
  ASSUME NotifyTypeOK, NotifyTypeOK', LedgersHold, NEW w \in Workers, NEW r \in Rows, SaveMail(w, r)
  PROVE  LedgersHold'
<1>1. /\ OnlyWorker(w) /\ worker'[w].pc \in {"idle", "batch"} /\ worker'[w].rows = {}
      /\ worker'[w].batch = worker[w].batch \ {r}
  BY ReadyEffect DEF SaveMail, WorkerIs
<1>2. /\ worker[w].pc = "mailed" /\ r \in worker[w].rows /\ UNCHANGED <<mails, pushes, crashes>>
  BY DEF SaveMail, sentVars
<1>3. /\ row[r].status \notin Final /\ Channel(r) = "EMAIL"
      /\ \A q \in worker[w].rows : q = r
      /\ \A v \in Workers : v # w => r \notin worker[v].rows
  BY <1>2 DEF LedgersHold, Locks
<1>4. /\ OnlyRow(r) /\ row'[r].attempts = row[r].attempts + 1 /\ row'[r].sentTo = row[r].sentTo
      /\ row'[r].status \in {"SENT", "DEAD", "FAILED"}
      /\ row'[r].status = "SENT" <=> ~worker[w].failed
      /\ row'[r].status \notin Final => row'[r].attempts < MaxEmailAttempts
  <2>1. OnlyRow(r)
    BY SaveMailEffect
  <2>2. CASE RowIs(row'[r], "SENT", row[r].attempts + 1, "never", "none", row[r].sentTo) /\ ~worker[w].failed
    BY <2>1, <2>2 DEF RowIs, Final
  <2>3. CASE RowIs(row'[r], "DEAD", row[r].attempts + 1, "never", "error", row[r].sentTo) /\ worker[w].failed
    BY <2>1, <2>3 DEF RowIs, Final
  <2>4. CASE /\ RowIs(row'[r], "FAILED", row[r].attempts + 1, "later", "error", row[r].sentTo)
             /\ worker[w].failed /\ row[r].attempts + 1 < MaxEmailAttempts
    BY <2>1, <2>4 DEF RowIs, Final
  <2> QED
    BY <2>2, <2>3, <2>4, SaveMailEffect
<1>5. AttemptsAt(r)'
  <2>1. row[r].attempts < MaxEmailAttempts
    BY <1>3 DEF LedgersHold, AttemptsLeft, AttemptsAt
  <2>2. row'[r].attempts <= MaxEmailAttempts
    BY <1>4, <2>1, LimitAssumption DEF NotifyTypeOK, RowStates
  <2> QED
    BY <1>3, <1>4, <2>2 DEF AttemptsAt
<1>6. \A q \in Rows, d \in Devices : ~PushedBy(w, q, d)
  BY <1>2 DEF PushedBy
<1>7. \A q \in Rows : MailedBy(w, q) => row'[q].status = "SENT"
  BY <1>3, <1>4 DEF MailedBy
<1>8. \A d \in row'[r].sentTo : pushes[<<r, d>>] > 0
  BY <1>4 DEF LedgersHold, SentIsTrue
<1>9. row'[r].status = "SENT" => mails[r] > 0
  BY <1>2, <1>4 DEF LedgersHold, MailLedger, MailedBy
<1> QED
  BY <1>1, <1>2, <1>3, <1>4, <1>5, <1>6, <1>7, <1>8, <1>9, SaveKept

(* The save after a push. *)
LEMMA SavePushKept ==
  ASSUME NotifyTypeOK, NotifyTypeOK', LedgersHold, NEW w \in Workers, NEW r \in Rows, SavePush(w, r)
  PROVE  LedgersHold'
<1>1. /\ OnlyWorker(w) /\ worker'[w].pc \in {"idle", "batch"} /\ worker'[w].rows = {}
      /\ worker'[w].batch = worker[w].batch \ {r}
  BY ReadyEffect DEF SavePush, WorkerIs
<1>2. /\ worker[w].pc = "push" /\ r \in worker[w].rows /\ UNCHANGED <<mails, pushes, crashes>>
  BY DEF SavePush, sentVars
<1>3. /\ row[r].status \notin Final /\ Channel(r) = "PUSH" /\ r \in worker[w].batch
      /\ \A q \in worker[w].rows : q = r
      /\ \A v \in Workers : v # w => r \notin worker[v].rows
  BY <1>2 DEF LedgersHold, Locks
<1> DEFINE Saved == /\ row'[r].attempts = row[r].attempts + 1 /\ row'[r].sentTo = worker[w].sentTo
                    /\ row'[r].status \in {"SENT", "FAILED"}
                    /\ row'[r].status = "SENT" /\ row'[r].error = "none" => worker[w].sentTo # {}
                    /\ row'[r].attempts >= MaxPushAttempts => Parked(r)'
<1>4. OnlyRow(r) /\ Saved
  <2>1. OnlyRow(r)
    BY SavePushEffect
  <2>2. ASSUME NEW t \in {"never", "later"}, row[r].attempts + 1 >= MaxPushAttempts => t = "never",
               RowIs(row'[r], "FAILED", row[r].attempts + 1, t, "error", worker[w].sentTo)
        PROVE  Saved
    BY <2>2 DEF RowIs, Parked
  <2>3. ASSUME NEW e \in {"none", "suppressed"}, e = "none" => worker[w].sentTo # {},
               RowIs(row'[r], "SENT", row[r].attempts + 1, "never", e, worker[w].sentTo)
        PROVE  Saved
    BY <2>3 DEF RowIs, Parked, Final
  <2> QED
    BY <2>1, <2>2, <2>3, SavePushEffect
<1>5. AttemptsAt(r)'
  <2>1. /\ Cardinality(HoldersOf(r)') \in Nat /\ Cardinality(Workers) \in Nat
        /\ Cardinality(HoldersOf(r)') <= Cardinality(Workers) - 1
        /\ Cardinality(HoldersOf(r)) \in Nat
        /\ Cardinality(HoldersOf(r)') = Cardinality(HoldersOf(r)) - 1
    BY <1>1, <1>3, HolderGone
  <2>2. row[r].attempts \in Nat /\ row'[r].attempts \in Nat /\ MaxPushAttempts \in Nat
    BY LimitAssumption DEF NotifyTypeOK, RowStates
  <2>3. CASE row[r].attempts < MaxPushAttempts
    <3>1. row'[r].attempts + Cardinality(HoldersOf(r)') <= MaxPushAttempts + Cardinality(Workers) - 1
      BY <1>4, <2>1, <2>2, <2>3
    <3>2. row'[r].attempts < MaxPushAttempts \/ row'[r].attempts >= MaxPushAttempts
      BY <2>2
    <3> QED
      BY <1>3, <1>4, <3>1, <3>2 DEF AttemptsAt
  <2>4. CASE ~(row[r].attempts < MaxPushAttempts)
    <3>1. row[r].attempts + Cardinality(HoldersOf(r)) <= MaxPushAttempts + Cardinality(Workers) - 1
      BY <1>3, <2>4 DEF LedgersHold, AttemptsLeft, AttemptsAt
    <3>2. row'[r].attempts + Cardinality(HoldersOf(r)') <= MaxPushAttempts + Cardinality(Workers) - 1
      BY <1>4, <2>1, <2>2, <3>1
    <3>3. row'[r].attempts >= MaxPushAttempts
      BY <1>4, <2>2, <2>4
    <3> QED
      BY <1>3, <1>4, <3>2, <3>3 DEF AttemptsAt
  <2> QED
    BY <2>3, <2>4
<1>6. \A q \in Rows, d \in Devices : PushedBy(w, q, d) => d \in row'[q].sentTo
  BY <1>3, <1>4 DEF PushedBy
<1>7. \A q \in Rows : ~MailedBy(w, q)
  BY <1>2 DEF MailedBy
<1>8. /\ \A d \in row'[r].sentTo : pushes[<<r, d>>] > 0
      /\ row[r].sentTo \subseteq row'[r].sentTo
  BY <1>2, <1>4 DEF LedgersHold, PushLedger
<1>9. row'[r].status = "SENT" /\ row'[r].error = "none" => \E d \in Devices : pushes[<<r, d>>] > 0
  <2>1. worker[w].sentTo \subseteq Devices
    BY DEF NotifyTypeOK, WorkerStates
  <2> QED
    BY <1>4, <1>8, <2>1
<1> QED
  BY <1>1, <1>2, <1>3, <1>4, <1>5, <1>6, <1>7, <1>8, <1>9, SaveKept

(* A mail is sent: the row was not sent before, and nobody else has it. *)
LEMMA SendMailKept ==
  ASSUME NotifyTypeOK, NotifyTypeOK', LedgersHold, NEW w \in Workers, NEW r \in Rows, SendMail(w, r)
  PROVE  LedgersHold'
<1>1. PICK ok \in BOOLEAN :
        /\ mails' = [mails EXCEPT ![r] = IF ok THEN @ + 1 ELSE @]
        /\ WorkerIs(worker'[w], "mailed", worker[w].batch, {r}, worker[w].left, worker[w].sentTo,
                    worker[w].dead, ~ok)
  BY SendMailEffect
<1>2. /\ OnlyWorker(w) /\ worker'[w].pc = "mailed" /\ worker'[w].rows = {r}
      /\ worker'[w].batch = worker[w].batch
  BY <1>1, SendMailEffect DEF WorkerIs
<1>3. worker'[w].failed = ~ok
  BY <1>1 DEF WorkerIs
<1>4. /\ worker[w].pc = "batch" /\ row[r].status \notin Final /\ Channel(r) = "EMAIL"
      /\ r \in worker[w].batch /\ UNCHANGED <<row, pushes, crashes>>
      /\ \A v \in Workers : r \notin worker[v].rows
  BY DEF SendMail, Took, StillOpen, LockedRows
<1>5. \A q \in Rows : mails[q] \in Nat /\ mails'[q] = IF q = r /\ ok THEN mails[q] + 1 ELSE mails[q]
  BY <1>1 DEF NotifyTypeOK
<1>6. Locks'
  BY <1>2, <1>4, LocksKept DEF LedgersHold
<1>7. Claimed'
  <2>1. \A v \in Workers : worker'[v].batch = worker[v].batch /\ worker'[v].batch \subseteq Rows
    BY <1>2 DEF OnlyWorker, NotifyTypeOK, WorkerStates
  <2> QED
    BY <1>4, <2>1, ClaimedKept DEF LedgersHold
<1>8. MailLedger'
  <2>1. ASSUME NEW v \in Workers, NEW q \in Rows, MailedBy(v, q)' PROVE mails'[q] > 0
    <3>1. CASE v = w
      <4>1. q = r /\ ok
        BY <1>2, <1>3, <2>1, <3>1 DEF MailedBy
      <4> QED
        BY <1>5, <4>1
    <3>2. CASE v # w
      <4>1. MailedBy(v, q)
        BY <1>2, <2>1, <3>2 DEF MailedBy, OnlyWorker
      <4>2. mails[q] > 0
        BY <4>1 DEF LedgersHold, MailLedger
      <4> QED
        BY <1>5, <4>2
    <3> QED
      BY <3>1, <3>2
  <2>2. ASSUME crashes' = 0, NEW q \in Rows
        PROVE  \/ mails'[q] = 0
               \/ mails'[q] = 1 /\ (row'[q].status = "SENT" \/ \E v \in Workers : MailedBy(v, q)')
    <3>1. \/ mails[q] = 0
          \/ mails[q] = 1 /\ (row[q].status = "SENT" \/ \E v \in Workers : MailedBy(v, q))
      BY <1>4, <2>2 DEF LedgersHold, MailLedger
    <3>2. CASE q # r \/ ~ok
      <4>1. mails'[q] = mails[q]
        BY <1>5, <3>2
      <4>2. \A v \in Workers : MailedBy(v, q) => MailedBy(v, q)'
        BY <1>2, <1>4 DEF MailedBy, OnlyWorker
      <4> QED
        BY <1>4, <3>1, <4>1, <4>2
    <3>3. CASE q = r /\ ok
      <4>1. mails[q] = 0
        BY <1>4, <3>1, <3>3 DEF Final, MailedBy
      <4>2. MailedBy(w, q)'
        BY <1>2, <1>3, <3>3 DEF MailedBy
      <4> QED
        BY <1>5, <3>3, <4>1, <4>2
    <3> QED
      BY <3>2, <3>3
  <2> QED
    BY <2>1, <2>2 DEF MailLedger
<1>9. PushLedger'
  BY <1>2, <1>4, PushKept DEF LedgersHold, PushedBy
<1>10. SentIsTrue'
  BY <1>4, <1>5, SentKept DEF LedgersHold
<1>11. ASSUME NEW q \in Rows PROVE AttemptsAt(q)'
  <2>1. \A v \in Workers : q \in worker'[v].batch => q \in worker[v].batch
    BY <1>2 DEF OnlyWorker
  <2>2. Parked(q)' <=> Parked(q)
    BY <1>4 DEF Parked
  <2> QED
    BY <1>4, <2>1, <2>2, AttemptsKept DEF LedgersHold, AttemptsLeft
<1> QED
  BY <1>6, <1>7, <1>8, <1>9, <1>10, <1>11 DEF LedgersHold, AttemptsLeft

(* A push begins with the devices that were not served. *)
LEMMA BeginPushKept ==
  ASSUME NotifyTypeOK, NotifyTypeOK', LedgersHold, NEW w \in Workers, NEW r \in Rows, BeginPush(w, r)
  PROVE  LedgersHold'
<1>1. /\ OnlyWorker(w) /\ worker'[w].pc = "push" /\ worker'[w].rows = {r}
      /\ worker'[w].batch = worker[w].batch /\ worker'[w].left = ToServe(r)
      /\ worker'[w].sentTo = row[r].sentTo
  BY BeginPushEffect DEF WorkerIs
<1>2. /\ worker[w].pc = "batch" /\ row[r].status \notin Final /\ Channel(r) = "PUSH"
      /\ r \in worker[w].batch /\ UNCHANGED <<row, mails, pushes, crashes>>
      /\ \A v \in Workers : r \notin worker[v].rows
  BY DEF BeginPush, Took, StillOpen, LockedRows, sentVars
<1>3. Locks'
  BY <1>1, <1>2, LocksKept DEF LedgersHold
<1>4. Claimed'
  <2>1. \A v \in Workers : worker'[v].batch = worker[v].batch /\ worker'[v].batch \subseteq Rows
    BY <1>1 DEF OnlyWorker, NotifyTypeOK, WorkerStates
  <2> QED
    BY <1>2, <2>1, ClaimedKept DEF LedgersHold
<1>5. MailLedger'
  BY <1>1, <1>2, MailKept DEF LedgersHold, MailedBy
<1>6. PushLedger'
  <2>1. ASSUME NEW v \in Workers, NEW q \in Rows, worker'[v].pc = "push", q \in worker'[v].rows
        PROVE  /\ row'[q].sentTo \subseteq worker'[v].sentTo
               /\ \A d \in worker'[v].sentTo : pushes'[<<q, d>>] > 0
               /\ \A x \in worker'[v].left :
                     /\ x[1] \notin worker'[v].sentTo
                     /\ \A y \in worker'[v].left : y[1] = x[1] => y = x
    <3>1. CASE v = w
      <4>1. q = r
        BY <1>1, <2>1, <3>1
      <4>2. \A d \in row[r].sentTo : pushes[<<r, d>>] > 0
        BY DEF LedgersHold, SentIsTrue
      <4>3. \A x \in ToServe(r) : x[1] \notin row[r].sentTo /\ \A y \in ToServe(r) : y[1] = x[1] => y = x
        BY DEF ToServe
      <4> QED
        BY <1>1, <1>2, <3>1, <4>1, <4>2, <4>3
    <3>2. CASE v # w
      <4>1. worker'[v] = worker[v]
        BY <1>1, <3>2 DEF OnlyWorker
      <4> QED
        BY <1>2, <2>1, <4>1 DEF LedgersHold, PushLedger
    <3> QED
      BY <3>1, <3>2
  <2>2. ASSUME crashes' = 0, NEW q \in Rows, NEW d \in Devices
        PROVE  \/ pushes'[<<q, d>>] = 0
               \/ pushes'[<<q, d>>] = 1 /\ (d \in row'[q].sentTo \/ \E v \in Workers : PushedBy(v, q, d)')
    <3>1. \A v \in Workers : PushedBy(v, q, d) => PushedBy(v, q, d)'
      BY <1>1, <1>2 DEF PushedBy, OnlyWorker
    <3>2. \/ pushes[<<q, d>>] = 0
          \/ pushes[<<q, d>>] = 1 /\ (d \in row[q].sentTo \/ \E v \in Workers : PushedBy(v, q, d))
      BY <1>2, <2>2 DEF LedgersHold, PushLedger
    <3> QED
      BY <1>2, <3>1, <3>2
  <2> QED
    BY <2>1, <2>2 DEF PushLedger
<1>7. SentIsTrue'
  BY <1>2, SentKept DEF LedgersHold
<1>8. ASSUME NEW q \in Rows PROVE AttemptsAt(q)'
  <2>1. \A v \in Workers : q \in worker'[v].batch => q \in worker[v].batch
    BY <1>1 DEF OnlyWorker
  <2>2. Parked(q)' <=> Parked(q)
    BY <1>2 DEF Parked
  <2> QED
    BY <1>2, <2>1, <2>2, AttemptsKept DEF LedgersHold, AttemptsLeft
<1> QED
  BY <1>3, <1>4, <1>5, <1>6, <1>7, <1>8 DEF LedgersHold, AttemptsLeft

(* One device is served: it was not served before. *)
LEMMA SendPushKept ==
  ASSUME NotifyTypeOK, NotifyTypeOK', LedgersHold, NEW w \in Workers, NEW r \in Rows,
         NEW x \in worker[w].left, SendPush(w, r, x)
  PROVE  LedgersHold'
<1> DEFINE f == worker[w]
           g == worker'[w]
<1>1. OnlyWorker(w) /\ x[1] \in Devices
  BY SendPushEffect
<1>2. /\ g.pc = "push" /\ g.rows = f.rows /\ g.batch = f.batch /\ g.left = f.left \ {x}
      /\ \/ pushes' = [pushes EXCEPT ![<<r, x[1]>>] = @ + 1] /\ g.sentTo = f.sentTo \cup {x[1]}
         \/ pushes' = pushes /\ g.sentTo = f.sentTo
  <2>1. f.pc = "push"
    BY DEF SendPush
  <2>2. \/ pushes' = [pushes EXCEPT ![<<r, x[1]>>] = @ + 1] /\ g.sentTo = f.sentTo \cup {x[1]}
        \/ pushes' = pushes /\ g.sentTo = f.sentTo
    <3>1. CASE /\ pushes' = [pushes EXCEPT ![<<r, x[1]>>] = @ + 1]
               /\ WorkerIs(g, f.pc, f.batch, f.rows, f.left \ {x}, f.sentTo \cup {x[1]}, f.dead, f.failed)
      BY <3>1 DEF WorkerIs
    <3>2. CASE /\ pushes' = pushes
               /\ WorkerIs(g, f.pc, f.batch, f.rows, f.left \ {x}, f.sentTo, f.dead, TRUE)
      BY <3>2 DEF WorkerIs
    <3>3. CASE /\ pushes' = pushes
               /\ WorkerIs(g, f.pc, f.batch, f.rows, f.left \ {x}, f.sentTo, f.dead \cup {x}, f.failed)
      BY <3>3 DEF WorkerIs
    <3>4. \/ /\ pushes' = [pushes EXCEPT ![<<r, x[1]>>] = @ + 1]
             /\ WorkerIs(worker'[w], worker[w].pc, worker[w].batch, worker[w].rows, worker[w].left \ {x},
                         worker[w].sentTo \cup {x[1]}, worker[w].dead, worker[w].failed)
          \/ /\ pushes' = pushes
             /\ \/ WorkerIs(worker'[w], worker[w].pc, worker[w].batch, worker[w].rows, worker[w].left \ {x},
                            worker[w].sentTo, worker[w].dead, TRUE)
                \/ WorkerIs(worker'[w], worker[w].pc, worker[w].batch, worker[w].rows, worker[w].left \ {x},
                            worker[w].sentTo, worker[w].dead \cup {x}, worker[w].failed)
      BY SendPushEffect
    <3> QED
      BY <3>1, <3>2, <3>3, <3>4
  <2>3. g.pc = f.pc /\ g.rows = f.rows /\ g.batch = f.batch /\ g.left = f.left \ {x}
    BY SendPushEffect DEF WorkerIs
  <2> QED
    BY <2>1, <2>2, <2>3
<1>3. f.pc = "push" /\ r \in f.rows /\ UNCHANGED <<row, mails, crashes>>
  BY DEF SendPush
<1>4. /\ \A q \in f.rows : q = r
      /\ \A q \in f.rows :
            /\ q \in f.batch /\ row[q].status \notin Final /\ Channel(q) = "PUSH"
            /\ \A v \in Workers : v # w => q \notin worker[v].rows
  BY <1>3 DEF LedgersHold, Locks
<1>5. \A q \in Rows, d \in Devices :
        /\ pushes[<<q, d>>] \in Nat
        /\ <<q, d>> # <<r, x[1]>> => pushes'[<<q, d>>] = pushes[<<q, d>>]
        /\ pushes'[<<q, d>>] = pushes[<<q, d>>] \/ pushes'[<<q, d>>] = pushes[<<q, d>>] + 1
  BY <1>1, <1>2 DEF NotifyTypeOK
<1>6. Locks'
  BY <1>1, <1>2, <1>3, <1>4, LocksKept DEF LedgersHold
<1>7. Claimed'
  <2>1. \A v \in Workers : worker'[v].batch = worker[v].batch /\ worker'[v].batch \subseteq Rows
    BY <1>1, <1>2 DEF OnlyWorker, NotifyTypeOK, WorkerStates
  <2> QED
    BY <1>3, <2>1, ClaimedKept DEF LedgersHold
<1>8. MailLedger'
  BY <1>1, <1>2, <1>3, MailKept DEF LedgersHold, MailedBy
<1>9. PushLedger'
  <2>1. /\ row[r].sentTo \subseteq f.sentTo
        /\ \A d \in f.sentTo : pushes[<<r, d>>] > 0
        /\ \A z \in f.left :
              /\ z[1] \notin f.sentTo
              /\ \A y \in f.left : y[1] = z[1] => y = z
    BY <1>3 DEF LedgersHold, PushLedger
  <2>2. \A v \in Workers : worker[v].sentTo \subseteq Devices
    BY DEF NotifyTypeOK, WorkerStates
  <2>3. ASSUME NEW v \in Workers, NEW q \in Rows, worker'[v].pc = "push", q \in worker'[v].rows
        PROVE  /\ row'[q].sentTo \subseteq worker'[v].sentTo
               /\ \A d \in worker'[v].sentTo : pushes'[<<q, d>>] > 0
               /\ \A z \in worker'[v].left :
                     /\ z[1] \notin worker'[v].sentTo
                     /\ \A y \in worker'[v].left : y[1] = z[1] => y = z
    <3>1. CASE v = w
      <4>1. q = r
        BY <1>2, <1>4, <2>3, <3>1
      <4>2. row'[r].sentTo \subseteq g.sentTo
        BY <1>2, <1>3, <2>1
      <4>3. ASSUME NEW d \in g.sentTo PROVE pushes'[<<r, d>>] > 0
        <5>1. CASE d \in f.sentTo
          <6>1. d \in Devices /\ pushes[<<r, d>>] > 0
            BY <2>1, <2>2, <5>1
          <6> QED
            BY <1>5, <6>1
        <5>2. CASE d \notin f.sentTo
          <6>1. d = x[1] /\ pushes' = [pushes EXCEPT ![<<r, x[1]>>] = @ + 1]
            BY <1>2, <4>3, <5>2
          <6>2. pushes'[<<r, x[1]>>] = pushes[<<r, x[1]>>] + 1 /\ pushes[<<r, x[1]>>] \in Nat
            BY <1>1, <6>1 DEF NotifyTypeOK
          <6> QED
            BY <6>1, <6>2
        <5> QED
          BY <5>1, <5>2
      <4>4. \A z \in g.left : z[1] \notin g.sentTo /\ \A y \in g.left : y[1] = z[1] => y = z
        BY <1>2, <2>1
      <4> QED
        BY <3>1, <4>1, <4>2, <4>3, <4>4
    <3>2. CASE v # w
      <4>1. worker'[v] = worker[v]
        BY <1>1, <3>2 DEF OnlyWorker
      <4>2. /\ row[q].sentTo \subseteq worker[v].sentTo
            /\ \A d \in worker[v].sentTo : pushes[<<q, d>>] > 0
            /\ \A z \in worker[v].left :
                  /\ z[1] \notin worker[v].sentTo
                  /\ \A y \in worker[v].left : y[1] = z[1] => y = z
        BY <2>3, <4>1 DEF LedgersHold, PushLedger
      <4>3. \A d \in worker[v].sentTo : pushes'[<<q, d>>] > 0
        BY <1>5, <2>2, <4>2
      <4> QED
        BY <1>3, <4>1, <4>2, <4>3
    <3> QED
      BY <3>1, <3>2
  <2>4. ASSUME crashes' = 0, NEW q \in Rows, NEW d \in Devices
        PROVE  \/ pushes'[<<q, d>>] = 0
               \/ pushes'[<<q, d>>] = 1 /\ (d \in row'[q].sentTo \/ \E v \in Workers : PushedBy(v, q, d)')
    <3>1. \A v \in Workers : PushedBy(v, q, d) => PushedBy(v, q, d)'
      BY <1>1, <1>2, <1>3 DEF PushedBy, OnlyWorker
    <3>2. \/ pushes[<<q, d>>] = 0
          \/ pushes[<<q, d>>] = 1 /\ (d \in row[q].sentTo \/ \E v \in Workers : PushedBy(v, q, d))
      BY <1>3, <2>4 DEF LedgersHold, PushLedger
    <3>3. CASE pushes'[<<q, d>>] = pushes[<<q, d>>]
      BY <1>3, <3>1, <3>2, <3>3
    <3>4. CASE pushes'[<<q, d>>] # pushes[<<q, d>>]
      <4>1. /\ q = r /\ d = x[1] /\ pushes'[<<q, d>>] = pushes[<<q, d>>] + 1
        BY <1>5, <3>4
      <4>2. g.sentTo = f.sentTo \cup {x[1]}
        BY <1>2, <3>4
      <4>3. d \notin f.sentTo /\ d \notin row[q].sentTo
        BY <2>1, <4>1
      <4>4. \A v \in Workers : ~PushedBy(v, q, d)
        BY <1>3, <1>4, <4>1, <4>3 DEF PushedBy
      <4>5. pushes'[<<q, d>>] = 1
        BY <3>2, <4>1, <4>3, <4>4
      <4>6. PushedBy(w, q, d)'
        BY <1>2, <1>3, <4>1, <4>2 DEF PushedBy
      <4> QED
        BY <4>5, <4>6
    <3> QED
      BY <3>3, <3>4
  <2> QED
    BY <2>3, <2>4 DEF PushLedger
<1>10. SentIsTrue'
  BY <1>3, <1>5, SentKept DEF LedgersHold
<1>11. ASSUME NEW q \in Rows PROVE AttemptsAt(q)'
  <2>1. \A v \in Workers : q \in worker'[v].batch => q \in worker[v].batch
    BY <1>1, <1>2 DEF OnlyWorker
  <2>2. Parked(q)' <=> Parked(q)
    BY <1>3 DEF Parked
  <2> QED
    BY <1>3, <2>1, <2>2, AttemptsKept DEF LedgersHold, AttemptsLeft
<1> QED
  BY <1>6, <1>7, <1>8, <1>9, <1>10, <1>11 DEF LedgersHold, AttemptsLeft

(* Every step keeps the invariant. *)
LEMMA NotifyKept ==
  ASSUME NotifyInv, [NotifyNext]_notifyVars
  PROVE  NotifyInv'
<1>1. NotifyTypeOK /\ NotifyTypeOK' /\ LedgersHold
  BY NotifyTyped DEF NotifyInv
<1>2. ASSUME NEW e \in Events, Notify(e) \/ \E u \in Users : DropCallback(u, e) PROVE LedgersHold'
  <2>1. UNCHANGED <<row, worker, mails, pushes>> /\ (crashes' = 0 => crashes = 0)
    BY <1>1, <1>2 DEF Notify, DropCallback, sentVars, NotifyTypeOK
  <2> QED
    BY <1>1, <2>1, QuietKept
<1>3. ASSUME NEW r \in Rows, Queue(r) PROVE LedgersHold'
  <2>1. UNCHANGED <<worker, mails, pushes, crashes>>
    BY <1>3 DEF Queue, sentVars
  <2>2. CASE row' = row
    BY <1>1, <2>1, <2>2, QuietKept
  <2>3. CASE row' # row
    <3>1. /\ OnlyRow(r) /\ row[r].status = "NONE" /\ row'[r].status = "PENDING"
          /\ row'[r].attempts = row[r].attempts /\ row'[r].error = row[r].error
          /\ row'[r].sentTo = row[r].sentTo
      BY <1>1, <1>3, <2>3, QueueEffect DEF RowIs
    <3>2. ~Parked(r)
      BY <3>1 DEF Parked, Final
    <3> QED
      BY <1>1, <2>1, <3>1, <3>2, RowWaits
  <2> QED
    BY <2>2, <2>3
<1>4. ASSUME NEW r \in Rows, RetryDue(r) PROVE LedgersHold'
  <2>1. UNCHANGED <<worker, mails, pushes, crashes>> /\ row[r].retry = "later"
    BY <1>4 DEF RetryDue, sentVars
  <2>2. /\ OnlyRow(r) /\ row'[r].status = row[r].status
        /\ row'[r].attempts = row[r].attempts /\ row'[r].error = row[r].error
        /\ row'[r].sentTo = row[r].sentTo
    BY <1>1, <1>4, RetryEffect DEF RowIs
  <2>3. Parked(r) => Parked(r)'
    BY <2>1, <2>2 DEF Parked
  <2> QED
    BY <1>1, <2>1, <2>2, <2>3, RowWaits
<1>5. ASSUME NEW w \in Workers, Claim(w) PROVE LedgersHold'
  BY <1>1, <1>5, ClaimKept
<1>6. ASSUME NEW w \in Workers, Crash(w) PROVE LedgersHold'
  <2>1. CASE Rows = {}
    <3>1. \A v \in Workers : worker[v].rows = {} /\ worker[v].batch = {}
      BY <1>1, <2>1 DEF NotifyTypeOK, WorkerStates
    <3>2. \A v \in Workers : worker'[v].rows = {} /\ worker'[v].batch = {}
      BY <1>1, <2>1 DEF NotifyTypeOK, WorkerStates
    <3> QED
      BY <2>1, <3>1, <3>2 DEF LedgersHold, Locks, Claimed, MailLedger, PushLedger, SentIsTrue, AttemptsLeft
  <2>2. CASE Rows # {}
    BY <1>1, <1>6, <2>2, SkipAndCrashKept
  <2> QED
    BY <2>1, <2>2
<1>7. ASSUME NEW w \in Workers, NEW r \in Rows, Deliver(w, r) PROVE LedgersHold'
  BY <1>1, <1>7, SkipAndCrashKept, InAppKept, SendMailKept, SaveMailKept, SuppressKept, BeginPushKept,
     SavePushKept, SendPushKept DEF Deliver
<1>8. ASSUME NEW d \in Devices, (\E t \in Tokens : RegisterDevice(d, t)) \/ Deactivate({d}) PROVE LedgersHold'
  <2>1. UNCHANGED <<row, worker, mails, pushes, crashes>>
    BY <1>8 DEF RegisterDevice, Deactivate, sentVars
  <2> QED
    BY <1>1, <2>1, QuietKept
<1>9. ASSUME NEW u \in Users, Deactivate(ActiveDevices(u)) \/ SetPreference(u) \/ LoseOccupancy(u)
      PROVE  LedgersHold'
  <2>1. UNCHANGED <<row, worker, mails, pushes, crashes>>
    BY <1>9 DEF Deactivate, SetPreference, LoseOccupancy, sentVars
  <2> QED
    BY <1>1, <2>1, QuietKept
<1>10. ASSUME UNCHANGED notifyVars PROVE LedgersHold'
  <2>1. UNCHANGED <<row, worker, mails, pushes>> /\ crashes' = crashes
    BY <1>10 DEF notifyVars, sentVars
  <2> QED
    BY <1>1, <2>1, QuietKept
<1>11. ASSUME NEW w \in Workers, WorkerStep(w) PROVE LedgersHold'
  BY <1>5, <1>7, <1>11 DEF WorkerStep
<1>12. LedgersHold'
  BY <1>2, <1>3, <1>4, <1>6, <1>8, <1>9, <1>10, <1>11 DEF NotifyNext
<1> QED
  BY <1>1, <1>12 DEF NotifyInv

(* The invariant holds at the start. *)
LEMMA NotifyStarts == NotifyInit => NotifyInv
<1> SUFFICES ASSUME NotifyInit PROVE NotifyInv
  OBVIOUS
<1> DEFINE new == [status |-> "NONE", attempts |-> 0, retry |-> "never", error |-> "none", sentTo |-> {}]
<1>1. /\ Idle \in WorkerStates /\ Idle.pc = "idle" /\ Idle.rows = {} /\ Idle.batch = {}
      /\ new \in RowStates /\ new.status = "NONE" /\ new.attempts = 0 /\ new.sentTo = {}
  BY DEF Idle, WorkerStates, RowStates
<1>2. \A r \in Rows : row[r] = new
  BY DEF NotifyInit
<1>3. \A w \in Workers : worker[w] = Idle
  BY DEF NotifyInit
<1>4. NotifyTypeOK
  <2>1. pref \in [Users -> [email : BOOLEAN, push : BOOLEAN]]
    BY DEF NotifyInit
  <2>2. device \in [Devices -> DeviceStates]
    BY WorkersAssumption DEF NotifyInit, DeviceStates
  <2>3. row \in [Rows -> RowStates] /\ worker \in [Workers -> WorkerStates]
    BY <1>1 DEF NotifyInit
  <2>4. callback \subseteq Rows /\ mayPush \subseteq Users /\ crashes \in 0 .. MaxCrashes
    BY LimitAssumption DEF NotifyInit
  <2>5. mails \in [Rows -> Nat] /\ pushes \in [Rows \X Devices -> Nat]
        /\ notified \in [Events -> 0 .. MaxNotify]
    BY LimitAssumption DEF NotifyInit
  <2> QED
    BY <2>1, <2>2, <2>3, <2>4, <2>5 DEF NotifyTypeOK
<1>5. Locks /\ Claimed
  BY <1>1, <1>3 DEF Locks, Claimed
<1>6. MailLedger
  BY <1>1, <1>3 DEF MailLedger, MailedBy, NotifyInit
<1>7. PushLedger
  BY <1>1, <1>3 DEF PushLedger, PushedBy, NotifyInit
<1>8. SentIsTrue
  BY <1>1, <1>2 DEF SentIsTrue
<1>9. AttemptsLeft
  BY <1>1, <1>2, LimitAssumption DEF AttemptsLeft, AttemptsAt
<1> QED
  BY <1>4, <1>5, <1>6, <1>7, <1>8, <1>9 DEF NotifyInv, LedgersHold

(* The invariant implies the property. *)
LEMMA NotifyImplies == NotifyInv => DeliveriesAreTrue
<1> SUFFICES ASSUME NotifyInv PROVE DeliveriesAreTrue
  OBVIOUS
<1>1. NotifyTypeOK /\ SentIsTrue
  BY DEF NotifyInv, LedgersHold
<1>2. AttemptsBounded
  <2>1. ASSUME NEW r \in Rows
        PROVE  row[r].attempts <= IF Channel(r) = "PUSH" THEN MaxPushAttempts + Cardinality(Workers) - 1
                                  ELSE MaxEmailAttempts
    <3>1. AttemptsAt(r)
      BY DEF NotifyInv, LedgersHold, AttemptsLeft
    <3>2. CASE Channel(r) # "PUSH"
      BY <3>1, <3>2 DEF AttemptsAt
    <3>3. CASE Channel(r) = "PUSH"
      <4>1. row[r].attempts \in Nat /\ MaxPushAttempts \in Nat
        BY <1>1, LimitAssumption DEF NotifyTypeOK, RowStates
      <4>2. Cardinality(HoldersOf(r)) \in Nat /\ Cardinality(Workers) \in Nat
        <5>1. IsFiniteSet(HoldersOf(r))
          BY WorkersAssumption, FS_Subset DEF HoldersOf
        <5> QED
          BY <5>1, WorkersAssumption, FS_CardinalityType
      <4>3. CASE row[r].attempts < MaxPushAttempts
        <5>1. row[r].attempts <= MaxPushAttempts + Cardinality(Workers) - 1
          BY <4>1, <4>2, <4>3
        <5> QED
          BY <3>3, <5>1
      <4>4. CASE row[r].attempts + Cardinality(HoldersOf(r)) <= MaxPushAttempts + Cardinality(Workers) - 1
        <5>1. row[r].attempts <= MaxPushAttempts + Cardinality(Workers) - 1
          BY <4>1, <4>2, <4>4
        <5> QED
          BY <3>3, <5>1
      <4> QED
        BY <3>1, <3>3, <4>3, <4>4 DEF AttemptsAt
    <3> QED
      BY <3>2, <3>3
  <2> QED
    BY <2>1 DEF AttemptsBounded
<1>3. crashes = 0 => MailedOnce
  BY DEF NotifyInv, LedgersHold, MailLedger, MailedOnce
<1>4. crashes = 0 => PushedOnce
  <2>1. ASSUME crashes = 0, NEW x \in Rows \X Devices PROVE pushes[x] <= 1
    <3>1. x[1] \in Rows /\ x[2] \in Devices /\ x = <<x[1], x[2]>>
      OBVIOUS
    <3>2. pushes[<<x[1], x[2]>>] = 0 \/ pushes[<<x[1], x[2]>>] = 1
      BY <2>1, <3>1 DEF NotifyInv, LedgersHold, PushLedger
    <3> QED
      BY <3>1, <3>2
  <2> QED
    BY <2>1 DEF PushedOnce
<1> QED
  BY <1>1, <1>2, <1>3, <1>4 DEF DeliveriesAreTrue

(* However many workers share the queue, whatever is claimed twice, retried *)
(* or lost in a crash: what counts as sent was accepted, attempts end, and  *)
(* unless a process died nobody is mailed or pushed the same thing twice    *)
(* (process_delivery, _process_push_delivery).                              *)
THEOREM DeliveriesCorrect == NotifySpec => []DeliveriesAreTrue
<1>1. NotifyInit => NotifyInv
  BY NotifyStarts
<1>2. NotifyInv /\ [NotifyNext]_notifyVars => NotifyInv'
  BY NotifyKept
<1>3. NotifyInv => DeliveriesAreTrue
  BY NotifyImplies
<1> QED
  BY <1>1, <1>2, <1>3, PTL DEF NotifySpec

(* Counting and saving are not one step: a worker that pushes has found    *)
(* room below the cap of its category.                                     *)
RoomLeft ==
    \A w \in Workers : worker[w].pc = "push" =>
        \A r \in worker[w].rows :
            Event(r) \in CappedEvents => Cardinality(SentToday(Recipient(r))) < DailyCap

CapCounts == \A u \in Users : IsFiniteSet(SentToday(u)) /\ Cardinality(SentToday(u)) <= DailyCap

(* Steps that finish no push keep the count. *)
LEMMA CountKept ==
  ASSUME \A q \in Rows : Channel(q) = "PUSH" =>
            (row'[q].status = "SENT" /\ row'[q].error = "none" <=>
                row[q].status = "SENT" /\ row[q].error = "none")
  PROVE  \A u : SentToday(u)' = SentToday(u)
BY DEF SentToday

(* Every step but the save of a push keeps the count. *)
LEMMA CountSame ==
  ASSUME NotifyInv, [NotifyNext]_notifyVars, ~\E w \in Workers, r \in Rows : SavePush(w, r)
  PROVE  \A u : SentToday(u)' = SentToday(u)
<1>1. NotifyTypeOK /\ LedgersHold
  BY DEF NotifyInv
<1>2. CASE row' = row
  BY <1>2, CountKept
<1>3. ASSUME NEW r \in Rows, Queue(r), row' # row PROVE \A u : SentToday(u)' = SentToday(u)
  <2>1. OnlyRow(r) /\ row[r].status = "NONE" /\ row'[r].status = "PENDING"
    BY <1>1, <1>3, QueueEffect DEF RowIs
  <2> QED
    BY <2>1, CountKept DEF OnlyRow
<1>4. ASSUME NEW r \in Rows, RetryDue(r) PROVE \A u : SentToday(u)' = SentToday(u)
  <2>1. OnlyRow(r) /\ row'[r].status = row[r].status /\ row'[r].error = row[r].error
    BY <1>1, <1>4, RetryEffect DEF RowIs
  <2> QED
    BY <2>1, CountKept DEF OnlyRow
<1>5. ASSUME NEW w \in Workers, NEW r \in Rows, DeliverInApp(w, r) PROVE \A u : SentToday(u)' = SentToday(u)
  <2>1. OnlyRow(r) /\ Channel(r) = "IN_APP"
    BY <1>1, <1>5, InAppEffect DEF DeliverInApp
  <2> QED
    BY <2>1, CountKept DEF OnlyRow
<1>6. ASSUME NEW w \in Workers, NEW r \in Rows, SaveMail(w, r) PROVE \A u : SentToday(u)' = SentToday(u)
  <2>1. OnlyRow(r)
    BY <1>1, <1>6, SaveMailEffect
  <2>2. Channel(r) = "EMAIL"
    BY <1>1, <1>6 DEF SaveMail, LedgersHold, Locks
  <2> QED
    BY <2>1, <2>2, CountKept DEF OnlyRow
<1>7. ASSUME NEW w \in Workers, NEW r \in Rows, SuppressPush(w, r) PROVE \A u : SentToday(u)' = SentToday(u)
  <2>1. OnlyRow(r) /\ row'[r].error = "suppressed"
    BY <1>1, <1>7, SuppressEffect DEF RowIs
  <2>2. row[r].status # "SENT"
    BY <1>7 DEF SuppressPush, StillOpen, Final
  <2> QED
    BY <2>1, <2>2, CountKept DEF OnlyRow
<1>8. ASSUME NEW w \in Workers, NEW r \in Rows, Deliver(w, r) PROVE \A u : SentToday(u)' = SentToday(u)
  BY <1>2, <1>5, <1>6, <1>7, <1>8 DEF Deliver, SkipDelivery, SendMail, BeginPush, SendPush
<1>9. CASE UNCHANGED notifyVars
  BY <1>2, <1>9 DEF notifyVars
<1>10. ASSUME NEW w \in Workers, WorkerStep(w) \/ Crash(w) PROVE \A u : SentToday(u)' = SentToday(u)
  BY <1>2, <1>8, <1>10 DEF WorkerStep, Claim, Crash
<1>11. ASSUME NEW d \in Devices, (\E t \in Tokens : RegisterDevice(d, t)) \/ Deactivate({d})
       PROVE  \A u : SentToday(u)' = SentToday(u)
  BY <1>2, <1>11 DEF RegisterDevice, Deactivate
<1>12. ASSUME NEW u \in Users, Deactivate(ActiveDevices(u)) \/ SetPreference(u) \/ LoseOccupancy(u)
       PROVE  \A x : SentToday(x)' = SentToday(x)
  BY <1>2, <1>12 DEF SetPreference, LoseOccupancy, Deactivate
<1>13. ASSUME NEW e \in Events, Notify(e) \/ \E u \in Users : DropCallback(u, e)
       PROVE  \A u : SentToday(u)' = SentToday(u)
  BY <1>2, <1>13 DEF Notify, DropCallback
<1> QED
  BY <1>2, <1>3, <1>4, <1>9, <1>10, <1>11, <1>12, <1>13 DEF NotifyNext

(* A worker begins to push only below the cap. *)
LEMMA RoomKept ==
  ASSUME NotifyInv, [NotifyNext]_notifyVars, RoomLeft, CapCounts,
         ~\E w \in Workers, r \in Rows : SavePush(w, r)
  PROVE  RoomLeft'
<1>1. NotifyTypeOK /\ LedgersHold
  BY DEF NotifyInv
<1>2. \A u : SentToday(u)' = SentToday(u)
  BY CountSame
<1>3. ASSUME \A w \in Workers :
               worker'[w].pc = "push" =>
                   \/ worker[w].pc = "push" /\ worker'[w].rows = worker[w].rows
                   \/ \A r \in worker'[w].rows :
                         Event(r) \in CappedEvents => Cardinality(SentToday(Recipient(r))) < DailyCap
      PROVE  RoomLeft'
  BY <1>2, <1>3 DEF RoomLeft
<1>4. ASSUME NEW w \in Workers, OnlyWorker(w), worker'[w].pc # "push" PROVE RoomLeft'
  BY <1>3, <1>4 DEF OnlyWorker
<1>5. ASSUME NEW w \in Workers, Claim(w) PROVE RoomLeft'
  <2>1. OnlyWorker(w) /\ worker'[w].pc = "batch"
    BY <1>1, <1>5, ClaimEffect DEF WorkerIs
  <2> QED
    BY <1>4, <2>1
<1>6. ASSUME NEW w \in Workers, Crash(w) PROVE RoomLeft'
  <2>1. Idle \in WorkerStates /\ Idle.pc = "idle"
    BY DEF Idle, WorkerStates
  <2>2. OnlyWorker(w) /\ worker'[w] = Idle
    BY <1>1, <1>6, <2>1, WorkerMoves DEF Crash
  <2> QED
    BY <1>4, <2>1, <2>2
<1>7. ASSUME NEW w \in Workers, NEW r \in Rows, worker' = [worker EXCEPT ![w] = Ready(w, r)] PROVE RoomLeft'
  <2>1. OnlyWorker(w) /\ worker'[w].pc \in {"idle", "batch"}
    BY <1>1, <1>7, ReadyEffect DEF WorkerIs
  <2> QED
    BY <1>4, <2>1
<1>8. ASSUME NEW w \in Workers, NEW r \in Rows, SendMail(w, r) PROVE RoomLeft'
  <2>1. OnlyWorker(w) /\ worker'[w].pc = "mailed"
    BY <1>1, <1>8, SendMailEffect DEF WorkerIs
  <2> QED
    BY <1>4, <2>1
<1>9. ASSUME NEW w \in Workers, NEW r \in Rows, BeginPush(w, r) PROVE RoomLeft'
  <2>1. OnlyWorker(w) /\ worker'[w].rows = {r}
    BY <1>1, <1>9, BeginPushEffect DEF WorkerIs
  <2>2. ~CapReached(r)
    BY <1>9 DEF BeginPush, Suppressed
  <2>3. Event(r) \in CappedEvents => ~(Cardinality(SentToday(Recipient(r))) >= DailyCap)
    BY <2>2 DEF CapReached
  <2>4. Event(r) \in CappedEvents => Cardinality(SentToday(Recipient(r))) < DailyCap
    <3>1. Recipient(r) \in Users
      BY DEF Rows, Recipient
    <3>2. Cardinality(SentToday(Recipient(r))) \in Nat
      BY <3>1, FS_CardinalityType DEF CapCounts
    <3> QED
      BY <2>3, <3>2, LimitAssumption
  <2> QED
    BY <1>3, <2>1, <2>4 DEF OnlyWorker
<1>10. ASSUME NEW w \in Workers, NEW r \in Rows, NEW x \in worker[w].left, SendPush(w, r, x) PROVE RoomLeft'
  <2>1. OnlyWorker(w) /\ worker'[w].rows = worker[w].rows
    BY <1>1, <1>10, SendPushEffect DEF WorkerIs
  <2>2. worker[w].pc = "push"
    BY <1>10 DEF SendPush
  <2> QED
    BY <1>3, <2>1, <2>2 DEF OnlyWorker
<1>11. ASSUME NEW w \in Workers, NEW r \in Rows, Deliver(w, r) PROVE RoomLeft'
  BY <1>7, <1>8, <1>9, <1>10, <1>11 DEF Deliver, SkipDelivery, DeliverInApp, SaveMail, SuppressPush
<1>12. CASE worker' = worker
  BY <1>3, <1>12
<1>13. ASSUME NEW w \in Workers, WorkerStep(w) \/ Crash(w) PROVE RoomLeft'
  BY <1>5, <1>6, <1>11, <1>13 DEF WorkerStep
<1>14. ASSUME NEW e \in Events, Notify(e) \/ \E u \in Users : DropCallback(u, e) PROVE RoomLeft'
  BY <1>12, <1>14 DEF Notify, DropCallback
<1>15. ASSUME NEW r \in Rows, Queue(r) \/ RetryDue(r) PROVE RoomLeft'
  BY <1>12, <1>15 DEF Queue, RetryDue
<1>16. ASSUME NEW d \in Devices, (\E t \in Tokens : RegisterDevice(d, t)) \/ Deactivate({d}) PROVE RoomLeft'
  BY <1>12, <1>16 DEF RegisterDevice, Deactivate
<1>17. ASSUME NEW u \in Users, Deactivate(ActiveDevices(u)) \/ SetPreference(u) \/ LoseOccupancy(u)
       PROVE  RoomLeft'
  BY <1>12, <1>17 DEF SetPreference, LoseOccupancy, Deactivate
<1>18. CASE UNCHANGED notifyVars
  BY <1>12, <1>18 DEF notifyVars
<1> QED
  BY <1>13, <1>14, <1>15, <1>16, <1>17, <1>18 DEF NotifyNext

(* The save of a push adds at most its row to the count. *)
LEMMA PushCounted ==
  ASSUME NotifyInv, RoomLeft, CapCounts, NEW w \in Workers, NEW r \in Rows, SavePush(w, r)
  PROVE  CapCounts'
<1>1. NotifyTypeOK /\ LedgersHold
  BY DEF NotifyInv
<1>2. OnlyRow(r)
  BY <1>1, SavePushEffect
<1>3. worker[w].pc = "push" /\ r \in worker[w].rows
  BY DEF SavePush
<1>4. row[r].status # "SENT" /\ Recipient(r) \in Users
  BY <1>1, <1>3 DEF LedgersHold, Locks, Final, Rows, Recipient
<1>5. ASSUME NEW u \in Users PROVE (IsFiniteSet(SentToday(u)) /\ Cardinality(SentToday(u)) <= DailyCap)'
  <2>1. IsFiniteSet(SentToday(u)) /\ Cardinality(SentToday(u)) <= DailyCap
    BY DEF CapCounts
  <2>2. SentToday(u)' = SentToday(u) \/ (SentToday(u)' = SentToday(u) \cup {r} /\ r \in SentToday(u)')
    BY <1>2, <1>4 DEF SentToday, OnlyRow
  <2>3. CASE SentToday(u)' = SentToday(u)
    BY <2>1, <2>3
  <2>4. CASE SentToday(u)' = SentToday(u) \cup {r} /\ r \in SentToday(u)'
    <3>1. Recipient(r) = u /\ Event(r) \in CappedEvents
      BY <2>4 DEF SentToday
    <3>2. Cardinality(SentToday(u)) < DailyCap
      BY <1>3, <3>1 DEF RoomLeft
    <3>3. r \notin SentToday(u)
      BY <1>4 DEF SentToday
    <3>4. IsFiniteSet(SentToday(u) \cup {r}) /\ Cardinality(SentToday(u) \cup {r}) = Cardinality(SentToday(u)) + 1
      BY <2>1, <3>3, FS_AddElement
    <3>5. Cardinality(SentToday(u)) \in Nat /\ DailyCap \in Nat
      BY <2>1, FS_CardinalityType, LimitAssumption
    <3> QED
      BY <2>4, <3>2, <3>4, <3>5
  <2> QED
    BY <2>2, <2>3, <2>4
<1> QED
  BY <1>5 DEF CapCounts

(* With one worker process no category is pushed to a user more often a    *)
(* day than the cap allows (_daily_push_cap_reached): between the count    *)
(* and the save nobody else saves.                                         *)
THEOREM CapCorrect ==
  ASSUME \A v, w \in Workers : v = w
  PROVE  NotifySpec => []CapRespected
<1> DEFINE Inv == NotifyInv /\ RoomLeft /\ CapCounts
<1>1. NotifyInit => Inv
  <2> SUFFICES ASSUME NotifyInit PROVE Inv
    OBVIOUS
  <2>1. NotifyInv
    BY NotifyStarts
  <2>2. \A w \in Workers : worker[w].pc = "idle"
    BY DEF NotifyInit, Idle
  <2>3. \A u : SentToday(u) = {}
    BY DEF NotifyInit, SentToday
  <2>4. CapCounts
    BY <2>3, FS_EmptySet, LimitAssumption DEF CapCounts
  <2> QED
    BY <2>1, <2>2, <2>4 DEF RoomLeft
<1>2. Inv /\ [NotifyNext]_notifyVars => Inv'
  <2> SUFFICES ASSUME Inv, [NotifyNext]_notifyVars PROVE Inv'
    OBVIOUS
  <2>1. NotifyInv'
    BY NotifyKept
  <2>2. CASE ~\E w \in Workers, r \in Rows : SavePush(w, r)
    <3>1. \A u : SentToday(u)' = SentToday(u)
      BY <2>2, CountSame
    <3>2. CapCounts'
      BY <3>1 DEF CapCounts
    <3> QED
      BY <2>1, <2>2, <3>2, RoomKept
  <2>3. ASSUME NEW w \in Workers, NEW r \in Rows, SavePush(w, r) PROVE Inv'
    <3>1. CapCounts'
      BY <2>3, PushCounted
    <3>2. worker'[w].pc # "push"
      BY <2>3, ReadyEffect DEF SavePush, WorkerIs, NotifyInv
    <3>3. RoomLeft'
      BY <3>2 DEF RoomLeft
    <3> QED
      BY <2>1, <3>1, <3>3
  <2> QED
    BY <2>2, <2>3
<1>3. Inv => CapRespected
  BY DEF CapCounts, CapRespected
<1> QED
  BY <1>1, <1>2, <1>3, PTL DEF NotifySpec
===============================================================================
