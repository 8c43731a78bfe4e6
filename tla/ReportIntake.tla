---------------------------- MODULE ReportIntake ----------------------------
(***************************************************************************)
(* Submission of reports and their AI triage (lamto/maintenance/           *)
(* {reporting,ai,candidates}.py, and the triage processor of               *)
(* lamto/config/worker.py).                                                *)
(*                                                                         *)
(* A resident's app sends requests; it repeats one whose answer was lost   *)
(* with the same client_ref.  A report is named by the request that        *)
(* created it.  The triage worker runs outside a transaction: every save   *)
(* is a step, and a crash or an exception may come between any two.        *)
(***************************************************************************)
EXTENDS FiniteSets, Naturals

CONSTANTS
    Posts,            \* POST /reports requests, the repeated ones included
    Refs,             \* client_ref values of one resident
    ReportContents,   \* text, unit and location of a report
    PrivateContents,  \* those submitted as private
    Photos,           \* photo files, told apart by their SHA-256
    Uploads,          \* photo upload requests
    TriageWorkers,    \* worker processes
    CandidateLimit,   \* at most this many duplicate candidates are offered
    AllowCrash        \* may a worker stop in the middle of a job?

ASSUME PrivateContentsAssumption == PrivateContents \subseteq ReportContents
ASSUME CandidateLimitAssumption == CandidateLimit \in Nat
ASSUME PostsAssumption == Posts # {}
ASSUME CrashAssumption == AllowCrash \in BOOLEAN

VARIABLES
    ask,         \* [ref, content] each request carries
    step,        \* where a request is in submit_report_idempotent
    answer,      \* the report a request was answered with, or a conflict
    reports,     \* requests whose report row exists
    status,      \* IssueReport.status
    triageJob,   \* TriageJob.status
    suggestion,  \* duplicate_report_ids of the TriageSuggestion, with "made"
    triage,      \* [pc, report, candidates] of each worker
    died,        \* reports whose worker stopped in the middle of their job
    photos,      \* ReportPhoto rows: [report, sha]
    versions,    \* document versions created for photos: [upload, report, sha]
    upload       \* where an upload is in attach_report_photo

submissionVars == <<ask, step, answer, reports>>
triageVars == <<triageJob, suggestion, triage, died>>
photoVars == <<photos, versions, upload>>
intakeVars == <<submissionVars, status, triageVars, photoVars>>

Status == {"SUBMITTED", "IN_REVIEW", "MOVED"}
JobStatus == {"NONE", "PENDING", "PROCESSING", "SUCCEEDED", "NEEDS_MANUAL"}
Answers == [kind : {"none", "created", "existing", "conflict"}, report : Posts]
NoSuggestion == [made |-> FALSE, duplicates |-> {}]
Phase == {"idle", "claimed", "asked", "stored", "manual", "saved"}

IntakeTypeOK ==
    /\ ask \in [Posts -> [ref : Refs, content : ReportContents]]
    /\ step \in [Posts -> {"new", "checked", "answered"}]
    /\ answer \in [Posts -> Answers]
    /\ reports \subseteq Posts
    /\ status \in [Posts -> Status]
    /\ triageJob \in [Posts -> JobStatus]
    /\ suggestion \in [Posts -> [made : BOOLEAN, duplicates : SUBSET Posts]]
    /\ triage \in [TriageWorkers -> [pc : Phase, report : Posts, candidates : SUBSET Posts]]
    /\ died \subseteq Posts
    /\ photos \subseteq [report : Posts, sha : Photos]
    /\ versions \subseteq [upload : Uploads, report : Posts, sha : Photos]
    /\ upload \in [Uploads -> [pc : {"new", "checked", "done"},
                               report : Posts, sha : Photos]]

IntakeInit ==
    /\ ask \in [Posts -> [ref : Refs, content : ReportContents]]
    /\ step = [q \in Posts |-> "new"]
    /\ answer = [q \in Posts |-> [kind |-> "none", report |-> q]]
    /\ reports = {}
    /\ status = [q \in Posts |-> "SUBMITTED"]
    /\ triageJob = [q \in Posts |-> "NONE"]
    /\ suggestion = [q \in Posts |-> NoSuggestion]
    /\ triage = [w \in TriageWorkers |->
                    [pc |-> "idle", report |-> CHOOSE q \in Posts : TRUE, candidates |-> {}]]
    /\ died = {}
    /\ photos = {}
    /\ versions = {}
    /\ upload \in [Uploads -> [pc : {"new"}, report : Posts, sha : Photos]]

-----------------------------------------------------------------------------
(* Submission.                                                             *)

(* The rows with the client_ref of q. *)
Existing(q) == {o \in reports : ask[o].ref = ask[q].ref}

(* _content_matches. *)
ContentMatches(o, q) == ask[o].content = ask[q].content

Answer(q, kind, o) ==
    /\ step' = [step EXCEPT ![q] = "answered"]
    /\ answer' = [answer EXCEPT ![q] = [kind |-> kind, report |-> o]]

(* What a request that finds row o replies. *)
AnswerExisting(q, o) ==
    Answer(q, IF ContentMatches(o, q) THEN "existing" ELSE "conflict", o)

(* The first lookup of submit_report_idempotent. *)
LookUp(q) ==
    /\ step[q] = "new"
    /\ \/ \E o \in Existing(q) : AnswerExisting(q, o)
       \/ /\ Existing(q) = {}
          /\ step' = [step EXCEPT ![q] = "checked"]
          /\ UNCHANGED answer
    /\ UNCHANGED <<ask, reports, status, triageVars, photoVars>>

(* The constraint report_client_ref_once. *)
RefIsFree(q) == Existing(q) = {}

(* submit_report commits: the report and its job, in one transaction. *)
InsertReport(q) ==
    /\ step[q] = "checked"
    /\ RefIsFree(q)
    /\ reports' = reports \cup {q}
    /\ triageJob' = [triageJob EXCEPT ![q] = "PENDING"]
    /\ Answer(q, "created", q)
    /\ UNCHANGED <<ask, status, suggestion, triage, died, photoVars>>

(* submit_report fails on the constraint: the row is fetched again. *)
InsertLoses(q) ==
    /\ step[q] = "checked"
    /\ ~RefIsFree(q)
    /\ \E o \in Existing(q) : AnswerExisting(q, o)
    /\ UNCHANGED <<ask, reports, status, triageVars, photoVars>>

-----------------------------------------------------------------------------
(* Photos.                                                                 *)

Linked(u) == [report |-> upload[u].report, sha |-> upload[u].sha]

UploadDone(u) == upload' = [upload EXCEPT ![u].pc = "done"]

(* attach_report_photo, the lookup without a lock. *)
CheckPhoto(u) ==
    /\ upload[u].pc = "new"
    /\ upload[u].report \in reports
    /\ upload' = [upload EXCEPT ![u].pc = IF Linked(u) \in photos THEN "done" ELSE "checked"]
    /\ UNCHANGED <<submissionVars, status, triageVars, photos, versions>>

(* Mutated form: the version is created on the strength of the first look. *)
PhotoStillNewUnchecked(u) == TRUE

(* The second lookup, with the report locked. *)
PhotoStillNew(u) == Linked(u) \notin photos

(* The transaction that locks the report: version and link, or the         *)
(* version somebody else created meanwhile.                                *)
AttachPhoto(u) ==
    /\ upload[u].pc = "checked"
    /\ IF PhotoStillNew(u)
       THEN /\ versions' = versions \cup {[upload |-> u, report |-> upload[u].report,
                                           sha |-> upload[u].sha]}
            /\ photos' = photos \cup {Linked(u)}
       ELSE UNCHANGED <<versions, photos>>
    /\ UploadDone(u)
    /\ UNCHANGED <<submissionVars, status, triageVars>>

-----------------------------------------------------------------------------
(* Triage.                                                                 *)

Goto(w, phase) == triage' = [triage EXCEPT ![w].pc = phase]

(* _claim_triage_job. *)
ClaimTriageJob(w, q) ==
    /\ triage[w].pc = "idle"
    /\ triageJob[q] = "PENDING"
    /\ triageJob' = [triageJob EXCEPT ![q] = "PROCESSING"]
    /\ triage' = [triage EXCEPT ![w] = [pc |-> "claimed", report |-> q, candidates |-> {}]]
    /\ UNCHANGED <<submissionVars, status, suggestion, died, photoVars>>

(* The filter of find_duplicate_candidates.  NEEDS_INFO reports, which are *)
(* eligible too, are not told apart from those in review.                  *)
EligibleDuplicates(q) ==
    {o \in reports \ {q} : status[o] # "MOVED" /\ ask[o].content \notin PrivateContents}

(* find_duplicate_candidates: the most similar ones of those. *)
FindCandidates(w) ==
    /\ triage[w].pc = "claimed"
    /\ \E some \in SUBSET EligibleDuplicates(triage[w].report) :
          /\ Cardinality(some) <= CandidateLimit
          /\ triage' = [triage EXCEPT ![w].pc = "asked", ![w].candidates = some]
    /\ UNCHANGED <<submissionVars, status, triageJob, suggestion, died, photoVars>>

(* The part of _validate_response that depends on the state; what the      *)
(* other checks refuse is the failed answer below.                         *)
ValidResponse(duplicates, candidates) == duplicates \subseteq candidates

(* The provider answers with any ids it likes, and the suggestion is       *)
(* stored.                                                                 *)
StoreSuggestion(w) ==
    LET q == triage[w].report
    IN  /\ triage[w].pc = "asked"
        /\ \E duplicates \in SUBSET reports :
              /\ ValidResponse(duplicates, triage[w].candidates)
              /\ suggestion' = [suggestion EXCEPT
                                    ![q] = [made |-> TRUE, duplicates |-> duplicates]]
        /\ Goto(w, "stored")
        /\ UNCHANGED <<submissionVars, status, triageJob, died, photoVars>>

(* The configuration, the transport, the envelope or the schema is bad, or *)
(* the provider asks for a manual review.                                  *)
ProviderFails(w) ==
    /\ triage[w].pc = "asked"
    /\ Goto(w, "manual")
    /\ UNCHANGED <<submissionVars, status, triageJob, suggestion, died, photoVars>>

JobOutcome(phase) == IF phase = "stored" THEN "SUCCEEDED" ELSE "NEEDS_MANUAL"

(* The job is saved, here or in _manual. *)
SaveJob(w) ==
    /\ triage[w].pc \in {"stored", "manual"}
    /\ triageJob' = [triageJob EXCEPT ![triage[w].report] = JobOutcome(triage[w].pc)]
    /\ Goto(w, "saved")
    /\ UNCHANGED <<submissionVars, status, suggestion, died, photoVars>>

(* Mutated form: the report is moved whatever its status. *)
StatusOverridden(q) == "IN_REVIEW"

(* Mutated form: a job that needs manual triage leaves the report alone. *)
StatusOnSuccess(q) ==
    IF status[q] = "SUBMITTED" /\ triageJob[q] = "SUCCEEDED" THEN "IN_REVIEW" ELSE status[q]

(* The conditional update that ends both. *)
StatusAfterTriage(q) == IF status[q] = "SUBMITTED" THEN "IN_REVIEW" ELSE status[q]

MoveToReview(w) ==
    /\ triage[w].pc = "saved"
    /\ status' = [status EXCEPT ![triage[w].report] = StatusAfterTriage(triage[w].report)]
    /\ Goto(w, "idle")
    /\ UNCHANGED <<submissionVars, triageJob, suggestion, died, photoVars>>

(* The process ends, or an exception reaches process_triage_batch, which   *)
(* logs it and goes on with the next processor.                            *)
TriageCrash(w) ==
    /\ AllowCrash
    /\ triage[w].pc # "idle"
    /\ Goto(w, "idle")
    /\ died' = died \cup {triage[w].report}
    /\ UNCHANGED <<submissionVars, status, triageJob, suggestion, photoVars>>

(* Staff work on the report at any time (CaseWork): a decline, a start of  *)
(* work, a proposal.                                                       *)
StaffMove(q) ==
    /\ q \in reports
    /\ status[q] # "MOVED"
    /\ status' = [status EXCEPT ![q] = "MOVED"]
    /\ UNCHANGED <<submissionVars, triageVars, photoVars>>

TriageStep(w) ==
    \/ FindCandidates(w) \/ StoreSuggestion(w) \/ ProviderFails(w)
    \/ SaveJob(w) \/ MoveToReview(w)

IntakeNext ==
    \/ \E q \in Posts : LookUp(q) \/ InsertReport(q) \/ InsertLoses(q) \/ StaffMove(q)
    \/ \E u \in Uploads : CheckPhoto(u) \/ AttachPhoto(u)
    \/ \E w \in TriageWorkers :
          \/ \E q \in Posts : ClaimTriageJob(w, q)
          \/ TriageStep(w)
          \/ TriageCrash(w)

IntakeSpec == IntakeInit /\ [][IntakeNext]_intakeVars

-----------------------------------------------------------------------------
(* Properties.                                                             *)

(* However often a request is repeated and however the repetitions race,   *)
(* one client_ref makes one report.                                        *)
OneReportPerRef ==
    \A p, q \in reports : ask[p].ref = ask[q].ref => p = q

(* A request that is told of success is told of a report that exists and   *)
(* says what the request said.                                             *)
AnswersAreTrue ==
    \A q \in Posts :
        answer[q].kind \in {"created", "existing"} =>
            /\ answer[q].report \in reports
            /\ ask[answer[q].report] = ask[q]

(* Uploading the same photo again never leaves a document version that no  *)
(* report shows: versions are append-only and cannot be deleted.           *)
NoOrphanVersion ==
    \A v, w \in versions : v.report = w.report /\ v.sha = w.sha => v = w

(* Whatever the provider answers, a suggestion names only public reports,  *)
(* other than the report itself, as duplicates.                            *)
DuplicatesArePublic ==
    \A q \in Posts : \A o \in suggestion[q].duplicates :
        o \in reports \ {q} /\ ask[o].content \notin PrivateContents

(* Triage that ends late never takes back what staff have done with the    *)
(* report meanwhile.                                                       *)
TriageNeverOverrides ==
    [][\A q \in Posts : status[q] = "MOVED" => status'[q] = "MOVED"]_intakeVars

(* A job that ended well has a suggestion to show. *)
SuccessHasSuggestion ==
    \A q \in Posts : triageJob[q] = "SUCCEEDED" => suggestion[q].made

(* Lost answers, repeated requests and uploads, racing workers and a       *)
(* provider that says what it likes leave one report for each client_ref,  *)
(* one version for each photo of a report and suggestions staff can follow *)
(* (submit_report_idempotent, attach_report_photo, process_triage_job).    *)
IntakeConsistent ==
    /\ IntakeTypeOK
    /\ OneReportPerRef /\ AnswersAreTrue
    /\ NoOrphanVersion
    /\ DuplicatesArePublic /\ SuccessHasSuggestion

(* Every report reaches review, with a suggestion or for manual triage,    *)
(* whatever the provider answers and whichever other jobs are given up,    *)
(* unless the worker stopped in the middle of its own job: nothing takes   *)
(* such a job up again (process_triage_job, _manual).                      *)
EveryReportReviewed ==
    \A q \in Posts : q \in reports ~> status[q] # "SUBMITTED" \/ q \in died
=============================================================================
