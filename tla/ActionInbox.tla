----------------------------- MODULE ActionInbox ------------------------------
(***************************************************************************)
(* The management inbox (lamto/web/action_inbox.py) and the accountability *)
(* chain of a case (lamto/web/views/staff_common.py), over the reports,    *)
(* cases and proposals of CaseWork and the triage jobs of                  *)
(* lamto/maintenance/ai.py.                                                *)
(*                                                                         *)
(* The queues are queries: nobody puts an item there and nobody takes it   *)
(* away.  The question is whether what waits for management is always in   *)
(* one of them, in every interleaving of the handlers of CaseWork.  The    *)
(* limits of the queries (20 to 50 rows, the oldest first) are not         *)
(* modelled.  The exceptions are left out: no code gives an outbox event   *)
(* the status FAILED its query asks for, mismatches are those of           *)
(* IntegrityChecks, and quarantined uploads do not meet a case.            *)
(***************************************************************************)
EXTENDS CaseWork, Naturals, Sequences

VARIABLES
    job,       \* TriageJob.status of a report
    dead,      \* reports whose triage worker died with the job
    asked,     \* reports some InfoRequest was ever made about
    near,      \* cases whose deadline is less than a day away
    settled,   \* cases whose proposal is settled, and so in the ledger
    confirmed  \* the outbox events of cases that are CONFIRMED

inboxVars == <<job, dead, asked, near, settled, confirmed>>
allVars == <<vars, inboxVars>>

(* The outbox events of a case: its proposal version's, its settlement's. *)
EventsOf(c) == {"version", "settlement"} \X {c}

InboxTypeOK ==
    /\ job \in [Reports -> {"PENDING", "PROCESSING", "SUCCEEDED", "NEEDS_MANUAL"}]
    /\ dead \subseteq Reports
    /\ asked \subseteq Reports /\ near \subseteq cases
    /\ settled \subseteq cases
    /\ confirmed \subseteq {"version", "settlement"} \X Reports

InboxInit ==
    /\ Init
    /\ job = [r \in Reports |-> "PENDING"]
    /\ dead = {} /\ asked = {} /\ near = {} /\ settled = {} /\ confirmed = {}

-----------------------------------------------------------------------------
(* Steps. *)

(* _claim_triage_job: no lease, and nothing looks for a PROCESSING job. *)
ClaimTriageJob(r) ==
    /\ job[r] = "PENDING"
    /\ job' = [job EXCEPT ![r] = "PROCESSING"]
    /\ UNCHANGED <<vars, dead, asked, near, settled, confirmed>>

(* The worker saves the outcome of the job: a suggestion, or it gives up   *)
(* (_manual).  The status of the report follows in a statement of its own, *)
(* TriageSuggested of CaseWork.                                            *)
SaveJob(r, outcome) ==
    /\ job[r] = "PROCESSING" /\ r \notin dead
    /\ job' = [job EXCEPT ![r] = outcome]
    /\ UNCHANGED <<vars, dead, asked, near, settled, confirmed>>

(* The worker is killed between the claim and the outcome. *)
TriageWorkerDies(r) ==
    /\ job[r] = "PROCESSING" /\ r \notin dead
    /\ dead' = dead \cup {r}
    /\ UNCHANGED <<vars, job, asked, near, settled, confirmed>>

Saved(r) == job[r] \in {"SUCCEEDED", "NEEDS_MANUAL"}

(* A step of CaseWork.  Its update of a report after triage is the last    *)
(* statement of the worker, made when the job is saved; it may never come. *)
Work ==
    /\ Next
    /\ \A r \in Reports : TriageSuggested(r) => Saved(r)
    /\ asked' = asked \cup openInfo'
    /\ UNCHANGED <<job, dead, near, settled, confirmed>>

(* The clock passes the horizon of _deadline_risk_items for a case. *)
DeadlineNears(c) ==
    /\ c \in cases \ near
    /\ near' = near \cup {c}
    /\ UNCHANGED <<vars, job, dead, asked, settled, confirmed>>

(* record_settlement, for a completed proposal; it writes the ledger entry *)
(* and queues its own event in the same transaction.                       *)
Settle(c) ==
    /\ proposal[c] = "COMPLETED" /\ c \notin settled
    /\ settled' = settled \cup {c}
    /\ UNCHANGED <<vars, job, dead, asked, near, confirmed>>

Queued(e) == IF e[1] = "version" THEN proposal[e[2]] # "none" ELSE e[2] \in settled

(* The outbox worker confirms an event, _mark_confirmed, *)
EventConfirmed(e) ==
    /\ Queued(e) /\ e \notin confirmed
    /\ confirmed' = confirmed \cup {e}
    /\ UNCHANGED <<vars, job, dead, asked, near, settled>>

(* or, late, writes its failure over that: _mark_retry (EvidenceOutbox).   *)
EventRetried(e) ==
    /\ e \in confirmed
    /\ confirmed' = confirmed \ {e}
    /\ UNCHANGED <<vars, job, dead, asked, near, settled>>

InboxNext ==
    \/ \E r \in Reports : ClaimTriageJob(r) \/ TriageWorkerDies(r)
    \/ \E r \in Reports, o \in {"SUCCEEDED", "NEEDS_MANUAL"} : SaveJob(r, o)
    \/ Work
    \/ \E c \in Reports : DeadlineNears(c) \/ Settle(c)
    \/ \E c \in Reports : \E e \in EventsOf(c) : EventConfirmed(e) \/ EventRetried(e)

InboxSpec == InboxInit /\ [][InboxNext]_allVars

-----------------------------------------------------------------------------
(* The queues.  A report has a triage decision exactly when it opened a    *)
(* case.                                                                   *)

OpenCases == {c \in cases : active[c] /\ ~completed[c]}

(* _manual_triage_items *)
ManualTriage ==
    {r \in Reports : /\ report[r] \in {"SUBMITTED", "IN_REVIEW"}
                     /\ job[r] = "NEEDS_MANUAL" \/ (job[r] = "SUCCEEDED" /\ r \notin cases)
                     /\ ~InActiveCase(r)}

(* _review_queue_items *)
ReviewQueue == {r \in Reports : report[r] = "IN_REVIEW" /\ r \notin cases}

(* _deadline_risk_items *)
DeadlineRisk == OpenCases \cap near

(* _in_progress_case_items *)
InProgressCases ==
    {c \in OpenCases : \E r \in members[c] : report[r] = "IN_PROGRESS"}

(* spending_proposal_cases *)
SpendingProposalCases ==
    {c \in OpenCases : /\ members[c] \cap PrivateReports = {}
                       /\ \A r \in members[c] : report[r] # "IN_PROGRESS"}

(* Mutated form: only cases whose reports the worker has seen. *)
ProposalCreateUnasked ==
    {c \in SpendingProposalCases : proposal[c] = "none" /\ \A r \in members[c] : report[r] = "IN_REVIEW"}

(* _proposal_create_candidates *)
ProposalCreate == {c \in SpendingProposalCases : proposal[c] = "none"}

(* _proposal_decision_items; without a revision a PUBLISHED proposal has   *)
(* not been decided.                                                       *)
ProposalDecision == {c \in cases : proposal[c] = "PUBLISHED"}

(* _settlement_items *)
SettlementQueue == {c \in cases \ settled : proposal[c] = "COMPLETED"}

(* action_items_for: one item per kind and target. *)
Items ==
    ({"manual_triage"} \X ManualTriage) \cup ({"review_report"} \X ReviewQueue)
    \cup ({"deadline_risk"} \X DeadlineRisk) \cup ({"in_progress_case"} \X InProgressCases)
    \cup ({"proposal_create"} \X ProposalCreate) \cup ({"proposal_decision"} \X ProposalDecision)
    \cup ({"settlement"} \X SettlementQueue)

(* _action_group, and the tiles that count the groups. *)
Group(kind) == IF kind = "deadline_risk" THEN "due_soon" ELSE "do_now"

Tile(group) == {i \in Items : Group(i[1]) = group}

-----------------------------------------------------------------------------
(* The accountability chain of a case.                                     *)

StageOrder == <<"report", "triage", "work", "proposal", "settlement", "publication">>

(* _publication_still_pending: both events are to be confirmed; a local    *)
(* signature is not enough.                                                *)
StillPending(c) == ~(EventsOf(c) \subseteq confirmed)

(* resolve_accountability_stage, for a case; "none" when all is done. *)
CurrentStage(c) ==
    IF c \in settled THEN (IF StillPending(c) THEN "publication" ELSE "none")
    ELSE IF proposal[c] \in {"IN_PROGRESS", "COMPLETED"} THEN "settlement"
    ELSE IF proposal[c] # "none" THEN "proposal"
    ELSE IF completed[c] THEN "settlement" ELSE "work"

(* accountability_chain: what precedes the current stage is complete. *)
ShownComplete(c, stage) ==
    \/ CurrentStage(c) = "none"
    \/ \E i, j \in DOMAIN StageOrder :
          StageOrder[i] = stage /\ StageOrder[j] = CurrentStage(c) /\ i < j

-----------------------------------------------------------------------------
(* Properties *)

(* The report was handed to the triage worker and not given back. *)
WithTriage(r) == report[r] = "SUBMITTED" /\ ~Saved(r) /\ r \notin cases

(* Somebody of management has the next move on the report: no worker and   *)
(* no resident does.                                                       *)
ManagementTurn(r) ==
    /\ report[r] \in {"SUBMITTED", "IN_REVIEW", "PROPOSED", "IN_PROGRESS"}
    /\ ~WithTriage(r)

CaseQueues == DeadlineRisk \cup InProgressCases \cup ProposalCreate \cup ProposalDecision

Listed(r) ==
    \/ r \in ManualTriage \cup ReviewQueue
    \/ \E c \in CaseQueues : r \in members[c]

(* The inbox is authoritative for staff work (the claim at the head of     *)
(* action_inbox.py): a report whose next move is management's is listed.   *)
(* The queries can miss a private report whose case is open, one that was  *)
(* asked about and came back to IN_REVIEW while its case went on, and the  *)
(* case of a refused proposal; every other report is listed as soon as the *)
(* triage worker has saved its job.  When the worker dies before that, the *)
(* report stays SUBMITTED with a PROCESSING job, out of every queue        *)
(* (_manual_triage_items asks for NEEDS_MANUAL, SUCCEEDED or no job).      *)
PublicTurnListed ==
    \A r \in Reports \ (PrivateReports \cup asked) :
        ManagementTurn(r) => Listed(r) \/ \E c \in cases : r \in members[c]
                                                          /\ proposal[c] = "NOT_PROCEEDING"

(* An item of the in-progress queue can be acted on: the work was started, *)
(* so progress and completion are open to it (case_detail).                *)
InProgressIsWorkable == \A c \in InProgressCases : started[c]

(* A proposal leaves the inbox only settled, refused, in progress, or with *)
(* its case: completed and unpaid it is always there.                      *)
UnpaidListed ==
    \A c \in cases : proposal[c] = "COMPLETED" =>
        (c \in settled) \/ <<"settlement", c>> \in Tile("do_now")

(* The accountability chain derives the stage from real state: a           *)
(* settlement shown as complete was recorded, for work that was done; work *)
(* shown as complete was done, or its proposal has taken over the chain.   *)
ChainIsTrue ==
    \A c \in cases :
        /\ ShownComplete(c, "settlement") => c \in settled /\ completed[c]
        /\ ShownComplete(c, "work") => completed[c] \/ proposal[c] # "none"

(* Whatever the handlers of CaseWork, the triage worker, the outbox and    *)
(* the clock do in between, the page shows management what waits for it:   *)
(* the turn of a report, the work that can go on, the money not yet paid,  *)
(* and a chain that does not run ahead of the case.                        *)
InboxHolds ==
    /\ InboxTypeOK
    /\ PublicTurnListed
    /\ InProgressIsWorkable
    /\ UnpaidListed
    /\ ChainIsTrue
=============================================================================
