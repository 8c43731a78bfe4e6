------------------------------ MODULE CaseWork ------------------------------
(***************************************************************************)
(* Resident reports, the maintenance cases they are triaged into and the   *)
(* spending proposal of a case (lamto/maintenance/{cases,triage,ratings}.py*)
(* and lamto/finance/proposals.py, as lamto/web/views and lamto/api call   *)
(* them).                                                                  *)
(*                                                                         *)
(* A case belongs to the triage decision of one report, so a case is named *)
(* by that report.  Services run in database transactions.  Those that     *)
(* lock the case read the statuses of its reports without locking them and *)
(* write them back later: start_case_work and complete_case_work are two   *)
(* steps, and services that lock only the report run in between.           *)
(* decline_report is the other way round: it locks the report and reads    *)
(* its cases without locking them.  The report page of the workspace       *)
(* checks that the report is in no active case before it calls a service.  *)
(***************************************************************************)
CONSTANTS
    Reports,         \* issue reports; each has a reporter of its own
    PrivateReports,  \* those submitted as private
    AllowRevision,   \* is publish_proposal_version called on a proposal
                     \* that already has a version?
    AllowGrouping    \* is group_report called?  No page calls it yet.

ASSUME PrivateAssumption == PrivateReports \subseteq Reports
ASSUME RevisionAssumption == AllowRevision \in BOOLEAN
ASSUME GroupingAssumption == AllowGrouping \in BOOLEAN

VARIABLES
    report,     \* IssueReport.status
    openInfo,   \* reports with an unresolved InfoRequest
    page,       \* the request a staff page has let through for a report
    closing,    \* cases a decline in progress has found to be without
                \* another report to act on
    cases,      \* reports whose triage decision opened a case
    active,     \* MaintenanceCase.active
    started,    \* started_at is set
    completed,  \* completed_at is set
    members,    \* CaseReport links
    proposal,   \* status of the case's proposal, "none" without one
    tx,         \* the transaction that holds the lock on the case
    rated       \* reports whose reporter has rated the case

reportVars == <<report, openInfo, page, closing>>
caseVars == <<cases, active, started, completed, members>>
vars == <<reportVars, caseVars, proposal, tx, rated>>

ReportStatus == {"SUBMITTED", "IN_REVIEW", "NEEDS_INFO", "DECLINED",
                 "IN_PROGRESS", "PROPOSED", "COMPLETED", "CLOSED"}
Terminal == {"DECLINED", "COMPLETED", "CLOSED"}
ProposalStatus == {"none", "PUBLISHED", "IN_PROGRESS", "NOT_PROCEEDING", "COMPLETED"}
Operation == {"none", "start", "proceed", "complete"}
NoTx == [op |-> "none", reads |-> {}]

TypeOK ==
    /\ report \in [Reports -> ReportStatus]
    /\ openInfo \subseteq Reports
    /\ page \in [Reports -> {"none", "decline", "info", "declining"}]
    /\ closing \in [Reports -> SUBSET Reports]
    /\ cases \subseteq Reports
    /\ active \in [Reports -> BOOLEAN]
    /\ started \in [Reports -> BOOLEAN]
    /\ completed \in [Reports -> BOOLEAN]
    /\ members \in [Reports -> SUBSET Reports]
    /\ proposal \in [Reports -> ProposalStatus]
    /\ tx \in [Reports -> [op : Operation, reads : SUBSET Reports]]
    /\ rated \in [Reports -> SUBSET Reports]

Init ==
    /\ report = [r \in Reports |-> "SUBMITTED"]
    /\ openInfo = {}
    /\ page = [r \in Reports |-> "none"]
    /\ closing = [r \in Reports |-> {}]
    /\ cases = {}
    /\ active = [c \in Reports |-> FALSE]
    /\ started = [c \in Reports |-> FALSE]
    /\ completed = [c \in Reports |-> FALSE]
    /\ members = [c \in Reports |-> {}]
    /\ proposal = [c \in Reports |-> "none"]
    /\ tx = [c \in Reports |-> NoTx]
    /\ rated = [c \in Reports |-> {}]

-----------------------------------------------------------------------------
InActiveCase(r) == \E c \in cases : active[c] /\ r \in members[c]
Unfinished(c) == {r \in members[c] : report[r] \notin Terminal}

(* Mutated form: select_for_update on the case is missing. *)
UnlockedAlways(c) == TRUE

(* Nobody holds the lock of the case, or of the report. *)
Unlocked(c) == tx[c].op = "none"
ReportUnlocked(r) == page[r] # "declining"

SetReports(rs, s) == report' = [r \in Reports |-> IF r \in rs THEN s ELSE report[r]]

-----------------------------------------------------------------------------
(* Reports.                                                                *)

(* The triage worker's conditional update after a suggestion was stored. *)
TriageSuggested(r) ==
    /\ report[r] = "SUBMITTED"
    /\ ReportUnlocked(r)
    /\ SetReports({r}, "IN_REVIEW")
    /\ UNCHANGED <<openInfo, page, closing, caseVars, proposal, tx, rated>>

(* report_detail lets a decline or an information request through when the *)
(* report is in no active case; the check takes no lock.                   *)
ReportPage(r, action) ==
    /\ page[r] = "none"
    /\ ~InActiveCase(r)
    /\ page' = [page EXCEPT ![r] = action]
    /\ UNCHANGED <<report, openInfo, closing, caseVars, proposal, tx, rated>>

(* request_information. *)
RequestInformation(r) ==
    /\ page[r] = "info"
    /\ page' = [page EXCEPT ![r] = "none"]
    /\ IF report[r] \notin Terminal /\ r \notin openInfo
       THEN /\ openInfo' = openInfo \cup {r}
            /\ SetReports({r}, "NEEDS_INFO")
       ELSE UNCHANGED <<report, openInfo>>
    /\ UNCHANGED <<closing, caseVars, proposal, tx, rated>>

(* reply_information. *)
ReplyInformation(r) ==
    /\ r \in openInfo
    /\ ReportUnlocked(r)
    /\ openInfo' = openInfo \ {r}
    /\ SetReports({r}, "IN_REVIEW")
    /\ UNCHANGED <<page, closing, caseVars, proposal, tx, rated>>

(* The cases decline_report closes: active ones with no other report to    *)
(* act on.                                                                 *)
Emptied(r) == {c \in cases : active[c] /\ r \in members[c] /\ Unfinished(c) \subseteq {r}}

(* decline_report locks the report and looks at its cases, *)
DeclineReport(r) ==
    /\ page[r] = "decline"
    /\ IF report[r] \in Terminal
       THEN page' = [page EXCEPT ![r] = "none"] /\ UNCHANGED closing
       ELSE /\ page' = [page EXCEPT ![r] = "declining"]
            /\ closing' = [closing EXCEPT ![r] = Emptied(r)]
    /\ UNCHANGED <<report, openInfo, caseVars, proposal, tx, rated>>

(* and commits once it gets the locks of the cases it writes, *)
CommitDecline(r) ==
    /\ page[r] = "declining"
    /\ \A c \in closing[r] : Unlocked(c)
    /\ SetReports({r}, "DECLINED")
    /\ active' = [c \in Reports |-> active[c] /\ c \notin closing[r]]
    /\ page' = [page EXCEPT ![r] = "none"]
    /\ closing' = [closing EXCEPT ![r] = {}]
    /\ UNCHANGED <<openInfo, cases, started, completed, members, proposal, tx, rated>>

(* or fails, as when the database picks it to break a deadlock. *)
RollbackDecline(r) ==
    /\ page[r] = "declining"
    /\ page' = [page EXCEPT ![r] = "none"]
    /\ closing' = [closing EXCEPT ![r] = {}]
    /\ UNCHANGED <<report, openInfo, caseVars, proposal, tx, rated>>

-----------------------------------------------------------------------------
(* Cases.                                                                  *)

(* Mutated form: the link is inserted whatever other case owns the report. *)
ConfirmTriageUnchecked(r) ==
    /\ r \notin cases
    /\ cases' = cases \cup {r}
    /\ active' = [active EXCEPT ![r] = TRUE]
    /\ members' = [members EXCEPT ![r] = {r}]
    /\ UNCHANGED <<reportVars, started, completed, proposal, tx, rated>>

(* confirm_triage: opens the case of r, once.  The page redirects, and the *)
(* trigger on CaseReport refuses, when r already is in an active case.     *)
ConfirmTriage(r) ==
    /\ r \notin cases
    /\ ReportUnlocked(r)
    /\ ~InActiveCase(r)
    /\ cases' = cases \cup {r}
    /\ active' = [active EXCEPT ![r] = TRUE]
    /\ members' = [members EXCEPT ![r] = {r}]
    /\ UNCHANGED <<reportVars, started, completed, proposal, tx, rated>>

(* Mutated form: the status of the proposal is taken for that of a report. *)
GroupedStatusOfProposal(c) == IF proposal[c] # "none" THEN proposal[c] ELSE "IN_REVIEW"

(* The phase of the case, from its reports and its proposal. *)
GroupedStatus(c) ==
    IF \E r \in members[c] : report[r] = "IN_PROGRESS" THEN "IN_PROGRESS"
    ELSE IF proposal[c] # "none" THEN "PROPOSED"
    ELSE "IN_REVIEW"

(* group_report: the report adopts the phase of the case. *)
GroupReport(c, r) ==
    /\ AllowGrouping
    /\ c \in cases /\ active[c] /\ Unlocked(c) /\ ReportUnlocked(r)
    /\ ~InActiveCase(r)
    /\ ~(r \in PrivateReports /\ GroupedStatus(c) = "PROPOSED")
    /\ members' = [members EXCEPT ![c] = @ \cup {r}]
    /\ SetReports({r}, GroupedStatus(c))
    /\ UNCHANGED <<openInfo, page, closing, cases, active, started, completed,
                   proposal, tx, rated>>

(* _locked_case. *)
Workable(c) == c \in cases /\ Unlocked(c) /\ active[c] /\ ~completed[c]

(* Mutated form: work starts while the proposal awaits its decision. *)
WorkMayStartAnyway(c) == Workable(c)

(* The guards of start_case_work. *)
WorkMayStart(c) == Workable(c) /\ proposal[c] # "PUBLISHED"

(* The guards of the decide handler of proposal_detail, when the choice is *)
(* to proceed: decide_proposal and start_case_work in one transaction.     *)
ProceedMayBegin(c) == Workable(c) /\ proposal[c] = "PUBLISHED"

(* The guards of complete_case_work. *)
WorkMayComplete(c) == Workable(c) /\ started[c]

(* A transaction locks the case, checks its guards and reads the reports   *)
(* it is going to write.                                                   *)
Begin(c, op) ==
    /\ \/ op = "start" /\ WorkMayStart(c)
       \/ op = "proceed" /\ ProceedMayBegin(c)
       \/ op = "complete" /\ WorkMayComplete(c)
    /\ tx' = [tx EXCEPT ![c] = [op |-> op, reads |-> Unfinished(c)]]
    /\ UNCHANGED <<reportVars, caseVars, proposal, rated>>

(* The commit of start_case_work, and of the decide handler around it. *)
CommitStart(c) ==
    /\ tx[c].op \in {"start", "proceed"}
    /\ started' = [started EXCEPT ![c] = TRUE]
    /\ \A r \in tx[c].reads : ReportUnlocked(r)
    /\ SetReports(tx[c].reads, "IN_PROGRESS")
    /\ proposal' = IF tx[c].op = "proceed"
                   THEN [proposal EXCEPT ![c] = "IN_PROGRESS"] ELSE proposal
    /\ tx' = [tx EXCEPT ![c] = NoTx]
    /\ UNCHANGED <<openInfo, page, closing, cases, active, completed, members, rated>>

(* Mutated form: the proposal is left behind. *)
CompletedProposalForgotten(c) == proposal[c]

(* What complete_case_work makes of the proposal: only one somebody        *)
(* decided to proceed with is completed.                                   *)
CompletedProposal(c) ==
    IF proposal[c] = "IN_PROGRESS" THEN "COMPLETED" ELSE proposal[c]

(* Mutated form: completed_at is set but not saved. *)
CommitCompleteUnsaved(c) ==
    /\ tx[c].op = "complete"
    /\ proposal' = [proposal EXCEPT ![c] = CompletedProposal(c)]
    /\ \A r \in tx[c].reads : ReportUnlocked(r)
    /\ SetReports(tx[c].reads, "COMPLETED")
    /\ tx' = [tx EXCEPT ![c] = NoTx]
    /\ UNCHANGED <<openInfo, page, closing, caseVars, rated>>

(* The commit of complete_case_work. *)
CommitComplete(c) ==
    /\ tx[c].op = "complete"
    /\ completed' = [completed EXCEPT ![c] = TRUE]
    /\ proposal' = [proposal EXCEPT ![c] = CompletedProposal(c)]
    /\ \A r \in tx[c].reads : ReportUnlocked(r)
    /\ SetReports(tx[c].reads, "COMPLETED")
    /\ tx' = [tx EXCEPT ![c] = NoTx]
    /\ UNCHANGED <<openInfo, page, closing, cases, active, started, members, rated>>

(* The transaction fails before its commit (a deadlock the database        *)
(* resolves, a lost connection) and leaves no trace.                       *)
Rollback(c) ==
    /\ tx[c].op # "none"
    /\ tx' = [tx EXCEPT ![c] = NoTx]
    /\ UNCHANGED <<reportVars, caseVars, proposal, rated>>

-----------------------------------------------------------------------------
(* Proposals of a case.                                                    *)

(* proposal_create: create_proposal and publish_proposal_version in one    *)
(* transaction that locks the case.                                        *)
CreateProposal(c) ==
    /\ Workable(c)
    /\ proposal[c] = "none"
    /\ members[c] \cap PrivateReports = {}
    /\ \A r \in members[c] : report[r] # "IN_PROGRESS"
    /\ proposal' = [proposal EXCEPT ![c] = "PUBLISHED"]
    /\ \A r \in Unfinished(c) : ReportUnlocked(r)
    /\ SetReports(Unfinished(c), "PROPOSED")
    /\ UNCHANGED <<openInfo, page, closing, caseVars, tx, rated>>

(* Only the transactions that write the proposal hold its row lock. *)
ProposalUnlocked(c) == tx[c].op \notin {"proceed", "complete"}

(* publish_proposal_version on a proposal that has a version: the proposal *)
(* is open for a decision again.                                           *)
ReviseProposal(c) ==
    /\ AllowRevision
    /\ proposal[c] \in {"PUBLISHED", "IN_PROGRESS"}
    /\ ProposalUnlocked(c)
    /\ proposal' = [proposal EXCEPT ![c] = "PUBLISHED"]
    /\ UNCHANGED <<reportVars, caseVars, tx, rated>>

(* decide_proposal, when the choice is not to proceed. *)
DoNotProceed(c) ==
    /\ proposal[c] = "PUBLISHED"
    /\ ProposalUnlocked(c)
    /\ proposal' = [proposal EXCEPT ![c] = "NOT_PROCEEDING"]
    /\ UNCHANGED <<reportVars, caseVars, tx, rated>>

-----------------------------------------------------------------------------
(* The end of a case.                                                      *)

(* The guards of rate_completed_case for the reporter of r. *)
Ratable(c, r) == completed[c] /\ r \in members[c] \ rated[c]

(* rate_completed_case closes the reporter's report, and the case with the *)
(* last one.  Occupancy of the resident is taken for granted.              *)
RateCase(c, r) ==
    /\ Unlocked(c)
    /\ Ratable(c, r)
    /\ rated' = [rated EXCEPT ![c] = @ \cup {r}]
    /\ SetReports(IF report[r] = "COMPLETED" THEN {r} ELSE {}, "CLOSED")
    /\ active' = [active EXCEPT ![c] = @ /\ Unfinished(c) # {}]
    /\ UNCHANGED <<openInfo, page, closing, cases, started, completed, members, proposal, tx>>

(* Mutated form: the case is left active when its window has passed. *)
CloseReportsOnly(c) ==
    /\ c \in cases /\ completed[c] /\ active[c] /\ Unlocked(c)
    /\ SetReports({r \in members[c] : report[r] = "COMPLETED"}, "CLOSED")
    /\ UNCHANGED <<openInfo, page, closing, caseVars, proposal, tx, rated>>

(* close_expired_completed_cases, for a case whose rating window has       *)
(* passed.  closed_at is set exactly when active is cleared.               *)
CloseExpired(c) ==
    /\ c \in cases /\ completed[c] /\ active[c] /\ Unlocked(c)
    /\ SetReports({r \in members[c] : report[r] = "COMPLETED"}, "CLOSED")
    /\ active' = [active EXCEPT ![c] = FALSE]
    /\ UNCHANGED <<openInfo, page, closing, cases, started, completed, members,
                   proposal, tx, rated>>

Next ==
    \/ \E r \in Reports :
          \/ TriageSuggested(r)
          \/ \E action \in {"decline", "info"} : ReportPage(r, action)
          \/ RequestInformation(r) \/ ReplyInformation(r)
          \/ DeclineReport(r) \/ CommitDecline(r) \/ RollbackDecline(r)
          \/ ConfirmTriage(r)
    \/ \E c \in Reports :
          \/ \E r \in Reports : GroupReport(c, r) \/ RateCase(c, r)
          \/ \E op \in Operation : Begin(c, op)
          \/ CommitStart(c) \/ CommitComplete(c) \/ Rollback(c)
          \/ CreateProposal(c) \/ ReviseProposal(c) \/ DoNotProceed(c)
          \/ CloseExpired(c)

Spec == Init /\ [][Next]_vars

(* close_completed_cases is a scheduled command, and transactions end. *)
Fairness ==
    \A c \in Reports :
        /\ SF_vars(CloseExpired(c))
        /\ WF_vars(CommitStart(c) \/ CommitComplete(c) \/ Rollback(c))

FairSpec == Spec /\ Fairness

-----------------------------------------------------------------------------
(* Properties.                                                             *)

(* The proposal of a case and its work agree, whatever interleaves: money  *)
(* is committed only to work that is under way, and a proposal counts as   *)
(* completed, and so can be settled, only when the work is done.           *)
ProposalFollowsWork ==
    \A c \in Reports :
        /\ proposal[c] = "IN_PROGRESS" => started[c] /\ ~completed[c]
        /\ proposal[c] = "COMPLETED" => started[c] /\ completed[c]

(* Decisions bind: while a published proposal awaits its decision, work on *)
(* the case does not start (GLOSSARY.md, "Proceed decision"), and one      *)
(* closed as not proceeding stays closed, so that no completion of the     *)
(* case makes it settleable (comment in complete_case_work).               *)
DecisionsBind ==
    [][\A c \in Reports :
          /\ ~started[c] /\ started'[c] => proposal'[c] # "PUBLISHED"
          /\ proposal[c] = "NOT_PROCEEDING" => proposal'[c] = "NOT_PROCEEDING"]_vars

(* A report is in at most one active case, also when triage and grouping   *)
(* interleave.                                                             *)
OneActiveCase ==
    \A c, d \in cases :
        active[c] /\ active[d] /\ members[c] \cap members[d] # {} => c = d

(* A resident is told that work is completed, or the request closed, only  *)
(* when the work of a case the report belongs to was completed, whatever   *)
(* was read before it and changed meanwhile.                               *)
FinishedMeansDone ==
    \A r \in Reports :
        report[r] \in {"COMPLETED", "CLOSED"} =>
            \E c \in cases : completed[c] /\ r \in members[c]

(* A resident is told that work is in progress only while the report is in *)
(* an active case whose work was started and is not completed: the locks   *)
(* keep a decline and the start of work from overtaking each other.        *)
WorkInProgressIsReal ==
    \A r \in Reports :
        report[r] = "IN_PROGRESS" =>
            \E c \in cases : /\ r \in members[c]
                             /\ active[c] /\ started[c] /\ ~completed[c]

(* Every completed case leaves the active list, rated or not. *)
CompletedCasesClose ==
    \A c \in Reports : completed[c] ~> ~active[c]

(* Started work is the last moment a spending proposal can be created      *)
(* (GLOSSARY.md, "Started work").                                          *)
ProposalPrecedesWork ==
    [][\A c \in Reports :
          proposal[c] = "none" /\ proposal'[c] # "none" => ~started[c]]_vars
=============================================================================
