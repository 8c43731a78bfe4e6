--------------------------- MODULE CaseWork_proofs ---------------------------
(***************************************************************************)
(* Proofs about CaseWork, for any number of reports, with revisions and    *)
(* grouping or without.                                                    *)
(***************************************************************************)
EXTENDS CaseWork, TLAPS

(* What a transaction checked when it locked the case is still so when it  *)
(* commits: this is what the lock of the case, and the lock of the         *)
(* proposal under it, are for.                                             *)
ChecksHold ==
    \A c \in Reports :
        /\ tx[c].op # "none" => /\ c \in cases /\ ~completed[c]
                                /\ tx[c].reads \subseteq members[c]
        /\ tx[c].op = "complete" => started[c]
        /\ tx[c].op = "proceed" => proposal[c] = "PUBLISHED"
        /\ tx[c].op = "start" /\ ~started[c] => proposal[c] # "PUBLISHED"

(* The inductive invariant. *)
IInv ==
    /\ TypeOK
    /\ ProposalFollowsWork
    /\ ChecksHold
    /\ OneActiveCase
    /\ FinishedMeansDone

-----------------------------------------------------------------------------
(* IInv is inductive: one lemma for each action. *)

(* A suggestion moves a submitted report to review. *)
LEMMA TriageSuggestedPreserves ==
  ASSUME IInv, NEW r \in Reports, TriageSuggested(r)
  PROVE  IInv'
<1> USE DEF IInv, TriageSuggested, SetReports, reportVars, caseVars
<1>1. TypeOK'
  BY DEF TypeOK, ReportStatus
<1>2. ProposalFollowsWork'
  BY DEF ProposalFollowsWork
<1>3. ChecksHold'
  BY DEF ChecksHold
<1>4. OneActiveCase'
  BY DEF OneActiveCase
<1>5. FinishedMeansDone'
  BY DEF FinishedMeansDone
<1> QED
  BY <1>1, <1>2, <1>3, <1>4, <1>5

(* A page changes nothing yet. *)
LEMMA ReportPagePreserves ==
  ASSUME IInv, NEW r \in Reports, NEW action \in {"decline", "info"}, ReportPage(r, action)
  PROVE  IInv'
<1> USE DEF IInv, ReportPage, reportVars, caseVars
<1>1. TypeOK'
  BY DEF TypeOK
<1>2. ProposalFollowsWork'
  BY DEF ProposalFollowsWork
<1>3. ChecksHold'
  BY DEF ChecksHold
<1>4. OneActiveCase'
  BY DEF OneActiveCase
<1>5. FinishedMeansDone'
  BY DEF FinishedMeansDone
<1> QED
  BY <1>1, <1>2, <1>3, <1>4, <1>5

(* An information request touches the report alone. *)
LEMMA RequestInformationPreserves ==
  ASSUME IInv, NEW r \in Reports, RequestInformation(r)
  PROVE  IInv'
<1> USE DEF IInv, RequestInformation, SetReports, reportVars, caseVars
<1>1. TypeOK'
  BY DEF TypeOK, ReportStatus
<1>2. ProposalFollowsWork'
  BY DEF ProposalFollowsWork
<1>3. ChecksHold'
  BY DEF ChecksHold
<1>4. OneActiveCase'
  BY DEF OneActiveCase
<1>5. FinishedMeansDone'
  BY DEF FinishedMeansDone
<1> QED
  BY <1>1, <1>2, <1>3, <1>4, <1>5

(* A reply touches the report alone. *)
LEMMA ReplyInformationPreserves ==
  ASSUME IInv, NEW r \in Reports, ReplyInformation(r)
  PROVE  IInv'
<1> USE DEF IInv, ReplyInformation, SetReports, reportVars, caseVars
<1>1. TypeOK'
  BY DEF TypeOK, ReportStatus
<1>2. ProposalFollowsWork'
  BY DEF ProposalFollowsWork
<1>3. ChecksHold'
  BY DEF ChecksHold
<1>4. OneActiveCase'
  BY DEF OneActiveCase
<1>5. FinishedMeansDone'
  BY DEF FinishedMeansDone
<1> QED
  BY <1>1, <1>2, <1>3, <1>4, <1>5

(* A decline reads before it writes. *)
LEMMA DeclineReportPreserves ==
  ASSUME IInv, NEW r \in Reports, DeclineReport(r)
  PROVE  IInv'
<1> USE DEF IInv, DeclineReport, reportVars, caseVars
<1>0. Emptied(r) \in SUBSET Reports
  BY DEF TypeOK, Emptied
<1>1. TypeOK'
  <2>1. page' \in [Reports -> {"none", "decline", "info", "declining"}]
    BY DEF TypeOK
  <2>2. closing' \in [Reports -> SUBSET Reports]
    BY <1>0 DEF TypeOK
  <2>3. UNCHANGED <<report, openInfo, cases, active, started, completed, members,
                    proposal, tx, rated>>
    OBVIOUS
  <2> HIDE DEF DeclineReport
  <2> QED
    BY <2>1, <2>2, <2>3 DEF TypeOK
<1>2. ProposalFollowsWork'
  BY DEF ProposalFollowsWork
<1>3. ChecksHold'
  BY DEF ChecksHold
<1>4. OneActiveCase'
  BY DEF OneActiveCase
<1>5. FinishedMeansDone'
  BY DEF FinishedMeansDone
<1> QED
  BY <1>1, <1>2, <1>3, <1>4, <1>5

(* A decline can only make cases inactive. *)
LEMMA CommitDeclinePreserves ==
  ASSUME IInv, NEW r \in Reports, CommitDecline(r)
  PROVE  IInv'
<1> USE DEF IInv, CommitDecline, SetReports, Unlocked, reportVars, caseVars
<1>1. TypeOK'
  BY DEF TypeOK, ReportStatus
<1>2. ProposalFollowsWork'
  BY DEF ProposalFollowsWork
<1>3. ChecksHold'
  BY DEF ChecksHold
<1>4. OneActiveCase'
  BY DEF TypeOK, OneActiveCase
<1>5. FinishedMeansDone'
  BY DEF FinishedMeansDone
<1> QED
  BY <1>1, <1>2, <1>3, <1>4, <1>5

(* A decline that fails leaves no trace. *)
LEMMA RollbackDeclinePreserves ==
  ASSUME IInv, NEW r \in Reports, RollbackDecline(r)
  PROVE  IInv'
<1> USE DEF IInv, RollbackDecline, reportVars, caseVars
<1>1. TypeOK'
  BY DEF TypeOK
<1>2. ProposalFollowsWork'
  BY DEF ProposalFollowsWork
<1>3. ChecksHold'
  BY DEF ChecksHold
<1>4. OneActiveCase'
  BY DEF OneActiveCase
<1>5. FinishedMeansDone'
  BY DEF FinishedMeansDone
<1> QED
  BY <1>1, <1>2, <1>3, <1>4, <1>5

(* A new case takes a report no active case has. *)
LEMMA ConfirmTriagePreserves ==
  ASSUME IInv, NEW r \in Reports, ConfirmTriage(r)
  PROVE  IInv'
<1> USE DEF IInv, ConfirmTriage, InActiveCase, reportVars, caseVars
<1>1. TypeOK'
  BY DEF TypeOK
<1>2. ProposalFollowsWork'
  BY DEF ProposalFollowsWork
<1>3. ChecksHold'
  BY DEF ChecksHold
<1>4. OneActiveCase'
  BY DEF TypeOK, OneActiveCase
<1>5. FinishedMeansDone'
  BY DEF FinishedMeansDone
<1> QED
  BY <1>1, <1>2, <1>3, <1>4, <1>5

(* Grouping adds a report no active case has. *)
LEMMA GroupReportPreserves ==
  ASSUME IInv, NEW c \in Reports, NEW r \in Reports, GroupReport(c, r)
  PROVE  IInv'
<1> USE DEF IInv, GroupReport, InActiveCase, GroupedStatus, SetReports,
   Unlocked, reportVars, caseVars
<1>1. TypeOK'
  BY DEF TypeOK, ReportStatus
<1>2. ProposalFollowsWork'
  BY DEF ProposalFollowsWork
<1>3. ChecksHold'
  BY DEF ChecksHold
<1>4. OneActiveCase'
  BY DEF OneActiveCase
<1>5. FinishedMeansDone'
  BY DEF FinishedMeansDone
<1> QED
  BY <1>1, <1>2, <1>3, <1>4, <1>5

(* A rating closes what is completed. *)
LEMMA RateCasePreserves ==
  ASSUME IInv, NEW c \in Reports, NEW r \in Reports, RateCase(c, r)
  PROVE  IInv'
<1> USE DEF IInv, RateCase, Ratable, SetReports, Unlocked, reportVars,
   caseVars
<1>1. TypeOK'
  BY DEF TypeOK, ReportStatus
<1>2. ProposalFollowsWork'
  BY DEF ProposalFollowsWork
<1>3. ChecksHold'
  BY DEF ChecksHold
<1>4. OneActiveCase'
  BY DEF TypeOK, OneActiveCase
<1>5. FinishedMeansDone'
  BY DEF FinishedMeansDone
<1> QED
  BY <1>1, <1>2, <1>3, <1>4, <1>5

(* The guards of a transaction, as it takes the lock. *)
LEMMA BeginPreserves ==
  ASSUME IInv, NEW c \in Reports, NEW op \in Operation, Begin(c, op)
  PROVE  IInv'
<1> USE DEF IInv, Begin, WorkMayStart, ProceedMayBegin, WorkMayComplete,
   Workable, Unlocked, Unfinished, reportVars, caseVars
<1>1. TypeOK'
  BY DEF TypeOK
<1>2. ProposalFollowsWork'
  BY DEF ProposalFollowsWork
<1>3. ChecksHold'
  BY DEF ChecksHold
<1>4. OneActiveCase'
  BY DEF OneActiveCase
<1>5. FinishedMeansDone'
  BY DEF FinishedMeansDone
<1> QED
  BY <1>1, <1>2, <1>3, <1>4, <1>5

(* The start of work, and the decision it comes with. *)
LEMMA CommitStartPreserves ==
  ASSUME IInv, NEW c \in Reports, CommitStart(c)
  PROVE  IInv'
<1> USE DEF IInv, CommitStart, SetReports, NoTx, reportVars, caseVars
<1>1. TypeOK'
  BY DEF TypeOK, ReportStatus, ProposalStatus, Operation
<1>2. ProposalFollowsWork'
  BY DEF TypeOK, ProposalFollowsWork, ChecksHold
<1>3. ChecksHold'
  BY DEF TypeOK, ChecksHold
<1>4. OneActiveCase'
  BY DEF OneActiveCase
<1>5. FinishedMeansDone'
  BY DEF FinishedMeansDone
<1> QED
  BY <1>1, <1>2, <1>3, <1>4, <1>5

(* The completion of work, of its reports and of its proposal. *)
LEMMA CommitCompletePreserves ==
  ASSUME IInv, NEW c \in Reports, CommitComplete(c)
  PROVE  IInv'
<1> USE DEF IInv, CommitComplete, CompletedProposal, SetReports, NoTx,
   reportVars, caseVars
<1>1. TypeOK'
  BY DEF TypeOK, ReportStatus, ProposalStatus, Operation
<1>2. ProposalFollowsWork'
  BY DEF TypeOK, ProposalFollowsWork
<1>3. ChecksHold'
  BY DEF TypeOK, ChecksHold
<1>4. OneActiveCase'
  BY DEF OneActiveCase
<1>5. FinishedMeansDone'
  BY DEF TypeOK, FinishedMeansDone, ChecksHold
<1> QED
  BY <1>1, <1>2, <1>3, <1>4, <1>5

(* A transaction that fails leaves no trace. *)
LEMMA RollbackPreserves ==
  ASSUME IInv, NEW c \in Reports, Rollback(c)
  PROVE  IInv'
<1> USE DEF IInv, Rollback, NoTx, reportVars, caseVars
<1>1. TypeOK'
  BY DEF TypeOK, ReportStatus, ProposalStatus, Operation
<1>2. ProposalFollowsWork'
  BY DEF ProposalFollowsWork
<1>3. ChecksHold'
  BY DEF ChecksHold
<1>4. OneActiveCase'
  BY DEF OneActiveCase
<1>5. FinishedMeansDone'
  BY DEF FinishedMeansDone
<1> QED
  BY <1>1, <1>2, <1>3, <1>4, <1>5

(* A proposal is created under the lock of the case. *)
LEMMA CreateProposalPreserves ==
  ASSUME IInv, NEW c \in Reports, CreateProposal(c)
  PROVE  IInv'
<1> USE DEF IInv, CreateProposal, Workable, Unlocked, SetReports,
   Unfinished, reportVars, caseVars
<1>1. TypeOK'
  BY DEF TypeOK, ReportStatus, ProposalStatus
<1>2. ProposalFollowsWork'
  BY DEF ProposalFollowsWork
<1>3. ChecksHold'
  BY DEF ChecksHold
<1>4. OneActiveCase'
  BY DEF OneActiveCase
<1>5. FinishedMeansDone'
  BY DEF FinishedMeansDone
<1> QED
  BY <1>1, <1>2, <1>3, <1>4, <1>5

(* A revision waits for a transaction that writes the proposal. *)
LEMMA ReviseProposalPreserves ==
  ASSUME IInv, NEW c \in Reports, ReviseProposal(c)
  PROVE  IInv'
<1> USE DEF IInv, ReviseProposal, ProposalUnlocked, reportVars, caseVars
<1>1. TypeOK'
  BY DEF TypeOK, ReportStatus, ProposalStatus
<1>2. ProposalFollowsWork'
  BY DEF ProposalFollowsWork
<1>3. ChecksHold'
  BY DEF TypeOK, ChecksHold, ProposalFollowsWork
<1>4. OneActiveCase'
  BY DEF OneActiveCase
<1>5. FinishedMeansDone'
  BY DEF FinishedMeansDone
<1> QED
  BY <1>1, <1>2, <1>3, <1>4, <1>5

(* So does a decision not to proceed. *)
LEMMA DoNotProceedPreserves ==
  ASSUME IInv, NEW c \in Reports, DoNotProceed(c)
  PROVE  IInv'
<1> USE DEF IInv, DoNotProceed, ProposalUnlocked, reportVars, caseVars
<1>1. TypeOK'
  BY DEF TypeOK, ReportStatus, ProposalStatus
<1>2. ProposalFollowsWork'
  BY DEF ProposalFollowsWork
<1>3. ChecksHold'
  BY DEF ChecksHold
<1>4. OneActiveCase'
  BY DEF OneActiveCase
<1>5. FinishedMeansDone'
  BY DEF FinishedMeansDone
<1> QED
  BY <1>1, <1>2, <1>3, <1>4, <1>5

(* Closing a completed case closes what is completed. *)
LEMMA CloseExpiredPreserves ==
  ASSUME IInv, NEW c \in Reports, CloseExpired(c)
  PROVE  IInv'
<1> USE DEF IInv, CloseExpired, SetReports, Unlocked, reportVars, caseVars
<1>1. TypeOK'
  BY DEF TypeOK, ReportStatus
<1>2. ProposalFollowsWork'
  BY DEF ProposalFollowsWork
<1>3. ChecksHold'
  BY DEF ChecksHold
<1>4. OneActiveCase'
  BY DEF OneActiveCase
<1>5. FinishedMeansDone'
  BY DEF FinishedMeansDone
<1> QED
  BY <1>1, <1>2, <1>3, <1>4, <1>5

(* The steps of the system together. *)
LEMMA NextPreserves ==
  ASSUME IInv, [Next]_vars
  PROVE  IInv'
<1>1. ASSUME NEW r \in Reports,
             \/ TriageSuggested(r)
             \/ \E action \in {"decline", "info"} : ReportPage(r, action)
             \/ RequestInformation(r) \/ ReplyInformation(r)
             \/ DeclineReport(r) \/ CommitDecline(r) \/ RollbackDecline(r)
             \/ ConfirmTriage(r)
      PROVE  IInv'
  BY <1>1, TriageSuggestedPreserves, ReportPagePreserves, RequestInformationPreserves,
     ReplyInformationPreserves, DeclineReportPreserves, CommitDeclinePreserves,
     RollbackDeclinePreserves, ConfirmTriagePreserves
<1>2. ASSUME NEW c \in Reports, NEW r \in Reports, GroupReport(c, r) \/ RateCase(c, r)
      PROVE  IInv'
  BY <1>2, GroupReportPreserves, RateCasePreserves
<1>3. ASSUME NEW c \in Reports,
             \/ \E op \in Operation : Begin(c, op)
             \/ CommitStart(c) \/ CommitComplete(c) \/ Rollback(c)
             \/ CreateProposal(c) \/ ReviseProposal(c) \/ DoNotProceed(c)
             \/ CloseExpired(c)
      PROVE  IInv'
  BY <1>3, BeginPreserves, CommitStartPreserves, CommitCompletePreserves,
     RollbackPreserves, CreateProposalPreserves, ReviseProposalPreserves,
     DoNotProceedPreserves, CloseExpiredPreserves
<1>4. CASE UNCHANGED vars
  BY <1>4 DEF vars, reportVars, caseVars, IInv, TypeOK, ProposalFollowsWork,
     ChecksHold, OneActiveCase, FinishedMeansDone
<1> QED
  BY <1>1, <1>2, <1>3, <1>4 DEF Next

(* No case, no proposal and no transaction at first. *)
LEMMA InitEstablishes ==
  ASSUME Init
  PROVE  IInv
<1>1. TypeOK
  BY DEF Init, TypeOK, ReportStatus, ProposalStatus, Operation, NoTx
<1>2. ProposalFollowsWork /\ ChecksHold /\ OneActiveCase /\ FinishedMeansDone
  BY DEF Init, ProposalFollowsWork, ChecksHold, OneActiveCase, FinishedMeansDone, NoTx
<1> QED
  BY <1>1, <1>2 DEF IInv

-----------------------------------------------------------------------------
(* IInv holds in every reachable state. *)
THEOREM Invariance == Spec => []IInv
<1>1. Init => IInv
  BY InitEstablishes
<1>2. IInv /\ [Next]_vars => IInv'
  BY NextPreserves
<1> QED
  BY <1>1, <1>2, PTL DEF Spec

(* Every status stays in its column's vocabulary. *)
THEOREM TypeCorrect == Spec => []TypeOK
<1>1. IInv => TypeOK
  BY DEF IInv
<1> QED
  BY Invariance, <1>1, PTL

(* The proposal of a case and its work agree (start_case_work,             *)
(* complete_case_work, decide_proposal), for any number of reports.        *)
THEOREM ProposalFollowsWorkCorrect == Spec => []ProposalFollowsWork
<1>1. IInv => ProposalFollowsWork
  BY DEF IInv
<1> QED
  BY Invariance, <1>1, PTL

(* No report is in two active cases (confirm_triage, group_report and the  *)
(* trigger on CaseReport), for any number of reports.                      *)
THEOREM OneActiveCaseCorrect == Spec => []OneActiveCase
<1>1. IInv => OneActiveCase
  BY DEF IInv
<1> QED
  BY Invariance, <1>1, PTL

(* COMPLETED and CLOSED tell the truth (complete_case_work,                *)
(* rate_completed_case, close_expired_completed_cases).                    *)
THEOREM FinishedMeansDoneCorrect == Spec => []FinishedMeansDone
<1>1. IInv => FinishedMeansDone
  BY DEF IInv
<1> QED
  BY Invariance, <1>1, PTL

(* How a step may change the proposal of a case and the start of its work. *)
LEMMA ProposalSteps ==
  ASSUME IInv, [Next]_vars, NEW c \in Reports
  PROVE  /\ proposal[c] = "NOT_PROCEEDING" => proposal'[c] = "NOT_PROCEEDING"
         /\ ~started[c] /\ started'[c] => proposal'[c] # "PUBLISHED"
<1> USE DEF IInv
<1>1. ASSUME NEW d \in Reports, CommitStart(d)
      PROVE  /\ proposal[c] = "NOT_PROCEEDING" => proposal'[c] = "NOT_PROCEEDING"
             /\ ~started[c] /\ started'[c] => proposal'[c] # "PUBLISHED"
  BY <1>1 DEF CommitStart, ChecksHold, TypeOK
<1>2. ASSUME NEW d \in Reports,
             CommitComplete(d) \/ CreateProposal(d) \/ ReviseProposal(d) \/ DoNotProceed(d)
      PROVE  /\ UNCHANGED started
             /\ proposal[c] = "NOT_PROCEEDING" => proposal'[c] = "NOT_PROCEEDING"
  BY <1>2 DEF CommitComplete, CompletedProposal, CreateProposal, ReviseProposal,
     DoNotProceed, TypeOK, caseVars
<1>3. ASSUME NEW d \in Reports,
             \/ \E op \in Operation : Begin(d, op)
             \/ Rollback(d) \/ CloseExpired(d)
             \/ \E r \in Reports : GroupReport(d, r) \/ RateCase(d, r)
      PROVE  UNCHANGED <<started, proposal>>
  BY <1>3 DEF Begin, Rollback, CloseExpired, GroupReport, RateCase, caseVars
<1>4. ASSUME NEW r \in Reports,
             \/ TriageSuggested(r)
             \/ \E action \in {"decline", "info"} : ReportPage(r, action)
             \/ RequestInformation(r) \/ ReplyInformation(r)
             \/ DeclineReport(r) \/ CommitDecline(r) \/ RollbackDecline(r)
             \/ ConfirmTriage(r)
      PROVE  UNCHANGED <<started, proposal>>
  BY <1>4 DEF TriageSuggested, ReportPage, RequestInformation, ReplyInformation,
     DeclineReport, CommitDecline, RollbackDecline, ConfirmTriage, caseVars
<1>5. CASE UNCHANGED vars
  BY <1>5 DEF vars, caseVars
<1> QED
  BY <1>1, <1>2, <1>3, <1>4, <1>5 DEF Next

(* Work never starts under a proposal that awaits its decision, although   *)
(* start_case_work reads the proposal long before it commits, and one      *)
(* closed as not proceeding is never completed, and so never settled (the  *)
(* comment in complete_case_work).                                         *)
THEOREM DecisionsCorrect == Spec => DecisionsBind
<1>1. IInv /\ [Next]_vars =>
        [\A c \in Reports :
            /\ ~started[c] /\ started'[c] => proposal'[c] # "PUBLISHED"
            /\ proposal[c] = "NOT_PROCEEDING" => proposal'[c] = "NOT_PROCEEDING"]_vars
  BY ProposalSteps
<1> QED
  BY Invariance, <1>1, PTL DEF Spec, DecisionsBind

-----------------------------------------------------------------------------
(* Without group_report, which no page calls, a report is alone in the     *)
(* case its own triage opened.  The lock of the case keeps it active until *)
(* the transaction that read its report commits, and a report that is in   *)
(* progress is among those the transaction will write.                     *)
AloneInCase ==
    \A c \in Reports :
        /\ members[c] = IF c \in cases THEN {c} ELSE {}
        /\ active[c] => c \in cases
        /\ closing[c] \subseteq {c}
        /\ tx[c].op # "none" =>
              active[c] /\ (report[c] = "IN_PROGRESS" => c \in tx[c].reads)
        /\ report[c] = "IN_PROGRESS" =>
              c \in cases /\ active[c] /\ started[c] /\ ~completed[c]

(* Every step keeps a report in the case of its own, and moves it to       *)
(* IN_PROGRESS and out of it together with the case.                       *)
LEMMA NextPreservesAlone ==
  ASSUME AllowGrouping = FALSE, IInv, AloneInCase, [Next]_vars
  PROVE  AloneInCase'
<1> USE DEF AloneInCase, SetReports, reportVars, caseVars
<1>t. TypeOK /\ ChecksHold
  BY DEF IInv
<1>1. ASSUME NEW r \in Reports,
             \/ TriageSuggested(r)
             \/ \E action \in {"decline", "info"} : ReportPage(r, action)
             \/ RequestInformation(r) \/ ReplyInformation(r) \/ RollbackDecline(r)
      PROVE  AloneInCase'
  <2>1. CASE TriageSuggested(r)
    BY <1>t, <2>1 DEF TriageSuggested, TypeOK
  <2>2. CASE RequestInformation(r)
    BY <1>t, <2>2 DEF RequestInformation, TypeOK
  <2>3. CASE ReplyInformation(r)
    BY <1>t, <2>3 DEF ReplyInformation, TypeOK
  <2>4. CASE RollbackDecline(r)
    BY <1>t, <2>4 DEF RollbackDecline, TypeOK
  <2>5. CASE \E action \in {"decline", "info"} : ReportPage(r, action)
    BY <2>5 DEF ReportPage
  <2> QED
    BY <1>1, <2>1, <2>2, <2>3, <2>4, <2>5
<1>2. ASSUME NEW r \in Reports, DeclineReport(r)
      PROVE  AloneInCase'
  <2>1. Emptied(r) \subseteq {r}
    BY <1>t DEF Emptied, TypeOK
  <2> QED
    BY <1>t, <1>2, <2>1 DEF DeclineReport, TypeOK
<1>3. ASSUME NEW r \in Reports, CommitDecline(r)
      PROVE  AloneInCase'
  BY <1>t, <1>3 DEF CommitDecline, Unlocked, TypeOK
<1>4. ASSUME NEW r \in Reports, ConfirmTriage(r)
      PROVE  AloneInCase'
  <2>1. tx[r].op = "none" /\ report[r] # "IN_PROGRESS"
    BY <1>t, <1>4 DEF ConfirmTriage, ChecksHold
  <2>2. \A c \in Reports \ {r} : /\ members'[c] = members[c] /\ active'[c] = active[c]
                                 /\ c \in cases' <=> c \in cases
    BY <1>t, <1>4 DEF ConfirmTriage, TypeOK
  <2>3. members'[r] = {r} /\ active'[r] /\ r \in cases'
    BY <1>t, <1>4 DEF ConfirmTriage, TypeOK
  <2>4. UNCHANGED <<report, closing, tx, started, completed>>
    BY <1>4 DEF ConfirmTriage
  <2> QED
    BY <2>1, <2>2, <2>3, <2>4
<1>5. ASSUME NEW c \in Reports, NEW op \in Operation, Begin(c, op)
      PROVE  AloneInCase'
  <2>1. active[c] /\ (report[c] = "IN_PROGRESS" => c \in Unfinished(c))
    BY <1>t, <1>5 DEF Begin, WorkMayStart, ProceedMayBegin, WorkMayComplete, Workable,
       Unfinished, Terminal
  <2> QED
    BY <1>t, <1>5, <2>1 DEF Begin, TypeOK
<1>6. ASSUME NEW c \in Reports, CommitStart(c)
      PROVE  AloneInCase'
  BY <1>t, <1>6 DEF CommitStart, ChecksHold, NoTx, TypeOK
<1>7. ASSUME NEW c \in Reports, CommitComplete(c)
      PROVE  AloneInCase'
  BY <1>t, <1>7 DEF CommitComplete, ChecksHold, NoTx, TypeOK
<1>8. ASSUME NEW c \in Reports, Rollback(c)
      PROVE  AloneInCase'
  BY <1>t, <1>8 DEF Rollback, NoTx, TypeOK
<1>9. ASSUME NEW c \in Reports, CreateProposal(c) \/ ReviseProposal(c) \/ DoNotProceed(c)
      PROVE  AloneInCase'
  <2>1. CASE CreateProposal(c)
    BY <1>t, <2>1 DEF CreateProposal, TypeOK
  <2>2. CASE ReviseProposal(c) \/ DoNotProceed(c)
    BY <2>2 DEF ReviseProposal, DoNotProceed
  <2> QED
    BY <1>9, <2>1, <2>2
<1>10. ASSUME NEW c \in Reports,
              CloseExpired(c) \/ \E r \in Reports : RateCase(c, r)
       PROVE  AloneInCase'
  <2>1. CASE CloseExpired(c)
    BY <1>t, <2>1 DEF CloseExpired, Unlocked, TypeOK
  <2>2. ASSUME NEW r \in Reports, RateCase(c, r)
        PROVE  AloneInCase'
    BY <1>t, <2>2 DEF RateCase, Ratable, Unlocked, TypeOK
  <2> QED
    BY <1>10, <2>1, <2>2
<1>11. CASE UNCHANGED vars
  BY <1>11 DEF vars
<1> QED
  BY <1>1, <1>2, <1>3, <1>4, <1>5, <1>6, <1>7, <1>8, <1>9, <1>10, <1>11
     DEF Next, GroupReport

(* There is no case and no work at first. *)
LEMMA InitAlone ==
  ASSUME Init
  PROVE  AloneInCase
<1> SUFFICES ASSUME NEW c \in Reports
             PROVE  /\ members[c] = {} /\ cases = {} /\ ~active[c] /\ closing[c] = {}
                    /\ tx[c].op = "none" /\ report[c] # "IN_PROGRESS"
  BY DEF AloneInCase
<1>1. ~active[c]
  BY Zenon DEF Init
<1> QED
  BY <1>1 DEF Init, NoTx

(* AloneInCase holds in every reachable state. *)
LEMMA Alone ==
  ASSUME AllowGrouping = FALSE
  PROVE  Spec => []AloneInCase
<1>1. Init => AloneInCase
  BY InitAlone
<1>2. IInv /\ AloneInCase /\ [Next]_vars => AloneInCase'
  BY NextPreservesAlone
<1> QED
  BY Invariance, <1>1, <1>2, PTL DEF Spec

(* While nothing calls group_report, a resident is told that work is in    *)
(* progress only while it is (start_case_work, complete_case_work,         *)
(* decline_report), for any number of reports and with revisions.          *)
THEOREM WorkInProgressCorrect ==
  ASSUME AllowGrouping = FALSE
  PROVE  Spec => []WorkInProgressIsReal
<1>1. AloneInCase => WorkInProgressIsReal
  BY DEF AloneInCase, WorkInProgressIsReal
<1> QED
  BY Alone, <1>1, PTL
=============================================================================
