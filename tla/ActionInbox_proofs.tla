-------------------------- MODULE ActionInbox_proofs --------------------------
(***************************************************************************)
(* Proofs about ActionInbox, for any number of reports, private or not,    *)
(* without group_report (no page calls it).  The decision queue is         *)
(* modelled for proposals with one version, so they say nothing of the     *)
(* code when a proposal is revised.                                        *)
(***************************************************************************)
EXTENDS MCActionInbox, CaseWork_proofs

(* Where a report nobody was asked about stands with its case: it is       *)
(* written by every transaction that moves the case on, so that the queue  *)
(* the case is in is the queue the report is in.                           *)
InStep(r) ==
    /\ report[r] # "NEEDS_INFO"
    /\ report[r] = "PROPOSED" => r \in cases /\ proposal[r] \in {"PUBLISHED", "NOT_PROCEEDING"}
    /\ report[r] \in {"SUBMITTED", "IN_REVIEW"} /\ r \in cases =>
          proposal[r] = "none" /\ active[r] /\ ~completed[r]
    /\ tx[r].op # "none" /\ report[r] \notin Terminal => r \in tx[r].reads

(* Before triage there is nothing of a case. *)
NothingBefore == \A c \in Reports \ cases : proposal[c] = "none" /\ ~completed[c]

(* The inductive invariant, on top of those of CaseWork. *)
InboxInv ==
    /\ InboxTypeOK
    /\ openInfo \subseteq asked
    /\ \A c \in settled : proposal[c] = "COMPLETED"
    /\ NothingBefore
    /\ \A r \in Reports \ asked : InStep(r)

-----------------------------------------------------------------------------
(* What the inbox adds is a stutter or a step of CaseWork. *)
LEMMA InboxStepsAreWork ==
  ASSUME [InboxNext]_allVars
  PROVE  [Next]_vars
BY DEF InboxNext, allVars, ClaimTriageJob, SaveJob, TriageWorkerDies, Work, DeadlineNears,
       Settle, EventConfirmed, EventRetried

(* No case, no proposal and no queue at first. *)
LEMMA InboxInitEstablishes ==
  ASSUME InboxInit
  PROVE  InboxInv
<1>1. InboxTypeOK
  BY DEF InboxInit, Init, InboxTypeOK
<1>2. NothingBefore
  <2>1. \A c \in Reports : ~completed[c]
    BY Zenon DEF InboxInit, Init
  <2> QED
    BY <2>1 DEF NothingBefore, InboxInit, Init
<1>3. \A r \in Reports : InStep(r)
  BY DEF InStep, InboxInit, Init, NoTx, Terminal
<1> QED
  BY <1>1, <1>2, <1>3 DEF InboxInv, InboxInit, Init

(* A step of CaseWork adds only cases, keeps completed proposals, and      *)
(* gives a case that is not open yet nothing.                              *)
LEMMA WorkPreservesCases ==
  ASSUME IInv, Next, NothingBefore
  PROVE  /\ cases \subseteq cases'
         /\ \A c \in Reports : proposal[c] = "COMPLETED" => proposal'[c] = "COMPLETED"
         /\ NothingBefore'
<1> USE DEF NothingBefore, caseVars
<1>t. TypeOK /\ ChecksHold /\ ProposalFollowsWork
  BY DEF IInv
<1> DEFINE Goal == /\ cases \subseteq cases'
                   /\ \A c \in Reports : proposal[c] = "COMPLETED" => proposal'[c] = "COMPLETED"
                   /\ \A c \in Reports \ cases' : proposal'[c] = "none" /\ ~completed'[c]
<1>1. ASSUME UNCHANGED <<proposal, completed>>, cases \subseteq cases'
      PROVE  Goal
  BY <1>1
<1>2. ASSUME NEW c \in Reports, CommitStart(c)
      PROVE  Goal
  BY <1>t, <1>2 DEF CommitStart, ChecksHold, TypeOK
<1>3. ASSUME NEW c \in Reports, CommitComplete(c)
      PROVE  Goal
  BY <1>t, <1>3 DEF CommitComplete, CompletedProposal, ChecksHold, TypeOK
<1>4. ASSUME NEW c \in Reports, CreateProposal(c) \/ ReviseProposal(c) \/ DoNotProceed(c)
      PROVE  Goal
  BY <1>t, <1>4 DEF CreateProposal, ReviseProposal, DoNotProceed, Workable, TypeOK
<1>5. ASSUME NEW c \in Reports,
             \/ \E op \in Operation : Begin(c, op)
             \/ Rollback(c) \/ CloseExpired(c)
             \/ \E r \in Reports : GroupReport(c, r) \/ RateCase(c, r)
      PROVE  Goal
  BY <1>1, <1>5 DEF Begin, Rollback, CloseExpired, GroupReport, RateCase
<1>6. ASSUME NEW r \in Reports,
             \/ TriageSuggested(r)
             \/ \E action \in {"decline", "info"} : ReportPage(r, action)
             \/ RequestInformation(r) \/ ReplyInformation(r)
             \/ DeclineReport(r) \/ CommitDecline(r) \/ RollbackDecline(r)
             \/ ConfirmTriage(r)
      PROVE  Goal
  BY <1>1, <1>6 DEF TriageSuggested, ReportPage, RequestInformation, ReplyInformation,
     DeclineReport, CommitDecline, RollbackDecline, ConfirmTriage
<1> QED
  BY <1>2, <1>3, <1>4, <1>5, <1>6 DEF Next

(* A report that was not asked about, and is not asked about in this step, *)
(* stays in step with its case.                                            *)
LEMMA WorkKeepsInStep ==
  ASSUME AllowGrouping = FALSE, IInv, AloneInCase, NothingBefore, Next,
         NEW r \in Reports, InStep(r), r \notin openInfo, r \notin openInfo'
  PROVE  InStep(r)'
<1> USE DEF InStep, SetReports, reportVars, caseVars, Terminal
<1>t. TypeOK /\ ChecksHold
  BY DEF IInv
<1>a. members[r] = (IF r \in cases THEN {r} ELSE {}) /\ closing[r] \subseteq {r}
  BY DEF AloneInCase
<1>1. ASSUME NEW q \in Reports, TriageSuggested(q)
      PROVE  InStep(r)'
  BY <1>t, <1>1 DEF TriageSuggested, TypeOK
<1>2. ASSUME NEW q \in Reports, NEW action \in {"decline", "info"}, ReportPage(q, action)
      PROVE  InStep(r)'
  BY <1>2 DEF ReportPage
<1>3. ASSUME NEW q \in Reports, RequestInformation(q)
      PROVE  InStep(r)'
  BY <1>t, <1>3 DEF RequestInformation, TypeOK
<1>4. ASSUME NEW q \in Reports, ReplyInformation(q)
      PROVE  InStep(r)'
  BY <1>t, <1>4 DEF ReplyInformation, TypeOK
<1>5. ASSUME NEW q \in Reports, DeclineReport(q) \/ RollbackDecline(q)
      PROVE  InStep(r)'
  BY <1>5 DEF DeclineReport, RollbackDecline
<1>6. ASSUME NEW q \in Reports, CommitDecline(q)
      PROVE  InStep(r)'
  <2>1. q # r => r \notin closing[q]
    BY DEF AloneInCase
  <2> QED
    BY <1>t, <1>6, <2>1 DEF CommitDecline, TypeOK
<1>7. ASSUME NEW q \in Reports, ConfirmTriage(q)
      PROVE  InStep(r)'
  <2>1. CASE q = r
    <3>1. proposal[r] = "none" /\ ~completed[r] /\ tx[r].op = "none"
      BY <1>t, <1>7, <2>1 DEF ConfirmTriage, NothingBefore, ChecksHold
    <3>2. active'[r] /\ UNCHANGED <<report, proposal, completed, tx>>
      BY <1>t, <1>7, <2>1 DEF ConfirmTriage, TypeOK
    <3> QED
      BY <1>7, <2>1, <3>1, <3>2 DEF ConfirmTriage
  <2>2. CASE q # r
    BY <1>t, <1>7, <2>2 DEF ConfirmTriage, TypeOK
  <2> QED
    BY <2>1, <2>2
<1>8. ASSUME NEW c \in Reports, NEW op \in Operation, Begin(c, op)
      PROVE  InStep(r)'
  <2>1. c = r /\ report[r] \notin Terminal => r \in Unfinished(c)
    BY <1>a, <1>8 DEF Begin, WorkMayStart, ProceedMayBegin, WorkMayComplete, Workable,
       Unfinished
  <2> QED
    BY <1>t, <1>8, <2>1 DEF Begin, TypeOK
<1>9. ASSUME NEW c \in Reports, CommitStart(c)
      PROVE  InStep(r)'
  <2>1. c # r => r \notin tx[c].reads
    BY <1>t, <1>9 DEF AloneInCase, ChecksHold, CommitStart
  <2> QED
    BY <1>t, <1>9, <2>1 DEF CommitStart, NoTx, TypeOK
<1>10. ASSUME NEW c \in Reports, CommitComplete(c)
       PROVE  InStep(r)'
  <2>1. c # r => r \notin tx[c].reads
    BY <1>t, <1>10 DEF AloneInCase, ChecksHold, CommitComplete
  <2> QED
    BY <1>t, <1>10, <2>1 DEF CommitComplete, NoTx, TypeOK
<1>11. ASSUME NEW c \in Reports, Rollback(c)
       PROVE  InStep(r)'
  BY <1>t, <1>11 DEF Rollback, NoTx, TypeOK
<1>12. ASSUME NEW c \in Reports, CreateProposal(c)
       PROVE  InStep(r)'
  <2>1. r \in Unfinished(c) <=> (c = r /\ report[r] \notin Terminal)
    <3>1. members[c] = {c}
      BY <1>12 DEF AloneInCase, CreateProposal, Workable
    <3> QED
      BY <3>1 DEF Unfinished
  <2> QED
    BY <1>t, <1>12, <2>1 DEF CreateProposal, Workable, Unlocked, TypeOK
<1>13. ASSUME NEW c \in Reports, ReviseProposal(c)
       PROVE  InStep(r)'
  BY <1>t, <1>13 DEF ReviseProposal, TypeOK
<1>14. ASSUME NEW c \in Reports, DoNotProceed(c)
       PROVE  InStep(r)'
  BY <1>t, <1>14 DEF DoNotProceed, TypeOK
<1>15. ASSUME NEW c \in Reports, CloseExpired(c)
       PROVE  InStep(r)'
  BY <1>t, <1>15 DEF CloseExpired, TypeOK
<1>16. ASSUME NEW c \in Reports, NEW q \in Reports, RateCase(c, q)
       PROVE  InStep(r)'
  BY <1>t, <1>16 DEF RateCase, Ratable, TypeOK
<1> QED
  BY <1>1, <1>2, <1>3, <1>4, <1>5, <1>6, <1>7, <1>8, <1>9, <1>10, <1>11, <1>12, <1>13,
     <1>14, <1>15, <1>16 DEF Next, GroupReport

(* A step of the inbox keeps its invariant. *)
LEMMA InboxNextPreserves ==
  ASSUME AllowGrouping = FALSE, IInv, AloneInCase, InboxInv, [InboxNext]_allVars
  PROVE  InboxInv'
<1> USE DEF InboxInv, inboxVars
<1>t. TypeOK /\ TypeOK'
  BY InboxStepsAreWork, NextPreserves DEF IInv
<1>1. CASE Work
  <2>1. /\ cases \subseteq cases' /\ NothingBefore'
        /\ \A c \in Reports : proposal[c] = "COMPLETED" => proposal'[c] = "COMPLETED"
    BY <1>1, WorkPreservesCases DEF Work
  <2>2. openInfo' \subseteq asked' /\ asked \subseteq asked' /\ openInfo' \subseteq Reports
    BY <1>t, <1>1 DEF Work, TypeOK
  <2>3. \A r \in Reports \ asked' : InStep(r)'
    BY <1>1, <2>2, WorkKeepsInStep DEF Work
  <2>4. InboxTypeOK'
    BY <1>1, <2>1, <2>2 DEF Work, InboxTypeOK
  <2>5. \A c \in settled' : proposal'[c] = "COMPLETED"
    BY <1>t, <1>1, <2>1 DEF Work, InboxTypeOK, TypeOK
  <2> QED
    BY <2>1, <2>2, <2>3, <2>4, <2>5
<1>3. ASSUME UNCHANGED <<vars, asked>>, InboxTypeOK',
             \A c \in settled' : proposal[c] = "COMPLETED"
      PROVE  InboxInv'
  BY <1>3 DEF vars, reportVars, caseVars, NothingBefore, InStep
<1>4. ASSUME NEW r \in Reports, ClaimTriageJob(r) \/ TriageWorkerDies(r)
      PROVE  InboxInv'
  BY <1>3, <1>4 DEF ClaimTriageJob, TriageWorkerDies, InboxTypeOK, vars, caseVars
<1>5. ASSUME NEW r \in Reports, NEW o \in {"SUCCEEDED", "NEEDS_MANUAL"}, SaveJob(r, o)
      PROVE  InboxInv'
  BY <1>3, <1>5 DEF SaveJob, InboxTypeOK, vars, caseVars
<1>6. ASSUME NEW c \in Reports, Settle(c)
      PROVE  InboxInv'
  <2>1. c \in cases
    BY <1>6 DEF Settle, NothingBefore
  <2> QED
    BY <1>3, <1>6, <2>1 DEF Settle, InboxTypeOK, vars, caseVars
<1>7. ASSUME NEW c \in Reports, NEW e \in EventsOf(c), EventConfirmed(e) \/ EventRetried(e)
      PROVE  InboxInv'
  <2>1. e \in {"version", "settlement"} \X Reports
    BY DEF EventsOf
  <2> QED
    BY <1>3, <1>7, <2>1 DEF EventConfirmed, EventRetried, InboxTypeOK, vars, caseVars
<1>9. ASSUME NEW c \in Reports, DeadlineNears(c)
      PROVE  InboxInv'
  BY <1>3, <1>9 DEF DeadlineNears, InboxTypeOK, vars, caseVars
<1>8. CASE UNCHANGED allVars
  BY <1>3, <1>8 DEF allVars, InboxTypeOK, vars, caseVars
<1> QED
  BY <1>1, <1>4, <1>5, <1>6, <1>7, <1>8, <1>9 DEF InboxNext

-----------------------------------------------------------------------------
(* The queues are right whenever the invariants hold.                      *)

(* A case has one member. *)
LEMMA CasesAreAlone ==
  ASSUME IInv, AloneInCase
  PROVE  \A c \in cases : members[c] = {c}
<1>1. cases \subseteq Reports
  BY DEF IInv, TypeOK
<1> QED
  BY <1>1 DEF AloneInCase

(* The queue a report is in, by its status. *)
LEMMA TurnIsListed ==
  ASSUME IInv, AloneInCase, InboxInv
  PROVE  PublicTurnListed
<1> SUFFICES ASSUME NEW r \in Reports \ (PrivateReports \cup asked), ManagementTurn(r)
             PROVE  \/ Listed(r)
                    \/ \E c \in cases : r \in members[c] /\ proposal[c] = "NOT_PROCEEDING"
  BY DEF PublicTurnListed
<1>1. InStep(r) /\ members[r] = (IF r \in cases THEN {r} ELSE {})
  BY DEF InboxInv, AloneInCase
<1>2. CASE report[r] = "IN_PROGRESS"
  BY <1>1, <1>2 DEF AloneInCase, Listed, CaseQueues, InProgressCases, OpenCases
<1>3. CASE report[r] = "PROPOSED"
  BY <1>1, <1>3 DEF InStep, Listed, CaseQueues, ProposalDecision
<1>4. CASE report[r] \in {"SUBMITTED", "IN_REVIEW"} /\ r \in cases
  <2>1. r \in ProposalCreate
    BY <1>1, <1>4 DEF InStep, ProposalCreate, SpendingProposalCases, OpenCases
  <2> QED
    BY <1>1, <1>4, <2>1 DEF Listed, CaseQueues
<1>5. CASE report[r] = "IN_REVIEW" /\ r \notin cases
  BY <1>5 DEF Listed, ReviewQueue
<1>6. CASE report[r] = "SUBMITTED" /\ r \notin cases
  <2>1. ~InActiveCase(r)
    <3>1. \A c \in cases : members[c] = {c}
      BY CasesAreAlone
    <3> QED
      BY <1>6, <3>1 DEF InActiveCase
  <2>2. job[r] \in {"SUCCEEDED", "NEEDS_MANUAL"}
    BY <1>6 DEF ManagementTurn, WithTriage, Saved, InboxInv, InboxTypeOK
  <2> QED
    BY <1>6, <2>1, <2>2 DEF Listed, ManualTriage
<1> QED
  BY <1>2, <1>3, <1>4, <1>5, <1>6 DEF ManagementTurn

(* The chain shows what happened: a proposal that is settled was completed *)
(* with its case.                                                          *)
LEMMA ChainTrue ==
  ASSUME IInv, InboxInv
  PROVE  ChainIsTrue
<1> SUFFICES ASSUME NEW c \in cases
             PROVE  /\ ShownComplete(c, "settlement") => c \in settled /\ completed[c]
                    /\ ShownComplete(c, "work") => completed[c] \/ proposal[c] # "none"
  BY DEF ChainIsTrue
<1>1. c \in Reports /\ (c \in settled => proposal[c] = "COMPLETED" /\ completed[c])
  BY DEF IInv, TypeOK, InboxInv, ProposalFollowsWork
<1>2. ShownComplete(c, "settlement") => CurrentStage(c) \in {"publication", "none"}
  BY DEF ShownComplete, StageOrder
<1>3. CurrentStage(c) \in {"publication", "none"} => c \in settled
  BY DEF CurrentStage
<1>4. CurrentStage(c) = "work" => ~ShownComplete(c, "work")
  BY DEF ShownComplete, StageOrder
<1>5. CurrentStage(c) # "work" => completed[c] \/ proposal[c] # "none"
  BY <1>1 DEF CurrentStage
<1> QED
  BY <1>1, <1>2, <1>3, <1>4, <1>5

(* All of InboxHolds. *)
LEMMA InboxInvImplies ==
  ASSUME IInv, AloneInCase, InboxInv
  PROVE  InboxHolds
<1>1. InProgressIsWorkable
  <2> SUFFICES ASSUME NEW c \in InProgressCases
               PROVE  started[c]
    BY DEF InProgressIsWorkable
  <2>1. c \in cases /\ c \in Reports /\ members[c] = {c}
    BY CasesAreAlone DEF InProgressCases, OpenCases, IInv, TypeOK
  <2>2. report[c] = "IN_PROGRESS"
    BY <2>1 DEF InProgressCases
  <2> QED
    BY <2>1, <2>2 DEF AloneInCase
<1>2. UnpaidListed
  <2> SUFFICES ASSUME NEW c \in cases, proposal[c] = "COMPLETED", c \notin settled
               PROVE  <<"settlement", c>> \in Tile("do_now")
    BY DEF UnpaidListed
  <2>1. <<"settlement", c>> \in {"settlement"} \X SettlementQueue
    BY DEF SettlementQueue
  <2>2. <<"settlement", c>> \in Items
    BY <2>1 DEF Items
  <2> QED
    BY <2>2 DEF Tile, Group
<1> QED
  BY <1>1, <1>2, TurnIsListed, ChainTrue DEF InboxHolds, InboxInv

-----------------------------------------------------------------------------
(* The pages show management what waits for it, whatever the handlers of   *)
(* the cases, the triage worker, the outbox and the clock do in between    *)
(* (action_items_for, accountability_chain), for any number of reports.    *)
THEOREM InboxCorrect ==
  ASSUME AllowGrouping = FALSE
  PROVE  InboxSpec => []InboxHolds
<1>1. InboxInit => IInv /\ AloneInCase /\ InboxInv
  <2>1. InboxInit => Init
    BY DEF InboxInit
  <2> QED
    BY <2>1, InitEstablishes, InitAlone, InboxInitEstablishes
<1>2. IInv /\ AloneInCase /\ InboxInv /\ [InboxNext]_allVars
        => (IInv /\ AloneInCase /\ InboxInv)'
  BY InboxStepsAreWork, NextPreserves, NextPreservesAlone, InboxNextPreserves
<1>3. IInv /\ AloneInCase /\ InboxInv => InboxHolds
  BY InboxInvImplies
<1> QED
  BY <1>1, <1>2, <1>3, PTL DEF InboxSpec

(* The same beside the handlers of CaseWork alone, as the instance runs    *)
(* them: the inbox tells the truth wherever its queues run.                *)
THEOREM QueuesCorrect ==
  ASSUME AllowGrouping = FALSE
  PROVE  PagesSpec => []QueuesHold
<1> DEFINE J == IInv /\ AloneInCase /\ (part = "queues" => InboxInv)
<1>1. PagesInit => J
  <2>1. PagesInit => Init /\ InboxInit
    BY DEF PagesInit, InboxInit
  <2> QED
    BY <2>1, InitEstablishes, InitAlone, InboxInitEstablishes
<1>2. J /\ [PagesNext]_<<allVars, part>> => J'
  <2> SUFFICES ASSUME J, [PagesNext]_<<allVars, part>>
               PROVE  J'
    OBVIOUS
  <2>1. [Next]_vars
    BY InboxStepsAreWork DEF PagesNext, allVars
  <2>2. part = "queues" => [InboxNext]_allVars
    BY DEF PagesNext
  <2>3. part' = part
    BY DEF PagesNext
  <2> QED
    BY <2>1, <2>2, <2>3, NextPreserves, NextPreservesAlone, InboxNextPreserves
<1>3. J => QueuesHold
  BY InboxInvImplies DEF QueuesHold
<1> QED
  BY <1>1, <1>2, <1>3, PTL DEF PagesSpec
=============================================================================
