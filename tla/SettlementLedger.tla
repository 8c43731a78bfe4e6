-------------------------- MODULE SettlementLedger --------------------------
(***************************************************************************)
(* The money side: the versions of a spending proposal, the Proceed        *)
(* decision, the settlement, the published ledger and the maintenance fund *)
(* (lamto/finance/{proposals,settlements,publication,fund}.py and the      *)
(* proposal services of lamto/maintenance/cases.py).                       *)
(*                                                                         *)
(* Every service locks the proposal (or the fund, or the fund entry) it    *)
(* works on before it reads it, so a service is one step.  The work of a   *)
(* case is seen from the proposal only: CaseWork models it in full.        *)
(***************************************************************************)
EXTENDS Integers, Sequences, FiniteSets, Sums

CONSTANTS
    Proposals,   \* spending proposals, published or to come
    Standalone,  \* those without a case
    Amounts,     \* amounts in VND
    Documents,   \* clean evidence documents for fund sources
    MaxVersions  \* bound on the versions of a proposal

ASSUME ProposalsAssumption == IsFiniteSet(Proposals)
ASSUME StandaloneAssumption == Standalone \subseteq Proposals
ASSUME AmountsAssumption == Amounts \subseteq Nat \ {0}
ASSUME MaxVersionsAssumption == MaxVersions \in Nat

VARIABLES
    status,      \* Proposal.status
    amounts,     \* amount_vnd of each ProposalVersion, in order of number
    decidedOn,   \* number of the version the last Proceed decision was on
    workDone,    \* completed_at of the case, or of a standalone proposal
    settlement,  \* [version, amount] of the Settlement row
    entries,     \* MaintenanceFundEntry rows
    verified,    \* source keys with a FundEntryVerification
    published    \* actual_cost_vnd of the PublishedLedgerEntry

proposalVars == <<status, amounts, decidedOn, workDone>>
fundVars == <<entries, verified>>
vars == <<proposalVars, settlement, fundVars, published>>

ProposalStatus == {"DRAFT", "PUBLISHED", "IN_PROGRESS", "NOT_PROCEEDING",
                   "COMPLETED", "CLOSED"}
SourceTypes == {"OPENING_BALANCE", "INFLOW"}

(* source_key, which is unique: a source is named by its type and its      *)
(* document, the outflow by its proposal.                                  *)
SourceKeys == SourceTypes \X Documents
OutflowKey(p) == <<"OUTFLOW", p>>

Entry == [key : SourceKeys \cup {OutflowKey(p) : p \in Proposals}, amount : Int]

Unsettled == [version |-> 0, amount |-> 0]
Unpublished == 0

TypeOK ==
    /\ status \in [Proposals -> ProposalStatus]
    /\ amounts \in [Proposals -> Seq(Amounts)]
    /\ decidedOn \in [Proposals -> Nat]
    /\ workDone \in [Proposals -> BOOLEAN]
    /\ settlement \in [Proposals -> [version : Nat, amount : Nat]]
    /\ entries \subseteq Entry
    /\ verified \subseteq SourceKeys
    /\ published \in [Proposals -> Nat]

Init ==
    /\ status = [p \in Proposals |-> "DRAFT"]
    /\ amounts = [p \in Proposals |-> <<>>]
    /\ decidedOn = [p \in Proposals |-> 0]
    /\ workDone = [p \in Proposals |-> FALSE]
    /\ settlement = [p \in Proposals |-> Unsettled]
    /\ entries = {}
    /\ verified = {}
    /\ published = [p \in Proposals |-> Unpublished]

-----------------------------------------------------------------------------
(* Proposals.                                                              *)

SetStatus(p, s) == status' = [status EXCEPT ![p] = s]

(* current_version. *)
Current(p) == Len(amounts[p])

(* Mutated form: a completed proposal can still be revised. *)
RevisableUntilClosed(p) == status[p] \in {"DRAFT", "PUBLISHED", "IN_PROGRESS", "COMPLETED"}

(* The statuses publish_proposal_version accepts.  The first version is    *)
(* published in the transaction that creates the proposal, which needs a   *)
(* case whose work is not completed.                                       *)
Revisable(p) ==
    /\ status[p] \in {"DRAFT", "PUBLISHED", "IN_PROGRESS"}
    /\ status[p] = "DRAFT" => ~workDone[p]

(* publish_proposal_version: the new version is the current one and the    *)
(* proposal awaits a decision (again).                                     *)
PublishVersion(p, amount) ==
    /\ Revisable(p)
    /\ Current(p) < MaxVersions
    /\ amounts' = [amounts EXCEPT ![p] = Append(@, amount)]
    /\ SetStatus(p, "PUBLISHED")
    /\ UNCHANGED <<decidedOn, workDone, settlement, fundVars, published>>

(* The decide handler of proposal_detail: decide_proposal, and for the     *)
(* proposal of a case start_case_work, which refuses a completed case and  *)
(* takes the decision back with it.                                        *)
DecideProposal(p, proceed) ==
    /\ status[p] = "PUBLISHED"
    /\ proceed => ~workDone[p]
    /\ SetStatus(p, IF proceed THEN "IN_PROGRESS" ELSE "NOT_PROCEEDING")
    /\ decidedOn' = [decidedOn EXCEPT ![p] = IF proceed THEN Current(p) ELSE @]
    /\ UNCHANGED <<amounts, workDone, settlement, fundVars, published>>

(* complete_proposal_work. *)
CompleteProposalWork(p) ==
    /\ p \in Standalone
    /\ status[p] = "IN_PROGRESS"
    /\ SetStatus(p, "COMPLETED")
    /\ workDone' = [workDone EXCEPT ![p] = TRUE]
    /\ UNCHANGED <<amounts, decidedOn, settlement, fundVars, published>>

(* complete_case_work, as the proposal of the case sees it. *)
CompleteCaseWork(p) ==
    /\ p \notin Standalone
    /\ ~workDone[p]
    /\ workDone' = [workDone EXCEPT ![p] = TRUE]
    /\ SetStatus(p, IF status[p] = "IN_PROGRESS" THEN "COMPLETED" ELSE status[p])
    /\ UNCHANGED <<amounts, decidedOn, settlement, fundVars, published>>

(* close_expired_completed_cases, for a standalone proposal whose rating   *)
(* window has passed, settled or not.                                      *)
CloseExpired(p) ==
    /\ p \in Standalone
    /\ status[p] = "COMPLETED"
    /\ SetStatus(p, "CLOSED")
    /\ UNCHANGED <<amounts, decidedOn, workDone, settlement, fundVars, published>>

-----------------------------------------------------------------------------
(* Settlement and fund.                                                    *)

(* Insert of a fund entry unless its source_key exists (get_or_create). *)
WithEntry(key, amount) ==
    IF \E x \in entries : x.key = key THEN entries
    ELSE entries \cup {[key |-> key, amount |-> amount]}

(* Mutated form: the outflow is posted with the sign of the settlement. *)
OutflowUnsigned(p, amount) == WithEntry(OutflowKey(p), amount)

(* create_settlement_outflow. *)
SettlementOutflow(p, amount) == WithEntry(OutflowKey(p), -amount)

(* record_settlement: the settlement at the amount of the current version, *)
(* its outflow and its ledger entry, in one transaction.                   *)
RecordSettlement(p) ==
    LET amount == amounts[p][Current(p)]
    IN  /\ status[p] = "COMPLETED"
        /\ settlement[p] = Unsettled
        /\ Current(p) # 0
        /\ settlement' = [settlement EXCEPT
                              ![p] = [version |-> Current(p), amount |-> amount]]
        /\ entries' = SettlementOutflow(p, amount)
        /\ published' = [published EXCEPT
                              ![p] = IF @ = Unpublished THEN amount ELSE @]
        /\ UNCHANGED <<proposalVars, verified>>

(* record_fund_source. *)
RecordFundSource(key, amount) ==
    /\ \A x \in entries : x.key # key
    /\ entries' = WithEntry(key, amount)
    /\ UNCHANGED <<proposalVars, settlement, verified, published>>

(* Mutated form: any entry can be verified. *)
VerifiableAnyType(x) == x.key \notin verified

(* The guards of verify_fund_source. *)
Verifiable(x) == x.key[1] \in SourceTypes /\ x.key \notin verified

(* verify_fund_source. *)
VerifyFundSource(x) ==
    /\ Verifiable(x)
    /\ verified' = verified \cup {x.key}
    /\ UNCHANGED <<proposalVars, settlement, entries, published>>

(* Mutated form: sources count before they are verified. *)
CountedUnverified(x) == x.key[1] \in SourceTypes \/ published[x.key[2]] # Unpublished

(* The entries fund_balance sums: verified sources, and the postings of    *)
(* proposals with a ledger entry.                                          *)
Counted(x) ==
    IF x.key[1] \in SourceTypes THEN x.key \in verified
    ELSE published[x.key[2]] # Unpublished

(* fund_balance, with verified_only. *)
FundBalance == SumOver([x \in entries |-> x.amount], {x \in entries : Counted(x)})

Next ==
    \/ \E p \in Proposals :
          \/ \E amount \in Amounts : PublishVersion(p, amount)
          \/ \E proceed \in BOOLEAN : DecideProposal(p, proceed)
          \/ CompleteProposalWork(p) \/ CompleteCaseWork(p) \/ CloseExpired(p)
          \/ RecordSettlement(p)
    \/ \E key \in SourceKeys, amount \in Amounts : RecordFundSource(key, amount)
    \/ \E x \in entries : VerifyFundSource(x)

Spec == Init /\ [][Next]_vars

-----------------------------------------------------------------------------
(* Properties.                                                             *)

(* Money is paid for exactly what a Proceed decision was made on: through  *)
(* any sequence of revisions, decisions and completions, a settlement      *)
(* carries the version and the amount decided on, and that version stays   *)
(* the current one (record_settlement: "frozen and anchored").             *)
PaidWasDecided ==
    \A p \in Proposals :
        settlement[p] # Unsettled =>
            /\ settlement[p].version = decidedOn[p]
            /\ decidedOn[p] = Current(p)
            /\ settlement[p].amount = amounts[p][decidedOn[p]]

(* The fund is charged once for each settlement, at its amount, and        *)
(* residents see that amount: settlements, postings and ledger agree.      *)
OutflowsAreSettlements ==
    \A p \in Proposals :
        /\ published[p] = settlement[p].amount
        /\ {x \in entries : x.key = OutflowKey(p)} =
              IF settlement[p] = Unsettled THEN {}
              ELSE {[key |-> OutflowKey(p), amount |-> -settlement[p].amount]}

(* What each verified source paid in. *)
PaidIn == [key \in verified |-> (CHOOSE x \in entries : x.key = key).amount]

(* The balance residents are shown (fund_balance) is what was verifiably   *)
(* paid in less what the ledger says was spent.                            *)
BalanceMatchesLedger ==
    FundBalance = SumOver(PaidIn, verified) - SumOver(published, Proposals)
=============================================================================
