---------------------------- MODULE Money_proofs -----------------------------
(***************************************************************************)
(* Proofs about the money side: SettlementLedger, PriceComparison and      *)
(* FundReporting, for any proposals, amounts, documents, forms, reference  *)
(* bands, answers of the provider and calendar.                            *)
(***************************************************************************)
EXTENDS MCMoney, Sums_proofs

-----------------------------------------------------------------------------
(* Proposals, settlements and the ledger.                                  *)

(* From the Proceed decision on, the version decided on is the current     *)
(* one: publish_proposal_version takes the proposal back to PUBLISHED, and *)
(* refuses once the work is completed.                                     *)
DecisionIsCurrent ==
    \A p \in Proposals :
        /\ status[p] # "DRAFT" => Current(p) # 0
        /\ status[p] \in {"IN_PROGRESS", "COMPLETED", "CLOSED"} =>
              decidedOn[p] = Current(p)

(* A settlement belongs to completed work and to the current version. *)
SettlementIsCurrent ==
    \A p \in Proposals :
        settlement[p] # Unsettled =>
            /\ status[p] \in {"COMPLETED", "CLOSED"}
            /\ settlement[p].version = Current(p)
            /\ settlement[p].amount = amounts[p][Current(p)]

(* The inductive invariant. *)
IInv ==
    /\ TypeOK
    /\ DecisionIsCurrent
    /\ SettlementIsCurrent
    /\ OutflowsAreSettlements

-----------------------------------------------------------------------------
(* The amount of the current version is a positive amount. *)
LEMMA CurrentAmount ==
  ASSUME TypeOK, NEW p \in Proposals, Current(p) # 0
  PROVE  amounts[p][Current(p)] \in Amounts /\ amounts[p][Current(p)] \in Nat \ {0}
<1>1. amounts[p] \in Seq(Amounts)
  BY DEF TypeOK
<1>2. Current(p) \in 1 .. Len(amounts[p])
  BY <1>1 DEF Current
<1>3. amounts[p][Current(p)] \in Amounts
  BY <1>1, <1>2
<1> QED
  BY <1>3, AmountsAssumption

(* The outflow of a proposal and the source recorded from a document never *)
(* share a key.                                                            *)
LEMMA KeysDiffer ==
  ASSUME NEW p \in Proposals, NEW q \in Proposals, NEW key \in SourceKeys
  PROVE  /\ OutflowKey(p) # key
         /\ OutflowKey(p) = OutflowKey(q) => p = q
         /\ OutflowKey(p)[1] \notin SourceTypes
BY DEF OutflowKey, SourceKeys, SourceTypes

(* A fund source leaves the postings of settlements alone. *)
LEMMA RecordFundSourcePreserves ==
  ASSUME IInv, NEW key \in SourceKeys, NEW amount \in Amounts,
         RecordFundSource(key, amount)
  PROVE  IInv'
<1> USE DEF IInv, RecordFundSource, proposalVars
<1>1. TypeOK'
  BY AmountsAssumption DEF TypeOK, WithEntry, Entry
<1>2. DecisionIsCurrent' /\ SettlementIsCurrent'
  BY DEF DecisionIsCurrent, SettlementIsCurrent, Current
<1>3. OutflowsAreSettlements'
  BY KeysDiffer DEF OutflowsAreSettlements, WithEntry
<1> QED
  BY <1>1, <1>2, <1>3

(* A verification changes no posting, and concerns sources only. *)
LEMMA VerifyFundSourcePreserves ==
  ASSUME IInv, NEW x \in entries, VerifyFundSource(x)
  PROVE  IInv'
<1> USE DEF IInv, VerifyFundSource, proposalVars
<1>1. x.key \in SourceKeys
  BY DEF TypeOK, Entry, Verifiable, SourceTypes, OutflowKey
<1>2. TypeOK'
  BY <1>1 DEF TypeOK
<1>3. DecisionIsCurrent' /\ SettlementIsCurrent'
  BY DEF DecisionIsCurrent, SettlementIsCurrent, Current
<1>4. OutflowsAreSettlements'
  BY DEF OutflowsAreSettlements
<1> QED
  BY <1>2, <1>3, <1>4

(* A version is published only while nothing is settled. *)
LEMMA PublishVersionPreserves ==
  ASSUME IInv, NEW p \in Proposals, NEW amount \in Amounts, PublishVersion(p, amount)
  PROVE  IInv'
<1> USE DEF IInv, PublishVersion, SetStatus, Revisable, fundVars
<1>1. TypeOK'
  BY DEF TypeOK, ProposalStatus
<1>2. DecisionIsCurrent'
  BY DEF TypeOK, DecisionIsCurrent, Current
<1>3. SettlementIsCurrent'
  BY DEF TypeOK, SettlementIsCurrent, Current
<1>4. OutflowsAreSettlements'
  BY DEF OutflowsAreSettlements
<1> QED
  BY <1>1, <1>2, <1>3, <1>4

(* A decision is made on the current version. *)
LEMMA DecideProposalPreserves ==
  ASSUME IInv, NEW p \in Proposals, NEW proceed \in BOOLEAN, DecideProposal(p, proceed)
  PROVE  IInv'
<1> USE DEF IInv, DecideProposal, SetStatus, fundVars
<1>1. TypeOK'
  BY DEF TypeOK, ProposalStatus, Current
<1>2. DecisionIsCurrent'
  BY DEF TypeOK, DecisionIsCurrent, Current
<1>3. SettlementIsCurrent'
  BY DEF TypeOK, SettlementIsCurrent, Current
<1>4. OutflowsAreSettlements'
  BY DEF OutflowsAreSettlements
<1> QED
  BY <1>1, <1>2, <1>3, <1>4

(* Completion takes a proposal from IN_PROGRESS to COMPLETED and no        *)
(* further, and closing keeps a settlement as it is.                       *)
LEMMA WorkPreserves ==
  ASSUME IInv, NEW p \in Proposals,
         CompleteProposalWork(p) \/ CompleteCaseWork(p) \/ CloseExpired(p)
  PROVE  IInv'
<1> USE DEF IInv, CompleteProposalWork, CompleteCaseWork, CloseExpired, SetStatus, fundVars
<1>1. TypeOK'
  BY DEF TypeOK, ProposalStatus
<1>2. DecisionIsCurrent'
  BY DEF TypeOK, DecisionIsCurrent, Current
<1>3. SettlementIsCurrent'
  BY DEF TypeOK, SettlementIsCurrent, Current
<1>4. OutflowsAreSettlements'
  BY DEF OutflowsAreSettlements
<1> QED
  BY <1>1, <1>2, <1>3, <1>4

(* A settlement posts its outflow and its ledger entry, once. *)
LEMMA RecordSettlementPreserves ==
  ASSUME IInv, NEW p \in Proposals, RecordSettlement(p)
  PROVE  IInv'
<1> DEFINE amount == amounts[p][Current(p)]
<1>1. amount \in Amounts /\ amount \in Nat \ {0} /\ Current(p) \in Nat
  BY CurrentAmount DEF IInv, RecordSettlement, TypeOK, Current
<1>2. published[p] = Unpublished
  BY DEF IInv, RecordSettlement, OutflowsAreSettlements, Unsettled, Unpublished
<1>3. \A x \in entries : x.key # OutflowKey(p)
  BY DEF IInv, RecordSettlement, OutflowsAreSettlements
<1>4. entries' = entries \cup {[key |-> OutflowKey(p), amount |-> -amount]}
  BY <1>3 DEF RecordSettlement, SettlementOutflow, WithEntry
<1>5. /\ published' = [published EXCEPT ![p] = amount]
      /\ settlement' = [settlement EXCEPT ![p] = [version |-> Current(p), amount |-> amount]]
  BY <1>2 DEF RecordSettlement
<1>6. UNCHANGED <<status, amounts, decidedOn, workDone, verified>>
  BY DEF RecordSettlement, proposalVars
<1> HIDE DEF amount
<1>7. TypeOK'
  BY <1>1, <1>4, <1>5, <1>6 DEF IInv, TypeOK, Entry
<1>8. DecisionIsCurrent'
  BY <1>6 DEF IInv, DecisionIsCurrent, Current
<1>9. SettlementIsCurrent'
  BY <1>1, <1>5, <1>6 DEF IInv, SettlementIsCurrent, TypeOK, Current, RecordSettlement, amount
<1>10. OutflowsAreSettlements'
  <2> SUFFICES ASSUME NEW q \in Proposals
      PROVE  /\ published'[q] = settlement'[q].amount
             /\ {x \in entries' : x.key = OutflowKey(q)} =
                   IF settlement'[q] = Unsettled THEN {}
                   ELSE {[key |-> OutflowKey(q), amount |-> -settlement'[q].amount]}
    BY DEF OutflowsAreSettlements
  <2>1. CASE q = p
    <3>1. settlement'[p] = [version |-> Current(p), amount |-> amount] /\ published'[p] = amount
      BY <1>5 DEF IInv, TypeOK
    <3>2. settlement'[p] # Unsettled
      BY <1>1, <3>1 DEF Unsettled
    <3>3. {x \in entries' : x.key = OutflowKey(p)} = {[key |-> OutflowKey(p), amount |-> -amount]}
      BY <1>3, <1>4
    <3> QED
      BY <2>1, <3>1, <3>2, <3>3
  <2>2. CASE q # p
    <3>1. settlement'[q] = settlement[q] /\ published'[q] = published[q]
      BY <1>5, <2>2 DEF IInv, TypeOK
    <3>2. {x \in entries' : x.key = OutflowKey(q)} = {x \in entries : x.key = OutflowKey(q)}
      BY <1>4, <2>2 DEF OutflowKey
    <3> QED
      BY <3>1, <3>2 DEF IInv, OutflowsAreSettlements
  <2> QED
    BY <2>1, <2>2
<1> QED
  BY <1>7, <1>8, <1>9, <1>10 DEF IInv

(* The steps of the system together. *)
LEMMA NextPreserves ==
  ASSUME IInv, [Next]_vars
  PROVE  IInv'
<1>1. ASSUME NEW p \in Proposals, NEW amount \in Amounts, PublishVersion(p, amount)
      PROVE  IInv'
  BY <1>1, PublishVersionPreserves
<1>2. ASSUME NEW p \in Proposals, NEW proceed \in BOOLEAN, DecideProposal(p, proceed)
      PROVE  IInv'
  BY <1>2, DecideProposalPreserves
<1>3. ASSUME NEW p \in Proposals,
             CompleteProposalWork(p) \/ CompleteCaseWork(p) \/ CloseExpired(p)
      PROVE  IInv'
  BY <1>3, WorkPreserves
<1>4. ASSUME NEW p \in Proposals, RecordSettlement(p)
      PROVE  IInv'
  BY <1>4, RecordSettlementPreserves
<1>5. ASSUME NEW key \in SourceKeys, NEW amount \in Amounts, RecordFundSource(key, amount)
      PROVE  IInv'
  BY <1>5, RecordFundSourcePreserves
<1>6. ASSUME NEW x \in entries, VerifyFundSource(x)
      PROVE  IInv'
  BY <1>6, VerifyFundSourcePreserves
<1>7. CASE UNCHANGED vars
  BY <1>7 DEF vars, proposalVars, fundVars, IInv, TypeOK, DecisionIsCurrent,
     SettlementIsCurrent, OutflowsAreSettlements, Current
<1> QED
  BY <1>1, <1>2, <1>3, <1>4, <1>5, <1>6, <1>7 DEF Next

(* Nothing is published, settled or posted at first. *)
LEMMA InitEstablishes ==
  ASSUME Init
  PROVE  IInv
<1>1. TypeOK
  BY DEF Init, TypeOK, ProposalStatus, Unsettled, Unpublished
<1>2. DecisionIsCurrent /\ SettlementIsCurrent
  BY DEF Init, DecisionIsCurrent, SettlementIsCurrent
<1>3. OutflowsAreSettlements
  BY DEF Init, OutflowsAreSettlements, Unsettled, Unpublished
<1> QED
  BY <1>1, <1>2, <1>3 DEF IInv

-----------------------------------------------------------------------------
(* IInv holds in every reachable state. *)
THEOREM Invariance == Spec => []IInv
<1>1. Init => IInv
  BY InitEstablishes
<1>2. IInv /\ [Next]_vars => IInv'
  BY NextPreserves
<1> QED
  BY <1>1, <1>2, PTL DEF Spec

(* Every variable keeps its type; in particular only sources are verified. *)
THEOREM TypeCorrect == Spec => []TypeOK
<1>1. IInv => TypeOK
  BY DEF IInv
<1> QED
  BY Invariance, <1>1, PTL

(* A settlement carries the version and the amount of the last Proceed     *)
(* decision, however often the proposal was revised (record_settlement).   *)
THEOREM PaidWasDecidedCorrect == Spec => []PaidWasDecided
<1>1. IInv => PaidWasDecided
  BY DEF IInv, DecisionIsCurrent, SettlementIsCurrent, PaidWasDecided
<1> QED
  BY Invariance, <1>1, PTL

(* Settlements, fund postings and the published ledger agree one to one    *)
(* (create_settlement_outflow, publish_settlement_entry).                  *)
THEOREM OutflowsCorrect == Spec => []OutflowsAreSettlements
<1>1. IInv => OutflowsAreSettlements
  BY DEF IInv
<1> QED
  BY Invariance, <1>1, PTL

-----------------------------------------------------------------------------
(* The balance.                                                            *)

(* fund_balance sums a finite set of rows, no two under one source_key,    *)
(* and a verification has a row to verify.                                 *)
PostingsAreRows ==
    /\ IsFiniteSet(entries) /\ IsFiniteSet(verified)
    /\ \A x, y \in entries : x.key = y.key => x = y
    /\ \A key \in verified : \E x \in entries : x.key = key

BalanceInv == IInv /\ PostingsAreRows /\ BalanceMatchesLedger

CountedRows == {x \in entries : Counted(x)}
AmountOf == [x \in entries |-> x.amount]

(* A key names its row. *)
LEMMA RowOfKey ==
  ASSUME NEW E, \A x, y \in E : x.key = y.key => x = y, NEW r \in E
  PROVE  (CHOOSE x \in E : x.key = r.key) = r
BY Zenon

(* What the sums add up are integers. *)
LEMMA SumsTyped ==
  ASSUME TypeOK, PostingsAreRows
  PROVE  /\ FundBalance = SumOver(AmountOf, CountedRows)
         /\ IsFiniteSet(CountedRows) /\ \A x \in entries : AmountOf[x] = x.amount /\ x.amount \in Int
         /\ \A key \in verified : PaidIn[key] \in Int
         /\ \A p \in Proposals : published[p] \in Int
         /\ SumOver(AmountOf, CountedRows) \in Int
         /\ SumOver(PaidIn, verified) \in Int
         /\ SumOver(published, Proposals) \in Int
<1>1. IsFiniteSet(CountedRows)
  BY FS_Subset DEF PostingsAreRows, CountedRows
<1>2. \A x \in entries : AmountOf[x] = x.amount /\ x.amount \in Int
  BY DEF TypeOK, Entry, AmountOf
<1>3. ASSUME NEW key \in verified PROVE PaidIn[key] \in Int
  <2>1. PICK x \in entries : x.key = key
    BY DEF PostingsAreRows
  <2>2. (CHOOSE y \in entries : y.key = x.key) = x
    BY RowOfKey DEF PostingsAreRows
  <2>3. PaidIn[key] = x.amount
    BY <2>1, <2>2 DEF PaidIn
  <2> QED
    BY <1>2, <2>3
<1>4. \A p \in Proposals : published[p] \in Int
  BY DEF TypeOK
<1>5. FundBalance = SumOver(AmountOf, CountedRows)
  BY Zenon DEF FundBalance, AmountOf, CountedRows
<1>6. SumOver(AmountOf, CountedRows) \in Int
  BY <1>1, <1>2, SumInt DEF CountedRows
<1>7. SumOver(PaidIn, verified) \in Int
  BY <1>3, SumInt DEF PostingsAreRows
<1>8. SumOver(published, Proposals) \in Int
  BY <1>4, SumInt, ProposalsAssumption
<1> QED
  BY <1>1, <1>2, <1>3, <1>4, <1>5, <1>6, <1>7, <1>8

(* The amounts a later sum adds for the rows that were there before. *)
LEMMA RowsKeepAmounts ==
  ASSUME TypeOK, PostingsAreRows, entries \subseteq entries'
  PROVE  SumOver(AmountOf', CountedRows) = SumOver(AmountOf, CountedRows)
<1>1. \A x \in CountedRows : AmountOf[x] \in Int /\ AmountOf'[x] = AmountOf[x]
  BY SumsTyped DEF AmountOf, CountedRows
<1> QED
  BY <1>1, SumsTyped, SumSame

(* What a verified source paid in stays. *)
LEMMA PaidInStays ==
  ASSUME PostingsAreRows, PostingsAreRows', entries \subseteq entries', verified \subseteq verified',
         NEW key \in verified
  PROVE  PaidIn'[key] = PaidIn[key]
<1>1. PICK x \in entries : x.key = key
  BY DEF PostingsAreRows
<1>2. (CHOOSE y \in entries : y.key = x.key) = x
  BY RowOfKey DEF PostingsAreRows
<1>3. (CHOOSE y \in entries' : y.key = x.key) = x
  BY RowOfKey DEF PostingsAreRows
<1> QED
  BY <1>1, <1>2, <1>3 DEF PaidIn

(* Recording a source leaves the balance alone: it waits to be verified. *)
LEMMA RecordFundSourceBalance ==
  ASSUME BalanceInv, NEW key \in SourceKeys, NEW amount \in Amounts,
         RecordFundSource(key, amount)
  PROVE  PostingsAreRows' /\ BalanceMatchesLedger'
<1> USE DEF BalanceInv, IInv
<1> DEFINE e == [key |-> key, amount |-> amount]
<1>1. /\ \A x \in entries : x.key # key
      /\ entries' = entries \cup {e}
      /\ verified' = verified /\ published' = published
  BY DEF RecordFundSource, WithEntry
<1>2. e.key = key /\ key \notin verified /\ key[1] \in SourceTypes
  BY <1>1 DEF PostingsAreRows, SourceKeys
<1> HIDE DEF e
<1>3. IsFiniteSet(entries')
  BY <1>1, FS_AddElement DEF PostingsAreRows
<1>4. PostingsAreRows'
  BY <1>1, <1>2, <1>3 DEF PostingsAreRows
<1>5. CountedRows' = CountedRows
  BY <1>1, <1>2 DEF CountedRows, Counted
<1>6. FundBalance' = SumOver(AmountOf', CountedRows')
  BY Zenon DEF FundBalance, AmountOf, CountedRows
<1>7. FundBalance' = FundBalance
  BY <1>1, <1>5, <1>6, RowsKeepAmounts, SumsTyped
<1>8. \A k \in verified : PaidIn'[k] = PaidIn[k]
  BY <1>1, <1>4, PaidInStays
<1>9. SumOver(PaidIn', verified) = SumOver(PaidIn, verified)
  BY <1>8, SumSame, SumsTyped DEF PostingsAreRows
<1> QED
  BY <1>1, <1>4, <1>7, <1>9 DEF BalanceMatchesLedger

(* A verification adds the source to both sides. *)
LEMMA VerifyFundSourceBalance ==
  ASSUME BalanceInv, NEW x \in entries, VerifyFundSource(x)
  PROVE  PostingsAreRows' /\ BalanceMatchesLedger'
<1> USE DEF BalanceInv, IInv
<1>1. /\ x.key[1] \in SourceTypes /\ x.key \notin verified
      /\ verified' = verified \cup {x.key} /\ entries' = entries /\ published' = published
  BY DEF VerifyFundSource, Verifiable
<1>2. IsFiniteSet(verified')
  BY <1>1, FS_AddElement DEF PostingsAreRows
<1>3. PostingsAreRows'
  BY <1>1, <1>2 DEF PostingsAreRows
<1>4. CountedRows' = CountedRows \cup {x} /\ x \notin CountedRows
  BY <1>1 DEF CountedRows, Counted, PostingsAreRows
<1>5. FundBalance' = SumOver(AmountOf, CountedRows')
  <2>1. FundBalance' = SumOver(AmountOf', CountedRows')
    BY Zenon DEF FundBalance, AmountOf, CountedRows
  <2>2. AmountOf' = AmountOf
    BY <1>1 DEF AmountOf
  <2> QED
    BY <2>1, <2>2
<1>6. SumOver(AmountOf, CountedRows \cup {x}) = SumOver(AmountOf, CountedRows) + AmountOf[x]
  <2>1. \A y \in CountedRows \cup {x} : AmountOf[y] \in Int
    BY SumsTyped DEF CountedRows
  <2> QED
    BY <1>4, <2>1, SumAdd, SumsTyped
<1>7. FundBalance' = FundBalance + x.amount
  BY <1>4, <1>5, <1>6, SumsTyped
<1>8. \A k \in verified : PaidIn'[k] = PaidIn[k]
  BY <1>1, <1>3, PaidInStays
<1>9. PaidIn'[x.key] = x.amount
  <2>1. (CHOOSE y \in entries : y.key = x.key) = x
    BY RowOfKey DEF PostingsAreRows
  <2> QED
    BY <1>1, <2>1 DEF PaidIn
<1>10. SumOver(PaidIn', verified') = SumOver(PaidIn', verified) + x.amount
  <2>1. \A k \in verified \cup {x.key} : PaidIn'[k] \in Int
    BY <1>8, <1>9, SumsTyped
  <2>2. SumOver(PaidIn', verified \cup {x.key}) = SumOver(PaidIn', verified) + PaidIn'[x.key]
    BY <1>1, <2>1, SumAdd DEF PostingsAreRows
  <2> QED
    BY <1>1, <1>9, <2>2
<1>11. SumOver(PaidIn', verified) = SumOver(PaidIn, verified)
  BY <1>8, SumSame, SumsTyped DEF PostingsAreRows
<1> QED
  BY <1>1, <1>3, <1>7, <1>10, <1>11, SumsTyped DEF BalanceMatchesLedger

(* A settlement takes its amount from the fund and adds it to the ledger. *)
LEMMA RecordSettlementBalance ==
  ASSUME BalanceInv, NEW p \in Proposals, RecordSettlement(p)
  PROVE  PostingsAreRows' /\ BalanceMatchesLedger'
<1> USE DEF BalanceInv, IInv
<1> DEFINE amount == amounts[p][Current(p)]
           e == [key |-> OutflowKey(p), amount |-> -amount]
<1>1. amount \in Nat \ {0}
  BY CurrentAmount DEF RecordSettlement
<1>2. published[p] = Unpublished
  BY DEF RecordSettlement, OutflowsAreSettlements, Unsettled, Unpublished
<1>3. \A y \in entries : y.key # OutflowKey(p)
  BY DEF RecordSettlement, OutflowsAreSettlements
<1>4. entries' = entries \cup {e} /\ verified' = verified
  BY <1>3 DEF RecordSettlement, SettlementOutflow, WithEntry
<1>5. published' = [published EXCEPT ![p] = amount]
  BY <1>2 DEF RecordSettlement
<1>6. e.key = OutflowKey(p) /\ e.amount = -amount
  OBVIOUS
<1> HIDE DEF e, amount
<1>7. IsFiniteSet(entries')
  BY <1>4, FS_AddElement DEF PostingsAreRows
<1>8. PostingsAreRows'
  BY <1>3, <1>4, <1>6, <1>7 DEF PostingsAreRows
<1>9. CountedRows' = CountedRows \cup {e} /\ e \notin CountedRows
  <2>1. e.key[1] = "OUTFLOW" /\ e.key[2] = p
    BY <1>6 DEF OutflowKey
  <2>2. published'[p] # Unpublished
    BY <1>1, <1>5 DEF TypeOK, Unpublished
  <2>3. e.key[1] \notin SourceTypes /\ published'[e.key[2]] # Unpublished
    BY <2>1, <2>2 DEF SourceTypes
  <2>4. ASSUME NEW y \in entries PROVE Counted(y)' <=> Counted(y)
    <3>1. CASE y.key[1] \in SourceTypes
      BY <1>4, <3>1 DEF Counted
    <3>2. CASE y.key[1] \notin SourceTypes
      <4>1. PICK q \in Proposals : y.key = OutflowKey(q)
        BY <3>2 DEF TypeOK, Entry, SourceKeys
      <4>2. q # p
        BY <1>3, <4>1
      <4>3. y.key[2] = q
        BY <4>1 DEF OutflowKey
      <4> QED
        BY <1>5, <3>2, <4>2, <4>3 DEF Counted, TypeOK
    <3> QED
      BY <3>1, <3>2
  <2>5. CountedRows' =
          {y \in entries' : IF y.key[1] \in SourceTypes THEN y.key \in verified'
                            ELSE published'[y.key[2]] # Unpublished}
    BY DEF CountedRows, Counted
  <2>6. \A y \in entries' : y \in CountedRows' <=> y = e \/ (y \in entries /\ Counted(y))
    BY <1>4, <2>3, <2>4, <2>5 DEF Counted
  <2>7. CountedRows' \subseteq entries'
    BY <2>5
  <2> QED
    BY <1>3, <1>4, <1>6, <2>6, <2>7 DEF CountedRows
<1>10. FundBalance' = SumOver(AmountOf', CountedRows')
  BY Zenon DEF FundBalance, AmountOf, CountedRows
<1>11. AmountOf'[e] = -amount
  BY <1>4, <1>6 DEF AmountOf
<1>12. SumOver(AmountOf', CountedRows \cup {e}) = SumOver(AmountOf', CountedRows) + AmountOf'[e]
  <2>1. \A y \in CountedRows \cup {e} : AmountOf'[y] \in Int
    BY <1>1, <1>4, <1>11, SumsTyped DEF CountedRows, AmountOf
  <2> QED
    BY <1>9, <2>1, SumAdd, SumsTyped
<1>13. FundBalance' = FundBalance - amount
  BY <1>1, <1>4, <1>9, <1>10, <1>11, <1>12, RowsKeepAmounts, SumsTyped
<1>14. SumOver(PaidIn', verified) = SumOver(PaidIn, verified)
  <2>1. \A k \in verified : PaidIn'[k] = PaidIn[k]
    BY <1>4, <1>8, PaidInStays
  <2> QED
    BY <2>1, SumSame, SumsTyped DEF PostingsAreRows
<1>15. SumOver(published', Proposals) = SumOver(published, Proposals) - published[p] + published'[p]
  <2>1. \A q \in Proposals : /\ published[q] \in Int /\ published'[q] \in Int
                             /\ (q # p => published'[q] = published[q])
    BY <1>1, <1>5 DEF TypeOK
  <2> QED
    BY <2>1, SumPut, ProposalsAssumption
<1>16. published'[p] = amount /\ published[p] = 0
  BY <1>2, <1>5 DEF TypeOK, Unpublished
<1> QED
  BY <1>1, <1>4, <1>8, <1>13, <1>14, <1>15, <1>16, SumsTyped DEF BalanceMatchesLedger

(* The other services touch neither the fund nor the ledger. *)
LEMMA BalanceUntouched ==
  ASSUME BalanceInv, UNCHANGED <<entries, verified, published>>
  PROVE  PostingsAreRows' /\ BalanceMatchesLedger'
<1>1. PostingsAreRows'
  BY DEF BalanceInv, PostingsAreRows
<1>2. FundBalance' = FundBalance /\ PaidIn' = PaidIn
  BY DEF FundBalance, Counted, PaidIn
<1> QED
  BY <1>1, <1>2 DEF BalanceInv, BalanceMatchesLedger

(* The balance residents are shown is what was verifiably paid in less     *)
(* what the ledger says was spent, after any recordings, verifications and *)
(* settlements (fund_balance, record_settlement).                          *)
THEOREM BalanceCorrect == Spec => []BalanceMatchesLedger
<1>1. Init => BalanceInv
  <2> SUFFICES ASSUME Init PROVE PostingsAreRows /\ BalanceMatchesLedger
    BY InitEstablishes DEF BalanceInv
  <2>1. PostingsAreRows
    BY FS_EmptySet DEF Init, PostingsAreRows
  <2>2. {x \in entries : Counted(x)} = {} /\ verified = {}
    BY DEF Init
  <2>3. FundBalance = 0 /\ SumOver(PaidIn, verified) = 0
    BY <2>2, SumEmpty DEF FundBalance
  <2>4. SumOver(published, Proposals) = 0
    <3>1. \A p \in Proposals : published[p] = 0
      BY DEF Init, Unpublished
    <3> QED
      BY <3>1, SumZero, ProposalsAssumption
  <2> QED
    BY <2>1, <2>3, <2>4 DEF BalanceMatchesLedger
<1>2. BalanceInv /\ [Next]_vars => BalanceInv'
  <2> SUFFICES ASSUME BalanceInv, [Next]_vars PROVE PostingsAreRows' /\ BalanceMatchesLedger'
    BY NextPreserves DEF BalanceInv
  <2>1. ASSUME NEW p \in Proposals, RecordSettlement(p) PROVE PostingsAreRows' /\ BalanceMatchesLedger'
    BY <2>1, RecordSettlementBalance
  <2>2. ASSUME NEW key \in SourceKeys, NEW amount \in Amounts, RecordFundSource(key, amount)
        PROVE  PostingsAreRows' /\ BalanceMatchesLedger'
    BY <2>2, RecordFundSourceBalance
  <2>3. ASSUME NEW x \in entries, VerifyFundSource(x) PROVE PostingsAreRows' /\ BalanceMatchesLedger'
    BY <2>3, VerifyFundSourceBalance
  <2>4. ASSUME NEW p \in Proposals,
               \/ \E amount \in Amounts : PublishVersion(p, amount)
               \/ \E proceed \in BOOLEAN : DecideProposal(p, proceed)
               \/ CompleteProposalWork(p) \/ CompleteCaseWork(p) \/ CloseExpired(p)
        PROVE  PostingsAreRows' /\ BalanceMatchesLedger'
    BY <2>4, BalanceUntouched DEF PublishVersion, DecideProposal, CompleteProposalWork,
       CompleteCaseWork, CloseExpired, fundVars
  <2>5. CASE UNCHANGED vars
    BY <2>5, BalanceUntouched DEF vars, fundVars
  <2> QED
    BY <2>1, <2>2, <2>3, <2>4, <2>5 DEF Next
<1>3. BalanceInv => BalanceMatchesLedger
  BY DEF BalanceInv
<1> QED
  BY <1>1, <1>2, <1>3, PTL DEF Spec

-----------------------------------------------------------------------------
(* Price comparisons.                                                      *)

(* The arithmetic of the sentence. *)

(* Rounding to the nearest integer, ties to the even one, is off by at     *)
(* most one half.                                                          *)
LEMMA RoundedIsNear ==
  ASSUME NEW n \in Nat, NEW d \in Nat, 0 < d
  PROVE  /\ RoundedQuotient(n, d) \in Nat
         /\ 2 * Distance(n, RoundedQuotient(n, d) * d) <= d
<1> DEFINE q == n \div d
           r == n % d
<1>1. q \in Nat /\ r \in Nat /\ r < d /\ n = d * q + r
  OBVIOUS
<1>2. RoundedQuotient(n, d) = IF 2 * r < d \/ (2 * r = d /\ q % 2 = 0) THEN q ELSE q + 1
  BY DEF RoundedQuotient
<1> HIDE DEF q, r
<1>3. CASE RoundedQuotient(n, d) = q /\ 2 * r <= d
  BY <1>1, <1>3 DEF Distance
<1>4. CASE RoundedQuotient(n, d) = q + 1 /\ d <= 2 * r
  <2>1. (q + 1) * d = d * q + d
    BY <1>1
  <2> QED
    BY <1>1, <1>4, <2>1 DEF Distance
<1> QED
  BY <1>1, <1>2, <1>3, <1>4

(* What a sound band and an amount make the sentence say is true. *)
LEMMA SentenceIsTrue ==
  ASSUME NEW b \in Band, NEW a \in Nat,
         0 < b.min, b.min <= b.central, b.central <= b.max
  PROVE  LET r == Compare(b, a)
         IN  /\ r.position = "above_range" <=> a > b.max
             /\ r.position = "below_range" <=> a < b.min
             /\ r.direction = "above" <=> a > b.central
             /\ r.direction = "below" <=> a < b.central
             /\ 2 * Distance(100 * Distance(a, b.central), r.percentage * b.central) <= b.central
<1> DEFINE n == 100 * Distance(a, b.central)
<1>1. b.min \in Int /\ b.central \in Nat /\ b.max \in Int /\ 0 < b.central
  BY DEF Band
<1>2. n \in Nat
  BY <1>1 DEF Distance
<1>3. 2 * Distance(n, RoundedQuotient(n, b.central) * b.central) <= b.central
  BY <1>1, <1>2, RoundedIsNear
<1>4. Compare(b, a).percentage = RoundedQuotient(n, b.central)
  BY DEF Compare
<1>5. /\ Compare(b, a).position = "above_range" <=> a > b.max
      /\ Compare(b, a).position = "below_range" <=> a < b.min
      /\ Compare(b, a).direction = "above" <=> a > b.central
      /\ Compare(b, a).direction = "below" <=> a < b.central
  BY <1>1 DEF Compare
<1> QED
  BY <1>3, <1>4, <1>5

-----------------------------------------------------------------------------
(* The invariant. *)

Row == [case : Cases, category : {Category[c] : c \in Cases}, amount : TypedAmounts,
        band : Band, source : {"predicted", "fallback"}, version : 0 .. MaxComparedVersions]

Version == [amount : TypedAmounts, prediction : Nat, shown : SUBSET Nat,
            reading : {None} \cup {[reading |-> Compare(b, a), source |-> s] :
                                      b \in Band, a \in TypedAmounts, s \in {"predicted", "fallback"}}]

Form == [case : Cases \cup {None}, amount : TypedAmounts \cup {0},
         id : 0 .. MaxPredictions, shown : SUBSET (1 .. MaxPredictions),
         asked : TypedAmounts \cup {0}, reply : 0 .. MaxPredictions]

(* The shape of forms, rows and versions. *)
Shape ==
    /\ tab \in [Tabs -> Form]
    /\ predictions \in Seq(Row) /\ Len(predictions) <= MaxPredictions
    /\ versions \in [Cases -> Seq(Version)]
    /\ \A c \in Cases : Len(versions[c]) <= MaxComparedVersions

(* A form knows only predictions that exist, names one it has shown, and   *)
(* asks only about a case it is open for and that has a reference band.    *)
FormsKnow ==
    \A t \in Tabs :
        /\ tab[t].id = 0 \/ tab[t].id \in tab[t].shown
        /\ tab[t].shown \subseteq 1 .. Len(predictions)
        /\ tab[t].reply <= Len(predictions)
        /\ tab[t].asked > 0 => tab[t].case \in Cases /\ Supported(tab[t].case)

(* A version names a prediction that exists. *)
NamesExist ==
    \A c \in Cases : \A n \in DOMAIN versions[c] :
        versions[c][n].prediction \in 0 .. Len(predictions)

PriceInv ==
    /\ Shape /\ FormsKnow /\ NamesExist
    /\ ComparisonFits /\ FrozenWasShown /\ ReadingFrozen /\ BandSound

(* A form whose request is over keeps its shape. *)
LEMMA FormAnswered ==
  ASSUME NEW f \in Form, NEW r \in 0 .. MaxPredictions
  PROVE  [f EXCEPT !.asked = 0, !.reply = r] \in Form
<1>1. [f EXCEPT !.asked = 0] \in Form
  BY DEF Form
<1>2. \A g \in Form : [g EXCEPT !.reply = r] \in Form
  BY DEF Form
<1>3. [f EXCEPT !.asked = 0, !.reply = r] = [[f EXCEPT !.asked = 0] EXCEPT !.reply = r]
  BY DEF Form
<1> QED
  BY <1>1, <1>2, <1>3

(* The invariant is inductive: the steps of a form that write no row.      *)
LEMMA FormStepsPreserve ==
  ASSUME PriceInv, UNCHANGED <<predictions, versions>>, tab' \in [Tabs -> Form], FormsKnow'
  PROVE  PriceInv'
<1>1. Shape' /\ NamesExist'
  BY DEF PriceInv, Shape, NamesExist
<1>2. ComparisonFits' /\ FrozenWasShown'
  BY DEF PriceInv, ComparisonFits, FrozenWasShown, Attached
<1>3. ReadingFrozen' /\ BandSound'
  BY DEF PriceInv, ReadingFrozen, BandSound, VersionReading, Reading
<1> QED
  BY <1>1, <1>2, <1>3 DEF PriceInv

(* Opening a form shows no prediction. *)
LEMMA OpenFormPreserves ==
  ASSUME PriceInv, NEW t \in Tabs, NEW c \in Cases, OpenForm(t, c)
  PROVE  PriceInv'
<1>1. tab' \in [Tabs -> Form]
  BY DEF PriceInv, Shape, OpenForm, Form
<1>2. FormsKnow'
  BY DEF PriceInv, Shape, FormsKnow, OpenForm, Form, Closed
<1> QED
  BY <1>1, <1>2, FormStepsPreserve DEF OpenForm

(* Typing keeps the prediction the form names. *)
LEMMA TypeAmountPreserves ==
  ASSUME PriceInv, NEW t \in Tabs, NEW a \in TypedAmounts, TypeAmount(t, a)
  PROVE  PriceInv'
<1>1. tab' \in [Tabs -> Form]
  BY DEF PriceInv, Shape, TypeAmount, Form
<1>2. FormsKnow'
  BY DEF PriceInv, Shape, FormsKnow, TypeAmount, Form
<1> QED
  BY <1>1, <1>2, FormStepsPreserve DEF TypeAmount

(* A request is about the case of its form. *)
LEMMA AskComparePreserves ==
  ASSUME PriceInv, NEW t \in Tabs, AskCompare(t)
  PROVE  PriceInv'
<1>1. tab' \in [Tabs -> Form]
  BY DEF PriceInv, Shape, AskCompare, Form
<1>2. FormsKnow'
  BY DEF PriceInv, Shape, FormsKnow, AskCompare, Form
<1> QED
  BY <1>1, <1>2, FormStepsPreserve DEF AskCompare

(* The prediction a form names is one it shows. *)
LEMMA ReceiveReplyPreserves ==
  ASSUME PriceInv, NEW t \in Tabs, ReceiveReply(t)
  PROVE  PriceInv'
<1>1. tab' \in [Tabs -> Form]
  BY DEF PriceInv, Shape, ReceiveReply, Form
<1>2. FormsKnow'
  BY DEF PriceInv, Shape, FormsKnow, ReceiveReply, Form
<1> QED
  BY <1>1, <1>2, FormStepsPreserve DEF ReceiveReply

(* A lost answer leaves what the form showed. *)
LEMMA LoseReplyPreserves ==
  ASSUME PriceInv, NEW t \in Tabs, LoseReply(t)
  PROVE  PriceInv'
<1>1. tab' \in [Tabs -> Form]
  <2>1. [tab[t] EXCEPT !.asked = 0, !.reply = 0] \in Form
    <3>1. tab[t] \in Form /\ 0 \in 0 .. MaxPredictions
      BY PriceBoundAssumption DEF PriceInv, Shape
    <3> QED
      BY <3>1, FormAnswered
  <2>2. tab' = [tab EXCEPT ![t] = [tab[t] EXCEPT !.asked = 0, !.reply = 0]]
    BY DEF PriceInv, Shape, LoseReply
  <2> QED
    BY <2>1, <2>2 DEF PriceInv, Shape
<1>2. FormsKnow'
  BY DEF PriceInv, Shape, FormsKnow, LoseReply, Form
<1> QED
  BY <1>1, <1>2, FormStepsPreserve DEF LoseReply

(* The band a comparison comes to is sound, and its source is honest. *)
LEMMA PriceBandIsSound ==
  ASSUME NEW c \in Cases, Supported(c), NEW answer \in Answers
  PROVE  LET made == PriceBand(c, answer)
         IN  /\ made.band \in Band /\ made.source \in {"predicted", "fallback"}
             /\ 0 < made.band.min
             /\ made.band.min <= made.band.central /\ made.band.central <= made.band.max
             /\ IF made.source = "fallback" THEN made.band = Reference[Category[c]]
                ELSE \E a \in Answers : Configured(a) /\ Extracted(a) /\ made.band = a.band
BY AnswersAssumption, ReferenceAssumption DEF PriceBand, Supported, ValidBand, Band

(* The answer of the provider adds a row and touches no other. *)
LEMMA RecordPredictionPreserves ==
  ASSUME PriceInv, NEW t \in Tabs, NEW answer \in Answers, RecordPrediction(t, answer)
  PROVE  PriceInv'
<1> DEFINE c == tab[t].case
           made == PriceBand(c, answer)
           row == [case |-> c, category |-> Category[c], amount |-> tab[t].asked,
                   band |-> made.band, source |-> made.source, version |-> 0]
           N == Len(predictions)
<1>1. c \in Cases /\ Supported(c) /\ tab[t].asked \in TypedAmounts
  BY DEF PriceInv, FormsKnow, RecordPrediction, Shape, Form
<1>2. made.band \in Band /\ made.source \in {"predicted", "fallback"}
  BY <1>1, PriceBandIsSound
<1>3. row \in Row
  BY <1>1, <1>2, PriceBoundAssumption DEF Row
<1>4. predictions' = Append(predictions, row) /\ UNCHANGED versions
  BY DEF RecordPrediction
<1>5. predictions \in Seq(Row) /\ N \in Nat /\ N < MaxPredictions
  BY DEF PriceInv, Shape, RecordPrediction
<1> HIDE DEF row
<1>6. /\ predictions' \in Seq(Row) /\ Len(predictions') = N + 1
      /\ predictions'[N + 1] = row
      /\ \A p \in 1 .. N : predictions'[p] = predictions[p]
  BY <1>3, <1>4, <1>5
<1> HIDE DEF N
<1>7. Shape'
  <2>1. tab' \in [Tabs -> Form]
    <3>1. [tab[t] EXCEPT !.asked = 0, !.reply = N + 1] \in Form
      <4>1. tab[t] \in Form /\ N + 1 \in 0 .. MaxPredictions
        BY <1>5, PriceBoundAssumption DEF PriceInv, Shape
      <4> QED
        BY <4>1, FormAnswered
    <3>2. tab' = [tab EXCEPT ![t] = [tab[t] EXCEPT !.asked = 0, !.reply = N + 1]]
      BY DEF PriceInv, Shape, RecordPrediction, N
    <3> QED
      BY <3>1, <3>2 DEF PriceInv, Shape
  <2>2. Len(predictions') <= MaxPredictions
    BY <1>5, <1>6, PriceBoundAssumption
  <2>3. /\ versions' \in [Cases -> Seq(Version)]
        /\ \A d \in Cases : Len(versions'[d]) <= MaxComparedVersions
    BY <1>4 DEF PriceInv, Shape
  <2> QED
    BY <1>6, <2>1, <2>2, <2>3 DEF Shape
<1>8. FormsKnow'
  <2> SUFFICES ASSUME NEW u \in Tabs
               PROVE  /\ tab'[u].id = 0 \/ tab'[u].id \in tab'[u].shown
                      /\ tab'[u].shown \subseteq 1 .. N + 1
                      /\ tab'[u].reply <= N + 1
                      /\ tab'[u].asked > 0 => tab'[u].case \in Cases /\ Supported(tab'[u].case)
    BY <1>6 DEF FormsKnow, Supported
  <2>1. /\ tab[u].id = 0 \/ tab[u].id \in tab[u].shown
        /\ tab[u].shown \subseteq 1 .. N
        /\ tab[u].reply <= N
        /\ tab[u].asked > 0 => tab[u].case \in Cases /\ Supported(tab[u].case)
    BY DEF PriceInv, FormsKnow, N
  <2>2. tab[u].reply \in Nat
    BY PriceBoundAssumption DEF PriceInv, Shape, Form
  <2>3. /\ tab'[u].id = tab[u].id /\ tab'[u].shown = tab[u].shown /\ tab'[u].case = tab[u].case
        /\ IF u = t THEN tab'[u].asked = 0 /\ tab'[u].reply = N + 1
           ELSE tab'[u].asked = tab[u].asked /\ tab'[u].reply = tab[u].reply
    BY DEF PriceInv, Shape, Form, RecordPrediction, N
  <2> QED
    BY <1>5, <2>1, <2>2, <2>3
<1>9. NamesExist'
  BY <1>4, <1>5, <1>6 DEF PriceInv, NamesExist, N
<1>10. ComparisonFits' /\ FrozenWasShown'
  <2>1. \A a \in Attached : versions[a[1]][a[2]].prediction \in 1 .. N
    BY <1>5 DEF PriceInv, NamesExist, Attached, N
  <2>2. Attached' = Attached
    BY <1>4 DEF Attached
  <2> QED
    BY <1>4, <1>6, <2>1, <2>2 DEF PriceInv, ComparisonFits, FrozenWasShown
<1>11. ReadingFrozen'
  <2> SUFFICES ASSUME NEW d \in Cases, NEW n \in DOMAIN versions[d]
               PROVE  versions[d][n].reading = VersionReading(versions[d][n].prediction)'
    BY <1>4 DEF ReadingFrozen
  <2>1. versions[d][n].reading = VersionReading(versions[d][n].prediction)
    BY DEF PriceInv, ReadingFrozen
  <2>2. versions[d][n].prediction \in 0 .. N
    BY DEF PriceInv, NamesExist, N
  <2> QED
    BY <1>4, <1>5, <1>6, <2>1, <2>2 DEF VersionReading, Reading
<1>12. BandSound'
  <2>1. DOMAIN predictions = 1 .. N /\ DOMAIN predictions' = 1 .. N + 1
    BY <1>5, <1>6 DEF N
  <2>2. /\ 0 < row.band.min
        /\ row.band.min <= row.band.central /\ row.band.central <= row.band.max
        /\ IF row.source = "fallback" THEN row.band = Reference[row.category]
           ELSE \E a \in Answers : Configured(a) /\ Extracted(a) /\ row.band = a.band
    BY <1>1, PriceBandIsSound DEF row
  <2> QED
    BY <1>5, <1>6, <2>1, <2>2 DEF PriceInv, BandSound, Configured, Extracted
<1> QED
  BY <1>7, <1>8, <1>9, <1>10, <1>11, <1>12 DEF PriceInv

-----------------------------------------------------------------------------
(* Publication. *)

(* A publication freezes the reading of a row no other version has.  The   *)
(* row changes in its version only, so nothing frozen earlier reads        *)
(* differently, and the versions that point at their rows go on doing so.  *)
LEMMA FreezeVersionPreserves ==
  ASSUME PriceInv, NEW c \in Cases, NEW amount \in TypedAmounts \cup {0}, NEW p, NEW shown \in SUBSET Nat,
         Fits(p, c, amount) => p \in shown,
         FreezeVersion(c, amount, p, shown),
         tab' \in [Tabs -> Form], \A t \in Tabs : tab'[t] = tab[t] \/ tab'[t] = Closed
  PROVE  PriceInv'
<1> DEFINE q == Chosen(p, c, amount)
           K == Len(versions[c])
           N == Len(predictions)
           v == [amount |-> amount, prediction |-> q, shown |-> shown, reading |-> VersionReading(q)]
<1>1. /\ predictions \in Seq(Row) /\ N \in Nat /\ N <= MaxPredictions
      /\ versions[c] \in Seq(Version) /\ K \in Nat /\ K < MaxComparedVersions
      /\ amount \in TypedAmounts /\ DOMAIN predictions = 1 .. N
  BY DEF PriceInv, Shape, FreezeVersion
<1>2. /\ q \in 0 .. N
      /\ q /= 0 => /\ q \in 1 .. N /\ q \in shown /\ predictions[q].version = 0
                  /\ predictions[q].case = c /\ predictions[q].amount = amount
  BY <1>1 DEF Chosen, Fits
<1>3. /\ versions' = [versions EXCEPT ![c] = Append(versions[c], v)]
      /\ predictions' = IF q = 0 THEN predictions ELSE [predictions EXCEPT ![q].version = K + 1]
  BY DEF FreezeVersion
<1>4. VersionReading(q) \in {None} \cup {[reading |-> Compare(b, a), source |-> s] :
                               b \in Band, a \in TypedAmounts, s \in {"predicted", "fallback"}}
  <2>1. CASE q = 0
    BY <2>1 DEF VersionReading
  <2>2. CASE q /= 0
    <3>1. predictions[q] \in Row
      BY <1>1, <1>2, <2>2
    <3>2. predictions[q].band \in Band /\ predictions[q].amount \in TypedAmounts
          /\ predictions[q].source \in {"predicted", "fallback"}
      BY <3>1 DEF Row
    <3> QED
      BY <2>2, <3>2 DEF VersionReading, Reading
  <2> QED
    BY <2>1, <2>2
<1>5. v \in Version
  <2>1. q \in Nat
    BY <1>1, <1>2
  <2> HIDE DEF q
  <2> QED
    BY <1>1, <1>4, <2>1 DEF Version
<1> HIDE DEF q
<1>6. /\ predictions' \in Seq(Row) /\ Len(predictions') = N
      /\ \A i \in 1 .. N :
            /\ predictions'[i].case = predictions[i].case /\ predictions'[i].amount = predictions[i].amount
            /\ predictions'[i].band = predictions[i].band /\ predictions'[i].source = predictions[i].source
            /\ predictions'[i].category = predictions[i].category
            /\ predictions'[i].version = IF i = q THEN K + 1 ELSE predictions[i].version
  <2>1. CASE q = 0
    BY <1>1, <1>3, <2>1
  <2>2. CASE q /= 0
    <3>1. predictions' = [predictions EXCEPT ![q] = [predictions[q] EXCEPT !.version = K + 1]]
      BY <1>1, <1>3, <2>2
    <3>2. predictions[q] \in Row
      BY <1>1, <1>2, <2>2
    <3>3. K + 1 \in 0 .. MaxComparedVersions
      BY <1>1, PriceBoundAssumption
    <3>4. [predictions[q] EXCEPT !.version = K + 1] \in Row
      BY <3>2, <3>3 DEF Row
    <3>5. predictions' \in Seq(Row) /\ Len(predictions') = N
      BY <1>1, <1>2, <2>2, <3>1, <3>4
    <3>6. \A i \in 1 .. N : predictions[i] \in Row
      BY <1>1
    <3>7. \A i \in 1 .. N : predictions'[i] = IF i = q THEN [predictions[q] EXCEPT !.version = K + 1]
                                              ELSE predictions[i]
      BY <1>1, <3>1
    <3> QED
      BY <3>2, <3>5, <3>6, <3>7 DEF Row
  <2> QED
    BY <2>1, <2>2
<1>7. \A x \in 0 .. N : VersionReading(x)' = VersionReading(x)
  BY <1>1, <1>6 DEF VersionReading, Reading
<1>8. \A d \in Cases : versions[d] \in Seq(Version) /\ Len(versions[d]) <= MaxComparedVersions
  BY DEF PriceInv, Shape
<1>9. \A d \in Cases : d /= c => versions'[d] = versions[d]
  BY <1>3 DEF PriceInv, Shape
<1>10. versions'[c] = Append(versions[c], v)
  BY <1>3 DEF PriceInv, Shape
<1> HIDE DEF v
<1>11. /\ versions'[c] \in Seq(Version) /\ Len(versions'[c]) = K + 1 /\ DOMAIN versions'[c] = 1 .. K + 1
       /\ versions'[c][K + 1] = v
       /\ DOMAIN versions[c] = 1 .. K
       /\ \A n \in 1 .. K : versions'[c][n] = versions[c][n]
  BY <1>1, <1>5, <1>10
(* A version of the new state is an old one or the new one. *)
<1>12. \A d \in Cases : \A n \in DOMAIN versions'[d] :
          \/ n \in DOMAIN versions[d] /\ versions'[d][n] = versions[d][n]
          \/ d = c /\ n = K + 1 /\ versions'[d][n] = v
  BY <1>1, <1>9, <1>11
<1>13. v.prediction = q /\ v.amount = amount /\ v.shown = shown /\ v.reading = VersionReading(q)
  BY DEF v
<1> HIDE DEF K, N
<1>14. Shape'
  <2>1. versions' \in [Cases -> Seq(Version)]
    <3>1. Append(versions[c], v) \in Seq(Version)
      BY <1>1, <1>5
    <3> QED
      BY <1>3, <3>1 DEF PriceInv, Shape
  <2>2. \A d \in Cases : Len(versions'[d]) <= MaxComparedVersions
    BY <1>1, <1>8, <1>9, <1>11, PriceBoundAssumption
  <2> QED
    BY <1>1, <1>6, <2>1, <2>2 DEF Shape
<1>15. FormsKnow'
  <2> SUFFICES ASSUME NEW u \in Tabs
               PROVE  /\ tab'[u].id = 0 \/ tab'[u].id \in tab'[u].shown
                      /\ tab'[u].shown \subseteq 1 .. N
                      /\ tab'[u].reply <= N
                      /\ tab'[u].asked > 0 => tab'[u].case \in Cases /\ Supported(tab'[u].case)
    BY <1>6 DEF FormsKnow, Supported
  <2>1. CASE tab'[u] = tab[u]
    BY <2>1 DEF PriceInv, FormsKnow, N
  <2>2. CASE tab'[u] = Closed
    BY <1>1, <2>2 DEF Closed
  <2> QED
    BY <2>1, <2>2
<1>16. \A d \in Cases : \A n \in DOMAIN versions[d] : versions[d][n].prediction \in 0 .. N
  BY DEF PriceInv, NamesExist, N
<1>17. NamesExist'
  <2> SUFFICES ASSUME NEW d \in Cases, NEW n \in DOMAIN versions'[d]
               PROVE  versions'[d][n].prediction \in 0 .. N
    BY <1>6 DEF NamesExist
  <2> QED
    BY <1>2, <1>12, <1>13, <1>16
<1>18. ReadingFrozen'
  <2> SUFFICES ASSUME NEW d \in Cases, NEW n \in DOMAIN versions'[d]
               PROVE  (versions[d][n].reading = VersionReading(versions[d][n].prediction))'
    BY DEF ReadingFrozen
  <2>1. CASE n \in DOMAIN versions[d] /\ versions'[d][n] = versions[d][n]
    <3>1. versions[d][n].reading = VersionReading(versions[d][n].prediction)
      BY <2>1 DEF PriceInv, ReadingFrozen
    <3> QED
      BY <1>7, <1>16, <2>1, <3>1 DEF VersionReading, Reading
  <2>2. CASE versions'[d][n] = v
    BY <1>2, <1>7, <1>13, <2>2 DEF VersionReading, Reading
  <2> QED
    BY <1>12, <2>1, <2>2
<1>19. ComparisonFits' /\ FrozenWasShown'
  <2> SUFFICES ASSUME NEW d \in Cases, NEW n \in 1 .. MaxComparedVersions,
                      n \in DOMAIN versions'[d], versions'[d][n].prediction /= 0
               PROVE  LET w == versions'[d][n]
                          r == predictions'[w.prediction]
                      IN  /\ r.case = d /\ r.amount = w.amount /\ r.version = n
                          /\ w.prediction \in w.shown
    BY DEF ComparisonFits, FrozenWasShown, Attached
  <2>1. CASE n \in DOMAIN versions[d] /\ versions'[d][n] = versions[d][n]
    <3> DEFINE x == versions[d][n].prediction
    <3>1. x \in 1 .. N
      BY <1>1, <1>16, <2>1
    <3>2. <<d, n>> \in Attached
      BY <2>1 DEF Attached
    <3>3. /\ predictions[x].case = d /\ predictions[x].amount = versions[d][n].amount
          /\ predictions[x].version = n /\ x \in versions[d][n].shown
      BY <3>2 DEF PriceInv, ComparisonFits, FrozenWasShown
    <3>4. x /= q
      BY <1>2, <3>1, <3>3
    <3> QED
      BY <1>6, <2>1, <3>1, <3>3, <3>4
  <2>2. CASE d = c /\ n = K + 1 /\ versions'[d][n] = v
    BY <1>2, <1>6, <1>13, <2>2
  <2> QED
    BY <1>12, <2>1, <2>2
<1>20. BandSound'
  <2>1. DOMAIN predictions = 1 .. N /\ DOMAIN predictions' = 1 .. N
    BY <1>1, <1>6
  <2> QED
    BY <1>6, <2>1 DEF PriceInv, BandSound, Configured, Extracted
<1> QED
  BY <1>14, <1>15, <1>17, <1>18, <1>19, <1>20 DEF PriceInv

(* A submitted form publishes with what it shows, or finds the proposal    *)
(* published and changes nothing.                                          *)
LEMMA SubmitFormPreserves ==
  ASSUME PriceInv, NEW t \in Tabs, SubmitForm(t)
  PROVE  PriceInv'
<1> DEFINE c == tab[t].case
<1>1. Closed \in Form
  BY PriceBoundAssumption DEF Closed, Form
<1>2. tab' \in [Tabs -> Form] /\ \A u \in Tabs : tab'[u] = tab[u] \/ tab'[u] = Closed
  BY <1>1 DEF PriceInv, Shape, SubmitForm
<1>3. /\ c \in Cases /\ tab[t].amount \in TypedAmounts \cup {0}
      /\ tab[t].shown \in SUBSET Nat /\ tab[t].id \in Nat
  BY DEF PriceInv, Shape, Form, SubmitForm
<1>4. CASE versions[c] = <<>>
  <2>1. Fits(tab[t].id, c, tab[t].amount) => tab[t].id \in tab[t].shown
    BY DEF PriceInv, Shape, FormsKnow, Fits
  <2>2. FreezeVersion(c, tab[t].amount, tab[t].id, tab[t].shown)
    BY <1>4 DEF SubmitForm
  <2> QED
    BY <1>2, <1>3, <2>1, <2>2, FreezeVersionPreserves
<1>5. CASE versions[c] /= <<>>
  <2>1. UNCHANGED <<predictions, versions>>
    BY <1>5 DEF SubmitForm
  <2>2. FormsKnow'
    <3> SUFFICES ASSUME NEW u \in Tabs
                 PROVE  /\ tab'[u].id = 0 \/ tab'[u].id \in tab'[u].shown
                        /\ tab'[u].shown \subseteq 1 .. Len(predictions)
                        /\ tab'[u].reply <= Len(predictions)
                        /\ tab'[u].asked > 0 => tab'[u].case \in Cases /\ Supported(tab'[u].case)
      BY <2>1 DEF FormsKnow, Supported
    <3>1. CASE tab'[u] = tab[u]
      BY <3>1 DEF PriceInv, FormsKnow
    <3>2. CASE tab'[u] = Closed
      <4>1. Len(predictions) \in Nat
        BY DEF PriceInv, Shape
      <4> QED
        BY <3>2, <4>1 DEF Closed
    <3> QED
      BY <1>2, <3>1, <3>2
  <2> QED
    BY <1>2, <2>1, <2>2, FormStepsPreserve
<1> QED
  BY <1>4, <1>5

(* So does another version. *)
LEMMA RevisePreserves ==
  ASSUME PriceInv, NEW c \in Cases, NEW a \in TypedAmounts, NEW p \in 0 .. MaxPredictions,
         Revise(c, a, p)
  PROVE  PriceInv'
<1>1. DOMAIN predictions \in SUBSET Nat
  BY DEF PriceInv, Shape
<1>2. Fits(p, c, a) => p \in DOMAIN predictions
  BY DEF Fits
<1>3. tab' = tab /\ tab \in [Tabs -> Form] /\ FreezeVersion(c, a, p, DOMAIN predictions)
  BY DEF PriceInv, Shape, Revise
<1> QED
  BY <1>1, <1>2, <1>3, FreezeVersionPreserves

-----------------------------------------------------------------------------
(* The theorem. *)

(* The invariant holds before anything is compared. *)
LEMMA InitPrice == PriceInit => PriceInv
<1> SUFFICES ASSUME PriceInit PROVE PriceInv
  OBVIOUS
<1>1. Closed \in Form
  BY PriceBoundAssumption DEF Closed, Form
<1>2. Shape
  BY <1>1, PriceBoundAssumption DEF PriceInit, Shape
<1>3. FormsKnow
  BY DEF PriceInit, FormsKnow, Closed
<1>4. NamesExist /\ ReadingFrozen
  BY DEF PriceInit, NamesExist, ReadingFrozen
<1>5. Attached = {}
  BY DEF PriceInit, Attached
<1>6. ComparisonFits /\ FrozenWasShown
  BY <1>5 DEF ComparisonFits, FrozenWasShown
<1>7. BandSound
  BY DEF PriceInit, BandSound
<1> QED
  BY <1>2, <1>3, <1>4, <1>6, <1>7 DEF PriceInv

(* One step of the comparisons. *)
LEMMA NextPreservesPrice == PriceInv /\ [PriceNext]_priceVars => PriceInv'
<1> SUFFICES ASSUME PriceInv, [PriceNext]_priceVars PROVE PriceInv'
  OBVIOUS
<1>1. ASSUME NEW t \in Tabs, NEW c \in Cases, OpenForm(t, c) PROVE PriceInv'
  BY <1>1, OpenFormPreserves
<1>2. ASSUME NEW t \in Tabs, NEW a \in TypedAmounts, TypeAmount(t, a) PROVE PriceInv'
  BY <1>2, TypeAmountPreserves
<1>3. ASSUME NEW t \in Tabs, AskCompare(t) PROVE PriceInv'
  BY <1>3, AskComparePreserves
<1>4. ASSUME NEW t \in Tabs, NEW answer \in Answers, RecordPrediction(t, answer) PROVE PriceInv'
  BY <1>4, RecordPredictionPreserves
<1>5. ASSUME NEW t \in Tabs, ReceiveReply(t) PROVE PriceInv'
  BY <1>5, ReceiveReplyPreserves
<1>6. ASSUME NEW t \in Tabs, LoseReply(t) PROVE PriceInv'
  BY <1>6, LoseReplyPreserves
<1>7. ASSUME NEW t \in Tabs, SubmitForm(t) PROVE PriceInv'
  BY <1>7, SubmitFormPreserves
<1>8. ASSUME NEW c \in Cases, NEW a \in TypedAmounts, NEW p \in 0 .. MaxPredictions, Revise(c, a, p)
      PROVE PriceInv'
  BY <1>8, RevisePreserves
<1>9. CASE UNCHANGED priceVars
  <2>1. tab' \in [Tabs -> Form] /\ UNCHANGED <<predictions, versions>>
    BY <1>9 DEF priceVars, PriceInv, Shape
  <2>2. FormsKnow'
    BY <1>9 DEF priceVars, PriceInv, FormsKnow, Supported
  <2> QED
    BY <2>1, <2>2, FormStepsPreserve
<1> QED
  BY <1>1, <1>2, <1>3, <1>4, <1>5, <1>6, <1>7, <1>8, <1>9 DEF PriceNext

(* The invariant gives what residents read. *)
LEMMA InvGivesComparisons == PriceInv => ComparisonsHold
<1> SUFFICES ASSUME PriceInv PROVE ComparisonsHold
  OBVIOUS
<1>1. \A p \in DOMAIN predictions : predictions[p] \in Row
  BY DEF PriceInv, Shape
<1>2. PriceTypeOK
  BY <1>1 DEF PriceInv, Shape, PriceTypeOK, Form, Row
<1>3. SentenceTrue
  <2> SUFFICES ASSUME NEW p \in DOMAIN predictions
               PROVE  LET b == predictions[p].band
                          a == predictions[p].amount
                          r == Reading(p)
                      IN  /\ r.position = "above_range" <=> a > b.max
                          /\ r.position = "below_range" <=> a < b.min
                          /\ r.direction = "above" <=> a > b.central
                          /\ r.direction = "below" <=> a < b.central
                          /\ 2 * Distance(100 * Distance(a, b.central), r.percentage * b.central) <= b.central
    BY DEF SentenceTrue
  <2>1. predictions[p].band \in Band /\ predictions[p].amount \in Nat
    BY <1>1, TypedAssumption DEF Row
  <2>2. LET b == predictions[p].band IN 0 < b.min /\ b.min <= b.central /\ b.central <= b.max
    BY DEF PriceInv, BandSound
  <2> QED
    BY <2>1, <2>2, SentenceIsTrue DEF Reading
<1> QED
  BY <1>2, <1>3 DEF PriceInv, ComparisonsHold

(* What residents read next to the amount of a proposal was made for that  *)
(* case and amount, shown to the manager who published it, frozen since,   *)
(* sound, honest about its source, and true of its figures, whichever      *)
(* forms, cases, amounts and answers there are (publish_proposal_version,  *)
(* get_price_band_for_case, compare_price_against_band).                   *)
THEOREM ComparisonsCorrect == PriceSpec => []ComparisonsHold
<1>1. PriceSpec => []PriceInv
  BY InitPrice, NextPreservesPrice, PTL DEF PriceSpec
<1> QED
  BY <1>1, InvGivesComparisons, PTL

-----------------------------------------------------------------------------
(* Fund reports.                                                           *)

FundRow == [kind : {"source", "outflow"}, amount : Int, at : Nat, done : BOOLEAN]

(* The inductive invariant: rows is a sequence, and well typed. *)
FundInv == rows \in Seq(FundRow) /\ FundTypeOK

(* What a new row must be. *)
LEMMA AddKeeps ==
  ASSUME FundInv, NEW kind \in {"source", "outflow"},
         NEW amount \in FlowAmounts \cup {-a : a \in FlowAmounts},
         (kind = "source") <=> (amount > 0), NEW done \in BOOLEAN, Add(kind, amount, now, done)
  PROVE  FundInv'
<1> DEFINE r == [kind |-> kind, amount |-> amount, at |-> now, done |-> done]
<1>1. rows' = Append(rows, r) /\ now' = now /\ Len(rows) < MaxRows
  BY DEF Add
<1>2. now \in Nat /\ amount \in Int
  BY AmountAssumption, FundBoundAssumption DEF FundInv, FundTypeOK
<1>3. r \in FundRow
  BY <1>2 DEF FundRow
<1>4. /\ r.kind \in {"source", "outflow"} /\ r.amount = amount
      /\ ((r.kind = "source") <=> (r.amount > 0)) /\ r.at \in Start .. now /\ r.done \in BOOLEAN
  BY FundBoundAssumption DEF FundInv, FundTypeOK
<1> HIDE DEF r
<1>5. rows' \in Seq(FundRow) /\ Len(rows') = Len(rows) + 1
  BY <1>1, <1>3 DEF FundInv
<1>6. \A i \in DOMAIN rows' : rows'[i] = r \/ (i \in DOMAIN rows /\ rows'[i] = rows[i])
  BY <1>1, <1>3 DEF FundInv
<1>7. Len(rows') <= MaxRows
  BY <1>1, <1>5, FundBoundAssumption DEF FundInv
<1> QED
  BY <1>1, <1>4, <1>5, <1>6, <1>7 DEF FundInv, FundTypeOK

(* Every operation keeps it. *)
LEMMA FundNextKeeps ==
  ASSUME FundInv, [FundNext]_reportVars
  PROVE  FundInv'
<1>1. CASE Tick
  <2>1. now' = now + 1 /\ rows' = rows /\ now < MaxMoment
    BY <1>1 DEF Tick
  <2>2. now' \in Start .. MaxMoment /\ \A i \in DOMAIN rows : rows[i].at \in Start .. now'
    BY <2>1, FundBoundAssumption DEF FundInv, FundTypeOK
  <2> QED
    BY <2>1, <2>2 DEF FundInv, FundTypeOK
<1>2. ASSUME NEW a \in FlowAmounts, RecordSource(a) PROVE FundInv'
  <2>1. a > 0
    BY AmountAssumption
  <2> QED
    BY <1>2, <2>1, AddKeeps DEF RecordSource
<1>3. ASSUME NEW a \in FlowAmounts, Settle(a) PROVE FundInv'
  <2>1. -a \in FlowAmounts \cup {-b : b \in FlowAmounts} /\ ~(-a > 0)
    BY AmountAssumption
  <2> QED
    BY <1>3, <2>1, AddKeeps DEF Settle
<1>4. ASSUME NEW i \in DOMAIN rows, VerifySource(i) PROVE FundInv'
  <2>1. rows' = [rows EXCEPT ![i].done = TRUE] /\ now' = now
    BY <1>4 DEF VerifySource
  <2>2. /\ rows' \in Seq(FundRow) /\ Len(rows') = Len(rows) /\ DOMAIN rows' = DOMAIN rows
        /\ \A j \in DOMAIN rows : /\ rows'[j].kind = rows[j].kind /\ rows'[j].amount = rows[j].amount
                                  /\ rows'[j].at = rows[j].at /\ rows'[j].done \in BOOLEAN
    <3>1. rows[i] \in FundRow /\ rows \in Seq(FundRow)
      BY DEF FundInv
    <3>2. [rows[i] EXCEPT !.done = TRUE] \in FundRow
      BY <3>1 DEF FundRow
    <3>3. rows' = [rows EXCEPT ![i] = [rows[i] EXCEPT !.done = TRUE]]
      BY <2>1
    <3>4. rows' \in Seq(FundRow) /\ Len(rows') = Len(rows) /\ DOMAIN rows' = DOMAIN rows
      BY <3>1, <3>2, <3>3
    <3>5. \A j \in DOMAIN rows : rows'[j] = IF j = i THEN [rows[i] EXCEPT !.done = TRUE] ELSE rows[j]
      BY <3>1, <3>3
    <3>6. \A j \in DOMAIN rows : rows[j] \in FundRow
      BY <3>1
    <3> QED
      BY <3>4, <3>5, <3>6 DEF FundRow
  <2> QED
    BY <2>1, <2>2 DEF FundInv, FundTypeOK
<1>5. CASE UNCHANGED reportVars
  BY <1>5 DEF FundInv, FundTypeOK, reportVars
<1> QED
  BY <1>1, <1>2, <1>3, <1>4, <1>5 DEF FundNext

(* The fund is empty at first. *)
LEMMA FundStarts ==
  ASSUME FundInit
  PROVE  FundInv
<1>1. rows = <<>> /\ now = Start
  BY DEF FundInit
<1>2. rows \in Seq(FundRow) /\ Len(rows) = 0 /\ DOMAIN rows = {}
  BY <1>1
<1>3. now \in Start .. MaxMoment /\ Len(rows) <= MaxRows
  BY <1>1, <1>2, FundBoundAssumption
<1> QED
  BY <1>2, <1>3 DEF FundInv, FundTypeOK

-----------------------------------------------------------------------------
(* Totals of rows.                                                         *)

Flow == [i \in DOMAIN rows |-> rows[i].amount]

(* What there is to add up. *)
LEMMA RowsTyped ==
  ASSUME FundInv
  PROVE  /\ IsFiniteSet(DOMAIN rows) /\ now \in Nat
         /\ \A i \in DOMAIN rows : /\ Flow[i] = rows[i].amount
                                   /\ rows[i].amount \in Int /\ rows[i].amount # 0
                                   /\ rows[i].at \in Nat /\ rows[i].at <= now
                                   /\ rows[i].done \in BOOLEAN
<1>1. DOMAIN rows = 1 .. Len(rows) /\ Len(rows) \in Nat
  BY DEF FundInv
<1>2. IsFiniteSet(DOMAIN rows)
  BY <1>1, FS_Interval
<1>3. now \in Nat
  BY FundBoundAssumption DEF FundInv, FundTypeOK
<1>4. ASSUME NEW i \in DOMAIN rows
      PROVE  /\ Flow[i] = rows[i].amount
             /\ rows[i].amount \in Int /\ rows[i].amount # 0
             /\ rows[i].at \in Nat /\ rows[i].at <= now
             /\ rows[i].done \in BOOLEAN
  <2>1. rows[i].at \in Start .. now /\ rows[i].done \in BOOLEAN
    BY DEF FundInv, FundTypeOK
  <2>2. rows[i].amount \in FlowAmounts \cup {-a : a \in FlowAmounts}
    BY DEF FundInv, FundTypeOK
  <2>3. rows[i].amount \in Int /\ rows[i].amount # 0
    BY <2>2, AmountAssumption
  <2> QED
    BY <1>3, <2>1, <2>3, FundBoundAssumption DEF Flow
<1> QED
  BY <1>2, <1>3, <1>4

Credits(S) == {i \in S : rows[i].amount > 0}
Debits(S) == {i \in S : rows[i].amount < 0}

(* Inflows count up, outflows down, and together they are the total. *)
LEMMA Totals ==
  ASSUME FundInv, NEW S \in SUBSET DOMAIN rows
  PROVE  /\ IsFiniteSet(S) /\ IsFiniteSet(Credits(S)) /\ IsFiniteSet(Debits(S))
         /\ Total(S) = SumOver(Flow, S) /\ Total(S) \in Int
         /\ In(S) = SumOver(Flow, Credits(S)) /\ In(S) \in Nat
         /\ Out(S) = SumOver(Flow, Debits(S)) /\ Out(S) \in Int /\ Out(S) <= 0
         /\ Total(S) = In(S) + Out(S)
<1>1. IsFiniteSet(S) /\ IsFiniteSet(Credits(S)) /\ IsFiniteSet(Debits(S))
  BY RowsTyped, FS_Subset DEF Credits, Debits
<1>2. \A i \in S : Flow[i] \in Int
  BY RowsTyped
<1>3. Total(S) = SumOver(Flow, S) /\ Total(S) \in Int
  BY <1>1, <1>2, SumInt DEF Total, Flow
<1>4. In(S) = SumOver(Flow, Credits(S)) /\ In(S) \in Nat
  <2>1. \A i \in Credits(S) : Flow[i] \in Nat
    BY RowsTyped DEF Credits
  <2>2. In(S) = SumOver(Flow, Credits(S))
    BY Zenon DEF In, Total, Flow, Credits
  <2> QED
    BY <1>1, <2>1, <2>2, SumNat
<1>5. Out(S) = SumOver(Flow, Debits(S)) /\ Out(S) \in Int /\ Out(S) <= 0
  <2> DEFINE paid == [i \in DOMAIN rows |-> -Flow[i]]
  <2>1. \A i \in Debits(S) : Flow[i] \in Int /\ paid[i] = -Flow[i] /\ paid[i] \in Nat
    BY RowsTyped DEF Debits
  <2>2. Out(S) = SumOver(Flow, Debits(S))
    BY Zenon DEF Out, Total, Flow, Debits
  <2> HIDE DEF paid
  <2>3. SumOver(paid, Debits(S)) = -SumOver(Flow, Debits(S))
    BY <1>1, <2>1, SumNegate
  <2>4. SumOver(paid, Debits(S)) \in Nat
    BY <1>1, <2>1, SumNat
  <2>5. SumOver(Flow, Debits(S)) \in Int
    BY <1>1, <2>1, SumInt
  <2> QED
    BY <2>2, <2>3, <2>4, <2>5
<1>6. Total(S) = In(S) + Out(S)
  <2>1. S = Credits(S) \cup Debits(S) /\ Credits(S) \cap Debits(S) = {}
    BY RowsTyped DEF Credits, Debits
  <2>2. SumOver(Flow, Credits(S) \cup Debits(S)) = SumOver(Flow, Credits(S)) + SumOver(Flow, Debits(S))
    BY <1>1, <1>2, <2>1, SumUnion
  <2> QED
    BY <1>3, <1>4, <1>5, <2>1, <2>2
<1> QED
  BY <1>1, <1>3, <1>4, <1>5, <1>6

(* Rows counted apart. *)
LEMMA TotalsApart ==
  ASSUME FundInv, NEW S \in SUBSET DOMAIN rows, NEW T \in SUBSET DOMAIN rows, S \cap T = {}
  PROVE  /\ Total(S \cup T) = Total(S) + Total(T)
         /\ In(S \cup T) = In(S) + In(T)
         /\ Out(S \cup T) = Out(S) + Out(T)
<1>0. S \cup T \in SUBSET DOMAIN rows
  OBVIOUS
<1>1. \A i \in S \cup T : Flow[i] \in Int
  BY RowsTyped
<1>2. Total(S \cup T) = Total(S) + Total(T)
  <2>1. SumOver(Flow, S \cup T) = SumOver(Flow, S) + SumOver(Flow, T)
    <3>1. IsFiniteSet(S) /\ IsFiniteSet(T)
      BY Totals
    <3> QED
      BY <1>1, <3>1, SumUnion
  <2> QED
    BY <1>0, <2>1, Totals
<1>3. In(S \cup T) = In(S) + In(T)
  <2>1. Credits(S \cup T) = Credits(S) \cup Credits(T) /\ Credits(S) \cap Credits(T) = {}
    BY DEF Credits
  <2>2. \A i \in Credits(S) \cup Credits(T) : Flow[i] \in Int
    BY <1>1 DEF Credits
  <2>3. SumOver(Flow, Credits(S) \cup Credits(T)) = SumOver(Flow, Credits(S)) + SumOver(Flow, Credits(T))
    BY <2>1, <2>2, Totals, SumUnion
  <2> QED
    BY <1>0, <2>1, <2>3, Totals
<1>4. Out(S \cup T) = Out(S) + Out(T)
  <2>1. Debits(S \cup T) = Debits(S) \cup Debits(T) /\ Debits(S) \cap Debits(T) = {}
    BY DEF Debits
  <2>2. \A i \in Debits(S) \cup Debits(T) : Flow[i] \in Int
    BY <1>1 DEF Debits
  <2>3. SumOver(Flow, Debits(S) \cup Debits(T)) = SumOver(Flow, Debits(S)) + SumOver(Flow, Debits(T))
    BY <2>1, <2>2, Totals, SumUnion
  <2> QED
    BY <1>0, <2>1, <2>3, Totals
<1> QED
  BY <1>2, <1>3, <1>4

(* More rows, more inflow and more outflow. *)
LEMMA FlowsGrow ==
  ASSUME FundInv, NEW S \in SUBSET DOMAIN rows, NEW T \in SUBSET DOMAIN rows, S \subseteq T
  PROVE  In(S) <= In(T) /\ Out(T) <= Out(S)
<1>1. T \ S \in SUBSET DOMAIN rows /\ S \cap (T \ S) = {} /\ T = S \cup (T \ S)
  OBVIOUS
<1>2. In(S \cup (T \ S)) = In(S) + In(T \ S) /\ Out(S \cup (T \ S)) = Out(S) + Out(T \ S)
  BY <1>1, TotalsApart
<1>3. In(T) = In(S) + In(T \ S) /\ Out(T) = Out(S) + Out(T \ S)
  BY <1>1, <1>2
<1> QED
  BY <1>1, <1>3, Totals

-----------------------------------------------------------------------------
(* Days, months and charts.                                                *)

(* Dividing by a positive number rounds down. *)
LEMMA Dividing ==
  ASSUME NEW a \in Int, NEW b \in Nat, 0 < b
  PROVE  /\ a \div b \in Int /\ b * (a \div b) \in Int
         /\ b * (a \div b) <= a /\ a < b * (a \div b) + b
OBVIOUS

(* Comparing multiples. *)
LEMMA Multiples ==
  ASSUME NEW b \in Nat, 0 < b, NEW x \in Int, NEW y \in Int
  PROVE  (b * x < b * y + b => x <= y) /\ (x <= y => b * x <= b * y)
OBVIOUS

(* The day of a moment is its day of the local calendar. *)
LEMMA Days ==
  ASSUME NEW moment \in Nat
  PROVE  LocalDay(moment) \in Nat /\ 2 * LocalDay(moment) <= moment /\ moment < 2 * LocalDay(moment) + 2
BY DEF LocalDay

(* A day lies in its month. *)
LEMMA Months ==
  ASSUME NEW day \in Int
  PROVE  /\ MonthStart(day) \in Int /\ MonthStart(day) = DaysPerMonth * (day \div DaysPerMonth)
         /\ day \div DaysPerMonth \in Int
         /\ MonthStart(day) <= day /\ day < MonthStart(day) + DaysPerMonth
BY Dividing, CalendarAssumption DEF MonthStart

(* Every row is of today or of an earlier day. *)
LEMMA RowDays ==
  ASSUME FundInv, NEW i \in DOMAIN rows
  PROVE  /\ DayOf(i) \in Nat /\ Today \in Nat /\ DayOf(i) <= Today
         /\ 2 * DayOf(i) <= rows[i].at /\ rows[i].at < 2 * DayOf(i) + 2
<1>1. rows[i].at \in Nat /\ now \in Nat /\ rows[i].at <= now
  BY RowsTyped
<1>2. /\ DayOf(i) \in Nat /\ 2 * DayOf(i) <= rows[i].at /\ rows[i].at < 2 * DayOf(i) + 2
  BY <1>1, Days DEF DayOf
<1>3. Today \in Nat /\ now < 2 * Today + 2
  BY <1>1, Days DEF Today
<1> QED
  BY <1>1, <1>2, <1>3

Inside(starts, unit, k) ==
    {i \in Verified : DayOf(i) >= starts[1] /\ BucketOf(DayOf(i), unit) = starts[k]}
Sofar(starts, unit, k) == UNION {Inside(starts, unit, j) : j \in 1 .. k}
Before(starts) == {i \in Verified : DayOf(i) < starts[1]}

Buckets(starts, n) ==
    /\ DOMAIN starts = 1 .. n
    /\ \A k \in 1 .. n : starts[k] \in Int
    /\ \A j, k \in 1 .. n : j # k => starts[j] # starts[k]

(* A bucket has the flows of its rows, and the balance of all rows so far. *)
Point(starts, unit, k) ==
    /\ Series(starts, unit)[k].start = starts[k]
    /\ Series(starts, unit)[k].inflows = In(Inside(starts, unit, k))
    /\ Series(starts, unit)[k].outflows = Out(Inside(starts, unit, k))
    /\ Series(starts, unit)[k].balance = Total(Before(starts) \cup Sofar(starts, unit, k))

(* The points of a chart. *)
LEMMA ChartPoints ==
  ASSUME FundInv, NEW n \in Nat, 0 < n, NEW starts, Buckets(starts, n), NEW unit
  PROVE  /\ DOMAIN Series(starts, unit) = 1 .. n /\ Len(Series(starts, unit)) = n
         /\ \A k \in 1 .. n : Point(starts, unit, k)
<1> DEFINE c == Series(starts, unit)
<1>0. DOMAIN starts = 1 .. n /\ \A k \in 1 .. n : starts[k] \in Int
  BY DEF Buckets
<1>1. c = [k \in 1 .. n |->
             [start |-> starts[k], inflows |-> In(Inside(starts, unit, k)),
              outflows |-> Out(Inside(starts, unit, k)),
              balance |-> Total(Before(starts)) + In(Sofar(starts, unit, k))
                             + Out(Sofar(starts, unit, k))]]
  BY <1>0, Zenon DEF Series, Inside, Sofar, Before
<1> HIDE DEF c
<1>2. DOMAIN c = 1 .. n
  BY <1>1
<1>3. Len(c) = n
  <2>1. c \in [1 .. n -> {c[k] : k \in 1 .. n}]
    BY <1>1
  <2>2. c \in Seq({c[k] : k \in 1 .. n})
    BY <2>1
  <2>3. DOMAIN c = 1 .. Len(c) /\ Len(c) \in Nat
    BY <2>2
  <2> QED
    BY <1>2, <2>3
<1>4. ASSUME NEW k \in 1 .. n
      PROVE  /\ c[k].start = starts[k]
             /\ c[k].inflows = In(Inside(starts, unit, k))
             /\ c[k].outflows = Out(Inside(starts, unit, k))
             /\ c[k].balance = Total(Before(starts)) + In(Sofar(starts, unit, k))
                                  + Out(Sofar(starts, unit, k))
  BY <1>1
<1>5. ASSUME NEW k \in 1 .. n
      PROVE  Total(Before(starts)) + In(Sofar(starts, unit, k)) + Out(Sofar(starts, unit, k))
             = Total(Before(starts) \cup Sofar(starts, unit, k))
  <2>1. Before(starts) \in SUBSET DOMAIN rows /\ Sofar(starts, unit, k) \in SUBSET DOMAIN rows
    BY DEF Before, Sofar, Inside, Verified
  <2>2. starts[1] \in Int
    BY <1>0
  <2>3. \A i \in Before(starts) : DayOf(i) \in Int /\ DayOf(i) < starts[1]
    BY RowDays DEF Before, Verified
  <2>4. \A i \in Sofar(starts, unit, k) : DayOf(i) >= starts[1]
    BY DEF Sofar, Inside
  <2>5. Before(starts) \cap Sofar(starts, unit, k) = {}
    BY <2>2, <2>3, <2>4
  <2>6. Total(Before(starts) \cup Sofar(starts, unit, k)) = Total(Before(starts)) + Total(Sofar(starts, unit, k))
    BY <2>1, <2>5, TotalsApart
  <2>7. /\ Total(Sofar(starts, unit, k)) = In(Sofar(starts, unit, k)) + Out(Sofar(starts, unit, k))
        /\ In(Sofar(starts, unit, k)) \in Int /\ Out(Sofar(starts, unit, k)) \in Int
    BY <2>1, Totals
  <2>8. Total(Before(starts)) \in Int
    BY <2>1, Totals
  <2> QED
    BY <2>6, <2>7, <2>8
<1> QED
  BY <1>2, <1>3, <1>4, <1>5 DEF c, Point

(* The figures above a chart are the flows of its whole window. *)
LEMMA ChartWindow ==
  ASSUME FundInv, NEW n \in Nat, 0 < n, NEW starts, Buckets(starts, n), NEW unit
  PROVE  /\ WindowIn(Series(starts, unit)) = In(Sofar(starts, unit, n))
         /\ WindowOut(Series(starts, unit)) = Out(Sofar(starts, unit, n))
<1> DEFINE c == Series(starts, unit)
           W == Sofar(starts, unit, n)
           N(k) == Inside(starts, unit, k)
           credits == [k \in 1 .. n |-> Credits(N(k))]
           debits == [k \in 1 .. n |-> Debits(N(k))]
           ins == [k \in DOMAIN c |-> c[k].inflows]
           outs == [k \in DOMAIN c |-> c[k].outflows]
<1>1. DOMAIN c = 1 .. n
  BY ChartPoints
<1>2. \A k \in 1 .. n : c[k].inflows = In(N(k)) /\ c[k].outflows = Out(N(k))
  <2>1. \A k \in 1 .. n : Point(starts, unit, k)
    BY ChartPoints
  <2> QED
    BY <2>1 DEF Point
<1>3. IsFiniteSet(1 .. n)
  BY FS_Interval
<1>4. ASSUME NEW k \in 1 .. n, NEW j \in 1 .. n, j # k PROVE N(j) \cap N(k) = {}
  BY <1>4 DEF Inside, Buckets
<1>5. \A k \in 1 .. n : N(k) \in SUBSET DOMAIN rows
  BY DEF Inside, Verified
<1>6. W \in SUBSET DOMAIN rows
  BY <1>5 DEF Sofar
<1>7. \A i \in DOMAIN rows : Flow[i] \in Int
  BY RowsTyped
<1>8. ASSUME NEW k \in 1 .. n
      PROVE  /\ IsFiniteSet(Credits(N(k))) /\ In(N(k)) = SumOver(Flow, Credits(N(k)))
             /\ IsFiniteSet(Debits(N(k))) /\ Out(N(k)) = SumOver(Flow, Debits(N(k)))
  BY <1>5, Totals
<1>9. \A k \in 1 .. n : Credits(N(k)) \subseteq N(k) /\ Debits(N(k)) \subseteq N(k)
  BY DEF Credits, Debits
<1>10. /\ UNION {Credits(N(k)) : k \in 1 .. n} = Credits(W)
       /\ UNION {Debits(N(k)) : k \in 1 .. n} = Debits(W)
  BY DEF Sofar, Credits, Debits
<1> HIDE DEF N, W
<1>11. SumOver(ins, 1 .. n) = SumOver(Flow, UNION {credits[k] : k \in 1 .. n})
  <2>1. \A k \in 1 .. n : /\ IsFiniteSet(credits[k])
                          /\ \A i \in credits[k] : Flow[i] \in Int
                          /\ ins[k] = SumOver(Flow, credits[k])
                          /\ \A j \in 1 .. n : j # k => credits[j] \cap credits[k] = {}
    BY <1>1, <1>2, <1>4, <1>5, <1>7, <1>8, <1>9
  <2> HIDE DEF ins, credits
  <2>2. Split(Flow, 1 .. n, credits, ins)
    BY <2>1, Zenon DEF Split
  <2> QED
    BY <1>3, <2>2, SumOfParts, Zenon
<1>12. SumOver(outs, 1 .. n) = SumOver(Flow, UNION {debits[k] : k \in 1 .. n})
  <2>1. \A k \in 1 .. n : /\ IsFiniteSet(debits[k])
                          /\ \A i \in debits[k] : Flow[i] \in Int
                          /\ outs[k] = SumOver(Flow, debits[k])
                          /\ \A j \in 1 .. n : j # k => debits[j] \cap debits[k] = {}
    BY <1>1, <1>2, <1>4, <1>5, <1>7, <1>8, <1>9
  <2> HIDE DEF outs, debits
  <2>2. Split(Flow, 1 .. n, debits, outs)
    BY <2>1, Zenon DEF Split
  <2> QED
    BY <1>3, <2>2, SumOfParts, Zenon
<1>13. UNION {credits[k] : k \in 1 .. n} = Credits(W) /\ UNION {debits[k] : k \in 1 .. n} = Debits(W)
  BY <1>10
<1>14. In(W) = SumOver(Flow, Credits(W)) /\ Out(W) = SumOver(Flow, Debits(W))
  BY <1>6, Totals
<1>15. WindowIn(c) = SumOver(ins, 1 .. n) /\ WindowOut(c) = SumOver(outs, 1 .. n)
  BY <1>1 DEF WindowIn, WindowOut
<1> QED
  BY <1>11, <1>12, <1>13, <1>14, <1>15 DEF W

(* A chart whose buckets leave no verified row out closes at the balance.  *)
LEMMA ChartCloses ==
  ASSUME FundInv, NEW n \in Nat, 0 < n, NEW starts, Buckets(starts, n), NEW unit,
         \A i \in Verified : DayOf(i) >= starts[1] =>
             \E k \in 1 .. n : BucketOf(DayOf(i), unit) = starts[k]
  PROVE  /\ Closing(Series(starts, unit)) = Balance
         /\ Opening(Series(starts, unit)) = BalanceThrough(Series(starts, unit)[1].start - 1)
<1> DEFINE c == Series(starts, unit)
           W == Sofar(starts, unit, n)
           B == Before(starts)
<1>1. starts[1] \in Int
  BY DEF Buckets
<1>2. \A i \in Verified : DayOf(i) \in Int
  BY RowDays DEF Verified
<1>3. B \cup W = Verified /\ B \cap W = {}
  <2>1. \A i \in Verified : DayOf(i) >= starts[1] => i \in W
    BY DEF Sofar, Inside
  <2>2. \A i \in Verified : i \in B <=> DayOf(i) < starts[1]
    BY DEF Before
  <2>3. B \subseteq Verified /\ W \subseteq Verified /\ \A i \in W : DayOf(i) >= starts[1]
    BY DEF Before, Sofar, Inside
  <2> QED
    BY <1>1, <1>2, <2>1, <2>2, <2>3
<1>4. B \in SUBSET DOMAIN rows /\ W \in SUBSET DOMAIN rows
  BY <1>3 DEF Verified
<1>5. Closing(c) = Total(B \cup W) /\ c[1].start = starts[1]
  <2>1. Len(c) = n /\ \A k \in 1 .. n : Point(starts, unit, k)
    BY ChartPoints
  <2>2. 1 \in 1 .. n /\ n \in 1 .. n
    OBVIOUS
  <2> QED
    BY <2>1, <2>2 DEF Closing, Point
<1>6. WindowIn(c) = In(W) /\ WindowOut(c) = Out(W)
  BY ChartWindow
<1>7. BalanceThrough(starts[1] - 1) = Total(B)
  <2>1. {i \in Verified : DayOf(i) <= starts[1] - 1} = B
    BY <1>1, <1>2 DEF Before
  <2> QED
    BY <2>1, Zenon DEF BalanceThrough
<1> HIDE DEF B, W
<1>8. Total(B \cup W) = Total(B) + Total(W)
  BY <1>3, <1>4, TotalsApart
<1>9. Total(W) = In(W) + Out(W) /\ In(W) \in Int /\ Out(W) \in Int
  BY <1>4, Totals
<1>10. Total(B) \in Int
  BY <1>4, Totals
<1>11. Closing(c) = Balance
  BY <1>3, <1>5 DEF Balance
<1> QED
  BY <1>5, <1>6, <1>7, <1>8, <1>9, <1>10, <1>11 DEF Opening

(* The days of the day chart leave no row since its first day out. *)
LEMMA DayBuckets ==
  ASSUME FundInv
  PROVE  /\ Today \in Nat /\ RecentDays \in Nat /\ 0 < RecentDays
         /\ \A k \in 1 .. RecentDays : DayStarts[k] = Today - RecentDays + k
         /\ Buckets(DayStarts, RecentDays)
         /\ \A i \in Verified : DayOf(i) >= DayStarts[1] =>
               \E k \in 1 .. RecentDays : BucketOf(DayOf(i), "day") = DayStarts[k]
<1>1. RecentDays \in Nat /\ 0 < RecentDays
  BY CalendarAssumption
<1>2. Today \in Nat
  BY RowsTyped, Days DEF Today
<1>3. DOMAIN DayStarts = 1 .. RecentDays /\ \A k \in 1 .. RecentDays : DayStarts[k] = Today - RecentDays + k
  BY DEF DayStarts
<1>4. Buckets(DayStarts, RecentDays)
  BY <1>1, <1>2, <1>3 DEF Buckets
<1>5. ASSUME NEW i \in Verified, DayOf(i) >= DayStarts[1]
      PROVE  \E k \in 1 .. RecentDays : BucketOf(DayOf(i), "day") = DayStarts[k]
  <2>1. DayOf(i) \in Nat /\ DayOf(i) <= Today
    BY RowDays DEF Verified
  <2>2. DayStarts[1] = Today - RecentDays + 1
    BY <1>1, <1>3
  <2> DEFINE k == DayOf(i) - Today + RecentDays
  <2>3. k \in 1 .. RecentDays /\ DayOf(i) = Today - RecentDays + k
    BY <1>1, <1>2, <1>5, <2>1, <2>2
  <2> HIDE DEF k
  <2> QED
    BY <1>3, <2>3 DEF BucketOf
<1> QED
  BY <1>1, <1>2, <1>3, <1>4, <1>5

(* Neither do the months of a month chart. *)
LEMMA MonthBuckets ==
  ASSUME FundInv, NEW months \in MonthRanges
  PROVE  /\ Today \in Nat /\ months \in Nat /\ 0 < months
         /\ \A k \in 1 .. months : MonthStarts(months)[k] = MonthStart(Today) - DaysPerMonth * (months - k)
         /\ Buckets(MonthStarts(months), months)
         /\ \A i \in Verified : DayOf(i) >= MonthStarts(months)[1] =>
               \E k \in 1 .. months : BucketOf(DayOf(i), "month") = MonthStarts(months)[k]
<1>1. months \in Nat /\ 0 < months /\ DaysPerMonth \in Nat /\ 0 < DaysPerMonth
  BY CalendarAssumption
<1>2. Today \in Nat
  BY RowsTyped, Days DEF Today
<1> DEFINE s == MonthStarts(months)
           Q == Today \div DaysPerMonth
<1>3. DOMAIN s = 1 .. months /\ \A k \in 1 .. months : s[k] = MonthStart(Today) - DaysPerMonth * (months - k)
  BY DEF MonthStarts
<1>4. Q \in Int /\ MonthStart(Today) = DaysPerMonth * Q /\ MonthStart(Today) \in Int
  BY <1>2, Months
<1> HIDE DEF s, Q
<1>5. ASSUME NEW k \in 1 .. months
      PROVE  s[k] = DaysPerMonth * (Q - months + k) /\ s[k] \in Int /\ Q - months + k \in Int
  <2>1. s[k] = DaysPerMonth * Q - DaysPerMonth * (months - k)
    BY <1>3, <1>4
  <2>2. months - k \in Int /\ Q - months + k \in Int
    BY <1>1, <1>4
  <2>3. DaysPerMonth * Q - DaysPerMonth * (months - k) = DaysPerMonth * (Q - months + k)
    BY <1>1, <1>4, <2>2
  <2>4. DaysPerMonth * (Q - months + k) \in Int
    BY <1>1, <2>2
  <2> QED
    BY <2>1, <2>2, <2>3, <2>4
<1>6. Buckets(s, months)
  <2>1. ASSUME NEW j \in 1 .. months, NEW k \in 1 .. months, j < k PROVE s[j] < s[k]
    <3> DEFINE x == Q - months + j
               y == Q - months + k
    <3>1. x \in Int /\ y \in Int /\ ~(y <= x)
      BY <1>1, <1>4, <2>1
    <3>2. s[j] = DaysPerMonth * x /\ s[k] = DaysPerMonth * y
      BY <1>5
    <3> HIDE DEF x, y
    <3>3. ~(DaysPerMonth * y < DaysPerMonth * x + DaysPerMonth)
      BY <1>1, <3>1, Multiples
    <3>4. DaysPerMonth * y \in Int /\ DaysPerMonth * x \in Int
      BY <1>1, <3>1
    <3> QED
      BY <1>1, <3>2, <3>3, <3>4
  <2>2. \A j, k \in 1 .. months : j # k => s[j] # s[k]
    BY <1>1, <1>5, <2>1
  <2> QED
    BY <1>3, <1>5, <2>2 DEF Buckets
<1>7. ASSUME NEW i \in Verified, DayOf(i) >= s[1]
      PROVE  \E k \in 1 .. months : BucketOf(DayOf(i), "month") = s[k]
  <2> DEFINE d == DayOf(i)
             q == d \div DaysPerMonth
             k == q - Q + months
  <2>1. d \in Nat /\ d <= Today
    BY RowDays DEF Verified
  <2>2. q \in Int /\ MonthStart(d) = DaysPerMonth * q /\ d < DaysPerMonth * q + DaysPerMonth
        /\ DaysPerMonth * q <= d
    BY <2>1, Months
  <2>3. Today < DaysPerMonth * Q + DaysPerMonth
    BY <1>2, <1>4, Months
  <2>4. s[1] = DaysPerMonth * (Q - months + 1) /\ Q - months + 1 \in Int
    BY <1>1, <1>5
  <2> HIDE DEF q, d
  <2>5. q <= Q
    <3>1. DaysPerMonth * q < DaysPerMonth * Q + DaysPerMonth
      BY <1>1, <1>2, <1>4, <2>1, <2>2, <2>3
    <3> QED
      BY <1>1, <1>4, <2>2, <3>1, Multiples
  <2>6. Q - months + 1 <= q
    <3>1. DaysPerMonth * (Q - months + 1) < DaysPerMonth * q + DaysPerMonth
      BY <1>1, <1>7, <2>1, <2>2, <2>4 DEF d
    <3> QED
      BY <1>1, <2>2, <2>4, <3>1, Multiples
  <2>7. k \in 1 .. months /\ Q - months + k = q
    BY <1>1, <1>4, <2>2, <2>5, <2>6
  <2> HIDE DEF k
  <2>8. s[k] = DaysPerMonth * q
    BY <1>5, <2>7
  <2>9. BucketOf(DayOf(i), "month") = MonthStart(d)
    BY DEF BucketOf, d
  <2> QED
    BY <2>2, <2>7, <2>8, <2>9
<1> QED
  BY <1>1, <1>2, <1>3, <1>6, <1>7 DEF s

-----------------------------------------------------------------------------
(* The reports.                                                            *)

(* Every chart closes at the balance and opens at what lay before it. *)
LEMMA ChartsClose ==
  ASSUME FundInv
  PROVE  ChartsCloseAtBalance
<1>1. Closing(DayChart) = Balance /\ Opening(DayChart) = BalanceThrough(DayChart[1].start - 1)
  BY DayBuckets, ChartCloses DEF DayChart
<1>2. ASSUME NEW k \in MonthRanges
      PROVE  /\ Closing(MonthChart(k)) = Balance
             /\ Opening(MonthChart(k)) = BalanceThrough(MonthChart(k)[1].start - 1)
  BY MonthBuckets, ChartCloses DEF MonthChart
<1> QED
  BY <1>1, <1>2 DEF ChartsCloseAtBalance, Charts

(* A point of the day chart is the balance at the end of its day. *)
LEMMA PointsBalance ==
  ASSUME FundInv
  PROVE  PointsAreBalances
<1> DEFINE s == DayStarts
<1>1. /\ RecentDays \in Nat /\ 0 < RecentDays /\ Today \in Nat
      /\ Buckets(s, RecentDays)
      /\ \A k \in 1 .. RecentDays : s[k] = Today - RecentDays + k
  BY DayBuckets
<1>2. DOMAIN DayChart = 1 .. RecentDays /\ \A k \in 1 .. RecentDays : Point(s, "day", k)
  BY <1>1, ChartPoints DEF DayChart
<1> HIDE DEF s
<1>3. ASSUME NEW k \in 1 .. RecentDays
      PROVE  Before(s) \cup Sofar(s, "day", k) = {i \in Verified : rows[i].at < 2 * (s[k] + 1)}
  <2>1. s[1] = Today - RecentDays + 1 /\ s[k] = Today - RecentDays + k /\ s[1] \in Int /\ s[k] \in Int
    BY <1>1
  <2>2. ASSUME NEW i \in Verified
        PROVE  i \in Before(s) \cup Sofar(s, "day", k) <=> rows[i].at < 2 * (s[k] + 1)
    <3>1. /\ DayOf(i) \in Nat /\ DayOf(i) <= Today /\ rows[i].at \in Nat
          /\ 2 * DayOf(i) <= rows[i].at /\ rows[i].at < 2 * DayOf(i) + 2
      BY RowDays, RowsTyped DEF Verified
    <3>2. rows[i].at < 2 * (s[k] + 1) <=> DayOf(i) <= s[k]
      BY <2>1, <3>1
    <3>3. i \in Before(s) <=> DayOf(i) < s[1]
      BY DEF Before
    <3>4. i \in Sofar(s, "day", k) <=> DayOf(i) >= s[1] /\ \E j \in 1 .. k : DayOf(i) = s[j]
      BY DEF Sofar, Inside, BucketOf
    <3>5. DayOf(i) >= s[1] => ((\E j \in 1 .. k : DayOf(i) = s[j]) <=> DayOf(i) <= s[k])
      <4>1. ASSUME DayOf(i) >= s[1], NEW j \in 1 .. k, DayOf(i) = s[j] PROVE DayOf(i) <= s[k]
        <5>1. j \in 1 .. RecentDays /\ j <= k
          BY <1>1
        <5>2. s[j] = Today - RecentDays + j
          BY <1>1, <5>1
        <5> QED
          BY <1>1, <2>1, <4>1, <5>1, <5>2
      <4>2. ASSUME DayOf(i) >= s[1], DayOf(i) <= s[k] PROVE \E j \in 1 .. k : DayOf(i) = s[j]
        <5> DEFINE j == DayOf(i) - Today + RecentDays
        <5>1. j \in 1 .. k /\ j \in 1 .. RecentDays /\ Today - RecentDays + j = DayOf(i)
          BY <1>1, <2>1, <3>1, <4>2
        <5> HIDE DEF j
        <5>2. s[j] = DayOf(i)
          BY <1>1, <5>1
        <5> QED
          BY <5>1, <5>2
      <4> QED
        BY <4>1, <4>2
    <3>6. s[1] <= s[k]
      BY <1>1, <2>1
    <3> QED
      BY <2>1, <3>1, <3>2, <3>3, <3>4, <3>5, <3>6
  <2>3. Before(s) \cup Sofar(s, "day", k) \subseteq Verified
    BY DEF Before, Sofar, Inside
  <2> QED
    BY <2>2, <2>3
<1>4. ASSUME NEW k \in 1 .. RecentDays
      PROVE  DayChart[k].balance = Total({i \in Verified : rows[i].at < 2 * (DayChart[k].start + 1)})
  <2>1. DayChart[k].start = s[k] /\ DayChart[k].balance = Total(Before(s) \cup Sofar(s, "day", k))
    BY <1>2 DEF Point, DayChart, s
  <2> QED
    BY <1>3, <2>1
<1> QED
  BY <1>2, <1>4 DEF PointsAreBalances

(* The days of this month, and the rows of a day of it. *)
LEMMA ThisMonth ==
  ASSUME FundInv
  PROVE  /\ Today \in Nat /\ MonthStart(Today) \in Nat /\ DaysPerMonth \in Nat /\ 0 < DaysPerMonth
         /\ MonthRows \in SUBSET DOMAIN rows /\ IsFiniteSet(MonthDays)
         /\ \A i \in MonthRows : DayOf(i) \in MonthDays
         /\ \A d \in MonthDays : d \in Nat /\ Spent(d) \in Nat
<1>1. Today \in Nat /\ DaysPerMonth \in Nat /\ 0 < DaysPerMonth
  BY RowsTyped, Days, CalendarAssumption DEF Today
<1>2. MonthStart(Today) \in Nat
  <2>1. Today \div DaysPerMonth \in Nat
    BY <1>1
  <2> QED
    BY <1>1, <2>1 DEF MonthStart
<1>3. MonthRows \in SUBSET DOMAIN rows
  BY DEF MonthRows, Verified
<1>4. MonthDays \in SUBSET Nat /\ IsFiniteSet(MonthDays)
  <2>1. MonthStart(Today) + DaysPerMonth - 1 \in Int /\ MonthStart(Today) \in Int
    BY <1>1, <1>2
  <2>2. IsFiniteSet(MonthDays)
    BY <2>1, FS_Interval DEF MonthDays
  <2>3. MonthDays \in SUBSET Nat
    BY <1>1, <1>2 DEF MonthDays
  <2> QED
    BY <2>2, <2>3
<1>5. ASSUME NEW i \in MonthRows PROVE DayOf(i) \in MonthDays
  <2>1. DayOf(i) \in Nat
    BY <1>3, RowDays
  <2>2. MonthStart(DayOf(i)) = MonthStart(Today)
    BY DEF MonthRows
  <2>3. MonthStart(DayOf(i)) <= DayOf(i) /\ DayOf(i) < MonthStart(DayOf(i)) + DaysPerMonth
    BY <2>1, Months
  <2> QED
    BY <1>1, <1>2, <2>1, <2>2, <2>3 DEF MonthDays
<1>6. ASSUME NEW d \in MonthDays PROVE Spent(d) \in Nat
  <2> DEFINE S == {i \in MonthRows : DayOf(i) = d}
  <2>1. S \in SUBSET DOMAIN rows
    BY <1>3
  <2>2. Out(S) \in Int /\ Out(S) <= 0
    BY <2>1, Totals
  <2> QED
    BY <2>2 DEF Spent
<1> QED
  BY <1>1, <1>2, <1>3, <1>4, <1>5, <1>6

(* The days of the calendar add up to the expense of the month. *)
LEMMA DaysAddUp ==
  ASSUME FundInv
  PROVE  SumOver([d \in MonthDays |-> Spent(d)], MonthDays) = -Out(MonthRows)
<1> DEFINE cost == [i \in DOMAIN rows |-> -Flow[i]]
           S(d) == {i \in MonthRows : DayOf(i) = d}
           pieces == [d \in MonthDays |-> Debits(S(d))]
           sums == [d \in MonthDays |-> Spent(d)]
<1>1. \A i \in DOMAIN rows : cost[i] = -Flow[i] /\ Flow[i] \in Int /\ cost[i] \in Int
  BY RowsTyped
<1> HIDE DEF cost
<1>2. ASSUME NEW d \in MonthDays
      PROVE  /\ IsFiniteSet(Debits(S(d))) /\ Debits(S(d)) \subseteq DOMAIN rows
             /\ Spent(d) = SumOver(cost, Debits(S(d)))
  <2>1. S(d) \in SUBSET DOMAIN rows
    BY ThisMonth
  <2>2. IsFiniteSet(Debits(S(d))) /\ Out(S(d)) = SumOver(Flow, Debits(S(d)))
    BY <2>1, Totals
  <2>3. Debits(S(d)) \subseteq DOMAIN rows
    BY <2>1 DEF Debits
  <2>4. \A i \in Debits(S(d)) : cost[i] = -Flow[i] /\ Flow[i] \in Int
    BY <1>1, <2>3
  <2>5. SumOver(cost, Debits(S(d))) = -SumOver(Flow, Debits(S(d)))
    BY <2>2, <2>4, SumNegate
  <2>6. Spent(d) = -Out(S(d))
    BY Zenon DEF Spent
  <2> QED
    BY <2>2, <2>3, <2>5, <2>6
<1>3. ASSUME NEW d \in MonthDays, NEW e \in MonthDays, e # d PROVE Debits(S(e)) \cap Debits(S(d)) = {}
  BY <1>3 DEF Debits
<1>4. UNION {Debits(S(d)) : d \in MonthDays} = Debits(MonthRows)
  <2>1. ASSUME NEW i \in Debits(MonthRows) PROVE i \in UNION {Debits(S(d)) : d \in MonthDays}
    <3>1. i \in MonthRows /\ rows[i].amount < 0 /\ DayOf(i) \in MonthDays
      BY ThisMonth DEF Debits
    <3>2. i \in Debits(S(DayOf(i)))
      BY <3>1 DEF Debits
    <3> QED
      BY <3>1, <3>2
  <2>2. UNION {Debits(S(d)) : d \in MonthDays} \subseteq Debits(MonthRows)
    BY DEF Debits
  <2> QED
    BY <2>1, <2>2
<1> HIDE DEF S
<1>5. \A d \in MonthDays : /\ IsFiniteSet(pieces[d])
                           /\ \A i \in pieces[d] : cost[i] \in Int
                           /\ sums[d] = SumOver(cost, pieces[d])
                           /\ \A e \in MonthDays : e # d => pieces[e] \cap pieces[d] = {}
  BY <1>1, <1>2, <1>3
<1>6. UNION {pieces[d] : d \in MonthDays} = Debits(MonthRows)
  BY <1>4
<1> HIDE DEF pieces, sums
<1>7. Split(cost, MonthDays, pieces, sums)
  BY <1>5, Zenon DEF Split
<1>8. SumOver(sums, MonthDays) = SumOver(cost, UNION {pieces[d] : d \in MonthDays})
  BY <1>7, ThisMonth, SumOfParts, Zenon
<1>9. SumOver(sums, MonthDays) = SumOver(cost, Debits(MonthRows))
  BY <1>6, <1>8
<1>10. IsFiniteSet(Debits(MonthRows)) /\ Out(MonthRows) = SumOver(Flow, Debits(MonthRows))
  BY ThisMonth, Totals
<1>11. \A i \in Debits(MonthRows) : cost[i] = -Flow[i] /\ Flow[i] \in Int
  BY <1>1, ThisMonth DEF Debits
<1>12. SumOver(cost, Debits(MonthRows)) = -SumOver(Flow, Debits(MonthRows))
  BY <1>10, <1>11, SumNegate
<1> QED
  BY <1>9, <1>10, <1>12 DEF sums

(* The last month of a month chart is the month of the calendar. *)
LEMMA CalendarsAgree ==
  ASSUME FundInv
  PROVE  CalendarAgrees
<1> SUFFICES ASSUME NEW n \in MonthRanges
    PROVE  /\ MonthChart(n)[Len(MonthChart(n))].inflows = In(MonthRows)
           /\ -MonthChart(n)[Len(MonthChart(n))].outflows = SumOver([d \in MonthDays |-> Spent(d)], MonthDays)
  BY Zenon DEF CalendarAgrees
<1> DEFINE s == MonthStarts(n)
<1>1. /\ n \in Nat /\ 0 < n /\ Buckets(s, n) /\ Today \in Nat
      /\ \A k \in 1 .. n : s[k] = MonthStart(Today) - DaysPerMonth * (n - k)
  BY MonthBuckets
<1>2. Len(MonthChart(n)) = n /\ \A k \in 1 .. n : Point(s, "month", k)
  BY <1>1, ChartPoints DEF MonthChart
<1>3. s[n] = MonthStart(Today) /\ s[1] <= s[n] /\ s[1] \in Int
  <2>1. 1 \in 1 .. n /\ n \in 1 .. n
    BY <1>1
  <2>2. s[n] = MonthStart(Today) - DaysPerMonth * (n - n) /\ s[1] = MonthStart(Today) - DaysPerMonth * (n - 1)
    BY <1>1, <2>1
  <2>3. DaysPerMonth * (n - n) = 0 /\ DaysPerMonth * (n - 1) \in Nat
    BY <1>1, ThisMonth
  <2> QED
    BY <2>2, <2>3, ThisMonth
<1> HIDE DEF s
<1>4. Inside(s, "month", n) = MonthRows
  <2>1. ASSUME NEW i \in Verified, MonthStart(DayOf(i)) = MonthStart(Today) PROVE DayOf(i) >= s[1]
    <3>1. DayOf(i) \in Nat
      BY RowDays DEF Verified
    <3>2. MonthStart(DayOf(i)) <= DayOf(i)
      BY <3>1, Months
    <3> QED
      BY <1>3, <2>1, <3>1, <3>2, ThisMonth
  <2>2. \A i \in Verified : BucketOf(DayOf(i), "month") = MonthStart(DayOf(i))
    BY DEF BucketOf
  <2> QED
    BY <1>3, <2>1, <2>2 DEF Inside, MonthRows
<1>5. /\ MonthChart(n)[n].inflows = In(MonthRows)
      /\ MonthChart(n)[n].outflows = Out(MonthRows)
  <2>1. Point(s, "month", n)
    BY <1>1, <1>2
  <2> QED
    BY <1>4, <2>1 DEF Point, MonthChart, s
<1> QED
  BY <1>2, <1>5, DaysAddUp

(* The arithmetic of the shades. *)
LEMMA Shade ==
  ASSUME NEW x \in Nat, NEW y \in Nat, NEW peak \in Nat, 0 < x, x <= y, y <= peak
  PROVE  LET level(z) == -((-4 * z) \div peak)
         IN  /\ level(x) \in 1 .. 4 /\ level(x) <= level(y)
             /\ x = peak => level(x) = 4
<1> DEFINE p == (-4 * x) \div peak
           q == (-4 * y) \div peak
<1>1. /\ p \in Int /\ peak * p \in Int /\ peak * p <= -4 * x /\ -4 * x < peak * p + peak
      /\ q \in Int /\ peak * q \in Int /\ peak * q <= -4 * y /\ -4 * y < peak * q + peak
  <2>1. -4 * x \in Int /\ -4 * y \in Int /\ 0 < peak
    OBVIOUS
  <2> QED
    BY <2>1, Dividing
<1> HIDE DEF p, q
<1>2. p < 0
  <2>1. ~(0 <= p)
    <3>1. ASSUME 0 <= p PROVE FALSE
      <4>1. peak * 0 <= peak * p
        BY <1>1, <3>1, Multiples
      <4> QED
        BY <1>1, <4>1
    <3> QED
      BY <3>1
  <2> QED
    BY <1>1, <2>1
<1>3. -4 <= p
  <2>1. peak * (-4) < peak * p + peak
    BY <1>1
  <2> QED
    BY <1>1, <2>1, Multiples
<1>4. q <= p
  <2>1. peak * q < peak * p + peak
    BY <1>1
  <2> QED
    BY <1>1, <2>1, Multiples
<1>5. ASSUME x = peak PROVE p = -4
  <2>1. peak * p < peak * (-4) + peak
    BY <1>1, <1>5
  <2>2. p <= -4
    BY <1>1, <2>1, Multiples
  <2> QED
    BY <1>1, <1>3, <2>2
<1> QED
  BY <1>1, <1>2, <1>3, <1>4, <1>5 DEF p, q

(* The peak is the dearest day. *)
LEMMA PeakIs ==
  ASSUME FundInv
  PROVE  Peak \in Nat /\ \A d \in MonthDays : Spent(d) <= Peak
<1> DEFINE S == {Spent(d) : d \in MonthDays}
<1>1. IsFiniteSet(S)
  <2> DEFINE f == [d \in MonthDays |-> Spent(d)]
  <2>1. S = {f[d] : d \in MonthDays}
    OBVIOUS
  <2> HIDE DEF f, S
  <2> QED
    BY <2>1, ThisMonth, FiniteImage
<1>2. IsFiniteSet({0} \cup S)
  BY <1>1, FS_AddElement
<1>3. {0} \cup S \subseteq Nat
  BY ThisMonth
<1>4. Max({0} \cup S) \in {0} \cup S /\ \A y \in {0} \cup S : y <= Max({0} \cup S)
  <2> HIDE DEF S
  <2>1. {0} \cup S # {} /\ {0} \cup S \subseteq Int
    BY <1>3
  <2> QED
    BY <1>2, <2>1, Largest
<1> QED
  BY <1>3, <1>4 DEF Peak

(* Shades rank the days by their expense. *)
LEMMA Shades ==
  ASSUME FundInv
  PROVE  ShadesRank
<1> DEFINE L(d) == -((-4 * Spent(d)) \div Peak)
<1>1. ASSUME NEW d \in MonthDays, Spent(d) # 0 PROVE Level(d) = L(d) /\ L(d) \in 1 .. 4
  <2>1. L(d) \in 1 .. 4
    BY <1>1, Shade, PeakIs, ThisMonth
  <2>2. Level(d) = Max({1, L(d)})
    BY <1>1 DEF Level
  <2> HIDE DEF L
  <2>3. Max({1, L(d)}) = L(d)
    <3>1. IsFiniteSet({1, L(d)}) /\ {1, L(d)} # {} /\ {1, L(d)} \subseteq Int
      <4>1. IsFiniteSet({L(d)}) /\ {1, L(d)} = {L(d)} \cup {1}
        BY FS_Singleton
      <4> QED
        BY <2>1, <4>1, FS_AddElement
    <3>2. Max({1, L(d)}) \in {1, L(d)} /\ \A y \in {1, L(d)} : y <= Max({1, L(d)})
      BY <3>1, Largest
    <3> QED
      BY <2>1, <3>2
  <2> QED
    BY <2>1, <2>2, <2>3
<1>2. ASSUME NEW d \in MonthDays, Spent(d) = 0 PROVE Level(d) = 0
  BY <1>2 DEF Level
<1>3. ASSUME NEW d \in MonthDays, NEW e \in MonthDays, Spent(d) # 0, Spent(d) <= Spent(e)
      PROVE  L(d) <= L(e) /\ Spent(e) # 0
  BY <1>3, Shade, PeakIs, ThisMonth
<1>4. ASSUME NEW d \in MonthDays, Spent(d) # 0, Spent(d) = Peak PROVE L(d) = 4
  BY <1>4, Shade, PeakIs, ThisMonth
<1> HIDE DEF L
<1>5. ASSUME NEW d \in MonthDays
      PROVE  /\ Level(d) \in 0 .. 4
             /\ Level(d) = 0 <=> Spent(d) = 0
             /\ Spent(d) = Peak /\ Peak > 0 => Level(d) = 4
             /\ \A e \in MonthDays : Spent(d) <= Spent(e) => Level(d) <= Level(e)
  <2>1. CASE Spent(d) = 0
    <3>1. Level(d) = 0
      BY <1>2, <2>1
    <3>2. \A e \in MonthDays : Level(e) \in 0 .. 4
      BY <1>1, <1>2
    <3> QED
      BY <2>1, <3>1, <3>2
  <2>2. CASE Spent(d) # 0
    <3>1. Level(d) = L(d) /\ L(d) \in 1 .. 4
      BY <1>1, <2>2
    <3>2. Spent(d) = Peak => L(d) = 4
      BY <1>4, <2>2
    <3>3. ASSUME NEW e \in MonthDays, Spent(d) <= Spent(e) PROVE Level(d) <= Level(e)
      BY <1>1, <1>3, <2>2, <3>1, <3>3
    <3> QED
      BY <2>2, <3>1, <3>2, <3>3
  <2> QED
    BY <2>1, <2>2
<1> QED
  BY <1>5 DEF ShadesRank

(* Every day sits in the column of its weekday. *)
LEMMA WeekCells ==
  ASSUME FundInv
  PROVE  CellsInWeeks
<1> DEFINE first == MonthStart(Today)
           lead == first % 7
           len == lead + DaysPerMonth
           full == len + ((-len) % 7)
           cell(n) == IF n > lead /\ n <= len THEN first + n - lead - 1 ELSE -1
<1>1. first \in Nat /\ DaysPerMonth \in Nat /\ 0 < DaysPerMonth
  BY ThisMonth
<1>2. Cells = [n \in 1 .. full |-> cell(n)]
  BY Zenon DEF Cells
<1> HIDE DEF first
<1>3. lead \in 0 .. 6 /\ len \in Nat /\ full \in Nat /\ len <= full /\ full % 7 = 0 /\ 0 < full
  BY <1>1
<1>4. ASSUME NEW d \in first .. (first + DaysPerMonth - 1)
      PROVE  LET n == d - first + lead + 1
             IN  n \in 1 .. full /\ cell(n) = d /\ (n - 1) % 7 = d % 7
  <2> DEFINE n == d - first + lead + 1
  <2>1. n \in Int /\ n > lead /\ n <= len
    BY <1>1, <1>3
  <2>2. cell(n) = d
    BY <1>1, <1>3, <2>1
  <2>3. (n - 1) % 7 = d % 7
    BY <1>1
  <2> QED
    BY <1>3, <2>1, <2>2, <2>3
<1> HIDE DEF cell, full, len, lead
<1>5. Len(Cells) = full /\ DOMAIN Cells = 1 .. full
  <2>0. full \in Nat /\ 0 < full
    BY <1>3
  <2>1. Cells \in [1 .. full -> {Cells[n] : n \in 1 .. full}]
    BY <1>2
  <2>2. Cells \in Seq({Cells[n] : n \in 1 .. full})
    BY <2>0, <2>1
  <2>3. DOMAIN Cells = 1 .. Len(Cells) /\ Len(Cells) \in Nat
    BY <2>2
  <2>4. DOMAIN Cells = 1 .. full
    BY <1>2
  <2>5. 1 .. Len(Cells) = 1 .. full
    BY <2>3, <2>4
  <2>6. ASSUME NEW m \in Nat, NEW k \in Nat, 1 .. m = 1 .. k PROVE m = k
    BY <2>6
  <2>7. Len(Cells) = full
    BY <2>0, <2>3, <2>5, <2>6
  <2> QED
    BY <2>4, <2>7
<1>6. ASSUME NEW d \in MonthDays PROVE \E n \in DOMAIN Cells : Cells[n] = d /\ (n - 1) % 7 = d % 7
  <2>1. d \in first .. (first + DaysPerMonth - 1)
    BY DEF MonthDays, first
  <2> DEFINE n == d - first + lead + 1
  <2>2. n \in 1 .. full /\ cell(n) = d /\ (n - 1) % 7 = d % 7
    BY <1>4, <2>1
  <2> HIDE DEF n
  <2>3. Cells[n] = d
    BY <1>2, <2>2
  <2> QED
    BY <1>5, <2>2, <2>3
<1> QED
  BY <1>3, <1>5, <1>6 DEF CellsInWeeks

(* The trailing period holds the day chart, and little more. *)
LEMMA PeriodCovers ==
  ASSUME FundInv
  PROVE  PeriodCoversChart
<1> DEFINE s == DayStarts
           W == Sofar(s, "day", RecentDays)
           R == PeriodRows
           D == {i \in Verified : DayOf(i) = Today - RecentDays}
<1>1. /\ Today \in Nat /\ RecentDays \in Nat /\ 0 < RecentDays /\ Buckets(s, RecentDays)
      /\ \A k \in 1 .. RecentDays : s[k] = Today - RecentDays + k
      /\ \A i \in Verified : DayOf(i) >= s[1] =>
             \E k \in 1 .. RecentDays : BucketOf(DayOf(i), "day") = s[k]
  BY DayBuckets
<1>2. WindowIn(DayChart) = In(W) /\ WindowOut(DayChart) = Out(W)
  BY <1>1, ChartWindow DEF DayChart
<1> HIDE DEF s
<1>3. s[1] = Today - RecentDays + 1
  BY <1>1
<1>4. \A i \in Verified : i \in W <=> DayOf(i) >= s[1]
  BY <1>1 DEF Sofar, Inside
<1>5. W \subseteq Verified
  BY DEF Sofar, Inside
<1>6. now \in Nat /\ 2 * Today <= now /\ now < 2 * Today + 2
  BY RowsTyped, Days DEF Today
<1>7. ASSUME NEW i \in Verified
      PROVE  /\ DayOf(i) >= s[1] => i \in R
             /\ i \in R => DayOf(i) >= s[1] \/ DayOf(i) = Today - RecentDays
  <2>1. /\ DayOf(i) \in Nat /\ rows[i].at \in Nat
        /\ 2 * DayOf(i) <= rows[i].at /\ rows[i].at < 2 * DayOf(i) + 2
    BY RowDays, RowsTyped DEF Verified
  <2>2. i \in R <=> rows[i].at >= now - 2 * RecentDays
    BY DEF PeriodRows
  <2> QED
    BY <1>1, <1>3, <1>6, <2>1, <2>2
<1>8. W \subseteq R /\ R \subseteq W \cup D /\ W \cap D = {}
  <2>1. R \subseteq Verified
    BY DEF PeriodRows
  <2>2. \A i \in D : ~(DayOf(i) >= s[1])
    BY <1>1, <1>3
  <2> QED
    BY <1>4, <1>5, <1>7, <2>1, <2>2
<1>9. /\ W \in SUBSET DOMAIN rows /\ R \in SUBSET DOMAIN rows /\ D \in SUBSET DOMAIN rows
      /\ W \cup D \in SUBSET DOMAIN rows
  BY <1>5 DEF Verified, PeriodRows
<1> HIDE DEF W, R, D
<1>10. In(W) <= In(R) /\ Out(R) <= Out(W)
  BY <1>8, <1>9, FlowsGrow
<1>11. In(R) <= In(W \cup D) /\ Out(W \cup D) <= Out(R)
  BY <1>8, <1>9, FlowsGrow
<1>12. In(W \cup D) = In(W) + In(D) /\ Out(W \cup D) = Out(W) + Out(D)
  BY <1>8, <1>9, TotalsApart
<1> QED
  BY <1>2, <1>10, <1>11, <1>12 DEF PeriodCoversChart, R, D

(* What the fund pages and the app draw on any day is the fund             *)
(* (fund_series_from_entries, fund_month_calendar_from_entries,            *)
(* fund_period_flows), for every calendar, range and history of rows.      *)
THEOREM ReportsCorrect == FundSpec => []ReportsAgree
<1>1. FundInit => FundInv
  BY FundStarts
<1>2. FundInv /\ [FundNext]_reportVars => FundInv'
  BY FundNextKeeps
<1>3. FundInv => ReportsAgree
  BY ChartsClose, PointsBalance, CalendarsAgree, Shades, WeekCells, PeriodCovers
     DEF ReportsAgree, FundInv
<1> QED
  BY <1>1, <1>2, <1>3, PTL DEF FundSpec

(* The same among the other parts of the money side. *)
THEOREM FundReportsCorrect == MoneySpec => []FundReportsAgree
<1>1. MoneyInit => FundInv
  BY FundStarts DEF MoneyInit
<1>2. FundInv /\ [MoneyNext]_<<part, vars, priceVars, reportVars>> => FundInv'
  BY FundNextKeeps DEF MoneyNext
<1>3. FundInv => FundReportsAgree
  BY ChartsClose, PointsBalance, CalendarsAgree, Shades, WeekCells, PeriodCovers
     DEF ReportsAgree, FundReportsAgree, FundInv
<1> QED
  BY <1>1, <1>2, <1>3, PTL DEF MoneySpec
=============================================================================
