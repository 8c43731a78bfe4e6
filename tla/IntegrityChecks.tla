---------------------------- MODULE IntegrityChecks ----------------------------
(***************************************************************************)
(* Verification of published ledger entries against their documents, their *)
(* published rows and the chain; the worker that runs it, the command that *)
(* runs it, and the public explorer that reads the same evidence live.     *)
(*                                                                         *)
(* Bytes and hashes are abstracted to how they compare: a document is      *)
(* intact, altered or gone; the rows of an event still hash to its stored  *)
(* hash or not; the chain holds no record, the same hash or another one.   *)
(***************************************************************************)
EXTENDS Integers, Sequences, FiniteSets, FiniteSetsExt

CONSTANTS Entries,      \* published ledger entries, in the order of publication (1..N)
          Docs,         \* documents of an entry, in the order they are read (1..N)
          EntryEvents,  \* outbox events of an entry: its proposal versions, its settlement
          Anchoring,    \* EVIDENCE_ANCHORING_BACKEND: "besu" or "disabled"
          Broken,       \* entries whose verification raises (a row it needs is missing)
          VerifyLimit,  \* entries one worker pass takes (20)
          MaxObs,       \* bound on observations
          MaxChanges    \* bound on changes made behind the program's back

ASSUME OrderAssumption ==
    Entries \subseteq Nat /\ IsFiniteSet(Docs) /\ Docs = 1 .. Cardinality(Docs)
ASSUME IntegrityLimitAssumption ==
    VerifyLimit \in Nat \ {0} /\ MaxChanges \in Nat
ASSUME AnchoringAssumption == Anchoring \in {"besu", "disabled"}

VARIABLES published,     \* entries published so far
          doc,           \* stored documents
          rowsHash,      \* do the published rows hash to the stored hash?
          anchorStatus,  \* outbox status of each event
          chain,         \* the chain's record of each event
          anchored,      \* events whose own hash was once recorded on the chain
          obs,           \* verification observations, oldest first
          named,         \* documents that a loaded page has named, with their entry
          changesMade
integrityVars == <<published, doc, rowsHash, anchorStatus, chain, anchored, obs, named, changesMade>>

Settled == {"LOCAL", "CONFIRMED"}

IntegrityInit == /\ published = {}
                 /\ doc = [e \in Entries |-> [d \in Docs |-> "intact"]]
                 /\ rowsHash = [e \in Entries |-> [v \in EntryEvents |-> TRUE]]
                 /\ anchorStatus = [e \in Entries |-> [v \in EntryEvents |-> "PENDING"]]
                 /\ chain = [e \in Entries |-> [v \in EntryEvents |-> "none"]]
                 /\ anchored = {}
                 /\ obs = <<>> /\ named = {}
                 /\ changesMade = 0

-----------------------------------------------------------------------------
(* verify_published_entry *)

(* The documents are read in order and each failure overwrites the result, *)
(* so that the last one that fails decides.                                *)
DocResult(e) ==
    IF \A d \in Docs : doc[e][d] = "intact" THEN "VERIFIED"
    ELSE IF \E d \in Docs : doc[e][d] = "altered" /\ \A f \in Docs : f > d => doc[e][f] = "intact"
         THEN "MISMATCH"
         ELSE "UNAVAILABLE"

(* _check_local_records. *)
LocalOk(e) == \A v \in EntryEvents : rowsHash[e][v]

(* The events the chain is asked about; LOCAL ones are skipped. *)
ChainEvents(e) ==
    IF Anchoring = "disabled" THEN {} ELSE {v \in EntryEvents : anchorStatus[e][v] # "LOCAL"}

(* _check_chain_records, when the chain answers for the events in answered. *)
ChainResult(e, answered) ==
    IF \E v \in answered : chain[e][v] = "other" THEN "MISMATCH"
    ELSE IF ChainEvents(e) = {} \/ \E v \in ChainEvents(e) : v \notin answered \/ chain[e][v] = "none"
         THEN "UNAVAILABLE"
         ELSE "VERIFIED"

(* The chain itself answered, with a record, for every event. *)
Consulted(e, answered) ==
    /\ Anchoring = "besu"
    /\ EntryEvents # {}
    /\ \A v \in EntryEvents : anchorStatus[e][v] # "LOCAL" /\ v \in answered /\ chain[e][v] # "none"

(* Mutated form: an unreachable chain ends the verification before the rows. *)
ResultChainFirst(e, answered) ==
    IF DocResult(e) # "VERIFIED" THEN DocResult(e)
    ELSE IF ChainResult(e, answered) = "UNAVAILABLE" /\ \A v \in EntryEvents : anchorStatus[e][v] \in Settled
         THEN "VERIFIED"
    ELSE IF ~LocalOk(e) \/ ChainResult(e, answered) = "MISMATCH" THEN "MISMATCH"
    ELSE ChainResult(e, answered)

(* The order of the tests in verify_published_entry. *)
Result(e, answered) ==
    IF DocResult(e) # "VERIFIED" THEN DocResult(e)
    ELSE IF ~LocalOk(e) \/ ChainResult(e, answered) = "MISMATCH" THEN "MISMATCH"
    ELSE IF ChainResult(e, answered) = "VERIFIED" \/ \A v \in EntryEvents : anchorStatus[e][v] \in Settled
         THEN "VERIFIED"
         ELSE "UNAVAILABLE"

(* What was true of e when it was verified, kept with the observation. *)
Truth(e, answered) ==
    [altered |-> \/ \E d \in Docs : doc[e][d] = "altered"
                 \/ ~LocalOk(e)
                 \/ \E v \in answered : chain[e][v] = "other",
     unread |-> \E d \in Docs : doc[e][d] = "gone",
     onChain |-> \A v \in EntryEvents : v \in answered /\ chain[e][v] # "none",
     backed |-> \A v \in EntryEvents : \/ v \in answered /\ chain[e][v] = "same"
                                       \/ anchorStatus[e][v] \in Settled]

(* One verification: the observation, and with a mismatch its audit record *)
(* and notification, in one transaction.                                   *)
Verify(e) ==
    /\ e \in published \ Broken
    /\ Len(obs) < MaxObs
    /\ \E answered \in SUBSET ChainEvents(e) :
          obs' = Append(obs, [entry |-> e, result |-> Result(e, answered),
                              consulted |-> Consulted(e, answered),
                              truth |-> Truth(e, answered)])
    /\ UNCHANGED <<published, doc, rowsHash, anchorStatus, chain, anchored, named, changesMade>>

Observations(e) == {i \in DOMAIN obs : obs[i].entry = e}
Latest(e) == IF Observations(e) = {} THEN "UNCHECKED" ELSE obs[Max(Observations(e))].result

(* process_integrity_batch: the entries without an observation, oldest first. *)
PendingBatch ==
    LET unseen == {e \in published : Observations(e) = {}}
    IN  {e \in unseen : Cardinality({f \in unseen : f < e}) < VerifyLimit}

(* An entry whose verification raises is logged and left. *)
WorkerVerify(e) == e \in PendingBatch /\ Verify(e)

(* verify_integrity --all or --entry-id. *)
CommandVerify(e) == Verify(e)

-----------------------------------------------------------------------------
(* The world around it: publication, anchoring, and changes to what is stored. *)

Publish(e) ==
    /\ e \notin published /\ \A f \in Entries : f < e => f \in published
    /\ published' = published \cup {e}
    /\ UNCHANGED <<doc, rowsHash, anchorStatus, chain, anchored, obs, named, changesMade>>

(* A transaction of the outbox is mined while its event is open: the chain *)
(* holds its hash, or another one that came first under its identity.      *)
Record(e, v) ==
    /\ anchorStatus[e][v] = "PENDING" /\ chain[e][v] = "none"
    /\ \E k \in {"same", "other"} :
          /\ chain' = [chain EXCEPT ![e][v] = k]
          /\ anchored' = IF k = "same" THEN anchored \cup {<<e, v>>} ELSE anchored
    /\ UNCHANGED <<published, doc, rowsHash, anchorStatus, obs, named, changesMade>>

(* The outbox settles an event by what it finds on the chain, or locally   *)
(* while anchoring is off (modelled in full in EvidenceOutbox).            *)
Anchor(e, v) ==
    /\ anchorStatus[e][v] = "PENDING"
    /\ \E s \in {"LOCAL", "CONFIRMED", "MISMATCH"} :
          /\ s = "CONFIRMED" => chain[e][v] = "same"
          /\ s = "MISMATCH" => chain[e][v] = "other"
          /\ anchorStatus' = [anchorStatus EXCEPT ![e][v] = s]
    /\ UNCHANGED <<published, doc, rowsHash, chain, anchored, obs, named, changesMade>>

ChangedBehind == changesMade < MaxChanges /\ changesMade' = changesMade + 1

Damage(e) ==
    /\ ChangedBehind
    /\ \/ \E d \in Docs, s \in {"intact", "altered", "gone"} :
             doc' = [doc EXCEPT ![e][d] = s] /\ UNCHANGED <<rowsHash, chain>>
       \/ \E v \in EntryEvents : rowsHash' = [rowsHash EXCEPT ![e][v] = ~@] /\ UNCHANGED <<doc, chain>>
       \/ \E v \in EntryEvents : chain' = [chain EXCEPT ![e][v] = "none"] /\ UNCHANGED <<doc, rowsHash>>
    /\ UNCHANGED <<published, anchorStatus, anchored, obs, named>>

-----------------------------------------------------------------------------
(* The public explorer *)

(* evidence_level of the stored status. *)
StoredLevel(s) == CASE s = "LOCAL" -> "LOCAL_SIGNED" [] s = "CONFIRMED" -> "CHAIN_CONFIRMED"
                    [] s = "MISMATCH" -> "MISMATCH" [] OTHER -> "PENDING"

(* _read_chain_step: the level shown for an event when the chain answers, or not. *)
StepLevel(e, v, answers) ==
    IF ~rowsHash[e][v] THEN "MISMATCH"
    ELSE IF Anchoring = "disabled" \/ anchorStatus[e][v] = "LOCAL" THEN "LOCAL_SIGNED"
    ELSE IF anchorStatus[e][v] = "MISMATCH" THEN "MISMATCH"
    ELSE IF ~answers \/ chain[e][v] = "none" THEN StoredLevel(anchorStatus[e][v])
    ELSE IF chain[e][v] = "other" THEN "MISMATCH"
    ELSE "CHAIN_CONFIRMED"

(* Is the page's note on an unreachable chain shown for this event? *)
Unreachable(e, v, answers) ==
    /\ rowsHash[e][v] /\ Anchoring = "besu" /\ anchorStatus[e][v] \notin {"LOCAL", "MISMATCH"}
    /\ ~answers

(* The last document of an entry is its transfer proof, the others are quotations. *)
Quotations == {d \in Docs : d < Cardinality(Docs)}
Transfer == Docs \ Quotations
SettlementSettled(e) == \A v \in EntryEvents : v = "settlement" => anchorStatus[e][v] \in Settled

(* explorer_page: the level of each step, the documents named and what the latest *)
(* observation says.                                                              *)
Page(e, answers) ==
    [levels |-> [v \in EntryEvents |-> StepLevel(e, v, answers)],
     note |-> \E v \in EntryEvents : Unreachable(e, v, answers),
     names |-> Quotations \cup (IF SettlementSettled(e) THEN Transfer ELSE {}),
     integrity |-> Latest(e)]

(* A reader loads the page, and may follow its links later. *)
ViewPage(e) ==
    /\ e \in published
    /\ \E answers \in BOOLEAN : named' = named \cup ({e} \X Page(e, answers).names)
    /\ UNCHANGED <<published, doc, rowsHash, anchorStatus, chain, anchored, obs, changesMade>>

(* _explorer_document: what the download route finds by its hash. *)
Resolved(e) == {d \in Docs : d \in Quotations \/ SettlementSettled(e)}

(* document_download: the bytes are served when they still have that hash. *)
Serves(e) == {d \in Resolved(e) : doc[e][d] = "intact"}

-----------------------------------------------------------------------------
Worker == \E e \in Entries : WorkerVerify(e)
Command == \E e \in Entries : CommandVerify(e)
World == \E e \in Entries : \/ Publish(e) \/ Damage(e)
                            \/ \E v \in EntryEvents : Record(e, v) \/ Anchor(e, v)

Reader == \E e \in Entries : ViewPage(e)

IntegrityNext == Worker \/ Command \/ World \/ Reader
IntegritySpec == IntegrityInit /\ [][IntegrityNext]_integrityVars

-----------------------------------------------------------------------------
Results == {"VERIFIED", "MISMATCH", "UNAVAILABLE"}

(* The type of the state. *)
IntegrityTypeOK ==
    /\ published \subseteq Entries
    /\ doc \in [Entries -> [Docs -> {"intact", "altered", "gone"}]]
    /\ rowsHash \in [Entries -> [EntryEvents -> BOOLEAN]]
    /\ anchorStatus \in [Entries -> [EntryEvents -> {"PENDING", "LOCAL", "CONFIRMED", "MISMATCH"}]]
    /\ chain \in [Entries -> [EntryEvents -> {"none", "same", "other"}]]
    /\ anchored \subseteq Entries \X EntryEvents
    /\ named \subseteq Entries \X Docs
    /\ changesMade \in 0 .. MaxChanges
    /\ \A i \in DOMAIN obs : obs[i].entry \in published \ Broken /\ obs[i].result \in Results

(* VERIFIED is earned: everything was read, nothing that was read was      *)
(* altered, and each event was on the chain with its hash or durably       *)
(* settled, whatever the chain left unsaid (verify_published_entry).       *)
VerifiedIsEarned ==
    \A i \in DOMAIN obs : obs[i].result = "VERIFIED" =>
        ~obs[i].truth.altered /\ ~obs[i].truth.unread /\ obs[i].truth.backed

(* MISMATCH, which sounds an alarm under the publisher's name, is the      *)
(* effect of an alteration, never of a missing file, a missing record or a *)
(* silent chain; and an alteration that was read raises it, unless some    *)
(* document could not be read (verify_published_entry).                    *)
AlarmIsReal ==
    \A i \in DOMAIN obs : /\ obs[i].result = "MISMATCH" => obs[i].truth.altered
                          /\ obs[i].truth.altered => obs[i].result = "MISMATCH" \/ obs[i].truth.unread

(* An observation is presented as independent only when the chain itself   *)
(* answered for every event of the entry (chain_consulted).                *)
ConsultedIsEarned ==
    \A i \in DOMAIN obs : obs[i].consulted => obs[i].truth.onChain

(* The public page and a verification made at the same moment, two readers *)
(* of the same evidence, do not contradict each other: what would be       *)
(* VERIFIED shows no step as pending or altered, and what would be a       *)
(* MISMATCH for another reason than a document shows such a step           *)
(* (_read_chain_step, verify_published_entry).                             *)
PageAgrees ==
    \A e \in published :
        LET now == Result(e, ChainEvents(e))
            shown == {StepLevel(e, v, TRUE) : v \in EntryEvents}
        IN  /\ now = "VERIFIED" => shown \subseteq {"LOCAL_SIGNED", "CHAIN_CONFIRMED"}
            /\ now = "MISMATCH" => DocResult(e) = "MISMATCH" \/ "MISMATCH" \in shown

(* A step the page shows as confirmed by the chain has rows that hash to   *)
(* the stored hash, and that hash was on the chain once.  It may be gone:  *)
(* the level is then the stored one (_read_chain_step).                    *)
ConfirmedWasAnchored ==
    \A e \in published, v \in EntryEvents, answers \in BOOLEAN :
        StepLevel(e, v, answers) = "CHAIN_CONFIRMED" => rowsHash[e][v] /\ <<e, v>> \in anchored

(* A document that a page has named can be opened from then on, however    *)
(* long the page stays open, unless its bytes are gone or altered, which   *)
(* are never served; the transfer proof is not named before its settlement *)
(* has settled (_explorer_document, document_download).                    *)
NamedIsServed ==
    \A e \in published, d \in Docs :
        <<e, d>> \in named => (doc[e][d] = "intact" <=> d \in Serves(e))

(* What an observation says was true when it was made, whichever document, *)
(* row, record or answer was missing or altered; and the public page says  *)
(* nothing else, a confirmed step standing for a hash that was on the      *)
(* chain and not for one that still is, and a document it has named being  *)
(* there to open (verify_published_entry, _read_chain_step,                *)
(* document_download).                                                     *)
ObservationsEarned ==
    /\ IntegrityTypeOK
    /\ VerifiedIsEarned /\ AlarmIsReal /\ ConsultedIsEarned
    /\ PageAgrees /\ ConfirmedWasAnchored /\ NamedIsServed

(* Every published entry is verified in the end, although the verification *)
(* of another one raises every time (process_integrity_batch).             *)
EveryEntryObserved == \A e \in Entries \ Broken : <>(Latest(e) # "UNCHECKED")
=============================================================================
