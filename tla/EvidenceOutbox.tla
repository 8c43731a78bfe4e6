--------------------------- MODULE EvidenceOutbox ---------------------------
(***************************************************************************)
(* The evidence outbox: queue_platform_event inserts a signed row, worker  *)
(* replicas claim due rows under a lease, look the event up on the chain,  *)
(* send it when it is not there, and write the outcome back in a           *)
(* transaction of its own (lamto/evidence/{services,worker,chain}.py).     *)
(*                                                                         *)
(* A worker runs between transactions on what it read before: every read   *)
(* (claim, find, receipt) and every write-back is a step.                  *)
(*                                                                         *)
(* Time is abstracted to one Boolean per row: ready[e] says that the timer *)
(* that governs the row has run out, next_attempt_at for a PENDING row and *)
(* lease_expires_at for a SUBMITTED one.                                   *)
(***************************************************************************)
EXTENDS EvidenceRegistry

CONSTANTS
    AllowOverrun,  \* may a worker still be at work when its lease expires?
    AllowRestore   \* may the database be restored from a backup?

ASSUME OverrunAssumption == AllowOverrun \in BOOLEAN
ASSUME RestoreAssumption == AllowRestore \in BOOLEAN

VARIABLES
    status,   \* BlockchainOutboxEvent.status, "NONE" when not queued
    ident,    \* the signed identity columns of the row
    ready,    \* the row's timer has run out
    backup,   \* the rows as the last backup holds them
    backend,  \* EVIDENCE_ANCHORING_BACKEND of the running processes
    pc,       \* where each worker is in _process_claimed_event
    job,      \* the row it claimed
    seen,     \* the record client.find returned to it
    stable    \* no more faults and no more operator actions

rowVars == <<status, ident, ready>>
workerVars == <<pc, job, seen>>
envVars == <<backup, backend, stable>>
vars == <<registryVars, rowVars, workerVars, envVars>>

Status == {"NONE", "PENDING", "SUBMITTED", "CONFIRMED", "LOCAL", "MISMATCH"}
Open == {"PENDING", "SUBMITTED"}
Decided == {"CONFIRMED", "LOCAL", "MISMATCH"}
PC == {"idle", "claimed", "found", "submit", "wait", "failed"}

MaybeIdentity == Identities \cup {NoIdentity}

TypeOK ==
    /\ RegistryTypeOK
    /\ status \in [EventIds -> Status]
    /\ ident \in [EventIds -> MaybeIdentity]
    /\ ready \in [EventIds -> BOOLEAN]
    /\ backup \in [status : [EventIds -> Status],
                   ident : [EventIds -> MaybeIdentity]]
    /\ backend \in {"besu", "disabled"}
    /\ pc \in [Workers -> PC]
    /\ job \in [Workers -> EventIds]
    /\ seen \in [Workers -> MaybeIdentity]
    /\ stable \in BOOLEAN

Init ==
    /\ RegistryInit
    /\ status = [e \in EventIds |-> "NONE"]
    /\ ident = [e \in EventIds |-> NoIdentity]
    /\ ready = [e \in EventIds |-> FALSE]
    /\ backup = [status |-> status, ident |-> ident]
    /\ backend \in {"besu", "disabled"}
    /\ pc = [w \in Workers |-> "idle"]
    /\ job \in [Workers -> EventIds]
    /\ seen = [w \in Workers |-> NoIdentity]
    /\ stable = FALSE

-----------------------------------------------------------------------------
(* Queueing.                                                               *)

(* queue_platform_event: the insert.  An event that exists with the same   *)
(* identity is returned as it is, one with another identity is refused     *)
(* (EvidenceConflict): both leave the row alone.                           *)
QueuePlatformEvent(e, i) ==
    /\ status[e] = "NONE"
    /\ status' = [status EXCEPT ![e] = "PENDING"]
    /\ ident' = [ident EXCEPT ![e] = i]
    /\ ready' = [ready EXCEPT ![e] = TRUE]
    /\ UNCHANGED <<registryVars, workerVars, envVars>>

-----------------------------------------------------------------------------
(* Steps of a worker.                                                      *)

Goto(w, label) == pc' = [pc EXCEPT ![w] = label]

(* What every write-back does to the row: it locks it again, but reads     *)
(* neither its status nor its lease, and starts the next timer.            *)
Write(e, newStatus) ==
    /\ status' = [status EXCEPT ![e] = newStatus]
    /\ ready' = [ready EXCEPT ![e] = FALSE]
    /\ UNCHANGED ident

(* Mutated form: a SUBMITTED row is claimed whether its lease runs or not. *)
DueIgnoringLease(e) ==
    \/ status[e] = "SUBMITTED"
    \/ status[e] = "PENDING" /\ ready[e]

(* Mutated form: nobody takes over a row whose lease has expired. *)
DuePendingOnly(e) == status[e] = "PENDING" /\ ready[e]

(* The filter both claim queries share. *)
Due(e) == status[e] \in Open /\ ready[e]

(* _claim_outbox_event takes the row it is asked for,                      *)
(* claim_next_due_outbox_event the oldest one that is due.                 *)
Claim(w, e) ==
    /\ pc[w] = "idle"
    /\ Due(e)
    /\ Write(e, "SUBMITTED")
    /\ Goto(w, "claimed")
    /\ job' = [job EXCEPT ![w] = e]
    /\ UNCHANGED <<registryVars, seen, envVars>>

(* Anchoring disabled: _mark_local, and no chain client is constructed. *)
MarkLocal(w) ==
    /\ pc[w] = "claimed"
    /\ backend = "disabled"
    /\ Write(job[w], "LOCAL")
    /\ Goto(w, "idle")
    /\ UNCHANGED <<registryVars, job, seen, envVars>>

(* client.find returns. *)
FindRecord(w) ==
    LET record == records[job[w]]
    IN  /\ pc[w] = "claimed"
        /\ backend = "besu"
        /\ seen' = [seen EXCEPT ![w] = record]
        /\ Goto(w, IF record = NoIdentity THEN "submit" ELSE "found")
        /\ UNCHANGED <<registryVars, rowVars, job, envVars>>

(* client.find raises. *)
FindFails(w) ==
    /\ ~stable
    /\ pc[w] = "claimed"
    /\ backend = "besu"
    /\ Goto(w, "failed")
    /\ UNCHANGED <<registryVars, rowVars, job, seen, envVars>>

(* Mutated form: any record under the event id is taken for ours. *)
RecordExists(record, e) == record # NoIdentity

(* Mutated form: hashes are compared without _normalize_payload_hash, so   *)
(* that the "0x" the chain client adds never compares equal.               *)
RecordMatchesUnnormalized(record, e) == FALSE

(* _record_matches_event, on the row locked again. *)
RecordMatchesEvent(record, e) == record = ident[e]

(* The transaction after a record was found: _mark_confirmed or            *)
(* _mark_mismatch.                                                         *)
MarkFound(w) ==
    /\ pc[w] = "found"
    /\ Write(job[w], IF RecordMatchesEvent(seen[w], job[w])
                     THEN "CONFIRMED" ELSE "MISMATCH")
    /\ Goto(w, "idle")
    /\ UNCHANGED <<registryVars, job, seen, envVars>>

TransactionOf(w, by) ==
    [event |-> job[w], identity |-> ident[job[w]], by |-> by]

(* client.submit: the node takes the transaction and the worker starts to  *)
(* poll for its receipt.  transaction_hash, which is written here, is      *)
(* never read back by the worker and is left out.                          *)
SendTransaction(w) ==
    /\ pc[w] = "submit"
    /\ mempool' = mempool \cup {TransactionOf(w, w)}
    /\ receipt' = [receipt EXCEPT ![w] = "none"]
    /\ Goto(w, "wait")
    /\ UNCHANGED <<records, authorized, rowVars, job, seen, envVars>>

(* client.submit raises while it sends; the node may have taken the        *)
(* transaction all the same.                                               *)
SendFails(w) ==
    /\ ~stable
    /\ pc[w] = "submit"
    /\ mempool' \in {mempool, mempool \cup {TransactionOf(w, NoWorker)}}
    /\ Goto(w, "failed")
    /\ UNCHANGED <<records, authorized, receipt, rowVars, job, seen, envVars>>

(* _wait_for_receipt gives up: the transaction was dropped, or is mined    *)
(* too late for this worker and stays in the pool.                         *)
ReceiptTimeout(w) ==
    /\ pc[w] = "wait"
    /\ receipt[w] = "none"
    /\ stable => TransactionOf(w, w) \notin mempool
    /\ mempool' = Abandoned({w})
    /\ Goto(w, "failed")
    /\ UNCHANGED <<records, authorized, receipt, rowVars, job, seen, envVars>>

(* Mutated form: a mined transaction counts as a success. *)
Mined(w) == receipt[w] # "none"

(* The receipt carries status 1. *)
ReceiptSucceeded(w) == receipt[w] = "success"

(* The transaction after a successful receipt: _mark_confirmed. *)
MarkSubmitted(w) ==
    /\ pc[w] = "wait"
    /\ ReceiptSucceeded(w)
    /\ Write(job[w], "CONFIRMED")
    /\ Goto(w, "idle")
    /\ UNCHANGED <<registryVars, job, seen, envVars>>

(* submit raises ChainSubmissionError for a receipt with another status. *)
ReceiptReverted(w) ==
    /\ pc[w] = "wait"
    /\ receipt[w] = "reverted"
    /\ Goto(w, "failed")
    /\ UNCHANGED <<registryVars, rowVars, job, seen, envVars>>

(* Mutated form: a failed attempt is final (Status.FAILED). *)
MarkFailed(w) ==
    /\ pc[w] = "failed"
    /\ Write(job[w], "FAILED")
    /\ Goto(w, "idle")
    /\ UNCHANGED <<registryVars, job, seen, envVars>>

(* _mark_retry: PENDING again, due once the back-off has passed. *)
MarkRetry(w) ==
    /\ pc[w] = "failed"
    /\ Write(job[w], "PENDING")
    /\ Goto(w, "idle")
    /\ UNCHANGED <<registryVars, job, seen, envVars>>

(* process_outbox_event on a CONFIRMED row looks the record up again and   *)
(* turns the row into a MISMATCH if it differs; an unreachable chain, or   *)
(* no record, changes nothing.                                             *)
Recheck(e) ==
    /\ status[e] = "CONFIRMED"
    /\ backend = "besu"
    /\ records[e] # NoIdentity
    /\ status' = IF RecordMatchesEvent(records[e], e) THEN status
                 ELSE [status EXCEPT ![e] = "MISMATCH"]
    /\ UNCHANGED <<registryVars, ident, ready, workerVars, envVars>>

-----------------------------------------------------------------------------
(* Time, faults and operators.                                             *)

Working(e) == {w \in Workers : pc[w] # "idle" /\ job[w] = e}

(* The back-off of a PENDING row or the lease of a SUBMITTED one runs out. *)
(* A lease can run out under a worker that is still at work: the calls it  *)
(* makes meanwhile, pg_advisory_lock among them, have no common deadline.  *)
TimerFires(e) ==
    /\ status[e] \in Open /\ ~ready[e]
    /\ \/ status[e] = "PENDING"
       \/ Working(e) = {}
       \/ AllowOverrun /\ ~stable
    /\ ready' = [ready EXCEPT ![e] = TRUE]
    /\ UNCHANGED <<registryVars, status, ident, workerVars, envVars>>

(* What is left of the workers in gone when their processes end. *)
Stop(gone) ==
    /\ pc' = [w \in Workers |-> IF w \in gone THEN "idle" ELSE pc[w]]
    /\ mempool' = Abandoned(gone)
    /\ UNCHANGED <<records, authorized, receipt, job, seen>>

(* A worker process dies at any point and is started again. *)
Crash(w) ==
    /\ ~stable
    /\ pc[w] # "idle"
    /\ Stop({w})
    /\ UNCHANGED <<rowVars, envVars>>

(* The anchoring mode switch of the runbook: change the environment value, *)
(* restart web and worker.                                                 *)
SwitchBackend ==
    /\ ~stable
    /\ backend' = IF backend = "besu" THEN "disabled" ELSE "besu"
    /\ Stop(Workers)
    /\ UNCHANGED <<rowVars, backup, stable>>

TakeBackup ==
    /\ AllowRestore /\ ~stable
    /\ backup' = [status |-> status, ident |-> ident]
    /\ UNCHANGED <<registryVars, rowVars, workerVars, backend, stable>>

(* The database goes back to the backup, with web and worker stopped; the  *)
(* chain does not.                                                         *)
RestoreBackup ==
    /\ AllowRestore /\ ~stable
    /\ status' = backup.status
    /\ ident' = backup.ident
    /\ ready' = [e \in EventIds |-> TRUE]
    /\ Stop(Workers)
    /\ UNCHANGED envVars

(* The faults and the operator's actions come to an end. *)
Stabilise ==
    /\ ~stable
    /\ stable' = TRUE
    /\ UNCHANGED <<registryVars, rowVars, workerVars, backup, backend>>

(* A step of the chain alone. *)
ChainStep ==
    /\ \/ \E tx \in mempool : Mine(tx)
       \/ \E tx \in mempool : ~stable /\ DropPending(tx)
       \/ SetAuthorizedSigner(TRUE)
       \/ ~stable /\ SetAuthorizedSigner(FALSE)
    /\ UNCHANGED <<rowVars, workerVars, envVars>>

WorkerProgress(w) ==
    \/ \E e \in EventIds : Claim(w, e)
    \/ MarkLocal(w) \/ FindRecord(w) \/ MarkFound(w)
    \/ SendTransaction(w) \/ MarkSubmitted(w)
    \/ ReceiptReverted(w) \/ ReceiptTimeout(w) \/ MarkRetry(w)

WorkerFault(w) == FindFails(w) \/ SendFails(w) \/ Crash(w)

Next ==
    \/ \E e \in EventIds, i \in Identities : QueuePlatformEvent(e, i)
    \/ \E w \in Workers : WorkerProgress(w) \/ WorkerFault(w)
    \/ \E e \in EventIds : Recheck(e) \/ TimerFires(e)
    \/ ChainStep
    \/ SwitchBackend \/ TakeBackup \/ RestoreBackup \/ Stabilise

Spec == Init /\ [][Next]_vars

(* The worker loop keeps running, clocks advance, blocks are produced, and *)
(* an operator authorizes the platform signer; the faults end one day.     *)
Fairness ==
    /\ \A w \in Workers : WF_vars(WorkerProgress(w))
    /\ \A e \in EventIds : WF_vars(TimerFires(e))
    /\ WF_vars(\E tx \in mempool : Mine(tx) /\ UNCHANGED <<rowVars, workerVars, envVars>>)
    /\ WF_vars(SetAuthorizedSigner(TRUE) /\ UNCHANGED <<rowVars, workerVars, envVars>>)
    /\ WF_vars(Stabilise)

FairSpec == Spec /\ Fairness

-----------------------------------------------------------------------------
(* Properties.                                                             *)

(* A verdict is true of the chain, whichever worker gave it, after however *)
(* many retries, late transactions, crashes and restores: CONFIRMED is     *)
(* backed by a record of exactly the identity that was signed, and behind  *)
(* MISMATCH there is a record that really differs (_mark_confirmed,        *)
(* _mark_mismatch).                                                        *)
VerdictsAreTrue ==
    \A e \in EventIds :
        /\ status[e] = "CONFIRMED" => records[e] = ident[e]
        /\ status[e] = "MISMATCH" => records[e] \notin {NoIdentity, ident[e]}

(* Retries, duplicate transactions and late blocks alone never make an     *)
(* event disagree with the chain.                                          *)
NoFalseAlarm ==
    \A e \in EventIds : /\ status[e] # "MISMATCH"
                        /\ records[e] \in {NoIdentity, ident[e]}

(* At most one worker is at work on a row: the lease the claim takes       *)
(* excludes the others for as long as it covers the work.                  *)
LeaseExcludes ==
    \A v, w \in Workers :
        pc[v] # "idle" /\ pc[w] # "idle" /\ job[v] = job[w] => v = w

(* An event keeps the status it settled with (ops/pilot-runbook.md,        *)
(* "Anchoring mode switch").                                               *)
SettledIsFinal ==
    [][\A e \in EventIds : status[e] \in Decided => status'[e] = status[e]]_vars

(* No evidence is lost: once the faults are over, every event that was     *)
(* queued reaches a verdict and keeps it, also one a crashed worker held,  *)
(* one whose transaction was dropped, and one a late worker set back to    *)
(* PENDING.                                                                *)
EveryEventSettles ==
    <>[](\A e \in EventIds : status[e] \in Decided \cup {"NONE"})

(* The outbox implements EvidenceAnchoring: leases, retries and duplicate  *)
(* transactions are invisible from outside.                                *)
Verdict(s) == CASE s = "CONFIRMED" -> "confirmed"
                [] s = "MISMATCH" -> "mismatch"
                [] s = "LOCAL" -> "local"
                [] OTHER -> "open"

Anchoring == INSTANCE EvidenceAnchoring WITH
    identity <- ident,
    record <- records,
    verdict <- [e \in EventIds |-> Verdict(status[e])]

AnchoringSpec == Anchoring!Spec
=============================================================================
