-------------------------- MODULE EvidenceRegistry --------------------------
(***************************************************************************)
(* The EvidenceRegistry contract (chain/src/EvidenceRegistry.sol) and the  *)
(* part of the managed Besu network that the outbox worker observes:       *)
(* transactions that were sent but not mined yet, and the receipt a worker *)
(* polls for.                                                              *)
(*                                                                         *)
(* The signed identity of an event (payload hash, previous hash, type,     *)
(* signer) is one value of Identities: the code only compares identities   *)
(* for equality.  There is one platform signer, so authorizedSigners is    *)
(* one Boolean.                                                            *)
(***************************************************************************)
CONSTANTS
    EventIds,    \* bytes32 identifiers of evidence events
    Identities,  \* signed identities an event can carry
    NoIdentity,  \* recordedAt = 0: nothing is recorded
    Workers,     \* outbox worker processes
    NoWorker     \* nobody polls for the receipt any more

ASSUME NoIdentityAssumption == NoIdentity \notin Identities
ASSUME NoWorkerAssumption == NoWorker \notin Workers

VARIABLES
    records,     \* mapping(bytes32 => Record)
    authorized,  \* authorizedSigners[platform signer]
    mempool,     \* transactions sent by the relayer and not mined yet
    receipt      \* receipt status a polling worker would be given

registryVars == <<records, authorized, mempool, receipt>>

Transaction == [event : EventIds, identity : Identities,
                by : Workers \cup {NoWorker}]

ReceiptStatus == {"none", "success", "reverted"}

RegistryTypeOK ==
    /\ records \in [EventIds -> Identities \cup {NoIdentity}]
    /\ authorized \in BOOLEAN
    /\ mempool \subseteq Transaction
    /\ receipt \in [Workers -> ReceiptStatus]

RegistryInit ==
    /\ records = [e \in EventIds |-> NoIdentity]
    /\ authorized = TRUE
    /\ mempool = {}
    /\ receipt = [w \in Workers |-> "none"]

-----------------------------------------------------------------------------
(* Mutated form: the duplicate check of recordEvidence is missing. *)
AcceptsOverwrite(tx) == authorized

(* The require clauses of recordEvidence that can fail for a row of the    *)
(* outbox: the zero, type and signature checks hold for every row          *)
(* queue_platform_event has validated and signed.                          *)
RecordEvidenceAccepts(tx) ==
    /\ records[tx.event] = NoIdentity
    /\ authorized

(* A block that includes tx: the call succeeds and writes the record, or   *)
(* reverts and writes nothing; whoever polls for the receipt sees which.   *)
Mine(tx) ==
    LET ok == RecordEvidenceAccepts(tx)
    IN  /\ tx \in mempool
        /\ mempool' = mempool \ {tx}
        /\ records' = IF ok THEN [records EXCEPT ![tx.event] = tx.identity]
                            ELSE records
        /\ receipt' = IF tx.by = NoWorker THEN receipt
                      ELSE [receipt EXCEPT ![tx.by] =
                                IF ok THEN "success" ELSE "reverted"]
        /\ UNCHANGED authorized

(* setAuthorizedSigner by the contract owner. *)
SetAuthorizedSigner(enabled) ==
    /\ authorized # enabled
    /\ authorized' = enabled
    /\ UNCHANGED <<records, mempool, receipt>>

(* The transaction pool of a Besu node is not durable. *)
DropPending(tx) ==
    /\ tx \in mempool
    /\ mempool' = mempool \ {tx}
    /\ UNCHANGED <<records, authorized, receipt>>

(* Nobody waits for the transactions of the workers in gone any more; the  *)
(* transactions themselves stay in the pool.                               *)
Abandoned(gone) ==
    {IF tx.by \in gone THEN [tx EXCEPT !.by = NoWorker] ELSE tx : tx \in mempool}

-----------------------------------------------------------------------------
(* A record, once written, is never overwritten or removed: what a reader  *)
(* verified once stays verifiable.                                         *)
RecordsWriteOnce ==
    [][\A e \in EventIds :
          records[e] # NoIdentity => records'[e] = records[e]]_registryVars
=============================================================================
