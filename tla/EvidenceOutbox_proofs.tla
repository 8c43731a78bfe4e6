------------------------ MODULE EvidenceOutbox_proofs ------------------------
(***************************************************************************)
(* Proofs about EvidenceOutbox, for any sets of events, identities and     *)
(* workers, with lease overruns and restores or without.                   *)
(***************************************************************************)
EXTENDS EvidenceOutbox, TLAPS

(* What the rows of a database claim about the chain is true.  A backup    *)
(* must satisfy it too: records are only ever added after it was taken.    *)
RowsTrue(st, id) ==
    \A e \in EventIds :
        /\ st[e] = "CONFIRMED" => records[e] = id[e]
        /\ st[e] = "MISMATCH" => records[e] \notin {NoIdentity, id[e]}

(* A worker at work is at work on a row that exists, and what it remembers *)
(* of the chain is still so.                                               *)
MemoryTrue ==
    \A w \in Workers :
        /\ pc[w] # "idle" => status[job[w]] # "NONE"
        /\ pc[w] = "found" => seen[w] = records[job[w]] /\ seen[w] # NoIdentity
        /\ pc[w] = "wait" /\ receipt[w] = "success" => records[job[w]] = ident[job[w]]

(* A transaction a worker polls for carries the identity of the row it     *)
(* holds and has no receipt yet.                                           *)
PoolTrue ==
    \A tx \in mempool :
        tx.by # NoWorker =>
            /\ pc[tx.by] = "wait" /\ receipt[tx.by] = "none"
            /\ tx.event = job[tx.by] /\ tx.identity = ident[job[tx.by]]

(* A queued row has an identity. *)
RowsSigned(st, id) == \A e \in EventIds : st[e] # "NONE" => id[e] \in Identities

(* The inductive invariant. *)
IInv ==
    /\ TypeOK
    /\ RowsTrue(status, ident) /\ RowsTrue(backup.status, backup.ident)
    /\ RowsSigned(status, ident) /\ RowsSigned(backup.status, backup.ident)
    /\ MemoryTrue
    /\ PoolTrue

-----------------------------------------------------------------------------
(* IInv is inductive: one lemma for each action. *)

(* A new row is PENDING and nobody works on it yet. *)
LEMMA QueuePlatformEventPreserves ==
  ASSUME IInv, NEW e \in EventIds, NEW i \in Identities, QueuePlatformEvent(e, i)
  PROVE  IInv'
<1> USE DEF IInv, QueuePlatformEvent, registryVars, rowVars, workerVars,
   envVars
<1>1. TypeOK'
  BY DEF TypeOK, RegistryTypeOK, Status, MaybeIdentity
<1>2. (RowsTrue(status, ident) /\ RowsTrue(backup.status, backup.ident))'
  BY DEF RowsTrue
<1>3. (RowsSigned(status, ident) /\ RowsSigned(backup.status, backup.ident))'
  BY DEF TypeOK, RowsSigned
<1>4. MemoryTrue'
  BY DEF MemoryTrue
<1>5. PoolTrue'
  BY NoWorkerAssumption DEF TypeOK, RegistryTypeOK, PoolTrue, MemoryTrue,
     Transaction
<1> QED
  BY <1>1, <1>2, <1>3, <1>4, <1>5

(* The claim moves a row to SUBMITTED; the claiming worker polls for nothing. *)
LEMMA ClaimPreserves ==
  ASSUME IInv, NEW w \in Workers, NEW e \in EventIds, Claim(w, e)
  PROVE  IInv'
<1> USE DEF IInv, Claim, Due, Write, Goto, Open, registryVars, rowVars,
   workerVars, envVars
<1>1. TypeOK'
  BY DEF TypeOK, RegistryTypeOK, Status, PC
<1>2. (RowsTrue(status, ident) /\ RowsTrue(backup.status, backup.ident))'
  BY DEF RowsTrue
<1>3. (RowsSigned(status, ident) /\ RowsSigned(backup.status, backup.ident))'
  BY DEF RowsSigned
<1>4. MemoryTrue'
  BY DEF TypeOK, MemoryTrue
<1>5. PoolTrue'
  BY DEF PoolTrue
<1> QED
  BY <1>1, <1>2, <1>3, <1>4, <1>5

(* A LOCAL row claims nothing about the chain. *)
LEMMA MarkLocalPreserves ==
  ASSUME IInv, NEW w \in Workers, MarkLocal(w)
  PROVE  IInv'
<1> USE DEF IInv, MarkLocal, Write, Goto, registryVars, rowVars, workerVars,
   envVars
<1>1. TypeOK'
  BY DEF TypeOK, RegistryTypeOK, Status, PC
<1>2. (RowsTrue(status, ident) /\ RowsTrue(backup.status, backup.ident))'
  BY DEF RowsTrue
<1>3. (RowsSigned(status, ident) /\ RowsSigned(backup.status, backup.ident))'
  BY DEF TypeOK, RowsSigned, MemoryTrue
<1>4. MemoryTrue'
  BY DEF MemoryTrue
<1>5. PoolTrue'
  BY DEF PoolTrue
<1> QED
  BY <1>1, <1>2, <1>3, <1>4, <1>5

(* What client.find returns is what the chain holds. *)
LEMMA FindRecordPreserves ==
  ASSUME IInv, NEW w \in Workers, FindRecord(w)
  PROVE  IInv'
<1> USE DEF IInv, FindRecord, Goto, registryVars, rowVars, workerVars,
   envVars
<1>1. TypeOK'
  BY DEF TypeOK, RegistryTypeOK, PC, MaybeIdentity
<1>2. (RowsTrue(status, ident) /\ RowsTrue(backup.status, backup.ident))'
  BY DEF RowsTrue
<1>3. (RowsSigned(status, ident) /\ RowsSigned(backup.status, backup.ident))'
  BY DEF RowsSigned
<1>4. MemoryTrue'
  BY DEF TypeOK, MemoryTrue
<1>5. PoolTrue'
  BY DEF PoolTrue
<1> QED
  BY <1>1, <1>2, <1>3, <1>4, <1>5

(* A failed lookup leaves nothing to remember. *)
LEMMA FindFailsPreserves ==
  ASSUME IInv, NEW w \in Workers, FindFails(w)
  PROVE  IInv'
<1> USE DEF IInv, FindFails, Goto, registryVars, rowVars, workerVars,
   envVars
<1>1. TypeOK'
  BY DEF TypeOK, RegistryTypeOK, PC
<1>2. (RowsTrue(status, ident) /\ RowsTrue(backup.status, backup.ident))'
  BY DEF RowsTrue
<1>3. (RowsSigned(status, ident) /\ RowsSigned(backup.status, backup.ident))'
  BY DEF RowsSigned
<1>4. MemoryTrue'
  BY DEF MemoryTrue
<1>5. PoolTrue'
  BY DEF PoolTrue
<1> QED
  BY <1>1, <1>2, <1>3, <1>4, <1>5

(* The verdict on a found record is right: the record cannot change. *)
LEMMA MarkFoundPreserves ==
  ASSUME IInv, NEW w \in Workers, MarkFound(w)
  PROVE  IInv'
<1> USE DEF IInv, MarkFound, Write, Goto, RecordMatchesEvent, registryVars,
   rowVars, workerVars, envVars
<1>1. TypeOK'
  BY DEF TypeOK, RegistryTypeOK, Status, PC
<1>2. (RowsTrue(status, ident) /\ RowsTrue(backup.status, backup.ident))'
  BY DEF TypeOK, RegistryTypeOK, RowsTrue, MemoryTrue
<1>3. (RowsSigned(status, ident) /\ RowsSigned(backup.status, backup.ident))'
  BY DEF TypeOK, RowsSigned, MemoryTrue
<1>4. MemoryTrue'
  BY DEF MemoryTrue
<1>5. PoolTrue'
  BY DEF PoolTrue
<1> QED
  BY <1>1, <1>2, <1>3, <1>4, <1>5

(* What is sent carries the identity of the row; a worker polls for one transaction. *)
LEMMA SendTransactionPreserves ==
  ASSUME IInv, NEW w \in Workers, SendTransaction(w)
  PROVE  IInv'
<1> USE DEF IInv, SendTransaction, TransactionOf, Goto, registryVars,
   rowVars, workerVars, envVars
<1>1. TypeOK'
  BY DEF TypeOK, RegistryTypeOK, Transaction, ReceiptStatus, PC, RowsSigned,
     MemoryTrue
<1>2. (RowsTrue(status, ident) /\ RowsTrue(backup.status, backup.ident))'
  BY DEF RowsTrue
<1>3. (RowsSigned(status, ident) /\ RowsSigned(backup.status, backup.ident))'
  BY DEF RowsSigned
<1>4. MemoryTrue'
  BY DEF TypeOK, RegistryTypeOK, MemoryTrue
<1>5. PoolTrue'
  BY DEF TypeOK, RegistryTypeOK, PoolTrue, Transaction
<1> QED
  BY <1>1, <1>2, <1>3, <1>4, <1>5

(* A transaction whose response was lost belongs to nobody. *)
LEMMA SendFailsPreserves ==
  ASSUME IInv, NEW w \in Workers, SendFails(w)
  PROVE  IInv'
<1> USE DEF IInv, SendFails, TransactionOf, Goto, registryVars, rowVars,
   workerVars, envVars
<1>1. TypeOK'
  BY DEF TypeOK, RegistryTypeOK, Transaction, ReceiptStatus, PC, RowsSigned,
     MemoryTrue
<1>2. (RowsTrue(status, ident) /\ RowsTrue(backup.status, backup.ident))'
  BY DEF RowsTrue
<1>3. (RowsSigned(status, ident) /\ RowsSigned(backup.status, backup.ident))'
  BY DEF RowsSigned
<1>4. MemoryTrue'
  BY DEF MemoryTrue
<1>5. PoolTrue'
  BY DEF PoolTrue
<1> QED
  BY <1>1, <1>2, <1>3, <1>4, <1>5

(* A worker that gives up leaves its transaction behind without an owner. *)
LEMMA ReceiptTimeoutPreserves ==
  ASSUME IInv, NEW w \in Workers, ReceiptTimeout(w)
  PROVE  IInv'
<1> USE DEF IInv, ReceiptTimeout, Goto, Abandoned, registryVars, rowVars,
   workerVars, envVars
<1>1. TypeOK'
  BY DEF TypeOK, RegistryTypeOK, Transaction, PC
<1>2. (RowsTrue(status, ident) /\ RowsTrue(backup.status, backup.ident))'
  BY DEF RowsTrue
<1>3. (RowsSigned(status, ident) /\ RowsSigned(backup.status, backup.ident))'
  BY DEF RowsSigned
<1>4. MemoryTrue'
  BY DEF MemoryTrue
<1>5. PoolTrue'
  BY DEF TypeOK, RegistryTypeOK, PoolTrue, Transaction
<1> QED
  BY <1>1, <1>2, <1>3, <1>4, <1>5

(* A successful receipt stands for a record of the row's identity. *)
LEMMA MarkSubmittedPreserves ==
  ASSUME IInv, NEW w \in Workers, MarkSubmitted(w)
  PROVE  IInv'
<1> USE DEF IInv, MarkSubmitted, ReceiptSucceeded, Write, Goto,
   registryVars, rowVars, workerVars, envVars
<1>1. TypeOK'
  BY DEF TypeOK, RegistryTypeOK, Status, PC
<1>2. (RowsTrue(status, ident) /\ RowsTrue(backup.status, backup.ident))'
  BY DEF TypeOK, RegistryTypeOK, RowsTrue, MemoryTrue
<1>3. (RowsSigned(status, ident) /\ RowsSigned(backup.status, backup.ident))'
  BY DEF TypeOK, RowsSigned, MemoryTrue
<1>4. MemoryTrue'
  BY DEF MemoryTrue
<1>5. PoolTrue'
  BY DEF PoolTrue
<1> QED
  BY <1>1, <1>2, <1>3, <1>4, <1>5

(* A revert leaves nothing to remember. *)
LEMMA ReceiptRevertedPreserves ==
  ASSUME IInv, NEW w \in Workers, ReceiptReverted(w)
  PROVE  IInv'
<1> USE DEF IInv, ReceiptReverted, Goto, registryVars, rowVars, workerVars,
   envVars
<1>1. TypeOK'
  BY DEF TypeOK, RegistryTypeOK, PC
<1>2. (RowsTrue(status, ident) /\ RowsTrue(backup.status, backup.ident))'
  BY DEF RowsTrue
<1>3. (RowsSigned(status, ident) /\ RowsSigned(backup.status, backup.ident))'
  BY DEF RowsSigned
<1>4. MemoryTrue'
  BY DEF MemoryTrue
<1>5. PoolTrue'
  BY DEF PoolTrue
<1> QED
  BY <1>1, <1>2, <1>3, <1>4, <1>5

(* A PENDING row claims nothing about the chain. *)
LEMMA MarkRetryPreserves ==
  ASSUME IInv, NEW w \in Workers, MarkRetry(w)
  PROVE  IInv'
<1> USE DEF IInv, MarkRetry, Write, Goto, registryVars, rowVars, workerVars,
   envVars
<1>1. TypeOK'
  BY DEF TypeOK, RegistryTypeOK, Status, PC
<1>2. (RowsTrue(status, ident) /\ RowsTrue(backup.status, backup.ident))'
  BY DEF RowsTrue
<1>3. (RowsSigned(status, ident) /\ RowsSigned(backup.status, backup.ident))'
  BY DEF TypeOK, RowsSigned, MemoryTrue
<1>4. MemoryTrue'
  BY DEF MemoryTrue
<1>5. PoolTrue'
  BY DEF PoolTrue
<1> QED
  BY <1>1, <1>2, <1>3, <1>4, <1>5

(* A dead worker remembers nothing and owns nothing. *)
LEMMA CrashPreserves ==
  ASSUME IInv, NEW w \in Workers, Crash(w)
  PROVE  IInv'
<1> USE DEF IInv, Crash, Stop, Abandoned, registryVars, rowVars, workerVars,
   envVars
<1>1. TypeOK'
  BY DEF TypeOK, RegistryTypeOK, Transaction, PC
<1>2. (RowsTrue(status, ident) /\ RowsTrue(backup.status, backup.ident))'
  BY DEF RowsTrue
<1>3. (RowsSigned(status, ident) /\ RowsSigned(backup.status, backup.ident))'
  BY DEF RowsSigned
<1>4. MemoryTrue'
  BY DEF MemoryTrue
<1>5. PoolTrue'
  BY DEF TypeOK, RegistryTypeOK, PoolTrue, Transaction
<1> QED
  BY <1>1, <1>2, <1>3, <1>4, <1>5

(* A confirmed row survives a second look. *)
LEMMA RecheckPreserves ==
  ASSUME IInv, NEW e \in EventIds, Recheck(e)
  PROVE  IInv'
<1> USE DEF IInv, Recheck, RecordMatchesEvent, registryVars, rowVars,
   workerVars, envVars
<1>1. TypeOK'
  BY DEF TypeOK, RegistryTypeOK, Status
<1>2. (RowsTrue(status, ident) /\ RowsTrue(backup.status, backup.ident))'
  BY DEF RowsTrue
<1>3. (RowsSigned(status, ident) /\ RowsSigned(backup.status, backup.ident))'
  BY DEF RowsSigned
<1>4. MemoryTrue'
  BY DEF MemoryTrue
<1>5. PoolTrue'
  BY DEF PoolTrue
<1> QED
  BY <1>1, <1>2, <1>3, <1>4, <1>5

(* Time alone claims nothing. *)
LEMMA TimerFiresPreserves ==
  ASSUME IInv, NEW e \in EventIds, TimerFires(e)
  PROVE  IInv'
<1> USE DEF IInv, TimerFires, registryVars, rowVars, workerVars, envVars
<1>1. TypeOK'
  BY DEF TypeOK, RegistryTypeOK
<1>2. (RowsTrue(status, ident) /\ RowsTrue(backup.status, backup.ident))'
  BY DEF RowsTrue
<1>3. (RowsSigned(status, ident) /\ RowsSigned(backup.status, backup.ident))'
  BY DEF RowsSigned
<1>4. MemoryTrue'
  BY DEF MemoryTrue
<1>5. PoolTrue'
  BY DEF PoolTrue
<1> QED
  BY <1>1, <1>2, <1>3, <1>4, <1>5

(* A restart of all workers forgets what they knew. *)
LEMMA SwitchBackendPreserves ==
  ASSUME IInv, SwitchBackend
  PROVE  IInv'
<1> USE DEF IInv, SwitchBackend, Stop, Abandoned, registryVars, rowVars,
   workerVars, envVars
<1>1. TypeOK'
  BY DEF TypeOK, RegistryTypeOK, Transaction, PC
<1>2. (RowsTrue(status, ident) /\ RowsTrue(backup.status, backup.ident))'
  BY DEF RowsTrue
<1>3. (RowsSigned(status, ident) /\ RowsSigned(backup.status, backup.ident))'
  BY DEF RowsSigned
<1>4. MemoryTrue'
  BY DEF MemoryTrue
<1>5. PoolTrue'
  BY DEF TypeOK, RegistryTypeOK, PoolTrue, Transaction
<1> QED
  BY <1>1, <1>2, <1>3, <1>4, <1>5

(* A backup of true rows is true. *)
LEMMA TakeBackupPreserves ==
  ASSUME IInv, TakeBackup
  PROVE  IInv'
<1> USE DEF IInv, TakeBackup, registryVars, rowVars, workerVars, envVars
<1>1. TypeOK'
  BY DEF TypeOK, RegistryTypeOK
<1>2. (RowsTrue(status, ident) /\ RowsTrue(backup.status, backup.ident))'
  BY DEF RowsTrue
<1>3. (RowsSigned(status, ident) /\ RowsSigned(backup.status, backup.ident))'
  BY DEF RowsSigned
<1>4. MemoryTrue'
  BY DEF MemoryTrue
<1>5. PoolTrue'
  BY DEF PoolTrue
<1> QED
  BY <1>1, <1>2, <1>3, <1>4, <1>5

(* True rows come back, and no worker remembers the lost ones. *)
LEMMA RestoreBackupPreserves ==
  ASSUME IInv, RestoreBackup
  PROVE  IInv'
<1> USE DEF IInv, RestoreBackup, Stop, Abandoned, registryVars, rowVars,
   workerVars, envVars
<1>1. TypeOK'
  BY DEF TypeOK, RegistryTypeOK, Transaction, PC
<1>2. (RowsTrue(status, ident) /\ RowsTrue(backup.status, backup.ident))'
  BY DEF RowsTrue
<1>3. (RowsSigned(status, ident) /\ RowsSigned(backup.status, backup.ident))'
  BY DEF RowsSigned
<1>4. MemoryTrue'
  BY DEF MemoryTrue
<1>5. PoolTrue'
  BY DEF TypeOK, RegistryTypeOK, PoolTrue, Transaction
<1> QED
  BY <1>1, <1>2, <1>3, <1>4, <1>5

(* The end of faults changes no row. *)
LEMMA StabilisePreserves ==
  ASSUME IInv, Stabilise
  PROVE  IInv'
<1> USE DEF IInv, Stabilise, registryVars, rowVars, workerVars, envVars
<1>1. TypeOK'
  BY DEF TypeOK, RegistryTypeOK
<1>2. (RowsTrue(status, ident) /\ RowsTrue(backup.status, backup.ident))'
  BY DEF RowsTrue
<1>3. (RowsSigned(status, ident) /\ RowsSigned(backup.status, backup.ident))'
  BY DEF RowsSigned
<1>4. MemoryTrue'
  BY DEF MemoryTrue
<1>5. PoolTrue'
  BY DEF PoolTrue
<1> QED
  BY <1>1, <1>2, <1>3, <1>4, <1>5

(* The duplicate check of recordEvidence: a record that exists stays. *)
LEMMA MineKeepsRecords ==
  ASSUME TypeOK, NEW tx \in mempool, Mine(tx)
  PROVE  \A e \in EventIds : records[e] # NoIdentity => records'[e] = records[e]
BY DEF Mine, RecordEvidenceAccepts, TypeOK, RegistryTypeOK, Transaction

(* A mined transaction that succeeds records the identity its owner waits for. *)
LEMMA MinePreserves ==
  ASSUME IInv, NEW tx \in mempool, Mine(tx),
         UNCHANGED <<rowVars, workerVars, envVars>>
  PROVE  IInv'
<1> USE DEF IInv, rowVars, workerVars, envVars
<1>0. \A e \in EventIds : records[e] # NoIdentity => records'[e] = records[e]
  BY MineKeepsRecords
<1>1. TypeOK'
  BY DEF Mine, TypeOK, RegistryTypeOK, Transaction, ReceiptStatus
<1>2. (RowsTrue(status, ident) /\ RowsTrue(backup.status, backup.ident))'
  BY <1>0, NoIdentityAssumption DEF RowsTrue, RowsSigned
<1>3. (RowsSigned(status, ident) /\ RowsSigned(backup.status, backup.ident))'
  BY DEF RowsSigned
<1>4. MemoryTrue'
  <2> SUFFICES ASSUME NEW w \in Workers
               PROVE  /\ pc[w] # "idle" => status[job[w]] # "NONE"
                      /\ pc[w] = "found" => /\ seen[w] = records'[job[w]]
                                            /\ seen[w] # NoIdentity
                      /\ pc[w] = "wait" /\ receipt'[w] = "success"
                            => records'[job[w]] = ident[job[w]]
    BY DEF MemoryTrue
  <2>1. job[w] \in EventIds
    BY DEF TypeOK
  <2>2. CASE receipt'[w] = receipt[w]
    BY <1>0, <2>1, <2>2, NoIdentityAssumption DEF MemoryTrue, RowsSigned
  <2>3. CASE receipt'[w] # receipt[w]
    <3>1. tx.by = w
      BY <2>3, NoWorkerAssumption DEF Mine, TypeOK, RegistryTypeOK, Transaction
    <3>2. tx.event = job[w] /\ tx.identity = ident[job[w]] /\ pc[w] = "wait"
      BY <3>1, NoWorkerAssumption DEF PoolTrue
    <3>3. receipt'[w] = "success" => records'[job[w]] = ident[job[w]]
      BY <2>1, <3>1, <3>2, NoWorkerAssumption
         DEF Mine, TypeOK, RegistryTypeOK
    <3> QED
      BY <3>2, <3>3 DEF MemoryTrue
  <2> QED
    BY <2>2, <2>3
<1>5. PoolTrue'
  BY NoWorkerAssumption DEF Mine, TypeOK, RegistryTypeOK, PoolTrue, Transaction
<1> QED
  BY <1>1, <1>2, <1>3, <1>4, <1>5

(* A dropped transaction leaves no trace. *)
LEMMA DropPendingPreserves ==
  ASSUME IInv, NEW tx \in mempool, DropPending(tx),
         UNCHANGED <<rowVars, workerVars, envVars>>
  PROVE  IInv'
<1> USE DEF IInv, DropPending, registryVars, rowVars, workerVars, envVars
<1>1. TypeOK'
  BY DEF TypeOK, RegistryTypeOK
<1>2. (RowsTrue(status, ident) /\ RowsTrue(backup.status, backup.ident))'
  BY DEF RowsTrue
<1>3. (RowsSigned(status, ident) /\ RowsSigned(backup.status, backup.ident))'
  BY DEF RowsSigned
<1>4. MemoryTrue'
  BY DEF MemoryTrue
<1>5. PoolTrue'
  BY DEF PoolTrue
<1> QED
  BY <1>1, <1>2, <1>3, <1>4, <1>5

(* Authorization concerns later blocks only. *)
LEMMA SetAuthorizedSignerPreserves ==
  ASSUME IInv, NEW b \in BOOLEAN, SetAuthorizedSigner(b),
         UNCHANGED <<rowVars, workerVars, envVars>>
  PROVE  IInv'
<1> USE DEF IInv, SetAuthorizedSigner, registryVars, rowVars, workerVars,
   envVars
<1>1. TypeOK'
  BY DEF TypeOK, RegistryTypeOK
<1>2. (RowsTrue(status, ident) /\ RowsTrue(backup.status, backup.ident))'
  BY DEF RowsTrue
<1>3. (RowsSigned(status, ident) /\ RowsSigned(backup.status, backup.ident))'
  BY DEF RowsSigned
<1>4. MemoryTrue'
  BY DEF MemoryTrue
<1>5. PoolTrue'
  BY DEF PoolTrue
<1> QED
  BY <1>1, <1>2, <1>3, <1>4, <1>5

(* The steps of the chain together. *)
LEMMA ChainStepPreserves ==
  ASSUME IInv, ChainStep
  PROVE  IInv'
<1>1. CASE \E tx \in mempool : Mine(tx)
  BY <1>1, MinePreserves DEF ChainStep
<1>2. CASE \E tx \in mempool : DropPending(tx)
  BY <1>2, DropPendingPreserves DEF ChainStep
<1>3. CASE SetAuthorizedSigner(TRUE) \/ SetAuthorizedSigner(FALSE)
  BY <1>3, SetAuthorizedSignerPreserves DEF ChainStep
<1> QED
  BY <1>1, <1>2, <1>3 DEF ChainStep

(* Nothing happens. *)
LEMMA StutterPreserves ==
  ASSUME IInv, UNCHANGED vars
  PROVE  IInv'
BY DEF IInv, TypeOK, RegistryTypeOK, RowsTrue, RowsSigned, MemoryTrue, PoolTrue,
       vars, registryVars, rowVars, workerVars, envVars

(* The steps of the system together. *)
LEMMA NextPreserves ==
  ASSUME IInv, [Next]_vars
  PROVE  IInv'
<1>1. ASSUME NEW e \in EventIds, NEW i \in Identities, QueuePlatformEvent(e, i)
      PROVE  IInv'
  BY <1>1, QueuePlatformEventPreserves
<1>2. ASSUME NEW w \in Workers, WorkerProgress(w)
      PROVE  IInv'
  BY <1>2, ClaimPreserves, MarkLocalPreserves, FindRecordPreserves,
     MarkFoundPreserves, SendTransactionPreserves, MarkSubmittedPreserves,
     ReceiptRevertedPreserves, ReceiptTimeoutPreserves, MarkRetryPreserves
     DEF WorkerProgress
<1>3. ASSUME NEW w \in Workers, WorkerFault(w)
      PROVE  IInv'
  BY <1>3, FindFailsPreserves, SendFailsPreserves, CrashPreserves DEF WorkerFault
<1>4. ASSUME NEW e \in EventIds, Recheck(e) \/ TimerFires(e)
      PROVE  IInv'
  BY <1>4, RecheckPreserves, TimerFiresPreserves
<1>5. CASE ChainStep
  BY <1>5, ChainStepPreserves
<1>6. CASE SwitchBackend \/ TakeBackup \/ RestoreBackup \/ Stabilise
  BY <1>6, SwitchBackendPreserves, TakeBackupPreserves, RestoreBackupPreserves,
     StabilisePreserves
<1>7. CASE UNCHANGED vars
  BY <1>7, StutterPreserves
<1> QED
  BY <1>1, <1>2, <1>3, <1>4, <1>5, <1>6, <1>7 DEF Next

-----------------------------------------------------------------------------
(* An empty outbox and an empty registry agree. *)
LEMMA InitEstablishes ==
  ASSUME Init
  PROVE  IInv
<1> USE DEF Init, RegistryInit
<1>1. RegistryTypeOK
  BY DEF RegistryTypeOK, ReceiptStatus
<1>2. TypeOK
  <2>1. /\ status \in [EventIds -> Status]
        /\ ident \in [EventIds -> MaybeIdentity]
        /\ pc \in [Workers -> PC] /\ seen \in [Workers -> MaybeIdentity]
    BY DEF Status, PC, MaybeIdentity
  <2>2. ready \in [EventIds -> BOOLEAN] /\ stable \in BOOLEAN
    BY Zenon
  <2>3. backup \in [status : [EventIds -> Status],
                    ident : [EventIds -> MaybeIdentity]]
    BY <2>1
  <2> QED
    BY <1>1, <2>1, <2>2, <2>3 DEF TypeOK
<1>3. RowsTrue(status, ident) /\ RowsSigned(status, ident)
  BY DEF RowsTrue, RowsSigned
<1>4. RowsTrue(backup.status, backup.ident) /\ RowsSigned(backup.status, backup.ident)
  BY DEF RowsTrue, RowsSigned
<1>5. MemoryTrue /\ PoolTrue
  BY DEF MemoryTrue, PoolTrue
<1> QED
  BY <1>2, <1>3, <1>4, <1>5 DEF IInv

(* IInv holds in every reachable state. *)
THEOREM Invariance == Spec => []IInv
<1>1. Init => IInv
  BY InitEstablishes
<1>2. IInv /\ [Next]_vars => IInv'
  BY NextPreserves
<1> QED
  BY <1>1, <1>2, PTL DEF Spec

(* Every variable keeps its type: in particular no worker ever sends a     *)
(* transaction without a signed identity.                                  *)
THEOREM TypeCorrect == Spec => []TypeOK
<1>1. IInv => TypeOK
  BY DEF IInv
<1> QED
  BY Invariance, <1>1, PTL

(* What the outbox calls CONFIRMED is on the chain with the identity that  *)
(* was signed, and what it calls a MISMATCH is a record that differs from  *)
(* the row, for any number of workers, events and identities, also when    *)
(* leases overrun and the database is restored.                            *)
THEOREM VerdictsCorrect == Spec => []VerdictsAreTrue
<1>1. IInv => VerdictsAreTrue
  BY DEF IInv, RowsTrue, VerdictsAreTrue
<1> QED
  BY Invariance, <1>1, PTL

(* The registry is append-only: no step of anyone, in any reachable state, *)
(* overwrites or removes a record.                                         *)
THEOREM RecordsCorrect == Spec => RecordsWriteOnce
<1> DEFINE Kept == \A e \in EventIds :
                      records[e] # NoIdentity => records'[e] = records[e]
<1>1. ASSUME TypeOK, ChainStep
      PROVE  Kept
  <2>1. CASE \E tx \in mempool : Mine(tx)
    BY <1>1, <2>1, MineKeepsRecords
  <2>2. CASE UNCHANGED records
    BY <2>2
  <2> QED
    BY <1>1, <2>1, <2>2 DEF ChainStep, DropPending, SetAuthorizedSigner
<1>2. ASSUME Next, ~ChainStep
      PROVE  UNCHANGED records
  <2>1. ASSUME NEW w \in Workers, WorkerProgress(w) \/ WorkerFault(w)
        PROVE  UNCHANGED records
    BY <2>1 DEF WorkerProgress, WorkerFault, Claim, MarkLocal, FindRecord, FindFails,
       MarkFound, SendTransaction, SendFails, ReceiptTimeout, MarkSubmitted,
       ReceiptReverted, MarkRetry, Crash, Stop, registryVars
  <2>2. ASSUME NEW e \in EventIds,
               Recheck(e) \/ TimerFires(e)
                 \/ \E i \in Identities : QueuePlatformEvent(e, i)
        PROVE  UNCHANGED records
    BY <2>2 DEF Recheck, TimerFires, QueuePlatformEvent, registryVars
  <2>3. ASSUME SwitchBackend \/ TakeBackup \/ RestoreBackup \/ Stabilise
        PROVE  UNCHANGED records
    BY <2>3 DEF SwitchBackend, TakeBackup, RestoreBackup, Stabilise, Stop, registryVars
  <2> QED
    BY <1>2, <2>1, <2>2, <2>3 DEF Next
<1>3. TypeOK /\ [Next]_vars => [Kept]_registryVars
  BY <1>1, <1>2 DEF vars, registryVars
<1> QED
  BY TypeCorrect, <1>3, PTL DEF Spec, RecordsWriteOnce

-----------------------------------------------------------------------------
(* Leases that cover the work, and a database that never goes back.        *)

(* The row of a worker at work is leased to it alone, and its lease runs.  *)
LeaseHeld ==
    /\ \A w \in Workers :
          pc[w] # "idle" => status[job[w]] = "SUBMITTED" /\ ~ready[job[w]]
    /\ LeaseExcludes

(* Without overruns a row is claimed only when nobody works on it, and     *)
(* whoever works on it is the only one to write it.                        *)
LEMMA NextPreservesLease ==
  ASSUME AllowOverrun = FALSE, IInv, LeaseHeld, [Next]_vars
  PROVE  LeaseHeld'
<1> USE DEF LeaseHeld, LeaseExcludes, registryVars, rowVars, workerVars, envVars
<1>t. TypeOK
  BY DEF IInv
<1>1. ASSUME NEW e \in EventIds, NEW i \in Identities, QueuePlatformEvent(e, i)
      PROVE  LeaseHeld'
  BY <1>t, <1>1 DEF QueuePlatformEvent, TypeOK
<1>2. ASSUME NEW w \in Workers, NEW e \in EventIds, Claim(w, e)
      PROVE  LeaseHeld'
  BY <1>t, <1>2 DEF Claim, Due, Write, Goto, TypeOK
<1>3. ASSUME NEW w \in Workers, NEW s \in Status, Write(job[w], s), Goto(w, "idle"),
             pc[w] # "idle", UNCHANGED job
      PROVE  LeaseHeld'
  BY <1>t, <1>3 DEF Write, Goto, TypeOK
<1>4. ASSUME NEW w \in Workers, pc[w] # "idle", NEW l \in PC, Goto(w, l),
             UNCHANGED <<rowVars, job>>
      PROVE  LeaseHeld'
  BY <1>t, <1>4 DEF Goto, TypeOK
<1>5. ASSUME NEW w \in Workers, WorkerProgress(w)
      PROVE  LeaseHeld'
  <2>1. ASSUME MarkLocal(w) \/ MarkFound(w) \/ MarkSubmitted(w) \/ MarkRetry(w)
        PROVE  LeaseHeld'
    BY <1>3, <2>1 DEF MarkLocal, MarkFound, MarkSubmitted, MarkRetry, Status
  <2>2. ASSUME FindRecord(w) \/ SendTransaction(w) \/ ReceiptReverted(w) \/ ReceiptTimeout(w)
        PROVE  LeaseHeld'
    BY <1>4, <2>2 DEF FindRecord, SendTransaction, ReceiptReverted, ReceiptTimeout, PC
  <2> QED
    BY <1>2, <1>5, <2>1, <2>2 DEF WorkerProgress
<1>6. ASSUME NEW w \in Workers, WorkerFault(w)
      PROVE  LeaseHeld'
  <2>1. CASE FindFails(w) \/ SendFails(w)
    BY <1>4, <2>1 DEF FindFails, SendFails, PC
  <2>2. CASE Crash(w)
    BY <1>t, <2>2 DEF Crash, Stop, TypeOK
  <2> QED
    BY <1>6, <2>1, <2>2 DEF WorkerFault
<1>7. ASSUME NEW e \in EventIds, Recheck(e)
      PROVE  LeaseHeld'
  BY <1>t, <1>7 DEF Recheck, TypeOK
<1>8. ASSUME NEW e \in EventIds, TimerFires(e)
      PROVE  LeaseHeld'
  BY <1>t, <1>8 DEF TimerFires, Working, Open, TypeOK
<1>9. CASE SwitchBackend \/ RestoreBackup
  BY <1>t, <1>9 DEF SwitchBackend, RestoreBackup, Stop, TypeOK
<1>10. CASE UNCHANGED <<rowVars, workerVars>>
  BY <1>10
<1> QED
  BY <1>1, <1>5, <1>6, <1>7, <1>8, <1>9, <1>10
     DEF Next, ChainStep, TakeBackup, Stabilise, vars

(* The leases hold in every reachable state. *)
LEMMA Leases ==
  ASSUME AllowOverrun = FALSE
  PROVE  Spec => []LeaseHeld
<1>1. Init => LeaseHeld
  BY DEF Init, LeaseHeld, LeaseExcludes
<1>2. IInv /\ LeaseHeld /\ [Next]_vars => LeaseHeld'
  BY NextPreservesLease
<1> QED
  BY Invariance, <1>1, <1>2, PTL DEF Spec

(* As long as a lease covers the work it was taken for, no two workers are *)
(* at work on the same row, for any number of workers and with restores.   *)
THEOREM LeaseCorrect ==
  ASSUME AllowOverrun = FALSE
  PROVE  Spec => []LeaseExcludes
<1>1. LeaseHeld => LeaseExcludes
  BY DEF LeaseHeld
<1> QED
  BY Leases, <1>1, PTL

(* What is on the chain, and what is on its way there, carries the         *)
(* identity of its row; a row has an identity as soon as it is queued.     *)
ChainAgrees ==
    /\ \A tx \in mempool : tx.identity = ident[tx.event]
    /\ \A e \in EventIds : status[e] = "NONE" => ident[e] = NoIdentity
    /\ NoFalseAlarm

(* The identity of a row never changes while the database is not restored, *)
(* and every transaction is made from the row.                             *)
LEMMA NextPreservesAgreement ==
  ASSUME AllowRestore = FALSE, IInv, ChainAgrees, [Next]_vars
  PROVE  ChainAgrees'
<1> USE DEF ChainAgrees, NoFalseAlarm, registryVars, rowVars, workerVars, envVars
<1>t. TypeOK /\ MemoryTrue /\ RowsSigned(status, ident)
  BY DEF IInv
<1>1. ASSUME NEW e \in EventIds, NEW i \in Identities, QueuePlatformEvent(e, i)
      PROVE  ChainAgrees'
  BY <1>t, <1>1, NoIdentityAssumption
     DEF QueuePlatformEvent, TypeOK, RegistryTypeOK, Transaction
<1>2. ASSUME NEW e \in EventIds, NEW s \in Status \ {"NONE", "MISMATCH"}, Write(e, s),
             UNCHANGED registryVars
      PROVE  ChainAgrees'
  BY <1>t, <1>2 DEF Write, TypeOK
<1>3. ASSUME NEW w \in Workers, pc[w] # "idle", UNCHANGED <<records, rowVars>>,
             NEW b \in Workers \cup {NoWorker},
             mempool' \in {mempool, mempool \cup {TransactionOf(w, b)}, Abandoned({w})}
      PROVE  ChainAgrees'
  BY <1>t, <1>3 DEF TransactionOf, Abandoned, TypeOK, RegistryTypeOK, Transaction
<1>4. ASSUME NEW w \in Workers, WorkerProgress(w)
      PROVE  ChainAgrees'
  <2>1. ASSUME MarkFound(w)
        PROVE  ChainAgrees'
    BY <1>t, <2>1 DEF MarkFound, RecordMatchesEvent, MemoryTrue, Write, TypeOK, RegistryTypeOK
  <2>2. ASSUME (\E e \in EventIds : Claim(w, e)) \/ MarkLocal(w) \/ MarkSubmitted(w)
                  \/ MarkRetry(w)
        PROVE  ChainAgrees'
    BY <1>t, <1>2, <2>2 DEF Claim, MarkLocal, MarkSubmitted, MarkRetry, Status, TypeOK
  <2>3. ASSUME FindRecord(w) \/ SendTransaction(w) \/ ReceiptReverted(w) \/ ReceiptTimeout(w)
        PROVE  ChainAgrees'
    BY <1>3, <2>3 DEF FindRecord, SendTransaction, ReceiptReverted, ReceiptTimeout
  <2> QED
    BY <1>4, <2>1, <2>2, <2>3 DEF WorkerProgress
<1>5. ASSUME NEW w \in Workers, WorkerFault(w)
      PROVE  ChainAgrees'
  BY <1>3, <1>5 DEF WorkerFault, FindFails, SendFails, Crash, Stop
<1>6. ASSUME NEW e \in EventIds, Recheck(e) \/ TimerFires(e)
      PROVE  ChainAgrees'
  BY <1>t, <1>6 DEF Recheck, RecordMatchesEvent, TimerFires, TypeOK
<1>7. CASE ChainStep
  <2>1. ASSUME NEW tx \in mempool, Mine(tx), UNCHANGED rowVars
        PROVE  ChainAgrees'
    BY <1>t, <2>1 DEF Mine, RecordEvidenceAccepts, TypeOK, RegistryTypeOK, Transaction
  <2> QED
    BY <1>7, <2>1 DEF ChainStep, DropPending, SetAuthorizedSigner
<1>8. CASE SwitchBackend
  BY <1>t, <1>8 DEF SwitchBackend, Stop, Abandoned, TypeOK, RegistryTypeOK, Transaction
<1>9. CASE UNCHANGED <<records, mempool, rowVars>>
  BY <1>9
<1> QED
  BY <1>1, <1>4, <1>5, <1>6, <1>7, <1>8, <1>9
     DEF Next, TakeBackup, RestoreBackup, Stabilise, vars

(* The agreement holds in every reachable state. *)
LEMMA Agreement ==
  ASSUME AllowRestore = FALSE
  PROVE  Spec => []ChainAgrees
<1>1. Init => ChainAgrees
  BY DEF Init, RegistryInit, ChainAgrees, NoFalseAlarm
<1>2. IInv /\ ChainAgrees /\ [Next]_vars => ChainAgrees'
  BY NextPreservesAgreement
<1> QED
  BY Invariance, <1>1, <1>2, PTL DEF Spec

(* Without a restore, no retry, duplicate transaction, late block or lease *)
(* overrun makes an event disagree with the chain.                         *)
THEOREM NoFalseAlarmCorrect ==
  ASSUME AllowRestore = FALSE
  PROVE  Spec => []NoFalseAlarm
<1>1. ChainAgrees => NoFalseAlarm
  BY DEF ChainAgrees
<1> QED
  BY Agreement, <1>1, PTL

-----------------------------------------------------------------------------
(* The outbox implements EvidenceAnchoring.                                *)

Verdicts == [e \in EventIds |-> Verdict(status[e])]

(* A step that keeps identities, records and verdicts is invisible.        *)
LEMMA Invisible ==
  ASSUME UNCHANGED <<ident, records>>, \A e \in EventIds : Verdict(status'[e]) = Verdict(status[e])
  PROVE  UNCHANGED Anchoring!anchoringVars
BY DEF Anchoring!anchoringVars

(* The write-back of a worker that holds the lease of its row, with a      *)
(* verdict that is true of the chain.                                      *)
LEMMA WriteSettles ==
  ASSUME IInv, NEW w \in Workers, status[job[w]] = "SUBMITTED",
         NEW s \in Decided, Write(job[w], s), UNCHANGED records,
         s = "CONFIRMED" => records[job[w]] = ident[job[w]],
         s = "MISMATCH" => records[job[w]] \notin {NoIdentity, ident[job[w]]}
  PROVE  Anchoring!Next
<1> DEFINE e == job[w]
<1>1. e \in EventIds /\ status \in [EventIds -> Status]
  BY DEF IInv, TypeOK
<1>2. ident[e] \in Identities /\ ident[e] # NoIdentity
  BY <1>1, NoIdentityAssumption DEF IInv, RowsSigned
<1>3. Verdict(s) \in Anchoring!TrueVerdicts(e)
  BY <1>2 DEF Anchoring!TrueVerdicts, Verdict, Decided
<1>4. Verdict(status[e]) = "open" /\ Verdicts' = [Verdicts EXCEPT ![e] = Verdict(s)]
  BY <1>1 DEF Verdict, Verdicts, Write
<1>5. Anchoring!Settle(e, Verdict(s))
  BY <1>1, <1>2, <1>3, <1>4 DEF Anchoring!Settle, Write, Verdicts
<1>6. Verdict(s) \in {"local", "confirmed", "mismatch"}
  BY DEF Verdict, Decided
<1> QED
  BY <1>1, <1>5, <1>6 DEF Anchoring!Next

(* Every step of the outbox is a step of EvidenceAnchoring or invisible in *)
(* it: the insert accepts, the block records, the write-back settles.      *)
LEMMA StepImplements ==
  ASSUME AllowOverrun = FALSE, AllowRestore = FALSE,
         IInv, LeaseHeld, ChainAgrees, [Next]_vars
  PROVE  [Anchoring!Next]_Anchoring!anchoringVars
<1> USE DEF registryVars, rowVars, workerVars, envVars
<1>t. TypeOK /\ MemoryTrue
  BY DEF IInv
<1>0. CASE UNCHANGED <<ident, records, status>>
  BY <1>0, Invisible
<1>1. ASSUME NEW e \in EventIds, NEW i \in Identities, QueuePlatformEvent(e, i)
      PROVE  Anchoring!Next
  <2>1. ident[e] = NoIdentity
    BY <1>1 DEF QueuePlatformEvent, ChainAgrees
  <2>2. Verdicts' = Verdicts
    BY <1>t, <1>1 DEF QueuePlatformEvent, Verdicts, Verdict, TypeOK
  <2>3. Anchoring!Accept(e, i)
    BY <1>1, <2>1, <2>2 DEF QueuePlatformEvent, Anchoring!Accept, Verdicts
  <2> QED
    BY <2>3 DEF Anchoring!Next
<1>2. ASSUME NEW w \in Workers, WorkerProgress(w)
      PROVE  [Anchoring!Next]_Anchoring!anchoringVars
  <2> USE DEF LeaseHeld
  <2>1. ASSUME NEW e \in EventIds, Claim(w, e)
        PROVE  UNCHANGED Anchoring!anchoringVars
    BY <1>t, <2>1, Invisible DEF Claim, Due, Open, Write, Verdict, TypeOK
  <2>2. ASSUME MarkRetry(w)
        PROVE  UNCHANGED Anchoring!anchoringVars
    BY <1>t, <2>2, Invisible DEF MarkRetry, Write, Verdict, TypeOK
  <2>3. ASSUME MarkLocal(w)
        PROVE  Anchoring!Next
    BY <1>t, <2>3, WriteSettles DEF MarkLocal, Decided
  <2>4. ASSUME MarkSubmitted(w)
        PROVE  Anchoring!Next
    BY <1>t, <2>4, WriteSettles DEF MarkSubmitted, ReceiptSucceeded, MemoryTrue, Decided
  <2>5. ASSUME MarkFound(w)
        PROVE  Anchoring!Next
    BY <1>t, <2>5, WriteSettles DEF MarkFound, RecordMatchesEvent, MemoryTrue, Decided
  <2> QED
    BY <1>0, <1>2, <2>1, <2>2, <2>3, <2>4, <2>5
       DEF WorkerProgress, FindRecord, SendTransaction, ReceiptReverted, ReceiptTimeout
<1>3. ASSUME NEW w \in Workers, WorkerFault(w)
      PROVE  UNCHANGED <<ident, records, status>>
  BY <1>3 DEF WorkerFault, FindFails, SendFails, Crash, Stop
<1>4. ASSUME NEW e \in EventIds, Recheck(e) \/ TimerFires(e)
      PROVE  UNCHANGED <<ident, records, status>>
  BY <1>4 DEF Recheck, RecordMatchesEvent, TimerFires, ChainAgrees, NoFalseAlarm
<1>5. ASSUME NEW tx \in mempool, Mine(tx), UNCHANGED rowVars
      PROVE  [Anchoring!Next]_Anchoring!anchoringVars
  <2>1. CASE UNCHANGED records
    BY <1>0, <1>5, <2>1
  <2>2. CASE RecordEvidenceAccepts(tx)
    <3>1. tx.event \in EventIds /\ tx.identity = ident[tx.event] /\ tx.identity \in Identities
      BY <1>t DEF TypeOK, RegistryTypeOK, Transaction, ChainAgrees
    <3>2. Anchoring!Record(tx.event)
      BY <1>5, <2>2, <3>1, NoIdentityAssumption
         DEF Mine, RecordEvidenceAccepts, Anchoring!Record
    <3> QED
      BY <3>1, <3>2 DEF Anchoring!Next
  <2> QED
    BY <1>5, <2>1, <2>2 DEF Mine
<1>6. CASE ChainStep
  BY <1>0, <1>5, <1>6 DEF ChainStep, DropPending, SetAuthorizedSigner
<1> QED
  BY <1>0, <1>1, <1>2, <1>3, <1>4, <1>6
     DEF Next, SwitchBackend, Stop, TakeBackup, RestoreBackup, Stabilise, vars

(* Seen from outside, workers, leases, retries, crashes and duplicate      *)
(* transactions do not exist: an event is accepted once, recorded at most  *)
(* once and given one true verdict, while leases cover the work and the    *)
(* database is not restored.                                               *)
THEOREM Refinement ==
  ASSUME AllowOverrun = FALSE, AllowRestore = FALSE
  PROVE  Spec => AnchoringSpec
<1>1. Init => Anchoring!Init
  BY DEF Init, RegistryInit, Anchoring!Init, Verdict
<1>2. IInv /\ LeaseHeld /\ ChainAgrees /\ [Next]_vars
         => [Anchoring!Next]_Anchoring!anchoringVars
  BY StepImplements
<1> QED
  BY Invariance, Leases, Agreement, <1>1, <1>2, PTL DEF Spec, AnchoringSpec, Anchoring!Spec
=============================================================================
