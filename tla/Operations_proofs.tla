--------------------------- MODULE Operations_proofs ---------------------------
(***************************************************************************)
(* Proofs about what keeps the building's data: the document store, the    *)
(* integrity checks, the worker process and the demo scripts.  Each has an *)
(* inductive invariant of its own; none shares state with another.         *)
(***************************************************************************)
EXTENDS DocumentStore, IntegrityChecks, UnifiedWorker, DemoBringUp, Sums_proofs

-----------------------------------------------------------------------------
(* The document store. *)

(* An upload that is open, kept or used has its object; one that is used   *)
(* or old is over.                                                         *)
UploadsHold ==
    /\ \A u \in Uploads : step[u] \in {"open", "kept", "linked"} => u \in blobs
    /\ \A u \in Uploads : u \in linked <=> step[u] = "linked"
    /\ \A u \in old : step[u] \in {"linked", "ended"}

(* What the cleanup has purged was old and is used by nothing; while it    *)
(* holds the tables nothing can begin to use it.                           *)
CleanupHolds ==
    /\ cleanup.todo \cup cleanup.done \subseteq old
    /\ cleanup.done \cap linked = {}
    /\ cleanup.todo \cup cleanup.done # {} => cleanup.on

(* What the backup found it has copied or has still to copy. *)
BackupHolds == backup.all \subseteq backup.todo \cup backup.done

StoreInv == StoreTypeOK /\ UploadsHold /\ CleanupHolds /\ BackupHolds /\ ServedIsTrue

(* A job and its parts. *)
LEMMA JobParts ==
  /\ JobIdle \in Job /\ JobIdle.on = FALSE /\ JobIdle.all = {} /\ JobIdle.todo = {} /\ JobIdle.done = {}
  /\ \A S \in SUBSET Uploads : /\ Started(S) \in Job /\ Started(S).on = TRUE /\ Started(S).all = S
                               /\ Started(S).todo = S /\ Started(S).done = {}
BY DEF JobIdle, Started, Job

(* A job does one upload. *)
JobDid(j, k, u) ==
    /\ k \in Job /\ k.on = j.on /\ k.all = j.all /\ k.todo = j.todo \ {u} /\ k.done = j.done \cup {u}

(* The entry moves from what is to do to what is done. *)
LEMMA JobStep ==
  ASSUME NEW j \in Job, NEW u \in Uploads
  PROVE  JobDid(j, [j EXCEPT !.todo = @ \ {u}, !.done = @ \cup {u}], u)
<1> DEFINE k1 == [j EXCEPT !.todo = j.todo \ {u}]
           k2 == [k1 EXCEPT !.done = j.done \cup {u}]
<1>1. k1 \in Job /\ k1.on = j.on /\ k1.all = j.all /\ k1.todo = j.todo \ {u} /\ k1.done = j.done
  BY DEF Job
<1>2. k2 = [j EXCEPT !.todo = @ \ {u}, !.done = @ \cup {u}]
  BY DEF Job
<1> HIDE DEF k1
<1>3. k2 \in Job /\ k2.on = k1.on /\ k2.all = k1.all /\ k2.todo = k1.todo /\ k2.done = j.done \cup {u}
  BY <1>1 DEF Job
<1> QED
  BY <1>1, <1>2, <1>3, Zenon DEF JobDid

(* Uploads and their requests. *)
LEMMA UploadKeeps ==
  ASSUME StoreInv, UploadNext
  PROVE  StoreInv'
<1> USE DEF StoreInv, End, Writable
<1>1. PICK u \in Uploads :
           Reject(u) \/ Quarantine(u) \/ Upload(u) \/ Use(u) \/ Refuse(u) \/ Die(u) \/ GrowOld(u)
  BY DEF UploadNext
<1>2. /\ UNCHANGED <<use, tampered, tokens, entitled, served, cleanup, backup, marker>>
  BY <1>1 DEF Reject, Quarantine, Upload, Use, Refuse, Die, GrowOld, accessVars
<1>3. ServedIsTrue' /\ BackupHolds'
  BY <1>2 DEF ServedIsTrue, BackupHolds
<1>4. storeFaults' \in 0 .. MaxStoreFaults
  BY <1>1, StoreFaultAssumption DEF Reject, Quarantine, Upload, Use, Refuse, Die, GrowOld, StoreTypeOK
<1>5. /\ step' \in [Uploads -> {"new", "open", "kept", "linked", "ended"}]
      /\ \A v \in Uploads \ {u} : step'[v] = step[v]
  BY <1>1 DEF Reject, Quarantine, Upload, Use, Refuse, Die, GrowOld, StoreTypeOK
<1>6. /\ versionRows' \subseteq Uploads /\ linked' \subseteq versionRows' /\ old' \subseteq Uploads
      /\ blobs' \subseteq Uploads
  BY <1>1 DEF Reject, Quarantine, Upload, Use, Refuse, Die, GrowOld, StoreTypeOK
<1>7. StoreTypeOK'
  BY <1>2, <1>4, <1>5, <1>6 DEF StoreTypeOK
<1>8. UploadsHold'
  <2>1. CASE Reject(u) \/ Die(u)
    BY <1>5, <2>1 DEF Reject, Die, UploadsHold, StoreTypeOK
  <2>2. CASE Quarantine(u) \/ Upload(u)
    BY <1>5, <2>2 DEF Quarantine, Upload, UploadsHold, StoreTypeOK
  <2>3. CASE Use(u)
    BY <1>5, <2>3 DEF Use, UploadsHold, StoreTypeOK
  <2>4. CASE Refuse(u)
    BY <1>5, <2>4 DEF Refuse, UploadsHold, StoreTypeOK
  <2>5. CASE GrowOld(u)
    BY <2>5 DEF GrowOld, UploadsHold, StoreTypeOK
  <2> QED
    BY <1>1, <2>1, <2>2, <2>3, <2>4, <2>5
<1>9. CleanupHolds'
  <2>1. old \subseteq old'
    BY <1>1 DEF Reject, Quarantine, Upload, Use, Refuse, Die, GrowOld
  <2>2. linked' = linked \/ ~cleanup.on
    BY <1>1 DEF Reject, Quarantine, Upload, Use, Refuse, Die, GrowOld
  <2> QED
    BY <1>2, <2>1, <2>2 DEF CleanupHolds
<1> QED
  BY <1>3, <1>7, <1>8, <1>9

(* The cleanup and the backup. *)
LEMMA JobKeeps ==
  ASSUME StoreInv, JobNext
  PROVE  StoreInv'
<1> USE DEF StoreInv, requestVars, accessVars
<1>1. ServedIsTrue'
  BY DEF JobNext, BeginCleanup, CommitCleanup, BeginBackup, Mark, HardDelete, Copy, ServedIsTrue
<1>2. CASE BeginCleanup
  <2>1. cleanup' = Started(old \ Referenced) /\ UNCHANGED <<requestVars, accessVars, backup, marker, storeFaults>>
    BY <1>2 DEF BeginCleanup
  <2>2. old \ Referenced \in SUBSET Uploads
    BY DEF StoreTypeOK
  <2>3. /\ cleanup' \in Job /\ cleanup'.on = TRUE /\ cleanup'.todo = old \ Referenced /\ cleanup'.done = {}
    BY <2>1, <2>2, JobParts
  <2>4. StoreTypeOK' /\ UploadsHold' /\ BackupHolds'
    BY <2>1, <2>3 DEF StoreTypeOK, UploadsHold, BackupHolds
  <2>5. CleanupHolds'
    BY <2>1, <2>3 DEF CleanupHolds
  <2> QED
    BY <1>1, <2>4, <2>5
<1>3. CASE CommitCleanup
  <2>1. /\ cleanup' = JobIdle /\ versionRows' = versionRows \ cleanup.done /\ old' = old \ cleanup.done
        /\ UNCHANGED <<use, step, linked, blobs, tampered, tokens, entitled, served, backup, marker, storeFaults>>
    BY <1>3 DEF CommitCleanup
  <2>2. cleanup' \in Job /\ cleanup'.todo = {} /\ cleanup'.done = {}
    BY <2>1, JobParts
  <2>3. linked' \subseteq versionRows'
    BY <2>1 DEF StoreTypeOK, CleanupHolds
  <2>4. StoreTypeOK'
    BY <2>1, <2>2, <2>3 DEF StoreTypeOK
  <2>5. UploadsHold' /\ BackupHolds' /\ CleanupHolds'
    BY <2>1, <2>2 DEF UploadsHold, BackupHolds, CleanupHolds
  <2> QED
    BY <1>1, <2>4, <2>5
<1>4. CASE BeginBackup \/ Mark
  <2>1. /\ \/ backup' = Started(versionRows)
           \/ backup' = JobIdle
        /\ marker' = marker \/ marker' = backup.done
        /\ UNCHANGED <<requestVars, accessVars, cleanup, storeFaults>>
    BY <1>4 DEF BeginBackup, Mark
  <2>2. versionRows \in SUBSET Uploads /\ backup.done \subseteq Uploads
    BY DEF StoreTypeOK, Job
  <2>3. backup' \in Job /\ backup'.all \subseteq backup'.todo \cup backup'.done
    BY <2>1, <2>2, JobParts
  <2>4. StoreTypeOK'
    BY <2>1, <2>2, <2>3 DEF StoreTypeOK
  <2>5. UploadsHold' /\ BackupHolds' /\ CleanupHolds'
    BY <2>1, <2>3 DEF UploadsHold, BackupHolds, CleanupHolds
  <2> QED
    BY <1>1, <2>4, <2>5
<1>5. ASSUME NEW u \in Uploads, HardDelete(u) PROVE StoreInv'
  <2>1. u \in cleanup.todo
        /\ UNCHANGED <<use, step, versionRows, linked, old, tampered, tokens, entitled, served, backup, marker, storeFaults>>
    BY <1>5 DEF HardDelete
  <2>2. CASE u \in linked
    <3>1. cleanup' = JobIdle /\ UNCHANGED blobs
      BY <1>5, <2>2 DEF HardDelete
    <3>2. cleanup' \in Job /\ cleanup'.todo = {} /\ cleanup'.done = {}
      BY <3>1, JobParts
    <3>3. StoreTypeOK'
      BY <2>1, <3>1, <3>2 DEF StoreTypeOK
    <3>4. UploadsHold' /\ BackupHolds' /\ CleanupHolds'
      BY <2>1, <3>1, <3>2 DEF UploadsHold, BackupHolds, CleanupHolds
    <3> QED
      BY <1>1, <3>3, <3>4
  <2>3. CASE u \notin linked
    <3>1. cleanup' = [cleanup EXCEPT !.todo = @ \ {u}, !.done = @ \cup {u}] /\ blobs' = blobs \ {u}
      BY <1>5, <2>3 DEF HardDelete
    <3>2. cleanup \in Job
      BY DEF StoreTypeOK
    <3>3. JobDid(cleanup, cleanup', u)
      BY <3>1, <3>2, JobStep
    <3>4. StoreTypeOK'
      BY <2>1, <3>1, <3>3 DEF StoreTypeOK, JobDid
    <3>5. step[u] # "linked" /\ step[u] \in {"linked", "ended"}
      <4>1. step[u] \in {"linked", "ended"}
        BY <2>1 DEF UploadsHold, CleanupHolds
      <4>2. u \in linked <=> step[u] = "linked"
        BY DEF UploadsHold
      <4> QED
        BY <2>3, <4>1, <4>2
    <3>6. UploadsHold'
      BY <2>1, <3>1, <3>5 DEF UploadsHold, StoreTypeOK
    <3>7. BackupHolds' /\ CleanupHolds'
      BY <2>1, <2>3, <3>3 DEF BackupHolds, CleanupHolds, JobDid
    <3> QED
      BY <1>1, <3>4, <3>6, <3>7
  <2> QED
    BY <2>2, <2>3
<1>6. ASSUME NEW u \in Uploads, Copy(u) PROVE StoreInv'
  <2>1. /\ backup' = JobIdle \/ backup' = [backup EXCEPT !.todo = @ \ {u}, !.done = @ \cup {u}]
        /\ UNCHANGED <<requestVars, accessVars, cleanup, marker, storeFaults>>
    BY <1>6 DEF Copy
  <2>2. backup \in Job
    BY DEF StoreTypeOK
  <2>3. backup' = JobIdle \/ JobDid(backup, backup', u)
    BY <2>1, <2>2, JobStep
  <2>4. backup' \in Job /\ BackupHolds'
    BY <2>3, JobParts DEF JobDid, BackupHolds
  <2>5. StoreTypeOK' /\ UploadsHold' /\ CleanupHolds'
    BY <2>1, <2>4 DEF StoreTypeOK, UploadsHold, CleanupHolds
  <2> QED
    BY <1>1, <2>4, <2>5
<1> QED
  BY <1>2, <1>3, <1>4, <1>5, <1>6 DEF JobNext


(* Rights, links and downloads. *)
LEMMA DownloadKeeps ==
  ASSUME StoreInv, DownloadNext
  PROVE  StoreInv'
<1> USE DEF StoreInv, requestVars
<1>1. UNCHANGED <<use, step, versionRows, linked, old, blobs, cleanup, backup, marker, storeFaults>>
  BY DEF DownloadNext, ChangeRights, IssueToken, Download, ExpireToken, Tamper
<1>2. UploadsHold' /\ CleanupHolds' /\ BackupHolds'
  BY <1>1 DEF UploadsHold, CleanupHolds, BackupHolds
<1> DEFINE RightsTyped == tampered \subseteq Uploads /\ tokens \subseteq Links /\ entitled \subseteq Links
<1>3. RightsTyped'
  <2>1. ASSUME NEW r \in Readers, NEW u \in Uploads, ChangeRights(r, u) PROVE  RightsTyped'
    BY <2>1 DEF ChangeRights, StoreTypeOK, Links
  <2>2. ASSUME NEW r \in Readers, NEW u \in Uploads, IssueToken(r, u) PROVE  RightsTyped'
    BY <2>2 DEF IssueToken, StoreTypeOK, Links
  <2>3. ASSUME NEW r \in Readers, NEW u \in Uploads, Download(r, u) PROVE  RightsTyped'
    BY <2>3 DEF Download, StoreTypeOK
  <2>4. ASSUME NEW l \in Links, ExpireToken(l) PROVE  RightsTyped'
    BY <2>4 DEF ExpireToken, StoreTypeOK
  <2>5. ASSUME NEW u \in Uploads, Tamper(u) PROVE  RightsTyped'
    BY <2>5 DEF Tamper, StoreTypeOK
  <2> QED
    BY <2>1, <2>2, <2>3, <2>4, <2>5 DEF DownloadNext
<1>4. /\ served' \in (Links \X {"true", "stale", "false"}) \cup {NoDocument}
      /\ ServedIsTrue'
  <2>1. CASE UNCHANGED served
    BY <2>1 DEF StoreTypeOK, ServedIsTrue
  <2>2. ASSUME NEW r \in Readers, NEW u \in Uploads, Download(r, u)
        PROVE  served' = <<<<r, u>>, "true">>
    BY <2>2 DEF Download, MayRead, Readable
  <2>3. ASSUME NEW r \in Readers, NEW u \in Uploads, Download(r, u)
        PROVE  served' \in Links \X {"true", "stale", "false"} /\ ServedIsTrue'
    BY <2>2, <2>3 DEF Links, ServedIsTrue
  <2>4. \/ UNCHANGED served
        \/ \E r \in Readers, u \in Uploads : Download(r, u)
    BY DEF DownloadNext, ChangeRights, IssueToken, ExpireToken, Tamper
  <2> QED
    BY <2>1, <2>3, <2>4
<1>5. StoreTypeOK'
  BY <1>1, <1>3, <1>4 DEF StoreTypeOK
<1> QED
  BY <1>2, <1>4, <1>5

(* An empty store. *)
LEMMA StoreStarts == StoreInit => StoreInv
<1> SUFFICES ASSUME StoreInit PROVE StoreInv
  OBVIOUS
<1>1. cleanup \in Job /\ backup \in Job /\ cleanup.todo = {} /\ cleanup.done = {} /\ backup.all = {}
  BY JobParts DEF StoreInit
<1>2. StoreTypeOK
  BY <1>1, StoreFaultAssumption DEF StoreInit, StoreTypeOK
<1>3. UploadsHold /\ CleanupHolds /\ BackupHolds /\ ServedIsTrue
  BY <1>1 DEF StoreInit, UploadsHold, CleanupHolds, BackupHolds, ServedIsTrue
<1> QED
  BY <1>2, <1>3 DEF StoreInv

(* Requests that die, a cleanup that stops half way, a backup beside it    *)
(* and links that outlive a right lose no evidence and show no false       *)
(* document, for every number of uploads and readers                       *)
(* (_hard_delete_document, backup_objects, DocumentDownloadView).          *)
THEOREM StoreCorrect == StoreSpec => []StoreHolds
<1>1. StoreInv /\ [UploadNext \/ JobNext \/ DownloadNext]_storeVars => StoreInv'
  <2> SUFFICES ASSUME StoreInv, [UploadNext \/ JobNext \/ DownloadNext]_storeVars
               PROVE  StoreInv'
    OBVIOUS
  <2>1. CASE UNCHANGED storeVars
    BY <2>1 DEF storeVars, requestVars, accessVars, StoreInv, StoreTypeOK, UploadsHold,
                CleanupHolds, BackupHolds, ServedIsTrue
  <2> QED
    BY <2>1, UploadKeeps, JobKeeps, DownloadKeeps
<1>2. StoreInv => StoreHolds
  <2> SUFFICES ASSUME StoreInv PROVE StoreHolds
    OBVIOUS
  <2>1. EvidenceKept
    BY DEF StoreInv, EvidenceKept, UploadsHold, StoreTypeOK
  <2>2. MarkerIsComplete
    BY DEF StoreInv, MarkerIsComplete, BackupHolds
  <2> QED
    BY <2>1, <2>2 DEF StoreInv, StoreHolds
<1> QED
  BY <1>1, <1>2, StoreStarts, PTL DEF StoreSpec

-----------------------------------------------------------------------------
(* The integrity checks. *)

(* What the outbox and the chain say of an event agree with its history: a *)
(* hash on the chain and a confirmed event were anchored, and an event in  *)
(* mismatch never has its own hash there.                                  *)
AnchoredHolds ==
    \A e \in Entries, v \in EntryEvents :
        /\ chain[e][v] = "same" => <<e, v>> \in anchored /\ anchorStatus[e][v] # "MISMATCH"
        /\ anchorStatus[e][v] = "CONFIRMED" => <<e, v>> \in anchored

(* A transfer proof is named only once its settlement has settled. *)
NamedHolds ==
    \A e \in Entries, d \in Docs : <<e, d>> \in named => d \in Quotations \/ SettlementSettled(e)

(* What is kept with an observation. *)
Truths == [altered : BOOLEAN, unread : BOOLEAN, onChain : BOOLEAN, backed : BOOLEAN]
Observed == [entry : Entries, result : Results, consulted : BOOLEAN, truth : Truths]

IntegrityInv ==
    /\ IntegrityTypeOK /\ obs \in Seq(Observed) /\ AnchoredHolds /\ NamedHolds
    /\ VerifiedIsEarned /\ AlarmIsReal /\ ConsultedIsEarned

(* What each part of an observation says. *)
Altered(e, answered) ==
    \/ \E d \in Docs : doc[e][d] = "altered"
    \/ ~LocalOk(e)
    \/ \E v \in answered : chain[e][v] = "other"
OnChain(e, answered) == \A v \in EntryEvents : v \in answered /\ chain[e][v] # "none"
Backed(e, answered) == \A v \in EntryEvents : \/ v \in answered /\ chain[e][v] = "same"
                                              \/ anchorStatus[e][v] \in Settled
AllSettled(e) == \A v \in EntryEvents : anchorStatus[e][v] \in Settled
Gone(e) == \E d \in Docs : doc[e][d] = "gone"

(* The truth of an observation, part by part. *)
LEMMA TruthParts ==
  ASSUME NEW e, NEW answered
  PROVE  /\ Truth(e, answered) \in Truths
         /\ Truth(e, answered).altered = Altered(e, answered)
         /\ Truth(e, answered).unread = Gone(e)
         /\ Truth(e, answered).onChain = OnChain(e, answered)
         /\ Truth(e, answered).backed = Backed(e, answered)
<1> DEFINE a == Altered(e, answered)
           u == Gone(e)
           c == OnChain(e, answered)
           s == Backed(e, answered)
<1>1. a \in BOOLEAN /\ u \in BOOLEAN /\ c \in BOOLEAN /\ s \in BOOLEAN
  BY Zenon DEF Altered, Gone, OnChain, Backed
<1>2. Truth(e, answered) = [altered |-> a, unread |-> u, onChain |-> c, backed |-> s]
  BY Zenon DEF Truth, Altered, Gone, OnChain, Backed
<1> HIDE DEF a, u, c, s
<1>3. Truth(e, answered) \in Truths
  BY <1>1, <1>2 DEF Truths
<1>4. Truth(e, answered).altered = a /\ Truth(e, answered).unread = u
  BY <1>2
<1>5. Truth(e, answered).onChain = c /\ Truth(e, answered).backed = s
  BY <1>2
<1> QED
  BY <1>3, <1>4, <1>5, Zenon DEF a, u, c, s

(* What the documents say of themselves: the last one that fails decides,  *)
(* and with none gone it is an altered one.                                *)
LEMMA DocumentsSay ==
  ASSUME IntegrityTypeOK, NEW e \in Entries
  PROVE  /\ DocResult(e) \in Results
         /\ DocResult(e) = "VERIFIED" <=> \A d \in Docs : doc[e][d] = "intact"
         /\ DocResult(e) = "MISMATCH" => \E d \in Docs : doc[e][d] = "altered"
         /\ DocResult(e) = "UNAVAILABLE" => Gone(e)
<1>1. /\ DocResult(e) \in Results
      /\ DocResult(e) = "VERIFIED" <=> \A d \in Docs : doc[e][d] = "intact"
      /\ DocResult(e) = "MISMATCH" => \E d \in Docs : doc[e][d] = "altered"
  BY DEF DocResult, Results
<1>2. ASSUME DocResult(e) = "UNAVAILABLE", ~Gone(e) PROVE FALSE
  <2> DEFINE A == {d \in Docs : doc[e][d] = "altered"}
             n == Cardinality(Docs)
  <2>1. n \in Nat /\ Docs = 1 .. n
    BY OrderAssumption, FS_CardinalityType
  <2>2. \A d \in Docs : doc[e][d] = "intact" \/ d \in A
    BY <1>2 DEF IntegrityTypeOK, Gone
  <2>3. A # {}
    BY <1>2, <2>2 DEF DocResult
  <2>4. PICK d \in A : \A f \in A : f <= d
    <3>1. IsFiniteSet(A) /\ A \subseteq Int
      BY <2>1, OrderAssumption, FS_Subset
    <3> QED
      BY <2>3, <3>1, Largest
  <2>5. \A f \in Docs : f > d => doc[e][f] = "intact"
    <3> HIDE DEF n
    <3> QED
      BY <2>1, <2>2, <2>4
  <2> QED
    BY <1>2, <2>4, <2>5 DEF DocResult
<1> QED
  BY <1>1, <1>2

(* What the chain says. *)
LEMMA ChainSays ==
  ASSUME IntegrityInv, NEW e \in Entries, NEW answered \in SUBSET ChainEvents(e)
  PROVE  /\ ChainResult(e, answered) \in Results
         /\ ChainResult(e, answered) = "MISMATCH" <=> \E v \in answered : chain[e][v] = "other"
         /\ ChainResult(e, answered) = "VERIFIED" =>
              \A v \in EntryEvents : (v \in answered /\ chain[e][v] = "same") \/ anchorStatus[e][v] = "LOCAL"
<1>1. /\ ChainResult(e, answered) \in Results
      /\ ChainResult(e, answered) = "MISMATCH" <=> \E v \in answered : chain[e][v] = "other"
  BY DEF ChainResult, Results
<1>2. ASSUME ChainResult(e, answered) = "VERIFIED", NEW v \in EntryEvents
      PROVE  (v \in answered /\ chain[e][v] = "same") \/ anchorStatus[e][v] = "LOCAL"
  <2>1. /\ \A w \in answered : chain[e][w] # "other"
        /\ ChainEvents(e) # {}
        /\ \A w \in ChainEvents(e) : w \in answered /\ chain[e][w] # "none"
    BY <1>2 DEF ChainResult
  <2>2. ChainEvents(e) = {w \in EntryEvents : anchorStatus[e][w] # "LOCAL"}
    BY <2>1 DEF ChainEvents
  <2>3. chain[e][v] \in {"none", "same", "other"}
    BY DEF IntegrityInv, IntegrityTypeOK
  <2> QED
    BY <2>1, <2>2, <2>3
<1> QED
  BY <1>1, <1>2

(* An observation is earned when it is made. *)
Earned(o) ==
    /\ o \in Observed
    /\ o.result = "VERIFIED" => ~o.truth.altered /\ ~o.truth.unread /\ o.truth.backed
    /\ o.result = "MISMATCH" => o.truth.altered
    /\ o.truth.altered => o.result = "MISMATCH" \/ o.truth.unread
    /\ o.consulted => o.truth.onChain

(* The result of a verification follows from what was true. *)
LEMMA ResultEarned ==
  ASSUME IntegrityInv, NEW e \in Entries, NEW answered \in SUBSET ChainEvents(e)
  PROVE  /\ Result(e, answered) \in Results
         /\ Result(e, answered) = "VERIFIED" =>
              ~Altered(e, answered) /\ ~Gone(e) /\ Backed(e, answered)
         /\ Result(e, answered) = "MISMATCH" => Altered(e, answered)
         /\ Altered(e, answered) => Result(e, answered) = "MISMATCH" \/ Gone(e)
         /\ Consulted(e, answered) => OnChain(e, answered)
<1>1. IntegrityTypeOK
  BY DEF IntegrityInv
<1>2. Result(e, answered) \in Results
  BY <1>1, DocumentsSay DEF Result, Results
<1>3. ASSUME Result(e, answered) = "VERIFIED"
      PROVE  ~Altered(e, answered) /\ ~Gone(e) /\ Backed(e, answered)
  <2>1. /\ DocResult(e) = "VERIFIED" /\ LocalOk(e) /\ ChainResult(e, answered) # "MISMATCH"
        /\ ChainResult(e, answered) = "VERIFIED" \/ AllSettled(e)
    BY <1>3 DEF Result, AllSettled
  <2>2. ~Altered(e, answered) /\ ~Gone(e)
    BY <1>1, <2>1, DocumentsSay, ChainSays DEF Altered, Gone
  <2>3. Backed(e, answered)
    BY <2>1, ChainSays DEF Backed, AllSettled, Settled
  <2> QED
    BY <2>2, <2>3
<1>4. ASSUME Result(e, answered) = "MISMATCH" PROVE Altered(e, answered)
  <2>1. DocResult(e) = "MISMATCH" \/ ~LocalOk(e) \/ ChainResult(e, answered) = "MISMATCH"
    BY <1>4 DEF Result
  <2> QED
    BY <1>1, <2>1, DocumentsSay, ChainSays DEF Altered
<1>5. ASSUME Altered(e, answered), ~Gone(e) PROVE Result(e, answered) = "MISMATCH"
  <2>1. DocResult(e) \in {"VERIFIED", "MISMATCH"}
    BY <1>1, <1>5, DocumentsSay DEF Results
  <2>2. CASE DocResult(e) = "MISMATCH"
    BY <2>2 DEF Result
  <2>3. CASE DocResult(e) = "VERIFIED"
    <3>1. ~LocalOk(e) \/ ChainResult(e, answered) = "MISMATCH"
      BY <1>1, <1>5, <2>3, DocumentsSay, ChainSays DEF Altered
    <3> QED
      BY <2>3, <3>1 DEF Result
  <2> QED
    BY <2>1, <2>2, <2>3
<1>6. Consulted(e, answered) => OnChain(e, answered)
  BY DEF Consulted, OnChain
<1> QED
  BY <1>2, <1>3, <1>4, <1>5, <1>6

(* One verification. *)
LEMMA VerifyKeeps ==
  ASSUME IntegrityInv, NEW e \in Entries, Verify(e)
  PROVE  IntegrityInv'
<1>1. /\ e \in published \ Broken
      /\ UNCHANGED <<published, doc, rowsHash, anchorStatus, chain, anchored, named, changesMade>>
  BY DEF Verify
<1>2. PICK answered \in SUBSET ChainEvents(e) :
           obs' = Append(obs, [entry |-> e, result |-> Result(e, answered),
                               consulted |-> Consulted(e, answered), truth |-> Truth(e, answered)])
  BY DEF Verify
<1> DEFINE t == Truth(e, answered)
           r == Result(e, answered)
           c == Consulted(e, answered)
           o == [entry |-> e, result |-> r, consulted |-> c, truth |-> t]
<1>3. /\ t \in Truths /\ r \in Results
      /\ r = "VERIFIED" => ~t.altered /\ ~t.unread /\ t.backed
      /\ r = "MISMATCH" => t.altered
      /\ t.altered => r = "MISMATCH" \/ t.unread
      /\ c => t.onChain
  BY TruthParts, ResultEarned, Zenon
<1>4. c \in BOOLEAN
  BY Zenon DEF Consulted
<1>5. obs' = Append(obs, o)
  BY <1>2
<1> HIDE DEF t, r, c
<1>6. o \in Observed
  BY <1>3, <1>4 DEF Observed
<1>7. o.entry = e /\ o.result = r /\ o.consulted = c /\ o.truth = t
  OBVIOUS
<1> HIDE DEF o
<1>8. Earned(o)
  BY <1>3, <1>6, <1>7, Zenon DEF Earned
<1>9. /\ obs \in Seq(Observed) /\ obs' \in Seq(Observed)
      /\ \A i \in DOMAIN obs' : (i \in DOMAIN obs /\ obs'[i] = obs[i]) \/ obs'[i] = o
  BY <1>5, <1>6 DEF IntegrityInv
<1>10. VerifiedIsEarned'
  BY <1>8, <1>9, Zenon DEF IntegrityInv, VerifiedIsEarned, Earned
<1>11. AlarmIsReal'
  BY <1>8, <1>9, Zenon DEF IntegrityInv, AlarmIsReal, Earned
<1>12. ConsultedIsEarned'
  BY <1>8, <1>9, Zenon DEF IntegrityInv, ConsultedIsEarned, Earned
<1>13. AnchoredHolds' /\ NamedHolds'
  BY <1>1 DEF IntegrityInv, AnchoredHolds, NamedHolds, SettlementSettled
<1>14. \A i \in DOMAIN obs' : obs'[i].entry \in published' \ Broken /\ obs'[i].result \in Results
  BY <1>1, <1>3, <1>7, <1>9, Zenon DEF IntegrityInv, IntegrityTypeOK
<1>15. IntegrityTypeOK'
  BY <1>1, <1>14 DEF IntegrityInv, IntegrityTypeOK
<1> QED
  BY <1>9, <1>10, <1>11, <1>12, <1>13, <1>15 DEF IntegrityInv

(* The world around the checks. *)
LEMMA WorldKeeps ==
  ASSUME IntegrityInv, World
  PROVE  IntegrityInv'
<1> USE DEF IntegrityInv
<1>1. UNCHANGED <<obs, named>>
  BY DEF World, Publish, Damage, Record, Anchor
<1>2. obs' \in Seq(Observed) /\ VerifiedIsEarned' /\ AlarmIsReal' /\ ConsultedIsEarned'
  BY <1>1 DEF VerifiedIsEarned, AlarmIsReal, ConsultedIsEarned
<1>3. published \subseteq published' /\ published' \subseteq Entries
  BY DEF World, Publish, Damage, Record, Anchor, IntegrityTypeOK
<1>4. \A i \in DOMAIN obs' : obs'[i].entry \in published' \ Broken /\ obs'[i].result \in Results
  BY <1>1, <1>3 DEF IntegrityTypeOK
<1>5. PICK e \in Entries : \/ Publish(e) \/ Damage(e)
                           \/ \E v \in EntryEvents : Record(e, v) \/ Anchor(e, v)
  BY DEF World
<1>6. CASE Publish(e)
  <2>1. UNCHANGED <<doc, rowsHash, anchorStatus, chain, anchored, changesMade>>
    BY <1>6 DEF Publish
  <2>2. IntegrityTypeOK' /\ AnchoredHolds' /\ NamedHolds'
    BY <1>1, <1>3, <1>4, <2>1 DEF IntegrityTypeOK, AnchoredHolds, NamedHolds, SettlementSettled
  <2> QED
    BY <1>2, <2>2
<1>7. CASE Damage(e)
  <2> DEFINE FewerSame == \A f \in Entries, v \in EntryEvents : chain'[f][v] = "same" => chain[f][v] = "same"
             Typed == /\ doc' \in [Entries -> [Docs -> {"intact", "altered", "gone"}]]
                      /\ rowsHash' \in [Entries -> [EntryEvents -> BOOLEAN]]
                      /\ chain' \in [Entries -> [EntryEvents -> {"none", "same", "other"}]]
  <2>1. /\ changesMade < MaxChanges /\ changesMade' = changesMade + 1
        /\ UNCHANGED <<published, anchorStatus, anchored>>
    BY <1>7 DEF Damage, ChangedBehind
  <2>2. ASSUME NEW d \in Docs, NEW s \in {"intact", "altered", "gone"},
               doc' = [doc EXCEPT ![e][d] = s], UNCHANGED <<rowsHash, chain>>
        PROVE  Typed /\ FewerSame
    BY <2>2 DEF IntegrityTypeOK
  <2>3. ASSUME NEW v \in EntryEvents, rowsHash' = [rowsHash EXCEPT ![e][v] = ~@],
               UNCHANGED <<doc, chain>>
        PROVE  Typed /\ FewerSame
    <3>1. (~rowsHash[e][v]) \in BOOLEAN
      OBVIOUS
    <3>2. rowsHash' \in [Entries -> [EntryEvents -> BOOLEAN]]
      BY <2>3, <3>1, Zenon DEF IntegrityTypeOK
    <3> QED
      BY <2>3, <3>2 DEF IntegrityTypeOK
  <2>4. ASSUME NEW v \in EntryEvents, chain' = [chain EXCEPT ![e][v] = "none"],
               UNCHANGED <<doc, rowsHash>>
        PROVE  Typed /\ FewerSame
    BY <2>4 DEF IntegrityTypeOK
  <2>5. Typed /\ FewerSame
    <3> HIDE DEF Typed, FewerSame
    <3> QED
      BY <1>7, <2>2, <2>3, <2>4, Zenon DEF Damage
  <2>6. AnchoredHolds' /\ NamedHolds'
    BY <1>1, <2>1, <2>5 DEF AnchoredHolds, NamedHolds, SettlementSettled
  <2>7. changesMade' \in 0 .. MaxChanges
    BY <2>1, IntegrityLimitAssumption DEF IntegrityTypeOK
  <2>8. IntegrityTypeOK'
    BY <1>1, <1>3, <1>4, <2>1, <2>5, <2>7 DEF IntegrityTypeOK
  <2> QED
    BY <1>2, <2>6, <2>8
<1>8. ASSUME NEW v \in EntryEvents, Record(e, v) PROVE IntegrityInv'
  <2>1. PICK k \in {"same", "other"} :
             /\ chain' = [chain EXCEPT ![e][v] = k]
             /\ anchored' = IF k = "same" THEN anchored \cup {<<e, v>>} ELSE anchored
    BY <1>8 DEF Record
  <2>2. anchorStatus[e][v] = "PENDING" /\ UNCHANGED <<published, doc, rowsHash, anchorStatus, changesMade>>
    BY <1>8 DEF Record
  <2>3. /\ chain' \in [Entries -> [EntryEvents -> {"none", "same", "other"}]]
        /\ chain'[e][v] = k
        /\ \A f \in Entries, w \in EntryEvents : (f = e /\ w = v) \/ chain'[f][w] = chain[f][w]
    BY <2>1 DEF IntegrityTypeOK
  <2>4. /\ anchored \subseteq anchored' /\ anchored' \subseteq Entries \X EntryEvents
        /\ k = "same" => <<e, v>> \in anchored'
    BY <2>1 DEF IntegrityTypeOK
  <2>5. ASSUME NEW f \in Entries, NEW w \in EntryEvents
        PROVE  /\ chain'[f][w] = "same" => <<f, w>> \in anchored' /\ anchorStatus'[f][w] # "MISMATCH"
               /\ anchorStatus'[f][w] = "CONFIRMED" => <<f, w>> \in anchored'
    <3>1. CASE f = e /\ w = v
      BY <2>2, <2>3, <2>4, <3>1
    <3>2. CASE ~(f = e /\ w = v)
      BY <2>2, <2>3, <2>4, <3>2 DEF AnchoredHolds
    <3> QED
      BY <3>1, <3>2
  <2>6. AnchoredHolds'
    BY <2>5 DEF AnchoredHolds
  <2>7. NamedHolds'
    BY <1>1, <2>2 DEF NamedHolds, SettlementSettled
  <2>8. IntegrityTypeOK'
    BY <1>1, <1>3, <1>4, <2>2, <2>3, <2>4 DEF IntegrityTypeOK
  <2> QED
    BY <1>2, <2>6, <2>7, <2>8
<1>9. ASSUME NEW v \in EntryEvents, Anchor(e, v) PROVE IntegrityInv'
  <2>1. PICK s \in {"LOCAL", "CONFIRMED", "MISMATCH"} :
             /\ s = "CONFIRMED" => chain[e][v] = "same"
             /\ s = "MISMATCH" => chain[e][v] = "other"
             /\ anchorStatus' = [anchorStatus EXCEPT ![e][v] = s]
    BY <1>9 DEF Anchor
  <2>2. anchorStatus[e][v] = "PENDING" /\ UNCHANGED <<published, doc, rowsHash, chain, anchored, changesMade>>
    BY <1>9 DEF Anchor
  <2>3. /\ anchorStatus' \in [Entries -> [EntryEvents -> {"PENDING", "LOCAL", "CONFIRMED", "MISMATCH"}]]
        /\ anchorStatus'[e][v] = s
        /\ \A f \in Entries, w \in EntryEvents : (f = e /\ w = v) \/ anchorStatus'[f][w] = anchorStatus[f][w]
    BY <2>1 DEF IntegrityTypeOK
  <2>4. AnchoredHolds'
    <3> SUFFICES ASSUME NEW f \in Entries, NEW w \in EntryEvents
                 PROVE  /\ chain[f][w] = "same" => <<f, w>> \in anchored /\ anchorStatus'[f][w] # "MISMATCH"
                        /\ anchorStatus'[f][w] = "CONFIRMED" => <<f, w>> \in anchored
      BY <2>2 DEF AnchoredHolds
    <3>1. CASE f = e /\ w = v
      BY <2>1, <2>2, <2>3, <3>1 DEF AnchoredHolds
    <3>2. CASE ~(f = e /\ w = v)
      BY <2>3, <3>2 DEF AnchoredHolds
    <3> QED
      BY <3>1, <3>2
  <2>5. ASSUME NEW f \in Entries, SettlementSettled(f) PROVE SettlementSettled(f)'
    BY <2>2, <2>3, <2>5 DEF SettlementSettled, Settled
  <2>6. NamedHolds'
    BY <1>1, <2>5 DEF NamedHolds
  <2>7. IntegrityTypeOK'
    BY <1>1, <1>3, <1>4, <2>2, <2>3 DEF IntegrityTypeOK
  <2> QED
    BY <1>2, <2>4, <2>6, <2>7
<1> QED
  BY <1>5, <1>6, <1>7, <1>8, <1>9

(* A page names what can be opened now. *)
LEMMA ViewKeeps ==
  ASSUME IntegrityInv, NEW e \in Entries, ViewPage(e)
  PROVE  IntegrityInv'
<1> USE DEF IntegrityInv
<1>1. UNCHANGED <<published, doc, rowsHash, anchorStatus, chain, anchored, obs, changesMade>>
  BY DEF ViewPage
<1>2. PICK answers \in BOOLEAN : named' = named \cup ({e} \X Page(e, answers).names)
  BY DEF ViewPage
<1>3. Page(e, answers).names = Quotations \cup (IF SettlementSettled(e) THEN Transfer ELSE {})
  BY DEF Page
<1>4. /\ Page(e, answers).names \subseteq Docs
      /\ \A d \in Page(e, answers).names : d \in Quotations \/ SettlementSettled(e)
  BY <1>3 DEF Quotations, Transfer
<1>5. NamedHolds'
  BY <1>1, <1>2, <1>4 DEF NamedHolds, SettlementSettled
<1>6. IntegrityTypeOK'
  BY <1>1, <1>2, <1>4 DEF IntegrityTypeOK
<1>7. AnchoredHolds' /\ VerifiedIsEarned' /\ AlarmIsReal' /\ ConsultedIsEarned' /\ obs' \in Seq(Observed)
  BY <1>1 DEF AnchoredHolds, VerifiedIsEarned, AlarmIsReal, ConsultedIsEarned
<1> QED
  BY <1>5, <1>6, <1>7

(* The public page and a verification read the same evidence. *)
LEMMA PageSays ==
  ASSUME IntegrityInv
  PROVE  PageAgrees /\ ConfirmedWasAnchored /\ NamedIsServed
<1> USE DEF IntegrityInv
<1>1. ASSUME NEW e \in published PROVE e \in Entries
  BY DEF IntegrityTypeOK
<1>2. ASSUME NEW e \in published, NEW v \in EntryEvents, Result(e, ChainEvents(e)) = "VERIFIED"
      PROVE  StepLevel(e, v, TRUE) \in {"LOCAL_SIGNED", "CHAIN_CONFIRMED"}
  <2>1. e \in Entries
    BY <1>1
  <2>2. /\ LocalOk(e) /\ ChainResult(e, ChainEvents(e)) # "MISMATCH"
        /\ ChainResult(e, ChainEvents(e)) = "VERIFIED" \/ AllSettled(e)
    BY <1>2 DEF Result, AllSettled
  <2>3. rowsHash[e][v]
    BY <2>2 DEF LocalOk
  <2>4. CASE Anchoring = "disabled" \/ anchorStatus[e][v] = "LOCAL"
    BY <2>3, <2>4 DEF StepLevel
  <2>5. CASE ~(Anchoring = "disabled" \/ anchorStatus[e][v] = "LOCAL")
    <3>1. v \in ChainEvents(e)
      BY <2>5 DEF ChainEvents
    <3>2. chain[e][v] \in {"none", "same"}
      BY <2>1, <2>2, <3>1, ChainSays DEF IntegrityTypeOK
    <3>3. chain[e][v] = "same" \/ anchorStatus[e][v] = "CONFIRMED"
      BY <2>1, <2>2, <2>5, ChainSays DEF AllSettled, Settled
    <3>4. anchorStatus[e][v] # "MISMATCH"
      BY <2>1, <3>3 DEF AnchoredHolds
    <3> QED
      BY <2>3, <2>5, <3>2, <3>3, <3>4 DEF StepLevel, StoredLevel
  <2> QED
    BY <2>4, <2>5
<1>3. ASSUME NEW e \in published, Result(e, ChainEvents(e)) = "MISMATCH", DocResult(e) # "MISMATCH"
      PROVE  \E v \in EntryEvents : StepLevel(e, v, TRUE) = "MISMATCH"
  <2>1. ~LocalOk(e) \/ ChainResult(e, ChainEvents(e)) = "MISMATCH"
    BY <1>3 DEF Result
  <2>2. CASE ~LocalOk(e)
    BY <2>2 DEF LocalOk, StepLevel
  <2>3. CASE ChainResult(e, ChainEvents(e)) = "MISMATCH"
    <3>1. PICK v \in ChainEvents(e) : chain[e][v] = "other"
      BY <1>1, <2>3, ChainSays
    <3>2. v \in EntryEvents /\ Anchoring # "disabled" /\ anchorStatus[e][v] # "LOCAL"
      BY <3>1 DEF ChainEvents
    <3>3. StepLevel(e, v, TRUE) = "MISMATCH"
      BY <3>1, <3>2 DEF StepLevel
    <3> QED
      BY <3>2, <3>3
  <2> QED
    BY <2>1, <2>2, <2>3
<1>4. PageAgrees
  BY <1>2, <1>3 DEF PageAgrees
<1>5. ASSUME NEW e \in published, NEW v \in EntryEvents, NEW answers \in BOOLEAN,
             StepLevel(e, v, answers) = "CHAIN_CONFIRMED"
      PROVE  rowsHash[e][v] /\ <<e, v>> \in anchored
  <2>1. e \in Entries /\ chain[e][v] \in {"none", "same", "other"}
    BY <1>1 DEF IntegrityTypeOK
  <2>2. rowsHash[e][v] /\ (anchorStatus[e][v] = "CONFIRMED" \/ chain[e][v] = "same")
    BY <1>5, <2>1 DEF StepLevel, StoredLevel
  <2> QED
    BY <2>1, <2>2 DEF AnchoredHolds
<1>6. ConfirmedWasAnchored
  BY <1>5 DEF ConfirmedWasAnchored
<1>7. NamedIsServed
  BY <1>1 DEF NamedIsServed, NamedHolds, Serves, Resolved
<1> QED
  BY <1>4, <1>6, <1>7

(* Nothing is published and nothing observed. *)
LEMMA IntegrityStarts == IntegrityInit => IntegrityInv
<1> SUFFICES ASSUME IntegrityInit PROVE IntegrityInv
  OBVIOUS
<1>1. rowsHash \in [Entries -> [EntryEvents -> BOOLEAN]]
  BY Zenon DEF IntegrityInit
<1>2. obs \in Seq(Observed) /\ DOMAIN obs = {}
  BY DEF IntegrityInit
<1>3. IntegrityTypeOK
  BY <1>1, <1>2, IntegrityLimitAssumption DEF IntegrityInit, IntegrityTypeOK
<1>4. AnchoredHolds /\ NamedHolds
  BY DEF IntegrityInit, AnchoredHolds, NamedHolds
<1>5. VerifiedIsEarned /\ AlarmIsReal /\ ConsultedIsEarned
  BY <1>2 DEF VerifiedIsEarned, AlarmIsReal, ConsultedIsEarned
<1> QED
  BY <1>2, <1>3, <1>4, <1>5 DEF IntegrityInv

(* The invariant holds in every reachable state. *)
THEOREM IntegrityInvariant == IntegritySpec => []IntegrityInv
<1>1. IntegrityInv /\ [IntegrityNext]_integrityVars => IntegrityInv'
  <2> SUFFICES ASSUME IntegrityInv, [IntegrityNext]_integrityVars PROVE IntegrityInv'
    OBVIOUS
  <2>1. CASE UNCHANGED integrityVars
    BY <2>1 DEF integrityVars, IntegrityInv, IntegrityTypeOK, AnchoredHolds, NamedHolds,
                SettlementSettled, VerifiedIsEarned, AlarmIsReal, ConsultedIsEarned
  <2>2. CASE Worker \/ Command
    BY <2>2, VerifyKeeps DEF Worker, Command, WorkerVerify, CommandVerify
  <2>3. CASE Reader
    BY <2>3, ViewKeeps DEF Reader
  <2> QED
    BY <2>1, <2>2, <2>3, WorldKeeps DEF IntegrityNext
<1> QED
  BY <1>1, IntegrityStarts, PTL DEF IntegritySpec

(* An observation says what was true when it was made, and an alteration   *)
(* that was read is never passed over; the public page agrees with a       *)
(* verification made at the same moment, shows as confirmed only a hash    *)
(* that was on the chain once, and names no document it does not serve.    *)
(* For every number of entries, documents, events and observations, with   *)
(* any of them missing or altered (verify_published_entry,                 *)
(* _read_chain_step, document_download).                                   *)
THEOREM ObservationsCorrect == IntegritySpec => []ObservationsEarned
<1>1. IntegrityInv => ObservationsEarned
  BY PageSays DEF IntegrityInv, ObservationsEarned
<1> QED
  BY <1>1, IntegrityInvariant, PTL

-----------------------------------------------------------------------------
(* The unified worker. *)

(* Open cases at the end of the time in which the scan looks at them: the  *)
(* next tick is too late for their warning.                                *)
LastDay == {c \in Cases : case[c] = "open" /\ Deadline[c] + Horizon = now}

(* No more cases fall due together than one scan takes. *)
ScanTakesADay ==
    \A c \in Cases, n \in {ScanLimit, OnceLimit} :
        Cardinality({d \in Cases : Deadline[d] = Deadline[c]}) <= n

(* A worker has a batch only at the scan; an adapter that is broken has    *)
(* been so in the cycle of every worker, and one that is off has reported  *)
(* nothing.                                                                *)
WorkersHold ==
    /\ \A w \in Replicas : batch[w] # {} => mode[w] # "off" /\ pc[w] = 4
    /\ \A w \in Replicas : broken \subseteq raised[w]
    /\ \A w \in Replicas : mode[w] = "off" => failed[w] = {}

(* A worker whose adapter has worked since its scan has warned about the   *)
(* cases of the last day or will; a scan that ran to its end has.          *)
ScansHold ==
    /\ \A w \in Replicas : batch[w] # {} /\ "deadline_risk" \notin raised[w] =>
          LastDay \subseteq batch[w] \cup warned
    /\ scanned => LastDay \subseteq warned

WorkerInv == WorkerTypeOK /\ FailuresAreTheirOwn /\ NearDueIsWarned /\ WorkersHold /\ ScansHold

(* The processors of a cycle, in their order. *)
LEMMA Seven ==
  /\ Len(PROCESSORS) = 7
  /\ \A k \in 1 .. 7 : PROCESSORS[k] = "deadline_risk" <=> k = 4
  /\ \A k \in 1 .. 7 : PROCESSORS[k] \in Names
  /\ "deadline_risk" \in Names
<1>1. Len(PROCESSORS) = 7
  BY DEF PROCESSORS
<1>2. \A k \in 1 .. 7 : PROCESSORS[k] = "deadline_risk" <=> k = 4
  BY DEF PROCESSORS
<1>3. \A k \in 1 .. 7 : PROCESSORS[k] \in Names
  BY <1>1 DEF Names
<1> QED
  BY <1>1, <1>2, <1>3

(* No processor is called with a keyword it does not take. *)
LEMMA OnlyBroken ==
  ASSUME NEW w, NEW p
  PROVE  Fails(w, p) <=> p \in broken
BY DEF Fails, KwargsFor, Given, Takes

(* The limit of the scan is one of the two. *)
LEMMA ScanLimits == \A w : Limit(w, "deadline_risk") \in {ScanLimit, OnceLimit}
BY DEF Limit

(* The cases of the last day are at the head of the scan: they are the     *)
(* oldest it looks at.                                                     *)
LEMMA LastDayIsScanned ==
  ASSUME WorkerTypeOK, ScanTakesADay, NEW n \in {ScanLimit, OnceLimit}
  PROVE  LastDay \subseteq Scan(n)
<1> SUFFICES ASSUME NEW c \in LastDay PROVE c \in Scan(n)
  OBVIOUS
<1>1. /\ c \in Cases /\ case[c] = "open" /\ Deadline[c] + Horizon = now
      /\ Deadline[c] \in Nat /\ Horizon \in Nat \ {0} /\ now \in Nat /\ n \in Nat
  BY DeadlineAssumption, LimitsAssumption DEF LastDay, WorkerTypeOK
<1>2. c \in AtRisk
  BY <1>1 DEF AtRisk
<1> DEFINE same == {d \in Cases : Deadline[d] = Deadline[c]}
           ahead == {d \in AtRisk : Before(d, c)}
<1>3. ahead \subseteq same \ {c}
  <2> SUFFICES ASSUME NEW d \in AtRisk, Before(d, c) PROVE d \in same /\ d # c
    OBVIOUS
  <2>1. d \in Cases /\ Deadline[d] \in Nat /\ Deadline[d] + Horizon >= now
    BY DeadlineAssumption DEF AtRisk
  <2>2. Deadline[d] >= Deadline[c]
    BY <1>1, <2>1
  <2>3. c \in Nat /\ d \in Nat
    BY <1>1, <2>1, CasesAssumption
  <2> QED
    BY <1>1, <2>1, <2>2, <2>3 DEF Before
<1>4. IsFiniteSet(same) /\ Cardinality(same) \in Nat /\ Cardinality(same) <= n
  <2>1. same \in SUBSET Cases
    OBVIOUS
  <2>2. IsFiniteSet(same)
    BY <2>1, CasesAssumption, FS_Subset
  <2> QED
    BY <1>1, <2>2, FS_CardinalityType DEF ScanTakesADay
<1>5. IsFiniteSet(same \ {c}) /\ Cardinality(same \ {c}) = Cardinality(same) - 1
  BY <1>1, <1>4, FS_RemoveElement
<1>6. Cardinality(ahead) <= Cardinality(same \ {c}) /\ Cardinality(ahead) \in Nat
  BY <1>3, <1>5, FS_Subset, FS_CardinalityType
<1>7. Cardinality(ahead) < n
  BY <1>1, <1>4, <1>5, <1>6
<1> QED
  BY <1>2, <1>7 DEF Scan

(* A processor reports. *)
LEMMA ReportKeeps ==
  ASSUME WorkerTypeOK, FailuresAreTheirOwn, NEW w \in Replicas, NEW p \in Names, NEW ok \in BOOLEAN,
         At(w, p), ok \/ p \in raised[w], Report(w, p, ok)
  PROVE  /\ pc' \in [Replicas -> 1 .. Len(PROCESSORS) + 1]
         /\ failed' \in [Replicas -> SUBSET Names]
         /\ \A v \in Replicas : failed'[v] \subseteq raised[v]
         /\ \A v \in Replicas \ {w} : pc'[v] = pc[v] /\ failed'[v] = failed[v]
<1>1. pc[w] \in 1 .. 7 /\ pc \in [Replicas -> 1 .. 8] /\ Len(PROCESSORS) + 1 = 8
  BY Seven DEF At, WorkerTypeOK
<1>2. pc' = [pc EXCEPT ![w] = pc[w] + 1]
  BY DEF Report
<1>3. /\ pc' \in [Replicas -> 1 .. Len(PROCESSORS) + 1]
      /\ \A v \in Replicas \ {w} : pc'[v] = pc[v]
  BY <1>1, <1>2
<1> DEFINE F == IF ok THEN failed[w] ELSE failed[w] \cup {p}
<1>4. F \in SUBSET Names /\ failed' = [failed EXCEPT ![w] = F] /\ F \subseteq raised[w]
  BY DEF Report, WorkerTypeOK, FailuresAreTheirOwn
<1> HIDE DEF F
<1>5. /\ failed' \in [Replicas -> SUBSET Names]
      /\ \A v \in Replicas \ {w} : failed'[v] = failed[v]
      /\ \A v \in Replicas : failed'[v] \subseteq raised[v]
  BY <1>4 DEF WorkerTypeOK, FailuresAreTheirOwn
<1> QED
  BY <1>3, <1>5

(* A queue processor. *)
LEMMA RunQueueKeeps ==
  ASSUME WorkerInv, NEW w \in Replicas, NEW p \in Queues, RunQueue(w, p)
  PROVE  WorkerInv'
<1> USE DEF WorkerInv
<1>1. /\ At(w, p) /\ Report(w, p, ~Fails(w, p))
      /\ UNCHANGED <<mode, batch, broken, raised, arrivals, case, warned, now, scanned, workerFaults>>
  BY DEF RunQueue
<1>2. p \in Names /\ p # "deadline_risk" /\ (~Fails(w, p) \/ p \in raised[w])
  BY OnlyBroken DEF Queues, WorkersHold
<1>3. mode[w] # "off" /\ pc[w] # 4 /\ pc[w] \in 1 .. 7
  BY <1>1, <1>2, Seven DEF At, WorkerTypeOK
<1>4. /\ pc' \in [Replicas -> 1 .. Len(PROCESSORS) + 1]
      /\ failed' \in [Replicas -> SUBSET Names]
      /\ \A v \in Replicas : failed'[v] \subseteq raised[v]
      /\ \A v \in Replicas \ {w} : pc'[v] = pc[v] /\ failed'[v] = failed[v]
  BY <1>1, <1>2, ReportKeeps
<1>5. queue' \in [Queues -> Nat]
  <2>1. PICK n \in 0 .. Batch(w, p) : queue' = [queue EXCEPT ![p] = @ - n]
    <3>1. Batch(w, p) \in Nat
      BY LimitsAssumption DEF Batch, Limit, WorkerTypeOK
    <3>2. CASE Fails(w, p)
      BY <3>2 DEF RunQueue
    <3>3. CASE ~Fails(w, p)
      <4>1. queue' = [queue EXCEPT ![p] = @ - Batch(w, p)]
        BY <3>3, Zenon DEF RunQueue
      <4>2. Batch(w, p) \in 0 .. Batch(w, p)
        BY <3>1
      <4> QED
        BY <4>1, <4>2
    <3> QED
      BY <3>2, <3>3
  <2>2. Batch(w, p) \in Nat /\ Batch(w, p) <= queue[p] /\ queue[p] \in Nat
    BY LimitsAssumption DEF Batch, Limit, WorkerTypeOK
  <2> QED
    BY <2>1, <2>2 DEF WorkerTypeOK
<1>6. WorkerTypeOK'
  BY <1>1, <1>4, <1>5 DEF WorkerTypeOK
<1>7. FailuresAreTheirOwn' /\ NearDueIsWarned'
  BY <1>1, <1>4 DEF FailuresAreTheirOwn, NearDueIsWarned
<1>8. WorkersHold' /\ ScansHold'
  BY <1>1, <1>3, <1>4 DEF WorkersHold, ScansHold, LastDay
<1> QED
  BY <1>6, <1>7, <1>8

(* The query of the scan. *)
LEMMA StartScanKeeps ==
  ASSUME WorkerInv, ScanTakesADay, NEW w \in Replicas, StartScan(w)
  PROVE  WorkerInv'
<1> USE DEF WorkerInv
<1> DEFINE n == Limit(w, "deadline_risk")
<1>1. /\ At(w, "deadline_risk") /\ batch[w] = {}
      /\ UNCHANGED <<mode, queue, broken, raised, arrivals, case, warned, now, workerFaults>>
  BY DEF StartScan
<1>2. LastDay' = LastDay
  BY <1>1 DEF LastDay
<1>3. LastDay \subseteq Scan(n) /\ Scan(n) \subseteq Cases
  BY LastDayIsScanned, ScanLimits DEF Scan, AtRisk
<1>4. "deadline_risk" \in Names /\ mode[w] # "off" /\ pc[w] = 4
  BY <1>1, Seven DEF At, WorkerTypeOK
<1>6. CASE UNCHANGED batch /\ \E ok \in BOOLEAN : Report(w, "deadline_risk", ok) /\ (ok \/ "deadline_risk" \in raised[w])
                                      /\ (scanned' = scanned \/ (scanned' = TRUE /\ Scan(n) = {}))
  <2>1. PICK ok \in BOOLEAN : /\ Report(w, "deadline_risk", ok) /\ (ok \/ "deadline_risk" \in raised[w])
                  /\ (scanned' = scanned \/ (scanned' = TRUE /\ Scan(n) = {}))
    BY <1>6
  <2>2. /\ pc' \in [Replicas -> 1 .. Len(PROCESSORS) + 1]
        /\ failed' \in [Replicas -> SUBSET Names]
        /\ \A v \in Replicas : failed'[v] \subseteq raised[v]
        /\ \A v \in Replicas \ {w} : pc'[v] = pc[v] /\ failed'[v] = failed[v]
    BY <1>1, <1>4, <2>1, ReportKeeps
  <2>3. scanned' \in BOOLEAN
    BY <2>1 DEF WorkerTypeOK
  <2>4. WorkerTypeOK'
    BY <1>1, <1>6, <2>2, <2>3 DEF WorkerTypeOK
  <2>5. FailuresAreTheirOwn' /\ NearDueIsWarned'
    BY <1>1, <2>2 DEF FailuresAreTheirOwn, NearDueIsWarned
  <2>6. WorkersHold'
    BY <1>1, <1>4, <1>6, <2>2 DEF WorkersHold
  <2>7. scanned' => LastDay' \subseteq warned'
    BY <1>1, <1>2, <1>3, <2>1 DEF ScansHold
  <2>8. ScansHold'
    BY <1>1, <1>2, <1>6, <2>7 DEF ScansHold
  <2> QED
    BY <2>4, <2>5, <2>6, <2>8
<1>7. CASE batch' = [batch EXCEPT ![w] = Scan(n)] /\ UNCHANGED <<pc, failed, scanned>>
  <2>1. batch' \in [Replicas -> SUBSET Cases] /\ batch'[w] = Scan(n)
        /\ \A v \in Replicas \ {w} : batch'[v] = batch[v]
    BY <1>3, <1>7 DEF WorkerTypeOK
  <2>2. WorkerTypeOK'
    BY <1>1, <1>7, <2>1 DEF WorkerTypeOK
  <2>3. FailuresAreTheirOwn' /\ NearDueIsWarned'
    BY <1>1, <1>7 DEF FailuresAreTheirOwn, NearDueIsWarned
  <2>4. WorkersHold'
    BY <1>1, <1>4, <1>7, <2>1 DEF WorkersHold
  <2>5. ScansHold'
    BY <1>1, <1>2, <1>3, <1>7, <2>1 DEF ScansHold
  <2> QED
    BY <2>2, <2>3, <2>4, <2>5
<1>8. \/ UNCHANGED batch /\ \E ok \in BOOLEAN : Report(w, "deadline_risk", ok) /\ (ok \/ "deadline_risk" \in raised[w])
                                      /\ (scanned' = scanned \/ (scanned' = TRUE /\ Scan(n) = {}))
      \/ batch' = [batch EXCEPT ![w] = Scan(n)] /\ UNCHANGED <<pc, failed, scanned>>
  <2>1. Fails(w, "deadline_risk") => "deadline_risk" \in raised[w]
    BY OnlyBroken DEF WorkersHold
  <2>2. CASE /\ Fails(w, "deadline_risk") /\ Report(w, "deadline_risk", FALSE)
             /\ UNCHANGED <<batch, scanned>>
    BY <2>1, <2>2
  <2>3. CASE /\ Scan(n) = {} /\ scanned' = TRUE /\ Report(w, "deadline_risk", TRUE) /\ UNCHANGED batch
    BY <2>3
  <2> QED
    BY <2>2, <2>3, Zenon DEF StartScan
<1> QED
  BY <1>6, <1>7, <1>8

(* A warning. *)
LEMMA WarnKeeps ==
  ASSUME WorkerInv, NEW w \in Replicas, Warn(w)
  PROVE  WorkerInv'
<1> USE DEF WorkerInv
<1>1. /\ At(w, "deadline_risk")
      /\ UNCHANGED <<mode, queue, broken, raised, arrivals, case, now, workerFaults>>
  BY DEF Warn
<1>2. PICK c \in batch[w] :
          /\ warned' = IF "deadline_risk" \in broken THEN warned ELSE warned \cup {c}
          /\ batch' = [batch EXCEPT ![w] = @ \ {c}]
          /\ IF batch[w] = {c}
             THEN /\ Report(w, "deadline_risk", TRUE)
                  /\ scanned' = (scanned \/ "deadline_risk" \notin raised[w])
             ELSE UNCHANGED <<pc, failed, scanned>>
  BY DEF Warn
<1>3. LastDay' = LastDay
  BY <1>1 DEF LastDay
<1>4. "deadline_risk" \in Names /\ mode[w] # "off" /\ pc[w] = 4
  BY <1>1, Seven DEF At, WorkerTypeOK
<1>5. /\ pc' \in [Replicas -> 1 .. Len(PROCESSORS) + 1]
      /\ failed' \in [Replicas -> SUBSET Names]
      /\ \A v \in Replicas : failed'[v] \subseteq raised[v]
      /\ \A v \in Replicas \ {w} : pc'[v] = pc[v] /\ failed'[v] = failed[v]
  <2>1. CASE batch[w] = {c}
    BY <1>1, <1>2, <1>4, <2>1, ReportKeeps
  <2>2. CASE batch[w] # {c}
    BY <1>2, <2>2 DEF WorkerTypeOK, FailuresAreTheirOwn
  <2> QED
    BY <2>1, <2>2
<1>6. /\ c \in Cases /\ batch' \in [Replicas -> SUBSET Cases] /\ batch'[w] = batch[w] \ {c}
      /\ \A v \in Replicas \ {w} : batch'[v] = batch[v]
  BY <1>2 DEF WorkerTypeOK
<1>7. warned \subseteq warned' /\ warned' \subseteq Cases
      /\ ("deadline_risk" \notin raised[w] => c \in warned')
  BY <1>2, <1>6 DEF WorkerTypeOK, WorkersHold
<1>8. scanned' \in BOOLEAN
  BY <1>2, Zenon DEF WorkerTypeOK
<1>9. WorkerTypeOK'
  BY <1>1, <1>5, <1>6, <1>7, <1>8 DEF WorkerTypeOK
<1>10. FailuresAreTheirOwn' /\ NearDueIsWarned'
  BY <1>1, <1>5, <1>7 DEF FailuresAreTheirOwn, NearDueIsWarned
<1>11. WorkersHold'
  <2>1. batch'[w] # {} => pc' = pc
    BY <1>2, <1>6
  <2> QED
    BY <1>1, <1>4, <1>5, <1>6, <2>1 DEF WorkersHold
<1>12. "deadline_risk" \notin raised[w] => LastDay \subseteq batch'[w] \cup warned'
  BY <1>2, <1>6, <1>7 DEF ScansHold
<1>13. scanned' => LastDay \subseteq warned'
  <2>1. CASE batch[w] = {c}
    <3>1. scanned' => scanned \/ "deadline_risk" \notin raised[w]
      BY <1>2, <2>1
    <3>2. batch'[w] = {}
      BY <1>6, <2>1
    <3> QED
      BY <1>7, <1>12, <3>1, <3>2 DEF ScansHold
  <2>2. CASE batch[w] # {c}
    BY <1>2, <1>7, <2>2 DEF ScansHold
  <2> QED
    BY <2>1, <2>2
<1>14. ScansHold'
  BY <1>1, <1>3, <1>6, <1>7, <1>12, <1>13 DEF ScansHold
<1> QED
  BY <1>9, <1>10, <1>11, <1>14

(* The end of a cycle, a start and a kill. *)
LEMMA CyclesKeep ==
  ASSUME WorkerInv, NEW w \in Replicas,
         EndCycle(w) \/ Kill(w) \/ \E m \in Modes : Start(w, m)
  PROVE  WorkerInv'
<1> USE DEF WorkerInv
<1>1. /\ UNCHANGED <<queue, broken, arrivals, case, warned, now, scanned>>
      /\ LastDay' = LastDay
  BY DEF EndCycle, Kill, Start, LastDay
<1>2. batch'[w] = {} /\ batch' \in [Replicas -> SUBSET Cases]
      /\ \A v \in Replicas \ {w} : batch'[v] = batch[v]
  <2>1. CASE EndCycle(w)
    BY <2>1, Seven DEF EndCycle, WorkersHold, WorkerTypeOK
  <2>2. CASE Kill(w)
    BY <2>2 DEF Kill, WorkerTypeOK
  <2>3. CASE \E m \in Modes : Start(w, m)
    BY <2>3 DEF Start, WorkersHold, WorkerTypeOK
  <2> QED
    BY <2>1, <2>2, <2>3
<1>3. /\ mode' \in [Replicas -> Modes \cup {"off"}]
      /\ \A v \in Replicas \ {w} : mode'[v] = mode[v]
  <2>1. CASE EndCycle(w)
    <3>1. PICK m \in AfterCycle(mode[w]) : mode' = [mode EXCEPT ![w] = m]
      BY <2>1 DEF EndCycle
    <3>2. mode[w] \in Modes
      BY <2>1 DEF EndCycle, WorkerTypeOK
    <3>3. m \in Modes \cup {"off"}
      BY <3>1, <3>2, LimitsAssumption DEF AfterCycle
    <3> QED
      BY <3>1, <3>3 DEF WorkerTypeOK
  <2>2. CASE Kill(w)
    BY <2>2 DEF Kill, WorkerTypeOK
  <2>3. CASE \E m \in Modes : Start(w, m)
    BY <2>3 DEF Start, WorkerTypeOK
  <2> QED
    BY <2>1, <2>2, <2>3
<1>4. /\ pc' \in [Replicas -> 1 .. Len(PROCESSORS) + 1]
      /\ \A v \in Replicas \ {w} : pc'[v] = pc[v]
  BY Seven DEF EndCycle, Kill, Start, WorkerTypeOK
<1>5. /\ raised' \in [Replicas -> SUBSET Names]
      /\ \A v \in Replicas : broken' \subseteq raised'[v]
      /\ \A v \in Replicas \ {w} : raised'[v] = raised[v]
  <2>1. broken \subseteq Names
    BY BreakableAssumption DEF WorkerTypeOK
  <2> QED
    BY <1>1, <2>1 DEF EndCycle, Kill, Start, WorkerTypeOK, WorkersHold
<1>6. /\ failed' \in [Replicas -> SUBSET Names]
      /\ \A v \in Replicas : failed'[v] \subseteq raised'[v]
  <2>1. CASE EndCycle(w)
    BY <1>5, <2>1 DEF EndCycle, WorkerTypeOK, FailuresAreTheirOwn
  <2>2. CASE Kill(w)
    BY <1>5, <2>2 DEF Kill, WorkerTypeOK, FailuresAreTheirOwn
  <2>3. CASE \E m \in Modes : Start(w, m)
    <3>1. failed' = failed /\ failed[w] = {}
      BY <2>3 DEF Start, WorkersHold
    <3> QED
      BY <1>5, <3>1 DEF WorkerTypeOK, FailuresAreTheirOwn
  <2> QED
    BY <2>1, <2>2, <2>3
<1>7. WorkerTypeOK'
  BY <1>1, <1>2, <1>3, <1>4, <1>5, <1>6 DEF WorkerTypeOK
<1>8. FailuresAreTheirOwn' /\ NearDueIsWarned'
  BY <1>1, <1>6 DEF FailuresAreTheirOwn, NearDueIsWarned
<1>9. WorkersHold'
  <2>1. \A v \in Replicas : mode'[v] = "off" => failed'[v] = {}
    BY <1>3 DEF EndCycle, Kill, Start, WorkersHold, WorkerTypeOK
  <2> QED
    BY <1>2, <1>3, <1>4, <1>5, <2>1 DEF WorkersHold
<1>10. ScansHold'
  BY <1>1, <1>2, <1>5 DEF ScansHold
<1> QED
  BY <1>7, <1>8, <1>9, <1>10

(* The surroundings. *)
LEMMA SurroundingsKeep ==
  ASSUME WorkerInv,
         \/ \E p \in Queues : Arrive(p)
         \/ \E p \in Breakable : Break(p) \/ Repair(p)
         \/ \E c \in Cases : OpenCase(c) \/ CompleteCase(c)
  PROVE  WorkerInv'
<1> USE DEF WorkerInv
<1>1. UNCHANGED <<mode, pc, batch, failed, warned, now, scanned>>
  BY DEF Arrive, Break, Repair, OpenCase, CompleteCase
<1>2. /\ queue' \in [Queues -> Nat] /\ broken' \subseteq Breakable
      /\ case' \in [Cases -> {"none", "open", "completed"}]
  <2>1. queue' \in [Queues -> Nat]
    BY DEF Arrive, Break, Repair, OpenCase, CompleteCase, work, WorkerTypeOK
  <2>2. broken' \subseteq Breakable
    BY DEF Arrive, Break, Repair, OpenCase, CompleteCase, work, WorkerTypeOK
  <2>3. case' \in [Cases -> {"none", "open", "completed"}]
    BY DEF Arrive, Break, Repair, OpenCase, CompleteCase, work, WorkerTypeOK
  <2> QED
    BY <2>1, <2>2, <2>3
<1>3. /\ raised' \in [Replicas -> SUBSET Names]
      /\ \A w \in Replicas : raised[w] \subseteq raised'[w] /\ broken' \subseteq raised'[w]
  <2>1. ASSUME NEW p \in Breakable, Break(p)
        PROVE  /\ raised' \in [Replicas -> SUBSET Names]
               /\ \A w \in Replicas : raised[w] \subseteq raised'[w] /\ broken' \subseteq raised'[w]
    BY <2>1, BreakableAssumption DEF Break, WorkersHold, WorkerTypeOK
  <2>2. CASE raised' = raised /\ broken' \subseteq broken
    BY <2>2 DEF WorkersHold, WorkerTypeOK
  <2>3. (raised' = raised /\ broken' \subseteq broken) \/ \E p \in Breakable : Break(p)
    BY DEF Arrive, Repair, OpenCase, CompleteCase
  <2> QED
    BY <2>1, <2>2, <2>3
<1>4. WorkerTypeOK'
  BY <1>1, <1>2, <1>3 DEF WorkerTypeOK
<1>5. FailuresAreTheirOwn' /\ WorkersHold'
  BY <1>1, <1>3 DEF FailuresAreTheirOwn, WorkersHold
<1>6. \A c \in Cases : case'[c] = "open" => case[c] = "open" \/ Deadline[c] >= now
  BY DEF Arrive, Break, Repair, OpenCase, CompleteCase, WorkerTypeOK
<1>7. \A c \in Cases : /\ Deadline[c] \in Nat /\ now \in Nat /\ Horizon \in Nat \ {0}
                       /\ (Deadline[c] >= now => Deadline[c] + Horizon > now)
  BY DeadlineAssumption, LimitsAssumption DEF WorkerTypeOK
<1>8. NearDueIsWarned'
  BY <1>1, <1>6, <1>7 DEF NearDueIsWarned
<1>9. LastDay' \subseteq LastDay
  BY <1>1, <1>6, <1>7 DEF LastDay
<1>10. ScansHold'
  BY <1>1, <1>3, <1>9 DEF ScansHold
<1> QED
  BY <1>4, <1>5, <1>8, <1>10

(* A day passes: a scan ran to its end in it, or there was nothing to see. *)
LEMMA ClockKeeps ==
  ASSUME WorkerInv, ClockTicks
  PROVE  WorkerInv'
<1> USE DEF WorkerInv
<1>1. /\ now < MaxTime /\ now' = now + 1 /\ scanned' = FALSE /\ (scanned \/ AtRisk = {})
      /\ \A w \in Replicas : batch[w] = {}
      /\ UNCHANGED <<mode, pc, batch, failed, queue, broken, raised, case, warned>>
  BY DEF ClockTicks, work
<1>2. now \in Nat /\ now' \in 0 .. MaxTime
  BY <1>1, LimitsAssumption DEF WorkerTypeOK
<1>3. WorkerTypeOK'
  BY <1>1, <1>2 DEF WorkerTypeOK
<1>4. FailuresAreTheirOwn' /\ WorkersHold' /\ ScansHold'
  BY <1>1 DEF FailuresAreTheirOwn, WorkersHold, ScansHold
<1>5. ASSUME NEW c \in Cases, case[c] = "open", now + 1 > Deadline[c] + Horizon
      PROVE  c \in warned
  <2>1. Deadline[c] \in Nat /\ Horizon \in Nat \ {0}
    BY DeadlineAssumption, LimitsAssumption
  <2>2. CASE now > Deadline[c] + Horizon
    BY <1>5, <2>2 DEF NearDueIsWarned
  <2>3. CASE now = Deadline[c] + Horizon
    <3>1. c \in AtRisk /\ c \in LastDay
      BY <1>2, <1>5, <2>1, <2>3 DEF AtRisk, LastDay
    <3> QED
      BY <1>1, <3>1 DEF ScansHold
  <2> QED
    BY <1>2, <1>5, <2>1, <2>2, <2>3
<1>6. NearDueIsWarned'
  BY <1>1, <1>5 DEF NearDueIsWarned
<1> QED
  BY <1>3, <1>4, <1>6

(* No worker runs. *)
LEMMA WorkerStarts == WorkerInit => WorkerInv
<1> SUFFICES ASSUME WorkerInit PROVE WorkerInv
  OBVIOUS
<1>1. WorkerTypeOK
  <2>1. pc \in [Replicas -> 1 .. Len(PROCESSORS) + 1]
    BY Seven DEF WorkerInit
  <2>2. mode \in [Replicas -> Modes \cup {"off"}] /\ queue \in [Queues -> Nat]
    BY DEF WorkerInit
  <2>3. batch \in [Replicas -> SUBSET Cases] /\ failed \in [Replicas -> SUBSET Names]
    BY DEF WorkerInit
  <2>4. raised \in [Replicas -> SUBSET Names] /\ case \in [Cases -> {"none", "open", "completed"}]
    BY DEF WorkerInit
  <2>5. now \in 0 .. MaxTime /\ scanned \in BOOLEAN /\ warned \subseteq Cases /\ broken \subseteq Breakable
    <3>1. 0 \in 0 .. MaxTime
      BY LimitsAssumption
    <3> QED
      BY <3>1 DEF WorkerInit
  <2> QED
    BY <2>1, <2>2, <2>3, <2>4, <2>5 DEF WorkerTypeOK
<1>2. FailuresAreTheirOwn /\ NearDueIsWarned /\ WorkersHold /\ ScansHold
  BY DEF WorkerInit, FailuresAreTheirOwn, NearDueIsWarned, WorkersHold, ScansHold
<1> QED
  BY <1>1, <1>2 DEF WorkerInv

(* Whatever breaks, dies or is started twice, a failure is reported where  *)
(* it is, and no case passes its deadline unannounced while scans run, for *)
(* every number of replicas, cases and faults, as long as no more cases    *)
(* fall due together than a scan takes (run_worker_cycle,                  *)
(* process_deadline_risk_batch).                                           *)
THEOREM CyclesCorrect ==
  ASSUME ScanTakesADay
  PROVE  WorkerSpec => []WorkerHolds
<1>1. WorkerInv /\ [WorkerNext]_workerVars => WorkerInv'
  <2> SUFFICES ASSUME WorkerInv, [WorkerNext]_workerVars PROVE WorkerInv'
    OBVIOUS
  <2>1. CASE UNCHANGED workerVars
    BY <2>1 DEF workerVars, WorkerInv, WorkerTypeOK, FailuresAreTheirOwn, NearDueIsWarned,
                WorkersHold, ScansHold, LastDay
  <2>2. CASE WorkerNext
    BY <2>2, RunQueueKeeps, StartScanKeeps, WarnKeeps, CyclesKeep, SurroundingsKeep, ClockKeeps
       DEF WorkerNext, Step
  <2> QED
    BY <2>1, <2>2
<1>2. WorkerInv => WorkerHolds
  BY DEF WorkerInv, WorkerHolds
<1> QED
  BY <1>1, <1>2, WorkerStarts, PTL DEF WorkerSpec

-----------------------------------------------------------------------------
(* The demo scripts. *)

KeySet == [evidence_secret : 0 .. MaxKeys, signer_address : 0 .. MaxKeys]
Envs == [secret_key : 0 .. MaxKeys, evidence : 0 .. MaxKeys, signer : 0 .. MaxKeys, inside : BOOLEAN]
Volumes == [state : {"absent", "empty", "seeded"}, keys : KeySet, visits : SUBSET Nat]
Started4 == [name : Processes, keys : KeySet]

(* Steps of reset.sh after the old fingerprints are gone, and after seed.  *)
AfterForget == {"wipe", "migrate", "seed", "clear", "build", "static", "fingerprints"}
AfterSeed == {"clear", "build", "static", "fingerprints"}
ResetSteps == {"env", "archive", "forget"} \cup AfterForget

(* Steps of up.sh, from each of them on. *)
FromSmoke == {"smoke", "shown"}
FromTunnel == {"tunnel"} \cup FromSmoke
FromCloudflared == {"cloudflared"} \cup FromTunnel
FromCaddy == {"caddy"} \cup FromCloudflared
FromWorker == {"worker"} \cup FromCaddy
FromGunicorn == {"gunicorn"} \cup FromWorker
AfterVerify == {"clamav", "kit"} \cup FromGunicorn
UpSteps == {"verify"} \cup AfterVerify

DemoTyped ==
    /\ env \in Envs /\ ukeys \in Envs /\ rkeys \in Envs /\ recorded \in KeySet
    /\ db \in Volumes /\ visits \in Nat /\ minted \in 0 .. MaxKeys
    /\ archive \subseteq 1 .. visits /\ db.visits \subseteq 1 .. visits /\ late \subseteq 1 .. visits
    /\ site \subseteq {"app", "static"}
    /\ reset \in {NotRunning} \cup ResetSteps /\ up \in {NotRunning} \cup UpSteps
    /\ procs \subseteq Started4 /\ mine \subseteq Started4
    /\ checked \in Nat /\ passed \in BOOLEAN /\ clamav \in BOOLEAN
    /\ (up = NotRunning) <=> (ukeys = NoEnv)

(* While reset.sh runs up.sh does not and the environment file stays what  *)
(* it sourced; fingerprints are on record only of the keys that made the   *)
(* data; what is about to be wiped is archived or came too late.           *)
ResetHolds ==
    /\ reset # NotRunning => up = NotRunning
    /\ reset \notin {NotRunning, "env"} => rkeys = env
    /\ reset \in AfterForget => recorded = NoKeys
    /\ reset \in AfterSeed => db.state = "seeded" /\ db.keys = Fingerprints(rkeys)
    /\ recorded # NoKeys => db.state = "seeded" /\ db.keys = recorded
    /\ reset \in {"forget", "wipe"} => db.visits \subseteq archive \cup late
    /\ VisitsAreKept

StartedOne(p) == \E q \in mine : q.name = p

(* While up.sh runs the environment file stays what it sourced; once it    *)
(* has verified, the data is that of its keys and so are the servers.      *)
VerifiedHolds ==
    /\ up # NotRunning => ukeys = env
    /\ up \in AfterVerify =>
          /\ "app" \in site
          /\ recorded # NoKeys /\ recorded = Fingerprints(ukeys)
          /\ \A q \in procs : q.name = "gunicorn" => q.keys = recorded

(* What it has started and checked by each step. *)
ProgressHolds ==
    /\ up \in FromGunicorn => kit = KIT_FILES \cup {"index"}
    /\ up \in FromWorker => StartedOne("gunicorn")
    /\ up \in FromCaddy => StartedOne("worker")
    /\ up \in FromCloudflared => StartedOne("caddy")
    /\ up \in FromTunnel => StartedOne("cloudflared")
    /\ up \notin FromSmoke \cup {NotRunning} => checked = 0
    /\ up \in FromSmoke /\ passed /\ checked >= 3 => "static" \in site
    /\ up = "shown" => passed /\ checked = 8

(* Whose the processes are. *)
OwnersHold ==
    /\ ~killed => procs \subseteq mine
    /\ up = NotRunning => mine = {}

UpHolds == VerifiedHolds /\ ProgressHolds /\ OwnersHold
DemoInv == DemoTyped /\ ResetHolds /\ UpHolds

(* Keys and environments. *)
LEMMA KeyParts ==
  /\ NoEnv \in Envs /\ NoKeys \in KeySet /\ NoKeys.signer_address = 0
  /\ \A e \in Envs : Fingerprints(e) \in KeySet /\ Fingerprints(e).signer_address = e.signer
<1>1. MaxKeys \in Nat /\ 0 \in 0 .. MaxKeys
  BY DemoBoundsAssumption
<1>2. NoEnv \in Envs
  BY <1>1 DEF NoEnv, Envs
<1>3. NoKeys \in KeySet /\ NoKeys.signer_address = 0
  BY <1>1 DEF NoKeys, KeySet
<1>4. ASSUME NEW e \in Envs
      PROVE  Fingerprints(e) \in KeySet /\ Fingerprints(e).signer_address = e.signer
  <2>1. EvidenceSecret(e) \in 0 .. MaxKeys /\ e.signer \in 0 .. MaxKeys
    BY DEF EvidenceSecret, Envs
  <2> QED
    BY <2>1 DEF Fingerprints, KeySet
<1> QED
  BY <1>2, <1>3, <1>4

(* The Postgres volume. *)
LEMMA VolumeParts ==
  /\ LET new == [state |-> "absent", keys |-> NoKeys, visits |-> {}]
     IN  new \in Volumes /\ new.visits = {} /\ new.state = "absent"
  /\ \A d \in Volumes :
       LET e == [d EXCEPT !.state = "empty"]
       IN  e \in Volumes /\ e.visits = d.visits
  /\ \A d \in Volumes, S \in SUBSET Nat :
       LET e == [d EXCEPT !.visits = S]
       IN  e \in Volumes /\ e.visits = S /\ e.state = d.state /\ e.keys = d.keys
<1>1. LET new == [state |-> "absent", keys |-> NoKeys, visits |-> {}]
      IN  new \in Volumes /\ new.visits = {} /\ new.state = "absent"
  BY KeyParts DEF Volumes
<1>2. \A d \in Volumes :
       LET e == [d EXCEPT !.state = "empty"]
       IN  e \in Volumes /\ e.visits = d.visits
  BY DEF Volumes
<1>3. ASSUME NEW d \in Volumes, NEW S \in SUBSET Nat
      PROVE  LET e == [d EXCEPT !.visits = S]
             IN  e \in Volumes /\ e.visits = S /\ e.state = d.state /\ e.keys = d.keys
  BY DEF Volumes
<1> QED
  BY <1>1, <1>2, <1>3

SeededFrom(d, k, e) == e \in Volumes /\ e.visits = d.visits /\ e.state = "seeded" /\ e.keys = k

(* The volume once it is seeded. *)
LEMMA SeedParts ==
  ASSUME NEW d \in Volumes, NEW k \in KeySet
  PROVE  SeededFrom(d, k, [d EXCEPT !.state = "seeded", !.keys = k])
BY DEF Volumes, SeededFrom

(* What a reset that runs alone leaves of up.sh. *)
LEMMA UpRests ==
  ASSUME UpHolds, up = NotRunning, UNCHANGED <<up, mine, procs, killed>>
  PROVE  UpHolds'
<1>1. NotRunning \notin AfterVerify /\ NotRunning \notin FromGunicorn /\ NotRunning \notin FromWorker
      /\ NotRunning \notin FromCaddy /\ NotRunning \notin FromCloudflared /\ NotRunning \notin FromTunnel
      /\ NotRunning \notin FromSmoke /\ NotRunning # "shown"
  BY DEF NotRunning, AfterVerify, FromGunicorn, FromWorker, FromCaddy, FromCloudflared, FromTunnel, FromSmoke
<1>2. VerifiedHolds' /\ ProgressHolds'
  BY <1>1 DEF VerifiedHolds, ProgressHolds
<1>3. OwnersHold'
  BY DEF UpHolds, OwnersHold
<1> QED
  BY <1>2, <1>3 DEF UpHolds

(* What up.sh, which runs alone, leaves of the reset. *)
LEMMA ResetRests ==
  ASSUME ResetHolds, reset = NotRunning, UNCHANGED <<reset, recorded, db, archive, visits, late>>, killed => killed'
  PROVE  ResetHolds'
<1>1. NotRunning \notin AfterForget /\ NotRunning \notin AfterSeed /\ NotRunning \notin {"forget", "wipe"}
  BY DEF NotRunning, AfterForget, AfterSeed
<1> QED
  BY <1>1 DEF ResetHolds, VisitsAreKept

(* reset.sh begins, or stops where it is. *)
LEMMA ResetEndsKeep ==
  ASSUME DemoInv, Careful, StartReset \/ ResetStops
  PROVE  DemoInv'
<1> USE DEF DemoInv
<1>1. /\ UNCHANGED <<env, recorded, db, archive, site, kit, up, ukeys, checked, passed, mine, killed,
                     procs, clamav, visits, late, minted>>
      /\ up = NotRunning
      /\ reset' \in {NotRunning, "env"} /\ (rkeys' = rkeys \/ rkeys' = NoEnv)
  BY DEF StartReset, ResetStops, ResetHolds, files, ups, bounds
<1>2. UpHolds'
  BY <1>1, UpRests
<1>3. ResetHolds'
  BY <1>1 DEF ResetHolds, VisitsAreKept, NotRunning, AfterForget, AfterSeed
<1>4. DemoTyped'
  BY <1>1, KeyParts DEF DemoTyped, ResetSteps
<1> QED
  BY <1>2, <1>3, <1>4

(* The steps of reset.sh. *)
LEMMA ResetStepKeeps ==
  ASSUME DemoInv, ResetStep
  PROVE  DemoInv'
<1> USE DEF DemoInv, ResetAt, ResetGoes
<1>1. /\ UNCHANGED <<up, ukeys, checked, passed, mine, killed, procs, clamav, visits, late>>
      /\ reset \in ResetSteps
  BY DEF ResetStep, ResetEnv, Archive, ForgetFingerprints, Wipe, Migrate, Seed, ClearApp, BuildApp,
         CollectStatic, RecordFingerprints, ups, bounds, ResetSteps, AfterForget
<1>2. reset # NotRunning /\ up = NotRunning /\ up' = NotRunning
  BY <1>1 DEF ResetHolds, ResetSteps, AfterForget, NotRunning
<1>3. UpHolds'
  BY <1>1, <1>2, UpRests
<1> USE DEF NotRunning
<1>4. CASE ResetEnv
  <2>1. /\ UNCHANGED <<recorded, db, archive, site>> /\ InitEnv
        /\ reset' = "archive" /\ rkeys' = env'
    BY <1>4 DEF ResetEnv
  <2>2. env' \in Envs /\ minted' \in 0 .. MaxKeys
    <3>1. CASE env # NoEnv
      BY <2>1, <3>1 DEF InitEnv, DemoTyped
    <3>2. CASE env = NoEnv
      <4>1. minted < MaxKeys /\ minted' = minted + 1
            /\ env' = [secret_key |-> minted + 1, evidence |-> minted + 1, signer |-> minted + 1, inside |-> TRUE]
        BY <2>1, <3>2 DEF InitEnv
      <4>2. minted + 1 \in 0 .. MaxKeys
        BY <4>1, DemoBoundsAssumption DEF DemoTyped
      <4> QED
        BY <4>1, <4>2 DEF Envs
    <3> QED
      BY <3>1, <3>2
  <2>3. DemoTyped'
    BY <1>1, <2>1, <2>2 DEF DemoTyped, ResetSteps
  <2>4. ResetHolds'
    BY <1>1, <1>2, <2>1 DEF ResetHolds, VisitsAreKept, AfterForget, AfterSeed
  <2> QED
    BY <1>3, <2>3, <2>4
<1>5. CASE Archive
  <2>1. /\ UNCHANGED <<env, recorded, db, site, minted, rkeys>>
        /\ archive' = archive \cup db.visits /\ reset' = "forget" /\ reset = "archive"
    BY <1>5 DEF Archive, bounds
  <2>2. DemoTyped'
    BY <1>1, <2>1 DEF DemoTyped, ResetSteps
  <2>3. ResetHolds'
    BY <1>1, <1>2, <2>1 DEF ResetHolds, VisitsAreKept, AfterForget, AfterSeed
  <2> QED
    BY <1>3, <2>2, <2>3
<1>6. CASE ForgetFingerprints
  <2>1. /\ UNCHANGED <<env, db, archive, site, minted, rkeys>>
        /\ recorded' = NoKeys /\ reset' = "wipe" /\ reset = "forget"
    BY <1>6 DEF ForgetFingerprints, bounds
  <2>2. DemoTyped'
    BY <1>1, <2>1, KeyParts DEF DemoTyped, ResetSteps, AfterForget
  <2>3. ResetHolds'
    BY <1>1, <1>2, <2>1 DEF ResetHolds, VisitsAreKept, AfterForget, AfterSeed
  <2> QED
    BY <1>3, <2>2, <2>3
<1>7. CASE Wipe
  <2>1. /\ UNCHANGED <<env, recorded, archive, site, minted, rkeys>>
        /\ db' = [state |-> "absent", keys |-> NoKeys, visits |-> {}] /\ reset' = "migrate" /\ reset = "wipe"
    BY <1>7 DEF Wipe, bounds
  <2>2. db' \in Volumes /\ db'.visits = {}
    BY <2>1, VolumeParts
  <2>3. DemoTyped'
    BY <1>1, <2>1, <2>2 DEF DemoTyped, ResetSteps, AfterForget
  <2>4. ResetHolds'
    BY <1>1, <1>2, <2>1, <2>2 DEF ResetHolds, VisitsAreKept, AfterForget, AfterSeed
  <2> QED
    BY <1>3, <2>3, <2>4
<1>8. CASE Migrate
  <2>1. /\ UNCHANGED <<env, recorded, archive, site, minted, rkeys>>
        /\ db' = [db EXCEPT !.state = "empty"] /\ reset' = "seed" /\ reset = "migrate"
    BY <1>8 DEF Migrate, bounds
  <2>2. db' \in Volumes /\ db'.visits = db.visits
    BY <2>1, VolumeParts DEF DemoTyped
  <2>3. DemoTyped'
    BY <1>1, <2>1, <2>2 DEF DemoTyped, ResetSteps, AfterForget
  <2>4. ResetHolds'
    BY <1>1, <1>2, <2>1, <2>2 DEF ResetHolds, VisitsAreKept, AfterForget, AfterSeed
  <2> QED
    BY <1>3, <2>3, <2>4
<1>9. CASE Seed
  <2>1. /\ UNCHANGED <<env, recorded, archive, site, minted, rkeys>>
        /\ db' = [db EXCEPT !.state = "seeded", !.keys = Fingerprints(rkeys)]
        /\ reset' = "clear" /\ reset = "seed"
    BY <1>9 DEF Seed, bounds
  <2>2. Fingerprints(rkeys) \in KeySet
    BY KeyParts DEF DemoTyped
  <2>3. db' \in Volumes /\ db'.visits = db.visits /\ db'.state = "seeded" /\ db'.keys = Fingerprints(rkeys)
    <3>1. db \in Volumes
      BY DEF DemoTyped
    <3>2. SeededFrom(db, Fingerprints(rkeys), [db EXCEPT !.state = "seeded", !.keys = Fingerprints(rkeys)])
      <4> DEFINE k == Fingerprints(rkeys)
      <4>1. k \in KeySet
        BY <2>2
      <4> HIDE DEF k
      <4>2. SeededFrom(db, k, [db EXCEPT !.state = "seeded", !.keys = k])
        BY <3>1, <4>1, SeedParts, Zenon
      <4> QED
        BY <4>2 DEF k
    <3> QED
      BY <2>1, <3>2 DEF SeededFrom
  <2>4. DemoTyped'
    BY <1>1, <2>1, <2>3 DEF DemoTyped, ResetSteps, AfterForget
  <2>5. ResetHolds'
    BY <1>1, <1>2, <2>1, <2>3 DEF ResetHolds, VisitsAreKept, AfterForget, AfterSeed, Fingerprints, EvidenceSecret
  <2> QED
    BY <1>3, <2>4, <2>5
<1>10. CASE ClearApp \/ BuildApp \/ CollectStatic
  <2>1. /\ UNCHANGED <<env, recorded, db, archive, minted, rkeys>>
        /\ site' \subseteq site \cup {"app", "static"}
        /\ reset' \in {"build", "static", "fingerprints"} /\ reset \in AfterSeed
    BY <1>10 DEF ClearApp, BuildApp, CollectStatic, bounds, AfterSeed
  <2>2. DemoTyped'
    BY <1>1, <2>1 DEF DemoTyped, ResetSteps, AfterForget
  <2>3. ResetHolds'
    BY <1>1, <1>2, <2>1 DEF ResetHolds, VisitsAreKept, AfterForget, AfterSeed, Fingerprints, EvidenceSecret
  <2> QED
    BY <1>3, <2>2, <2>3
<1>11. CASE RecordFingerprints
  <2>1. /\ UNCHANGED <<env, db, archive, site, minted>>
        /\ recorded' = Fingerprints(env) /\ reset' = NotRunning /\ rkeys' = NoEnv /\ reset = "fingerprints"
    BY <1>11 DEF RecordFingerprints, bounds
  <2>2. recorded' \in KeySet /\ rkeys' \in Envs
    BY <2>1, KeyParts DEF DemoTyped
  <2>3. DemoTyped'
    BY <1>1, <2>1, <2>2 DEF DemoTyped
  <2>4. db'.state = "seeded" /\ db'.keys = recorded'
    BY <2>1 DEF ResetHolds, AfterSeed
  <2>5. ResetHolds'
    BY <1>1, <2>1, <2>4 DEF ResetHolds, VisitsAreKept, AfterForget, AfterSeed
  <2> QED
    BY <1>3, <2>3, <2>5
<1> QED
  BY <1>4, <1>5, <1>6, <1>7, <1>8, <1>9, <1>10, <1>11 DEF ResetStep

(* up.sh begins. *)
LEMMA StartUpKeeps ==
  ASSUME DemoInv, Careful, StartUp
  PROVE  DemoInv'
<1> USE DEF DemoInv
<1>1. /\ UNCHANGED <<env, recorded, db, archive, site, kit, reset, rkeys, mine, killed, procs, clamav, visits, late, minted>>
      /\ reset = NotRunning /\ up = NotRunning /\ env # NoEnv
      /\ up' = "verify" /\ ukeys' = env /\ checked' = 0 /\ passed' = TRUE
  BY DEF StartUp, files, resets, bounds
<1>2. ResetHolds'
  BY <1>1, ResetRests
<1>3. DemoTyped'
  BY <1>1 DEF DemoTyped, UpSteps, NotRunning
<1>4. VerifiedHolds' /\ ProgressHolds' /\ OwnersHold'
  <2>1. "verify" \notin AfterVerify
    BY DEF AfterVerify, FromGunicorn, FromWorker, FromCaddy, FromCloudflared, FromTunnel, FromSmoke
  <2>2. VerifiedHolds'
    BY <1>1, <2>1 DEF VerifiedHolds
  <2>3. ProgressHolds'
    BY <1>1, <2>1 DEF ProgressHolds, AfterVerify, FromGunicorn, FromWorker, FromCaddy, FromCloudflared,
                      FromTunnel, FromSmoke
  <2>4. OwnersHold'
    BY <1>1 DEF OwnersHold, UpHolds, NotRunning
  <2> QED
    BY <2>2, <2>3, <2>4
<1> QED
  BY <1>2, <1>3, <1>4 DEF UpHolds

(* The end of a run, by its exit handler or by a kill. *)
LEMMA UpEndsKeep ==
  ASSUME DemoInv, UpFails \/ StopUp \/ Watch \/ KillUp \/ StrayStart
  PROVE  DemoInv'
<1> USE DEF DemoInv
<1>1. /\ UNCHANGED <<env, recorded, db, archive, site, kit, reset, rkeys, checked, passed, clamav, visits, late, minted>>
      /\ up # NotRunning /\ up' = NotRunning /\ ukeys' = NoEnv /\ mine' = {}
      /\ (killed' = killed /\ procs' = procs \ mine) \/ killed' = TRUE
  BY DEF UpFails, StopUp, Watch, KillUp, StrayStart, StartOrder, Exit, files, resets, bounds, NotRunning
<1>7. procs' \subseteq Started4
  <2>1. CASE StrayStart
    <3>1. PICK i \in 1 .. 4 :
             procs' = (procs \ mine) \cup {[name |-> StartOrder[i], keys |-> Fingerprints(ukeys)]}
      BY <2>1 DEF StrayStart
    <3>2. Fingerprints(ukeys) \in KeySet /\ StartOrder[i] \in Processes
      BY KeyParts DEF DemoTyped, StartOrder, Processes
    <3>3. [name |-> StartOrder[i], keys |-> Fingerprints(ukeys)] \in Started4
      BY <3>2 DEF Started4
    <3> QED
      BY <3>1, <3>3 DEF DemoTyped
  <2>2. CASE UpFails \/ StopUp \/ Watch \/ KillUp
    BY <2>2 DEF UpFails, StopUp, Watch, KillUp, Exit, DemoTyped
  <2> QED
    BY <2>1, <2>2
<1>2. reset = NotRunning
  BY <1>1 DEF ResetHolds
<1>3. ResetHolds'
  BY <1>1, <1>2, ResetRests
<1>4. DemoTyped'
  BY <1>1, <1>7, KeyParts DEF DemoTyped
<1>5. VerifiedHolds' /\ ProgressHolds'
  BY <1>1 DEF VerifiedHolds, ProgressHolds, NotRunning, AfterVerify, FromGunicorn, FromWorker, FromCaddy,
              FromCloudflared, FromTunnel, FromSmoke
<1>6. OwnersHold'
  BY <1>1 DEF OwnersHold, UpHolds
<1> QED
  BY <1>3, <1>4, <1>5, <1>6 DEF UpHolds

(* The steps of up.sh. *)
LEMMA UpStepKeeps ==
  ASSUME DemoInv, UpStep
  PROVE  DemoInv'
<1> USE DEF DemoInv, UpHolds
<1> USE DEF AfterVerify, FromGunicorn, FromWorker, FromCaddy, FromCloudflared, FromTunnel, FromSmoke
<1>1. /\ UNCHANGED <<env, recorded, db, archive, site, reset, rkeys, ukeys, killed, clamav, visits, late, minted>>
      /\ up # NotRunning
  BY DEF UpStep, UpVerify, WaitClamav, KitSite, StartProcess, Tunnel, SmokeCheck, ShowAddress, UpGoes,
         files, resets, bounds, NotRunning, StartOrder
<1>2. reset = NotRunning
  BY <1>1 DEF ResetHolds
<1>3. ResetHolds'
  BY <1>1, <1>2, ResetRests
<1>4. CASE UpVerify
  <2>1. /\ up = "verify" /\ "app" \in site /\ VerifyFingerprints /\ PortsFree /\ up' = "clamav"
        /\ UNCHANGED <<checked, passed, mine, kit, procs>>
    BY <1>4 DEF UpVerify, UpGoes, files
  <2>2. recorded # NoKeys /\ recorded = Fingerprints(ukeys)
    BY <1>1, <2>1 DEF VerifyFingerprints, VerifiedHolds
  <2>3. \A q \in procs : q.name # "gunicorn"
    BY <2>1 DEF PortsFree, Running
  <2>4. DemoTyped'
    BY <1>1, <2>1 DEF DemoTyped, UpSteps, NotRunning
  <2>5. VerifiedHolds'
    BY <1>1, <2>1, <2>2, <2>3 DEF VerifiedHolds, Fingerprints, EvidenceSecret
  <2>6. ProgressHolds' /\ OwnersHold'
    BY <1>1, <2>1 DEF ProgressHolds, OwnersHold, NotRunning
  <2> QED
    BY <1>3, <2>4, <2>5, <2>6
<1>5. CASE WaitClamav \/ KitSite \/ Tunnel
  <2>1. /\ UNCHANGED <<checked, passed, mine, procs>>
        /\ \/ up = "clamav" /\ up' = "kit" /\ kit' = kit
           \/ up = "kit" /\ up' = "gunicorn" /\ kit' = KIT_FILES \cup {"index"}
           \/ up = "tunnel" /\ up' = "smoke" /\ kit' = kit
    BY <1>5 DEF WaitClamav, KitSite, Tunnel, UpGoes, files
  <2>2. DemoTyped'
    BY <1>1, <2>1 DEF DemoTyped, UpSteps, NotRunning
  <2>3. VerifiedHolds'
    BY <1>1, <2>1 DEF VerifiedHolds, Fingerprints, EvidenceSecret
  <2>4. OwnersHold'
    BY <1>1, <2>1 DEF OwnersHold, NotRunning
  <2>5. ProgressHolds'
    BY <1>1, <2>1 DEF ProgressHolds, StartedOne
  <2> QED
    BY <1>3, <2>2, <2>3, <2>4, <2>5
<1>6. CASE StartProcess
  <2>1. PICK i \in 1 .. 4 : LET new == [name |-> StartOrder[i], keys |-> Fingerprints(ukeys)]
                            IN  /\ up = StartOrder[i]
                                /\ procs' = procs \cup {new}
                                /\ mine' = mine \cup {new}
                                /\ UpGoes(StartOrder[i + 1])
    BY <1>6 DEF StartProcess
  <2> DEFINE new == [name |-> StartOrder[i], keys |-> Fingerprints(ukeys)]
  <2>2. /\ procs' = procs \cup {new} /\ mine' = mine \cup {new}
        /\ UNCHANGED <<checked, passed, kit>>
        /\ up = StartOrder[i] /\ up' = StartOrder[i + 1]
    BY <1>6, <2>1 DEF StartProcess, files, UpGoes
  <2>3. /\ new.name = up /\ new.keys = Fingerprints(ukeys)
        /\ \/ up = "gunicorn" /\ up' = "worker"
           \/ up = "worker" /\ up' = "caddy"
           \/ up = "caddy" /\ up' = "cloudflared"
           \/ up = "cloudflared" /\ up' = "tunnel"
    BY <2>2 DEF StartOrder
  <2>4. new \in Started4
    <3>1. Fingerprints(ukeys) \in KeySet
      BY KeyParts DEF DemoTyped
    <3>2. StartOrder[i] \in Processes
      BY DEF StartOrder, Processes
    <3> QED
      BY <3>1, <3>2 DEF Started4
  <2> HIDE DEF new
  <2>5. DemoTyped'
    BY <1>1, <2>2, <2>3, <2>4 DEF DemoTyped, UpSteps, NotRunning
  <2>6. VerifiedHolds'
    <3>1. recorded = Fingerprints(ukeys) /\ "app" \in site /\ recorded # NoKeys /\ ukeys = env
          /\ \A q \in procs : q.name = "gunicorn" => q.keys = recorded
      BY <1>1, <2>3 DEF VerifiedHolds
    <3>2. \A q \in procs' : q.name = "gunicorn" => q.keys = recorded
      BY <2>2, <2>3, <3>1
    <3>3. Fingerprints(ukeys)' = Fingerprints(ukeys)
      BY <1>1 DEF Fingerprints, EvidenceSecret
    <3> QED
      BY <1>1, <3>1, <3>2, <3>3 DEF VerifiedHolds
  <2>7. OwnersHold'
    BY <1>1, <2>2, <2>3 DEF OwnersHold, NotRunning
  <2>8. \A p : StartedOne(p) \/ p = up => \E q \in mine' : q.name = p
    BY <2>2, <2>3 DEF StartedOne
  <2>9. ProgressHolds'
    BY <2>2, <2>3, <2>8 DEF ProgressHolds, StartedOne, NotRunning
  <2> QED
    BY <1>3, <2>5, <2>6, <2>7, <2>9
<1>7. CASE SmokeCheck
  <2>1. /\ up = "smoke" /\ checked < 8 /\ checked' = checked + 1
        /\ passed' = (passed /\ Holds(CHECKS[checked + 1]))
        /\ UNCHANGED <<up, mine, kit, procs>>
    BY <1>7 DEF SmokeCheck, Accumulate, files, CHECKS
  <2>2. checked \in Nat /\ passed \in BOOLEAN
    BY DEF DemoTyped
  <2>3. passed' \in BOOLEAN
    BY <2>1, Zenon
  <2>4. DemoTyped'
    BY <1>1, <2>1, <2>2, <2>3 DEF DemoTyped
  <2>5. VerifiedHolds'
    BY <1>1, <2>1 DEF VerifiedHolds, Fingerprints, EvidenceSecret
  <2>6. OwnersHold'
    BY <1>1, <2>1 DEF OwnersHold
  <2>7. passed' => passed
    BY <2>1
  <2>8. passed' /\ checked' >= 3 => "static" \in site
    <3>1. CASE checked >= 3
      BY <2>1, <2>2, <2>7, <3>1 DEF ProgressHolds
    <3>2. CASE checked = 2
      <4>1. CHECKS[checked + 1] = "static"
        BY <3>2 DEF CHECKS
      <4>2. passed' => Holds("static")
        BY <2>1, <4>1
      <4> QED
        BY <4>2 DEF Holds
    <3> QED
      BY <2>1, <2>2, <3>1, <3>2
  <2>9. ProgressHolds'
    BY <1>1, <2>1, <2>8 DEF ProgressHolds, StartedOne
  <2> QED
    BY <1>3, <2>4, <2>5, <2>6, <2>9
<1>8. CASE ShowAddress
  <2>1. /\ up = "smoke" /\ checked = 8 /\ passed /\ up' = "shown"
        /\ UNCHANGED <<checked, passed, mine, kit, procs>>
    BY <1>8 DEF ShowAddress, UpGoes, files, CHECKS
  <2>2. DemoTyped'
    BY <1>1, <2>1 DEF DemoTyped, UpSteps, NotRunning
  <2>3. VerifiedHolds'
    BY <1>1, <2>1 DEF VerifiedHolds, Fingerprints, EvidenceSecret
  <2>4. OwnersHold'
    BY <1>1, <2>1 DEF OwnersHold, NotRunning
  <2>5. ProgressHolds'
    BY <1>1, <2>1 DEF ProgressHolds, StartedOne
  <2> QED
    BY <1>3, <2>2, <2>3, <2>4, <2>5
<1> QED
  BY <1>4, <1>5, <1>6, <1>7, <1>8 DEF UpStep

(* Processes die, ClamAV comes and goes. *)
LEMMA DeathsKeep ==
  ASSUME DemoInv, ClamavChanges \/ \E q \in procs : ProcessDies(q)
  PROVE  DemoInv'
<1> USE DEF DemoInv, UpHolds
<1>1. /\ UNCHANGED <<env, recorded, db, archive, site, kit, reset, rkeys, up, ukeys, checked, passed, mine,
                     killed, visits, late, minted>>
      /\ procs' \subseteq procs /\ clamav' \in BOOLEAN
  BY DEF ClamavChanges, ProcessDies, files, resets, ups, DemoTyped
<1>2. DemoTyped'
  BY <1>1 DEF DemoTyped
<1>3. ResetHolds'
  BY <1>1 DEF ResetHolds, VisitsAreKept, Fingerprints, EvidenceSecret
<1>4. VerifiedHolds'
  BY <1>1 DEF VerifiedHolds, Fingerprints, EvidenceSecret
<1>5. ProgressHolds' /\ OwnersHold'
  BY <1>1 DEF ProgressHolds, OwnersHold, StartedOne
<1> QED
  BY <1>2, <1>3, <1>4, <1>5

(* The operator edits or deletes the file, or loses a build. *)
LEMMA OperatorKeeps ==
  ASSUME DemoInv, Careful, EditEnv \/ LoseFiles
  PROVE  DemoInv'
<1> USE DEF DemoInv
<1>1. /\ UNCHANGED <<recorded, db, archive, kit, reset, rkeys, up, ukeys, checked, passed, mine, killed, procs,
                     clamav, visits, late>>
      /\ reset = NotRunning /\ up = NotRunning /\ site' \subseteq site
  BY DEF EditEnv, LoseFiles, resets, ups
<1>2. UpHolds'
  BY <1>1, UpRests
<1>3. ResetHolds'
  BY <1>1, ResetRests
<1>4. minted' \in 0 .. MaxKeys /\ env' \in Envs
  <2>1. CASE LoseFiles
    BY <2>1 DEF LoseFiles, DemoTyped
  <2>2. CASE EditEnv
    <3>1. minted' = minted \/ (minted < MaxKeys /\ minted' = minted + 1)
      BY <2>2 DEF EditEnv
    <3>2. minted' \in 0 .. MaxKeys /\ 0 \in 0 .. MaxKeys
      BY <3>1, DemoBoundsAssumption DEF DemoTyped
    <3>3. \A k \in 0 .. MaxKeys : /\ [env EXCEPT !.evidence = k] \in Envs
                                  /\ [env EXCEPT !.signer = k] \in Envs
                                  /\ [env EXCEPT !.inside = FALSE] \in Envs
      BY DEF DemoTyped, Envs
    <3>4. \/ env' = NoEnv
          \/ env' \in {[env EXCEPT !.evidence = 0], [env EXCEPT !.signer = 0], [env EXCEPT !.inside = FALSE]}
          \/ env' \in {[env EXCEPT !.evidence = minted'], [env EXCEPT !.signer = minted']}
      BY <2>2 DEF EditEnv
    <3> QED
      BY <3>2, <3>3, <3>4, KeyParts
  <2> QED
    BY <2>1, <2>2
<1>5. DemoTyped'
  BY <1>1, <1>4 DEF DemoTyped
<1> QED
  BY <1>2, <1>3, <1>5

(* A visit. *)
LEMMA VisitKeeps ==
  ASSUME DemoInv, Visit
  PROVE  DemoInv'
<1> USE DEF DemoInv, UpHolds
<1>1. /\ UNCHANGED <<env, recorded, archive, site, kit, reset, rkeys, up, ukeys, checked, passed, mine, killed,
                     procs, clamav, minted>>
      /\ visits' = visits + 1 /\ db' = [db EXCEPT !.visits = db.visits \cup {visits + 1}]
  BY DEF Visit, resets, ups
<1>2. \/ late' = late /\ reset \notin {"forget", "wipe"}
      \/ late' = late \cup {visits + 1} /\ reset \in {"forget", "wipe"}
  BY DEF Visit
<1>3. reset # NotRunning => killed
  BY DEF Visit, Served, Running, ResetHolds, OwnersHold
<1>4. visits \in Nat /\ db \in Volumes /\ db.visits \subseteq 1 .. visits /\ archive \subseteq 1 .. visits
      /\ late \subseteq 1 .. visits
  BY DEF DemoTyped
<1>5. db.visits \cup {visits + 1} \in SUBSET Nat
  BY <1>4
<1>6. /\ db' \in Volumes /\ db'.visits = db.visits \cup {visits + 1}
      /\ db'.state = db.state /\ db'.keys = db.keys
  BY <1>1, <1>4, <1>5, VolumeParts
<1>7. /\ archive' \subseteq 1 .. visits' /\ db'.visits \subseteq 1 .. visits' /\ visits' \in Nat
      /\ late' \subseteq 1 .. visits'
  BY <1>1, <1>2, <1>4, <1>6
<1>8. DemoTyped'
  BY <1>1, <1>6, <1>7 DEF DemoTyped
<1>9. VisitsAreKept'
  <2>1. 1 .. visits + 1 = (1 .. visits) \cup {visits + 1}
    BY <1>4
  <2>2. archive \cup db.visits \cup late = 1 .. visits /\ (late # {} => killed)
    BY DEF ResetHolds, VisitsAreKept
  <2>3. archive' \cup db'.visits \cup late' = 1 .. visits'
    BY <1>1, <1>2, <1>6, <2>1, <2>2
  <2>4. late' # {} => killed'
    BY <1>1, <1>2, <1>3, <2>2 DEF NotRunning
  <2> QED
    BY <2>3, <2>4 DEF VisitsAreKept
<1>10. ResetHolds'
  BY <1>1, <1>2, <1>6, <1>9 DEF ResetHolds, Fingerprints, EvidenceSecret
<1>11. VerifiedHolds'
  BY <1>1 DEF VerifiedHolds, Fingerprints, EvidenceSecret
<1>12. ProgressHolds' /\ OwnersHold'
  BY <1>1 DEF ProgressHolds, OwnersHold, StartedOne
<1> QED
  BY <1>8, <1>10, <1>11, <1>12

(* An empty machine. *)
LEMMA DemoStarts == DemoInit => DemoInv
<1> SUFFICES ASSUME DemoInit PROVE DemoInv
  OBVIOUS
<1>1. db \in Volumes /\ db.visits = {}
  BY VolumeParts DEF DemoInit
<1>2. minted \in 0 .. MaxKeys
  BY DemoBoundsAssumption DEF DemoInit
<1>3. DemoTyped
  BY <1>1, <1>2, KeyParts DEF DemoInit, DemoTyped
<1>4. ResetHolds
  BY <1>1 DEF DemoInit, ResetHolds, VisitsAreKept, NotRunning, AfterForget, AfterSeed
<1>5. VerifiedHolds /\ ProgressHolds /\ OwnersHold
  BY DEF DemoInit, VerifiedHolds, ProgressHolds, OwnersHold, NotRunning, AfterVerify, FromGunicorn,
         FromWorker, FromCaddy, FromCloudflared, FromTunnel, FromSmoke
<1> QED
  BY <1>3, <1>4, <1>5 DEF DemoInv, UpHolds

(* What a visitor may count on. *)
LEMMA DemoPromises ==
  ASSUME DemoInv
  PROVE  DemoHolds
<1> USE DEF DemoInv, UpHolds
<1>1. DemoTypeOK
  <2>1. {q.name : q \in procs \cup mine} \subseteq Processes
    BY DEF DemoTyped, Started4
  <2>2. (up = NotRunning) = (ukeys = NoEnv)
    BY DEF DemoTyped
  <2>3. recorded \in [evidence_secret : 0 .. MaxKeys, signer_address : 0 .. MaxKeys]
    BY DEF DemoTyped, KeySet
  <2>4. db.state \in {"absent", "empty", "seeded"}
    BY DEF DemoTyped, Volumes
  <2> QED
    BY <2>1, <2>2, <2>3, <2>4 DEF DemoTyped, DemoTypeOK, ResetSteps, AfterForget
<1>2. up = "shown" => /\ "app" \in site /\ "static" \in site /\ kit = KIT_FILES \cup {"index"}
                      /\ recorded # NoKeys /\ \A q \in procs : q.name = "gunicorn" => q.keys = recorded
                      /\ \A p \in Processes : StartedOne(p)
  BY DEF VerifiedHolds, ProgressHolds, Processes, AfterVerify, FromGunicorn, FromWorker, FromCaddy,
         FromCloudflared, FromTunnel, FromSmoke
<1>3. up = "shown" => db.state = "seeded" /\ db.keys = recorded
  BY <1>2 DEF ResetHolds
<1>4. AddressOverItsOwnData
  BY <1>2, <1>3 DEF AddressOverItsOwnData
<1>5. AddressMeansChecked
  <2> SUFFICES ASSUME up = "shown", mine \subseteq procs, NEW i \in 1 .. Len(CHECKS), CHECKS[i] # "clamav"
               PROVE  Holds(CHECKS[i])
    BY DEF AddressMeansChecked
  <2>1. \A p \in Processes : Running(p)
    BY <1>2 DEF StartedOne, Running
  <2>2. Served /\ Running("gunicorn")
    BY <2>1 DEF Served, Processes
  <2>3. \E q \in mine : q.name = "worker" /\ q \in procs
    BY <1>2 DEF StartedOne, Processes
  <2>4. CHECKS[i] \in {"app", "wasm", "static", "kit", "login", "api", "worker"}
    BY DEF CHECKS
  <2> QED
    BY <1>2, <1>3, <2>2, <2>3, <2>4 DEF Holds
<1>6. NothingLeftRunning
  BY DEF NothingLeftRunning, OwnersHold
<1> QED
  BY <1>1, <1>4, <1>5, <1>6 DEF DemoHolds, ResetHolds

(* However the scripts stop, processes die and the environment file is     *)
(* edited between runs, visitors are shown an address only over a demo     *)
(* that was checked and signs with its own keys, and what they made is     *)
(* kept unless servers that an earlier up.sh has left behind take visits   *)
(* while a reset is between its dump and its wipe, for every number of     *)
(* keys, visits and faults, when the operator runs one script at a time    *)
(* (reset.sh, up.sh, demo_up.py, demo_env.py).                             *)
THEOREM VisitsCorrect ==
  ASSUME Careful
  PROVE  DemoSpec => []DemoHolds
<1>1. DemoInv /\ [DemoNext]_demoVars => DemoInv'
  <2> SUFFICES ASSUME DemoInv, [DemoNext]_demoVars PROVE DemoInv'
    OBVIOUS
  <2>1. CASE UNCHANGED demoVars
    <3>1. UNCHANGED <<env, recorded, db, archive, site, kit, reset, rkeys, up, ukeys, checked, passed, mine,
                      killed, procs, clamav, visits, late, minted>>
      BY <2>1 DEF demoVars, files, resets, ups, bounds
    <3>2. DemoTyped'
      BY <3>1 DEF DemoInv, DemoTyped
    <3>3. ResetHolds'
      BY <3>1 DEF DemoInv, ResetHolds, VisitsAreKept, Fingerprints, EvidenceSecret
    <3>4. UpHolds'
      BY <3>1 DEF DemoInv, UpHolds, VerifiedHolds, ProgressHolds, OwnersHold, StartedOne, Fingerprints,
                  EvidenceSecret
    <3> QED
      BY <3>2, <3>3, <3>4 DEF DemoInv
  <2>2. CASE DemoNext
    BY <2>2, ResetEndsKeep, ResetStepKeeps, StartUpKeeps, UpEndsKeep, UpStepKeeps, DeathsKeep,
       OperatorKeeps, VisitKeeps DEF DemoNext
  <2> QED
    BY <2>1, <2>2
<1> QED
  BY <1>1, DemoStarts, DemoPromises, PTL DEF DemoSpec
=============================================================================
