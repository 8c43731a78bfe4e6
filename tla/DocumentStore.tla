---------------------------- MODULE DocumentStore ----------------------------
(***************************************************************************)
(* Documents: the upload pipeline (lamto/documents/services.py,            *)
(* lamto/web/staff_documents.py), the staff pages that upload a document   *)
(* and use it in one transaction, the cleanup of documents nobody uses,    *)
(* the backup of the private storage, and downloads by signed links        *)
(* (lamto/documents/access.py, lamto/api/downloads.py,                     *)
(* lamto/web/views/documents.py).                                          *)
(*                                                                         *)
(* Rows are transactional and stored objects are not: the module is about  *)
(* the two getting out of step.                                            *)
(***************************************************************************)
EXTENDS Naturals, FiniteSets

CONSTANTS
    Uploads,        \* uploaded files; each is one document with one version
    Readers,        \* users who follow download links
    NoDocument,
    MaxStoreFaults  \* bound on requests that end without their error handling

ASSUME StoreFaultAssumption == MaxStoreFaults \in Nat
ASSUME NoDocumentAssumption == NoDocument \notin Uploads

Uses == {"proposal", "settlement", "bill", "fund", "photo"}

VARIABLES
    use,          \* what an upload is for
    step,         \* the request of each upload
    versionRows,  \* committed DocumentVersion rows
    linked,       \* rows that a domain record refers to
    old,          \* rows past the age threshold of the cleanup
    blobs,        \* objects in the private storage
    tampered,     \* objects whose bytes no longer have the recorded digest
    cleanup,      \* cleanup_stale_prepared_ops: the candidates, and what is done
    backup,       \* backup_objects: the rows it found, and what is copied
    marker,       \* versions in the manifest of the last BackupMarker
    tokens,       \* download links that have not expired: <<reader, upload>>
    entitled,     \* who may read what at the moment: <<reader, upload>>
    served,       \* ghost: the last download
    storeFaults

requestVars == <<use, step, versionRows, linked, old, blobs>>
accessVars == <<tampered, tokens, entitled, served>>
storeVars == <<requestVars, accessVars, cleanup, backup, marker, storeFaults>>

Job == [on : BOOLEAN, all : SUBSET Uploads, todo : SUBSET Uploads, done : SUBSET Uploads]
JobIdle == [on |-> FALSE, all |-> {}, todo |-> {}, done |-> {}]
Started(S) == [on |-> TRUE, all |-> S, todo |-> S, done |-> {}]
Links == Readers \X Uploads

StoreTypeOK ==
    /\ use \in [Uploads -> Uses]
    /\ step \in [Uploads -> {"new", "open", "kept", "linked", "ended"}]
    /\ versionRows \subseteq Uploads /\ linked \subseteq versionRows /\ old \subseteq Uploads
    /\ blobs \subseteq Uploads /\ tampered \subseteq Uploads
    /\ cleanup \in Job /\ backup \in Job
    /\ marker \subseteq Uploads
    /\ tokens \subseteq Links /\ entitled \subseteq Links
    /\ served \in (Links \X {"true", "stale", "false"}) \cup {NoDocument}
    /\ storeFaults \in 0 .. MaxStoreFaults

StoreInit ==
    /\ use \in [Uploads -> Uses]
    /\ step = [u \in Uploads |-> "new"]
    /\ versionRows = {} /\ linked = {} /\ old = {} /\ blobs = {} /\ tampered = {}
    /\ cleanup = JobIdle /\ backup = JobIdle /\ marker = {}
    /\ tokens = {} /\ entitled = {} /\ served = NoDocument
    /\ storeFaults = 0

-----------------------------------------------------------------------------
(* Uploads.                                                                *)

(* The cleanup holds the document tables against every other writer. *)
Writable == ~cleanup.on

End(u, s) == step' = [step EXCEPT ![u] = s]

(* create_document_version refuses the type, the size, the signature or    *)
(* the image: nothing is stored, and the record of it is rolled back with  *)
(* the transaction of the caller.                                          *)
Reject(u) ==
    /\ step[u] = "new" /\ Writable
    /\ End(u, "ended")
    /\ UNCHANGED <<use, versionRows, linked, old, blobs, accessVars, cleanup, backup, marker, storeFaults>>

(* The scanner finds something or cannot be reached: the bytes are stored  *)
(* under quarantine/, the QuarantinedUpload row is created, and the        *)
(* exception rolls the caller's transaction back, that row with it.        *)
Quarantine(u) ==
    /\ step[u] = "new" /\ Writable
    /\ blobs' = blobs \cup {u}
    /\ End(u, "ended")
    /\ UNCHANGED <<use, versionRows, linked, old, accessVars, cleanup, backup, marker, storeFaults>>

(* A clean upload is stored.  Its row is committed at once when the page   *)
(* records a fund source, together with the record that uses it otherwise. *)
Upload(u) ==
    /\ step[u] = "new" /\ Writable
    /\ blobs' = blobs \cup {u}
    /\ IF use[u] = "fund"
       THEN versionRows' = versionRows \cup {u} /\ End(u, "kept")
       ELSE UNCHANGED versionRows /\ End(u, "open")
    /\ UNCHANGED <<use, linked, old, accessVars, cleanup, backup, marker, storeFaults>>

(* publish_proposal_version, record_settlement, issue_bill and the report  *)
(* photo succeed and commit with the upload; record_fund_source follows in *)
(* a transaction of its own.                                               *)
Use(u) ==
    /\ step[u] \in {"open", "kept"} /\ Writable
    /\ versionRows' = versionRows \cup {u}
    /\ linked' = linked \cup {u}
    /\ End(u, "linked")
    /\ UNCHANGED <<use, old, blobs, accessVars, cleanup, backup, marker, storeFaults>>

(* The service refuses: the page rolls back and deletes the object, unless *)
(* the row was committed before; a photo has no such handler.              *)
Refuse(u) ==
    /\ step[u] \in {"open", "kept"}
    /\ use[u] # "photo"
    /\ blobs' = IF u \in versionRows THEN blobs ELSE blobs \ {u}
    /\ End(u, "ended")
    /\ UNCHANGED <<use, versionRows, linked, old, accessVars, cleanup, backup, marker, storeFaults>>

(* The request dies, or an error nobody handles ends it. *)
Die(u) ==
    /\ step[u] \in {"open", "kept"} /\ storeFaults < MaxStoreFaults
    /\ storeFaults' = storeFaults + 1
    /\ End(u, "ended")
    /\ UNCHANGED <<use, versionRows, linked, old, blobs, accessVars, cleanup, backup, marker>>

(* A day passes after the request. *)
GrowOld(u) ==
    /\ step[u] \in {"linked", "ended"} /\ u \in versionRows \ old
    /\ old' = old \cup {u}
    /\ UNCHANGED <<use, step, versionRows, linked, blobs, accessVars, cleanup, backup, marker, storeFaults>>

-----------------------------------------------------------------------------
(* cleanup_stale_prepared_ops.                                             *)

(* _referenced_document_ids: what the command knows to be referred to. *)
Referenced == {u \in linked : use[u] # "bill"}

(* stale_prepared_ops_candidates, and the transaction that switches the    *)
(* append-only triggers off.  The command reads the candidates just before *)
(* it opens the transaction: one step here, for what a request could still *)
(* write between the two is a reference, which HardDelete meets as well.   *)
BeginCleanup ==
    /\ ~cleanup.on
    /\ \A u \in Uploads : step[u] # "open"
    /\ old \ Referenced # {}
    /\ cleanup' = Started(old \ Referenced)
    /\ UNCHANGED <<requestVars, accessVars, backup, marker, storeFaults>>

(* Mutated form: the object is purged before the row is deleted. *)
HardDeleteFirst(u) ==
    /\ u \in cleanup.todo
    /\ blobs' = blobs \ {u}
    /\ IF u \in linked
       THEN cleanup' = JobIdle
       ELSE cleanup' = [cleanup EXCEPT !.todo = @ \ {u}, !.done = @ \cup {u}]
    /\ UNCHANGED <<use, step, versionRows, linked, old, accessVars, backup, marker, storeFaults>>

(* _hard_delete_document: the rows, in the open transaction, and the       *)
(* object.  A row that something refers to stops the command, and the      *)
(* transaction is rolled back.                                             *)
HardDelete(u) ==
    /\ u \in cleanup.todo
    /\ IF u \in linked
       THEN cleanup' = JobIdle /\ UNCHANGED blobs
       ELSE /\ cleanup' = [cleanup EXCEPT !.todo = @ \ {u}, !.done = @ \cup {u}]
            /\ blobs' = blobs \ {u}
    /\ UNCHANGED <<use, step, versionRows, linked, old, accessVars, backup, marker, storeFaults>>

CommitCleanup ==
    /\ cleanup.on /\ cleanup.todo = {}
    /\ versionRows' = versionRows \ cleanup.done
    /\ old' = old \ cleanup.done
    /\ cleanup' = JobIdle
    /\ UNCHANGED <<use, step, linked, blobs, accessVars, backup, marker, storeFaults>>

-----------------------------------------------------------------------------
(* backup_objects.                                                         *)

BeginBackup ==
    /\ ~backup.on /\ versionRows # {}
    /\ backup' = Started(versionRows)
    /\ UNCHANGED <<requestVars, accessVars, cleanup, marker, storeFaults>>

(* _backup_one: copying an object that is gone fails the command.  The     *)
(* branch for a storage without a client, which serves local tests and     *)
(* copies nothing, is left out.                                            *)
Copy(u) ==
    /\ u \in backup.todo
    /\ backup' = IF u \in blobs
                 THEN [backup EXCEPT !.todo = @ \ {u}, !.done = @ \cup {u}]
                 ELSE JobIdle
    /\ UNCHANGED <<requestVars, accessVars, cleanup, marker, storeFaults>>

(* The signed manifest and the BackupMarker. *)
Mark ==
    /\ backup.on /\ backup.todo = {}
    /\ marker' = backup.done
    /\ backup' = JobIdle
    /\ UNCHANGED <<requestVars, accessVars, cleanup, storeFaults>>

-----------------------------------------------------------------------------
(* Downloads.                                                              *)

(* What resident_can_download and authorize_download look up changes: an   *)
(* occupancy or a membership begins or ends, a bill is voided, a proposal  *)
(* is published.                                                           *)
ChangeRights(r, u) ==
    /\ u \in linked
    /\ entitled' = IF <<r, u>> \in entitled THEN entitled \ {<<r, u>>} ELSE entitled \cup {<<r, u>>}
    /\ UNCHANGED <<requestVars, tampered, tokens, served, cleanup, backup, marker, storeFaults>>

(* A page or an answer of the API contains a signed link for its reader. *)
IssueToken(r, u) ==
    /\ <<r, u>> \in entitled
    /\ tokens' = tokens \cup {<<r, u>>}
    /\ UNCHANGED <<requestVars, tampered, entitled, served, cleanup, backup, marker, storeFaults>>

(* DOWNLOAD_MAX_AGE has passed. *)
ExpireToken(l) ==
    /\ l \in tokens
    /\ tokens' = tokens \ {l}
    /\ UNCHANGED <<requestVars, tampered, entitled, served, cleanup, backup, marker, storeFaults>>

(* resident_can_download and _allowed, at the time of the download. *)
MayRead(r, u) == <<r, u>> \in entitled

(* read_version_bytes and authorize_download: the bytes that are stored    *)
(* must be there and have the digest of the version.                       *)
Readable(u) == u \in versionRows /\ u \in blobs /\ u \notin tampered

(* DocumentDownloadView and staff_document_download; the right is looked   *)
(* up, then the bytes are read.  A right that ends between the two is not  *)
(* told apart from one that ends just after.                               *)
Download(r, u) ==
    /\ <<r, u>> \in tokens
    /\ MayRead(r, u) /\ Readable(u)
    /\ served' = <<<<r, u>>, IF u \in tampered THEN "false"
                             ELSE IF <<r, u>> \in entitled THEN "true" ELSE "stale">>
    /\ UNCHANGED <<requestVars, tampered, tokens, entitled, cleanup, backup, marker, storeFaults>>

(* Somebody changes an object behind the application's back. *)
Tamper(u) ==
    /\ u \in blobs \ tampered
    /\ tampered' = tampered \cup {u}
    /\ UNCHANGED <<requestVars, tokens, entitled, served, cleanup, backup, marker, storeFaults>>

-----------------------------------------------------------------------------

UploadNext == \E u \in Uploads :
    Reject(u) \/ Quarantine(u) \/ Upload(u) \/ Use(u) \/ Refuse(u) \/ Die(u) \/ GrowOld(u)

JobNext ==
    \/ BeginCleanup \/ CommitCleanup \/ BeginBackup \/ Mark
    \/ \E u \in Uploads : HardDelete(u) \/ Copy(u)

DownloadNext ==
    \/ \E r \in Readers, u \in Uploads : ChangeRights(r, u) \/ IssueToken(r, u) \/ Download(r, u)
    \/ \E l \in Links : ExpireToken(l)
    \/ \E u \in Uploads : Tamper(u)

StoreSpec == StoreInit /\ [][UploadNext \/ JobNext \/ DownloadNext]_storeVars

-----------------------------------------------------------------------------
(* Properties.                                                             *)

(* Whatever the cleanup purges and however it ends, the object behind a    *)
(* version that a proposal, a settlement, a bill, a fund entry or a report *)
(* refers to stays in the storage.                                         *)
EvidenceKept == linked \subseteq blobs

(* A BackupMarker stands for a complete backup: when it is written, every  *)
(* version that was there when the backup began and was not deleted        *)
(* meanwhile is copied, whatever the cleanup did to the storage.           *)
MarkerIsComplete ==
    backup.on /\ backup.todo = {} => backup.all \cap versionRows \subseteq backup.done

(* "A token can never widen access": a link served after the reader lost   *)
(* the right to it, or with bytes that are not the ones uploaded, does not *)
(* exist.                                                                  *)
ServedIsTrue == served # NoDocument => served[2] = "true"

(* Requests that die, a cleanup that stops half way, a backup that runs    *)
(* beside it and links that outlive a right lose no evidence and show no   *)
(* false document (_hard_delete_document, backup_objects,                  *)
(* DocumentDownloadView).                                                  *)
StoreHolds == StoreTypeOK /\ EvidenceKept /\ MarkerIsComplete /\ ServedIsTrue

(* "Also purges private-storage blobs for deleted document versions": the  *)
(* object of a version that was not deleted is there.                      *)
RowsHaveBlobs == versionRows \ cleanup.done \subseteq blobs
=============================================================================
