# LamTo in TLA+

LamTo is a transparency platform for apartment buildings. Residents report
problems, management triages them into cases, spends money on some of them by
way of published proposals, and every decision that moves money leaves evidence
on a managed Besu chain. The backend is a Django application on PostgreSQL
(`src/lamto`) with worker processes; a Solidity contract (`chain/src`) keeps the
evidence records; a Flutter app is the residents' client; shell scripts bring up
a demo and make backups.

These modules model what the program keeps and changes: evidence, cases and
proposals, money, the residents' reports and notifications, access to the gate,
the API and the management pages, documents, integrity checks, the worker
process and the demo scripts. All paths below are relative to the repository.

## The system

| Component | State it keeps | Operations | Talks to |
|---|---|---|---|
| Registry contract (`chain/src/EvidenceRegistry.sol`) | records, authorized signers | `recordEvidence`, `setAuthorizedSigner` | called by the outbox worker |
| Evidence outbox (`evidence/services.py`, `worker.py`, `chain.py`) | one row per event: status, signed identity, lease, next attempt | queue, claim, find, submit, confirm, mismatch, local, retry, recheck | queued by proposals and settlements in their transaction; polls the chain |
| Reports, cases (`maintenance/cases.py`, `triage.py`, `ratings.py`) | report status, information requests, cases and their links, ratings | ask, reply, decline, triage, group, start, complete, rate, close | staff pages and the API; completion writes the proposal |
| Submission and triage jobs (`maintenance/reporting.py`, `ai.py`) | reports by client reference, photos, jobs, suggestions | submit, resubmit, attach, claim, answer, save | external model; moves a report to IN_REVIEW |
| Spending proposals (`finance/proposals.py`, `predictions.py`, `reference_prices.py`, `ai.py`) | status, versions, decision, predictions | create, compare, publish a version, decide, complete | locks case and reports; queues evidence; asks a price provider |
| Settlement, ledger, fund (`finance/settlements.py`, `publication.py`, `fund.py`, `selectors.py`) | settlement, ledger entry, fund entries, verifications | settle (posts and publishes), record a source, verify it, report | reads the proposal's current version; queues evidence |
| Integrity and explorer (`finance/integrity.py`, `explorer/views.py`) | observations | verify a published entry, show its evidence | documents, outbox rows, chain |
| Notifications (`notifications/`) | deliveries, attempts, devices, preferences | queue, deliver, retry, push, register | hooks of every service, after commit; mail server, FCM |
| Announcements, bills (`notifications/announcements.py`, `billing/`) | texts with revisions, bills, in-app notices | publish, edit, withdraw, issue, pay, void | residents' feed |
| Gate (`gate/`) | face enrolments, photos, plates, reader credentials, events | submit, review, revoke, purge, rotate, recognise | private storage; readers at the gate |
| Accounts and API access (`accounts/`, `api/`) | registrations, accounts, throttle buckets, tokens, occupancies | register, decide, expire, log in, serve, deactivate | every API request |
| Management workspace (`web/staff.py`, `views/exports.py`, `action_inbox.py`) | session row, active building, audit events | log in, switch, act, export, list what waits | calls the services |
| Documents (`documents/`, `web/staff_documents.py`, `api/downloads.py`) | rows and stored objects | upload, use, clean up, back up, download | scanner, private storage |
| Unified worker (`config/worker.py`) | none of its own; the deadline notices | the cycle over seven queues | all queues above |
| Demo scripts (`ops/demo/`) | environment file, fingerprints, database, archive, processes | reset, up, watch, stop | the whole stack on one machine |

What is hard here:

- two worker replicas, a lease without a fence and a chain that answers late:
  the worker acts between transactions on what it read in an earlier one;
- an anchoring backend that is switched, and a database that is restored, while
  the chain goes on;
- services that lock different rows, and pages that check without any lock
  before they call a service;
- statuses that stand for several facts at once;
- pages that stay open: a form, an edit, a review or a payment is sent against
  what was read minutes before;
- stored objects next to transactional rows: photos, documents and backups;
- workers that die between the outside world's answer and their own save;
- limits that are checked in one transaction and counted in another;
- scripts that can stop at any line.

`PROJECT.json` lists these as hazards, at their lines, with the properties that
would show them.

## Modules

| Module | Models | Root for TLC |
|---|---|---|
| `EvidenceRegistry` | the contract, pending transactions, receipts | |
| `EvidenceOutbox` (extends the registry) | the outbox and its workers, faults and operators | `MCEvidenceOutbox` |
| `EvidenceAnchoring` | what the outbox promises; refined by it | |
| `CaseWork` | reports, cases, the proposal of a case | `MCCaseWork` |
| `ActionInbox` (extends `CaseWork`) | the inbox and the accountability chain | `MCActionInbox` |
| `SettlementLedger` | versions, decisions, settlements, ledger, fund | `MCMoney` |
| `PriceComparison` | predictions, the comparison a version freezes | `MCMoney` |
| `FundReporting` | charts, calendar and periods of the fund pages | `MCMoney` |
| `ReportIntake` | submission, photos, triage jobs | `MCResidents`, `MCProgress` |
| `Notifications` | the delivery queue, push fan-out, devices | `MCResidents`, `MCProgress` |
| `BuildingNotices` | announcements, bills, in-app notices | `MCResidents` |
| `GateEnrollment` | face enrolments and their photos | `MCAccess`, `MCProgress` |
| `GateAccess` | plates, reader credentials, recognition, events | `MCAccess` |
| `Registration` | self-registration, decisions, expiry, onboarding | `MCAccess`, `MCProgress` |
| `AuthThrottle` | the attempt counter of logins and the public form | `MCAccess` |
| `ResidentAccess` | tokens, requests and occupancies of a resident | `MCAccess` |
| `ManagementWorkspace` | one manager's session, tabs, writes, exports | `MCAccess` |
| `UnifiedWorker` | the worker's cycle and the deadline scan | `MCOperations`, `MCProgress` |
| `DemoBringUp` | `reset.sh`, `up.sh` and their helpers | `MCOperations`, `MCProgress` |
| `DocumentStore` | uploads, cleanup, backup, downloads | `MCOperations` |
| `IntegrityChecks` | verification and the public explorer | `MCOperations`, `MCProgress` |
| `Sums` | the sum of a function over a finite set, for the three modules that sum | `MCMoney`, `MCAccess` |

The theorems are in eight modules: `EvidenceOutbox_proofs`, `CaseWork_proofs`,
`ActionInbox_proofs` (extends `CaseWork_proofs` and `MCActionInbox`),
`Money_proofs` (settlement, comparisons, fund pages; extends `MCMoney`),
`Residents_proofs` (intake, notifications, notices), `Access_proofs` (gate,
enrolment, registration, tokens, workspace, throttle), `Operations_proofs`
(documents, integrity, worker, demo) and `Sums_proofs` (sums, counting, induction
over finite sets), which the three before it cite.

**Roots with parts.** Components that share no state are checked by one root
module side by side. Its variable `part` names the component that runs, and the
scenario it runs in, and never changes; the others stay where they start. Each
behaviour of the root is therefore a behaviour of one component. A component's
property is checked as it stands: in the other parts the component is in its
initial state, where it must hold too. Two are asked only where they mean
something, because they are slow to evaluate (`FundReportsAgree`) or because the
queues are left out (`QueuesHold`). A scenario is a
condition on the step that makes an instance smaller (one device, one tab that
writes); what it leaves out is said above it.

Definitions named "Mutated form" are what a plausible slip would make of the
definition below them. No specification uses them; substituting one for its
neighbour must break the property it is listed with in `PROJECT.json`.

### EvidenceRegistry and EvidenceOutbox

The signed identity of an event (payload hash, previous hash, type, signer) is
one value, because the code only compares it. A row is `status`, `ident` and
`ready`; `ready` says that the timer that governs the row (`next_attempt_at` of a
PENDING row, `lease_expires_at` of a SUBMITTED one) has run out. `pc`, `job` and
`seen` are the local state of a worker in `_process_claimed_event`. One step is
one transaction or one chain call: `Claim`, `FindRecord`/`FindFails`,
`SendTransaction`/`SendFails`, `ReceiptTimeout`, `ReceiptReverted`, and the
write-backs `MarkFound`, `MarkSubmitted`, `MarkLocal`, `MarkRetry`. As in the
code, a write-back locks the row but reads neither its status nor its lease.

The environment: `Mine` includes a pending transaction, in any order and after
any delay; `DropPending` loses one; `Crash` stops a worker anywhere;
`SwitchBackend` is the runbook's anchoring switch; `TakeBackup` and
`RestoreBackup` move the database back in time under an unchanged chain; the
contract owner may revoke and restore the signer. `AllowOverrun` lets a lease
expire under a worker that is still at work (`submit` waits for an advisory lock
without a deadline); `AllowRestore` allows restores.

Left out: fee fields, nonces and the relayer's advisory lock (they order
transactions, and `Mine` takes them in any order); `transaction_hash` and block
metadata, which the worker never reads back; `last_error` and attempt counts,
which only set the length of the back-off.

### CaseWork and ActionInbox

A case is opened by the triage decision of one report and is named by it. A
report has a status, perhaps an open information request, and the request a
staff page has let through (`page`). A case has the flags `active`, `started`,
`completed`, its `members` and the status of its proposal.

Services that lock the case and write reports they read without a lock are two
steps, `Begin` and `CommitStart`/`CommitComplete`; `tx` holds the case lock and
the set of reports read. `Rollback` ends such a transaction without a trace: the
database resolves a deadlock that way, and the decide handler (proposal, then
case) and completion (case, then proposal) can deadlock. `decline_report` is
`DeclineReport` (lock the report, read its cases) and `CommitDecline` (wait for
the case locks, write). Every other service is one step, guarded by the locks it
waits for. `CreateProposal` stands for the page's transaction around
`create_proposal` and `publish_proposal_version`, and `Begin(c, "proceed")` for
the one around `decide_proposal` and `start_case_work`. `AllowRevision` and
`AllowGrouping` allow further versions and `group_report`: both services exist
and are tested, no page calls them for that purpose today.

`ActionInbox` adds what the queues read besides: the triage job, the deadline,
the settlement, and the outbox events of a version and of a settlement. The job is
claimed (PROCESSING), then saved; the status of the report follows in a statement
of its own. A worker that dies in between leaves the job PROCESSING, and nothing
looks for it again. The queues are the queries of `action_inbox.py`; nobody puts
an item there and nobody takes it away.

### SettlementLedger, PriceComparison, FundReporting

Each money service locks its proposal, fund or entry before it reads, so each is
one step. `decidedOn` is a history of the audit entry `decide_proposal` writes.
`RecordSettlement` does all that `record_settlement` does in its transaction: the
settlement at the amount of the current version, the outflow and the ledger
entry, each unless it exists.

`PriceComparison`: a form (`tab`) carries an amount and the id of a prediction;
`AskCompare`, `RecordPrediction`, `ReceiveReply` and `LoseReply` are the slow
request, `SubmitForm` and `Revise` publish. `PriceBand` takes the provider's band
when it is configured, well-formed, positive and in order, and the reference band
otherwise; `Compare` rounds as the code does.

`FundReporting`: rows with their moment and whether they count, and the selectors
as operators over them (`DayChart`, `MonthChart`, `Cells`, `PeriodRows`). Local
days begin before UTC days; months have equal length.

### ReportIntake, Notifications, BuildingNotices

`ReportIntake`: `LookUp` and `InsertReport`/`InsertLoses` are the two halves of
`submit_report_idempotent`, the second the answer to a unique-key violation;
`CheckPhoto`/`AttachPhoto` those of `attach_report_photo`. A triage worker claims,
asks and saves in separate steps and may stop between any two.

`Notifications`: a row per recipient, event and channel. A worker claims a batch
without marking it, then locks one row after the other and keeps it locked while
the mail server or FCM is asked. `mails` and `pushes` count what the outside
accepted. A crash loses what was not saved. Devices register, rotate tokens and
are switched off; preferences and occupancies change.

`BuildingNotices`: a manager's `form` and a resident's `payment` hold what was
read when the page was opened; `Edit`, `Withdraw`, `ConfirmPayment` and
`VoidBill` compare or lock as the services do, and rewrite the in-app rows in the
same step.

### GateEnrollment, GateAccess

A face submission stores its photo (`Store`), finds the photo it replaces
(`FindPrevious`) and commits; it may be refused, fail, meet a failing callback or
die. A revocation finds and commits. A review reads the row and closes it without
a lock, or approves it under one. `PurgePhoto` and `ProcessDeletion` are the
hourly command.

A plate review reads, tests for another holder and writes in three statements,
with the partial unique index behind them. A rotation is one step, or two when
rotations overlap. Recognition normalises what was read, and events are purged
after the retention time.

### Registration, AuthThrottle, ResidentAccess, ManagementWorkspace

`SubmitCheck` and `SubmitInsert` are the reading and the writing half of
`submit_registration`, which keeps stale rows locked in between; the status page,
the worker, both decisions and the onboarding command are one step each. Phone
numbers have a local and an international form, addresses a spelling, which a
registration folds and the onboarding command keeps.

`AuthThrottle`: a bucket per key with its window and lock. The public form admits
and counts in one step; the resident login checks, then counts; the workspace
login looks at the password first. `taken` is a history of what was let through.

`ResidentAccess`: the login reads, evicts and issues in three steps, a request is
authenticated in two and picks its flat in a third, a deactivation writes the row
and deletes the tokens in two.

`ManagementWorkspace`: one session row that several tabs load, change and save
whole. A request resolves its building when it begins (any page takes a building
parameter), looks the membership up again without a lock, commits, and saves the
session; an export collects its rows before that look and streams them after its
audit event, each in a statement of its own. Memberships, password and account
change in between.

### UnifiedWorker, DocumentStore, IntegrityChecks, DemoBringUp

`UnifiedWorker`: replicas at a place in `PROCESSORS`, started in a mode; a
processor whose adapter is broken is reported and the cycle goes on. A queue is
the number of its due items. The deadline scan is modelled in full.

`DocumentStore`: an upload is validated, scanned, stored and used in a request
that may be refused or die; cleanup and backup walk over the rows one object at a
time; a link is issued, and read when it is followed. Three pairs of statements
are one step: reading the cleanup's candidates and opening its transaction,
looking up a reader's right and reading the bytes, and, in `GateAccess`, looking
for another holder of a plate and writing the request.

`IntegrityChecks`: documents, published rows, outbox status and chain record of
an entry, any of which can be altered or lost behind the program's back. `Record`
is a block of the chain, `Anchor` the outbox worker that reads it; `Verify` is
`verify_published_entry`, `Page` the public page, `ViewPage` a reader who opens it
and keeps it open. `anchored` and `named` are histories: the hashes that were ever on the chain, the documents a page named.

`DemoBringUp`: the two scripts as sequences of steps over the environment file,
the fingerprints, the database, the archive and the processes. Every step may
fail; `KillUp` ends `up.sh` without its exit handler, and the servers it leaves
behind go on taking visits, also during a reset, which does not look for them.
`late` is a history of the visits taken between the dump and the wipe.

## Runs

| Run | Checks | Instance |
|---|---|---|
| `outbox` | `VerdictsAreTrue`, `RecordsWriteOnce`, `EveryEventSettles` | fair; one event, two identities, two workers, overrun and restore |
| `outbox_refinement` | `LeaseExcludes`, `NoFalseAlarm`, `AnchoringSpec` | two events, two workers, no overrun, no restore |
| `casework` | `ProposalFollowsWork`, `OneActiveCase`, `FinishedMeansDone`, `DecisionsBind`, `CompletedCasesClose` | fair; two reports, one private, revision and grouping |
| `inbox` | `WorkInProgressIsReal`, `QueuesHold` | two reports, or one with its queues; no revision, no grouping |
| `money` | `PaidWasDecided`, `OutflowsAreSettlements`, `BalanceMatchesLedger`, `ComparisonsHold`, `FundReportsAgree` | two proposals; two forms and two cases; one form and every answer; three months of a fund |
| `residents` | `IntakeConsistent`, `DeliveriesAreTrue`, `CapRespected`, `NoticesMatch`, `TriageNeverOverrides`, `NoStaleWrite` | two posts and uploads; two delivery workers, or one with two installs, or one that dies; two managers and two residents |
| `access` | `EnrolmentsHold`, `PlateHeldOnce`, `RegistrationsHold`, `AttemptsAreBounded`, `AccessHolds`, `WorkspaceHolds`, `RotationKeepsReader` | three submissions for one flat; two holders of a plate; three credentials; three requests; two attempts in flight; two logins; two tabs and two buildings |
| `operations` | `WorkerHolds`, `DemoHolds`, `StoreHolds`, `ObservationsEarned` | two replicas and two cases; visits and faults, three in all; three uploads; one entry with two documents and two events |
| `progress` | `EveryDeliveryEnds`, `PhotosEnd`, `EveryReportReviewed`, `EveryRequestEnds`, `OperationsGoOn` | fair; seven components, each with the smallest instance in which something has to wait |

What they show. A verdict of the outbox is always true of the chain, whatever
fails and in whatever order, and every event gets one. While a lease covers the
work, the outbox is indistinguishable from one that anchors each event once.
Case, proposal and money agree: no proposal is in progress without work, none
completed before it, and what is paid is the version somebody decided on. What
residents read next to an amount is the comparison that was made for it, and
what the fund pages draw is the fund. A repeated submission makes one report, a
late triage answer takes nothing back, a delivery marked as sent was sent, and a
page opened earlier overwrites nothing. A manager approves the face that was last
submitted, a plate has one holder, a rotation never locks a reader out; a
registration becomes at most one account; guesses stay bounded although requests
overlap; a resident with several flats is never served one by accident; what a
manager does is done where the page said, on the record, and as a member when the
request last looked, and an exported file holds what its building had when the
request began. What waits for management is in its inbox once the triage worker
has saved its job. A broken adapter stops nobody else's queue, the demo shows an
address only over its own checked data, no cleanup removes evidence, and an
observation of the integrity check was true when it was made. The public page
agrees with a check made at the same moment; a step it shows as confirmed has a
hash that was on the chain, which need not be there any more.

### Where code and text disagree

Three runs find a behaviour that a text in the repository excludes.

- `outbox_late_worker`: `ops/pilot-runbook.md` says "Events keep the status they
  settled with". A worker whose lease has expired, and whose call then fails,
  puts an event another worker has settled back to PENDING (`evidence/worker.py`,
  `_mark_retry`). `EveryEventSettles` holds nevertheless.
- `casework_late_proposal`: GLOSSARY.md calls started work "the last moment a
  spending proposal can be created". `create_proposal` reads the reports'
  status, which an information request or the reply to one resets, and not
  `started_at`.
- `docs_cleanup`: the cleanup does not know the documents of bills. Deleting one
  raises, the transaction is rolled back, and versions handled before it are
  rows again whose objects are gone (`web/staff_documents.py`, line 226).

Others were met while modelling. They are why some properties above carry a
condition (no crash, one worker, no grouping), and each can be seen by dropping
it.

| Code | Text | What the code does |
|---|---|---|
| `evidence/worker.py:323` | "A `LOCAL` event is never retro-anchored" (runbook) | an event whose transaction is pending when anchoring is switched off becomes LOCAL and is recorded later |
| `maintenance/cases.py:236` | a reply "moves the report from NEEDS_INFO back to IN_REVIEW" (`api/views.py:551`) | it sets IN_REVIEW from any status; start, completion and decline leave the request open |
| `maintenance/triage.py:156` | "Private requests cannot join a case with a community proposal." | refused only in the PROPOSED phase; once work is in progress the report joins |
| `notifications/services.py:458` | "Durable fan-out progress" (`notifications/models.py:102`) | the devices served are saved once, after the loop; a crash in it forgets them |
| `notifications/services.py:394` | categories "are daily-capped" | two workers count the same day and both send |
| `notifications/services.py:452` | "dead token -> deactivate device" (`push.py:79`) | the device is found by key: a token registered meanwhile is switched off |
| `gate/enrollment.py:71` | the photo "Lives until a decision or ``expires_at``, never longer." | a revocation that meets a resubmission deletes the row and leaves the photo |
| `gate/enrollment.py:59` | the photo "lives until a manager decides or the TTL" | a failing on-commit callback deletes the photo that has just come under review |
| `gate/devices.py:60` | rotation "sets the previous row's ``expires_at``" | two rotations at once leave both new credentials without an end |
| `web/staff_documents.py:60` | "blobs already written are purged when the transaction rolls back" | a quarantined upload's row is rolled back, its object stays |
| `accounts/management/commands/onboard_building.py:49` | "existing users get a ManagementMembership" | an address in another spelling makes a second account, and the login finds two |
| `api/views.py:186` | "5 concurrent tokens; oldest evicted at login" | two logins at once keep one more each |
| `api/services.py:122` | "always revoke all of their knox tokens" | a login in flight issues its token after the revocation |
| `finance/integrity.py:253` | "If published data is changed, LamTo reports `MISMATCH`" (README) | a document that cannot be read turns the mismatch of another into UNAVAILABLE |
| `maintenance/ai.py:67` | "AI triage with manual fallback" (README) | a job has no lease; the report of a worker that died stays SUBMITTED with a PROCESSING job, which no queue asks for |
| `explorer/views.py:155` | the page "degrades to stored state with an honest note" (ADR 0004) | a CONFIRMED event the chain answers it has no record of is shown as confirmed, without the note |
| `web/action_inbox.py:266` | "Ledger entries whose LATEST observation is still a mismatch" | the limit counts observations, so several of one entry push another out |
| `config/worker.py:77` | "Prefer entries with no observation yet, then older ones." | entries with an observation are never looked at again |
| `web/action_inbox.py:154` | "The inbox is authoritative for staff work" | a private report in an open case is in no queue until a day before its deadline |
| `web/views/staff_common.py:414` | the stage is derived "from real state" | a case with a published proposal shows its work as completed |
| `config/worker.py:124` | "Scans active cases within a 24h horizon" | the first 50 open cases are taken in every cycle, warned or not; later ones are not reached |
| `ops/demo/reset.sh:82` | "A reset that stops partway leaves no fingerprints file" | one that stops before the wipe leaves it |
| `ops/demo/reset.sh:60` | "it keeps a copy of this visit's database" | what is made between dump and wipe, while `up.sh` still serves, is lost |

### Bounds

All safety properties are proved for every value of the constants; for them the
bounds decide only what TLC has tried. For liveness, and so that each property is
tried where it could fail:

- outbox: two workers are what a stale write-back, a takeover and a duplicate
  transaction need; events interact only through the workers. Two identities let
  a restored database queue an event anew with another one, the only way to a
  real mismatch.
- case work: two reports give two cases, or one case with two members. With
  three reports and grouping `WorkInProgressIsReal` fails: a decline that has
  found its case otherwise empty deactivates it although `group_report` has
  added a report meanwhile. `inbox` therefore leaves grouping out, as the pages do.
- settlement: two versions with different amounts are enough for a decision on
  one and a revision to the other.
- comparisons: two forms race for one case or use two; every shape of an answer
  occurs against one form, with amounts on both sides of the band, at its edges
  and at a rounding tie. Fund: rows on both halves of a local day, over a month
  boundary and both ends of the period.
- intake, notifications: two requests make every race of a repetition; attempt
  limits are 2, so that a last attempt and one before it exist; a cap of 1 with
  two events, and two workers only where one event is capped, so that
  `CapRespected` can hold.
- gate: a third submission overtakes a second one that replaced a first. The
  clock outlives a grace period and two retention periods.
- registration: three requests, two at once, and days enough for one to expire.
  Throttle: a limit of 3, a window of 2 and a clock of 5 let two windows follow
  each other. Tokens: a cap of 2 and four tokens. Workspace: sessions of two days
  over three, two buildings, two writes (of which one export), one tab that
  writes and one that switches the building under it. Addresses come in two spellings.
- worker: `ScanLimit` is at least the number of cases (the table above says what
  happens otherwise), and the clock waits for a working scan in each tick, which
  is a day where a cycle takes seconds; nothing in `config/worker.py` ensures it.
  Demo: two keys, and up to two visits and three faults, three in all: enough for
  a fault in each script and an edit between them, or for a kill and a late visit.
  `Careful` means one script at a time.
- documents: one upload of each kind the pages treat differently. Integrity: one
  entry with a quotation, a transfer proof, a version and a settlement, three
  changes.
- progress: nobody revokes an enrolment, since a revocation that meets a
  resubmission can leave a photo behind for good (the table above); `PhotosEnd`
  says so. Triage workers do die there.

`MaxNotify`, `MaxCrashes`, `MaxGateFaults`, `MaxChange`, `MaxWrites` and their like
only bound the model. Deadlock is checked in `casework` only: elsewhere a
behaviour stops when all is done or a bound is used up.

### Fairness

- Outbox: weak fairness of each worker's progress (the loop is supervised and
  restarted), of timers, of mining, of the operator restoring the signer, and of
  `Stabilise`, after which no fault, restore or switch happens.
- Case work: `close_completed_cases` is scheduled and waits in the queue of the
  row lock, so it is strongly fair for each case; transactions end.
- Notifications and triage: worker loops go on, on-commit callbacks run, retry
  times come. A triage worker may die inside a job, which has no lease, so
  `EveryReportReviewed` is about every report but those it dies on.
- Gate: time passes and `purge_gate_data` runs every hour over every row.
- Registration: days pass, the worker's pass runs in each cycle, a submission in
  progress ends.
- Unified worker: a running replica goes on and a stopped one is started again.
  Integrity: the worker comes back to its queue. Demo: a running script goes on.

No fairness is assumed of residents or managers.

## Proofs

All are checked by TLAPS for any sets of constants. They start from the named
assumptions of the modules, which TLC evaluates in the runs: placeholders
(`NoIdentity`, `NoWorker`, `NoPhoto`, `NoFlat`, `NoDocument`, `Nothing`) are no members
of the sets they complement, switches are Boolean, subsets are subsets, limits,
bounds and times are natural numbers, amounts are positive, and requests, logins,
attempts, workers, cases and proposals are finite in number where the code counts
or sums them. Three say more: the first moment of the fund pages is not after
the last one the model reaches (`FundBoundAssumption`); the limit of the throttle is above one
(`ThrottleAssumption`; it is 5, and with a limit of one the first attempt would
lock); and no bucket serves both a login and the form (`KeysAssumption`;
`throttle_digest` is over an identifier for the one and over a prefix of its own
for the other).

Nine theorems carry a hypothesis besides, always one that the code's
configuration or its callers can meet; the table of disagreements says what
happens without it.

| Theorem | Hypothesis | Why |
|---|---|---|
| `LeaseCorrect`, `Refinement` | `AllowOverrun = FALSE` | a lease has no fence, so it excludes only while it covers the work |
| `NoFalseAlarmCorrect`, `Refinement` | `AllowRestore = FALSE` | a restored database may sign an event anew |
| `WorkInProgressCorrect`, `InboxCorrect`, `QueuesCorrect` | `AllowGrouping = FALSE` | a decline may deactivate a case `group_report` has just joined; no page calls it |
| `CapCorrect` | one worker | the push is counted and saved in different steps |
| `CyclesCorrect` | `ScanTakesADay` | no more cases have the same deadline than a scan takes |
| `VisitsCorrect` | `Careful` | one script at a time |

Few of the properties are inductive. What each needs in addition:

- **Outbox.** A worker confirms from memory, a restore from a backup. The
  invariant says of the backup's rows what `VerdictsAreTrue` says of the
  table's (`RowsTrue`, `RowsSigned`), that what a worker remembers from `find` or
  from a receipt is on the chain (`MemoryTrue`), and that a transaction a worker
  still polls for carries the identity of the row the worker holds (`PoolTrue`).
  It is monotone because records are write-once, which is `RecordsCorrect`.
  `LeaseHeld` adds that the row of a worker at work is SUBMITTED and its lease
  runs; `ChainAgrees` that records and pending transactions carry the identity of
  their row. From both follows, action by action, that every step is a step of
  `EvidenceAnchoring` or leaves its variables alone (`Refinement`).
- **Case work.** `ChecksHold`: what `Begin` checked still holds at the commit,
  because the case lock keeps all other writers of those facts out. The action
  properties follow step by step. `AloneInCase` (a report is the only member of
  its case, and one in progress is among those an open transaction has read)
  gives `WorkInProgressIsReal`.
- **Inbox.** `InboxInv`: where a report nobody was asked about stands with its
  case (`InStep`), and that there is nothing of a case before triage. Every inbox
  step is a step of `CaseWork` or stutters, so its invariants carry over.
- **Settlement.** `DecisionIsCurrent` (a proposal in progress, completed or closed
  was decided on in its current version) and `SettlementIsCurrent` (a settled
  proposal can no longer be revised) make `PaidWasDecided` inductive. The balance
  (`BalanceInv`): the postings of proposals are the outflow rows of the fund, one
  each and of the published amount (`PostingsAreRows`), so a settlement takes from
  both sides the same and a verified source adds to both the same.
- **Fund pages.** The state need only be rows with an amount, a moment and a flag
  (`FundInv`); the rest is about the selectors. The buckets of a chart and the rows
  before it are disjoint and make up the verified rows (`Buckets`), so the balance
  at a point is the sum up to it (`SumOfParts`), the last point is the balance, and
  the days of the calendar make up the month.
- **Sums.** `MapThenSumSet` is a recursion over subsets. `Sums_proofs` shows that
  the recursion has one solution below every finite set and that it does not
  depend on the order in which elements are picked. Induction is stated for a set
  `P` that contains what is to be shown (`Induction`, `SubsetInduction`,
  `ElementInduction`) instead of for a predicate, from the well-foundedness of the
  naturals; that is a form this prover can use.
- **Comparisons.** `PriceInv`: a form names only a prediction it was shown, and
  one that exists. That the sentence next to the amount is right is arithmetic
  about `Compare` and its rounding (`RoundedIsNear` and the lemmas after it).
- **Residents.** Intake: a stored version has its link, a worker knows only public
  candidates and its own suggestion. Notices: an open page shows the text of its
  revision as long as nobody has made another (`PagesKnow`). Deliveries: what the
  mail server and FCM accepted is what rows and workers hold (`MailLedger`,
  `PushLedger`), rows are locked by one worker (`Locks`), and a push that has used
  up its attempts has room for those who had claimed it before (`AttemptsAt`). The
  cap: a worker that pushes has found room below it (`RoomLeft`).
- **Access.** Plates: the partial unique index (`OneHolder`). Enrolment: what
  photos have to do with submissions, storage and deletions (`PhotosHold`).
  Tokens: whichever evicting logins finish first, the tokens they leave and the
  ones still to be issued fit under the bound (`RoomForTokens`). Registration: a
  row a submission has locked is stale and nobody else's (`LocksHold`), and an
  account made by an approval has its address in lower case (`ResidentsAreLower`),
  so that only a spelling the onboarding command kept can be taken for another
  account's. Workspace: a request's copy of the session and the stored row are good
  until the request is done (`SessionsHold`), an unmoved page shows the session's
  building (`PagesHold`), records are numbered as logged (`WritesHold`), and a
  request past its look at the membership was let through, or the account has
  changed since (`ChecksHold`). Throttle: for each
  key the row says how many attempts there can have been (`KeyHolds`). A window
  below the limit has seen fewer than it has counted, with the tail of the window
  before it (`RowOpen`); once it is full nothing has been let through after the
  moment its lock was last extended, and as long as it is locked the requests
  between check and count are part of the sum (`RowFull`). One lemma
  (`CountKeeps`) covers a count on every kind of row.
- **Operations.** Documents: what the cleanup purged was old and unused, and the
  tables are locked while it runs (`CleanupHolds`). Integrity: a confirmed event, and a
  hash that is on the chain, was anchored (`AnchoredHolds`), and a page that named
  a transfer proof did so after its settlement had settled, which stays so
  (`NamedHolds`); the rest is what one reading of documents and chain can say
  (`DocumentsSay`, `ChainSays`, `PageSays`). Worker: a scan whose
  adapter works has warned about the cases of the last day or will (`ScansHold`).
  Demo: what holds at each line of the scripts (`ResetHolds`, `UpHolds`).

Only model-checked: liveness, which this prover cannot do, and with it the
fairness it rests on.

## Not modelled

- Hashing, canonical encodings and signatures: taken to be injective and
  unforgeable.
- Embeddings and face similarity, and the calibration of their threshold.
- Rendering and serialisation: templates, the sidebar, the columns of the CSV
  files, the wording of messages.
- The attribution rules of audit events for residents, and the triggers of the
  migrations that make tables append-only: the services never write otherwise.
- `config/settings.py`: values are read once and become constants.
- The location tree, the test factories and the demo kit's generator, which
  create rows and change none.
- An operator who edits `.env.demo` during a reset, processes a killed `up.sh`
  leaves to a second run on other ports, and a signal between the start of a
  process and the line that records its PID.
- The limits of the inbox's queries, and its exceptions queue: no code gives an
  outbox event the status FAILED it asks for. The list of open mismatches is one
  more such query; the table above says what its limit does.
- The branch of `backup_objects` for a storage without a client (local tests).
- The Flutter app, the generated client, and vendored libraries and scripts.

## Plan

1. A composition of `CaseWork` and `SettlementLedger` with the shared proposal,
   shown to implement both.
2. Gate calibration and the session of the app.
