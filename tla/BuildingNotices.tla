--------------------------- MODULE BuildingNotices ---------------------------
(***************************************************************************)
(* What the management of a building sends to its residents: announcements *)
(* (lamto/notifications/announcements.py, lamto/web/announcement_views.py) *)
(* and bills (lamto/billing, lamto/web/bill_views.py,                      *)
(* lamto/api/bill_views.py), with the in-app notices both keep in step     *)
(* with their state and the residents' feed.                               *)
(*                                                                         *)
(* A manager's form and a resident's payment carry what was read when the  *)
(* page was opened; between that and the transaction anything may happen.  *)
(* The pushes these operations queue are rows of the module Notifications. *)
(***************************************************************************)
EXTENDS Naturals, FiniteSets

CONSTANTS
    Announcements,
    Bills,
    Residents,
    Managers,
    Contents,    \* title and body of an announcement
    References,  \* payment references, the payload of a bill's QR code
    MaxRevision  \* bound of the model on edits

ASSUME NoticesAssumption == {} \notin {Announcements, Bills, Residents, Contents, References}
ASSUME RevisionAssumption == MaxRevision \in Nat \ {0}

VARIABLES
    announcement,  \* Announcement rows: [state, revision, content]
    form,          \* the edit page a manager has open, if any
    manages,       \* managers with an active membership
    lives,         \* residents with an active occupancy and an active account
    notice,        \* in-app row of each resident for each announcement
    bill,          \* Bill rows: [status, resident, reference]
    billNotice,    \* bills whose in-app row exists
    payment,       \* a resident's confirmation under way
    receipts       \* "bill.payment_recorded" audit records of each bill

announcementVars == <<announcement, form, notice>>
billVars == <<bill, billNotice, payment, receipts>>
noticesVars == <<announcementVars, billVars, manages, lives>>

States == {"NONE", "PUBLISHED", "WITHDRAWN"}
BillStatus == {"NONE", "ISSUED", "PAID", "VOID"}

NoticesTypeOK ==
    /\ announcement \in [Announcements ->
           [state : States, revision : 0 .. MaxRevision + 1, content : Contents]]
    /\ form \in [Managers -> [open : BOOLEAN, on : Announcements,
                              revision : 0 .. MaxRevision + 1, seen : Contents]]
    /\ manages \subseteq Managers
    /\ lives \subseteq Residents
    /\ notice \in [Residents \X Announcements ->
           [shown : BOOLEAN, content : Contents, read : BOOLEAN]]
    /\ bill \in [Bills -> [status : BillStatus, resident : Residents, reference : References]]
    /\ billNotice \subseteq Bills
    /\ payment \in [Residents -> [open : BOOLEAN, bill : Bills, reference : References]]
    /\ receipts \in [Bills -> Nat]

(* A value nobody looks at. *)
Any(S) == CHOOSE x \in S : TRUE

NoticesInit ==
    /\ announcement = [a \in Announcements |->
                          [state |-> "NONE", revision |-> 0, content |-> Any(Contents)]]
    /\ form = [m \in Managers |->
                  [open |-> FALSE, on |-> Any(Announcements), revision |-> 0, seen |-> Any(Contents)]]
    /\ manages = Managers
    /\ lives = {}
    /\ notice = [x \in Residents \X Announcements |->
                    [shown |-> FALSE, content |-> Any(Contents), read |-> FALSE]]
    /\ bill \in [Bills -> [status : {"NONE"}, resident : {Any(Residents)}, reference : References]]
    /\ billNotice = {}
    /\ payment = [r \in Residents |->
                     [open |-> FALSE, bill |-> Any(Bills), reference |-> Any(References)]]
    /\ receipts = [b \in Bills |-> 0]

-----------------------------------------------------------------------------
(* Announcements.                                                          *)

(* The rows of announcement a once c was sent to everyone who lives here:  *)
(* queue_notification makes the missing ones, the update that follows      *)
(* rewrites all of them, those of residents who left too.                  *)
NoticesWith(a, c) ==
    [x \in Residents \X Announcements |->
        IF x[2] = a /\ (x[1] \in lives \/ notice[x].shown)
        THEN [shown |-> TRUE, content |-> c, read |-> FALSE]
        ELSE notice[x]]

(* publish_announcement. *)
Publish(m, a, c) ==
    /\ m \in manages
    /\ announcement[a].state = "NONE"
    /\ announcement' = [announcement EXCEPT
                           ![a] = [state |-> "PUBLISHED", revision |-> 1, content |-> c]]
    /\ notice' = NoticesWith(a, c)
    /\ UNCHANGED <<form, billVars, manages, lives>>

(* The page of an announcement is opened: it carries the revision. *)
OpenForm(m, a) ==
    /\ m \in manages
    /\ announcement[a].state # "NONE"
    /\ form' = [form EXCEPT ![m] = [open |-> TRUE, on |-> a,
                                    revision |-> announcement[a].revision,
                                    seen |-> announcement[a].content]]
    /\ UNCHANGED <<announcement, notice, billVars, manages, lives>>

Submitted(m) == form' = [form EXCEPT ![m].open = FALSE]

(* Mutated form: the revision the manager saw is not compared. *)
AcceptsAnyRevision(m, a) == announcement[a].state = "PUBLISHED"

(* The test that does not end in AnnouncementConflict, with the row locked. *)
Accepts(m, a) ==
    /\ announcement[a].state = "PUBLISHED"
    /\ announcement[a].revision = form[m].revision

(* Mutated form: only the residents who have no row yet are told. *)
EditOnlyNew(m, a, c) ==
    /\ m \in manages /\ form[m].open /\ form[m].on = a /\ Accepts(m, a)
    /\ announcement[a].revision < MaxRevision
    /\ announcement' = [announcement EXCEPT ![a].content = c, ![a].revision = @ + 1]
    /\ notice' = [x \in Residents \X Announcements |->
                     IF x[2] = a /\ x[1] \in lives /\ ~notice[x].shown
                     THEN [shown |-> TRUE, content |-> c, read |-> FALSE]
                     ELSE notice[x]]
    /\ Submitted(m)
    /\ UNCHANGED <<billVars, manages, lives>>

(* edit_announcement. *)
Edit(m, a, c) ==
    /\ m \in manages /\ form[m].open /\ form[m].on = a /\ Accepts(m, a)
    /\ announcement[a].revision < MaxRevision
    /\ announcement' = [announcement EXCEPT ![a].content = c, ![a].revision = @ + 1]
    /\ notice' = NoticesWith(a, c)
    /\ Submitted(m)
    /\ UNCHANGED <<billVars, manages, lives>>

(* withdraw_announcement: the rows of everyone are deleted. *)
Withdraw(m, a) ==
    /\ m \in manages /\ form[m].open /\ form[m].on = a /\ Accepts(m, a)
    /\ announcement' = [announcement EXCEPT ![a].state = "WITHDRAWN", ![a].revision = @ + 1]
    /\ notice' = [x \in Residents \X Announcements |->
                     IF x[2] = a THEN [notice[x] EXCEPT !.shown = FALSE, !.read = FALSE]
                     ELSE notice[x]]
    /\ Submitted(m)
    /\ UNCHANGED <<billVars, manages, lives>>

(* AnnouncementConflict: an error message, and the page again. *)
Conflict(m, a) ==
    /\ form[m].open /\ form[m].on = a /\ ~Accepts(m, a)
    /\ Submitted(m)
    /\ UNCHANGED <<announcement, notice, billVars, manages, lives>>

(* resident_feed: what resident r is shown.  The feed needs an occupancy. *)
Feed(r) == {a \in Announcements : r \in lives /\ notice[<<r, a>>].shown}

(* mark_notification_read. *)
MarkRead(r, a) ==
    /\ a \in Feed(r)
    /\ ~notice[<<r, a>>].read
    /\ notice' = [notice EXCEPT ![<<r, a>>].read = TRUE]
    /\ UNCHANGED <<announcement, form, billVars, manages, lives>>

-----------------------------------------------------------------------------
(* Bills.                                                                  *)

(* bill_create and issue_bill: the row, its in-app notice and its push. *)
IssueBill(m, b, r) ==
    /\ m \in manages
    /\ r \in lives
    /\ bill[b].status = "NONE"
    /\ bill' = [bill EXCEPT ![b].status = "ISSUED", ![b].resident = r]
    /\ billNotice' = billNotice \cup {b}
    /\ UNCHANGED <<announcementVars, payment, receipts, manages, lives>>

(* _own_bills: a resident sees his bills that are not void, whether he     *)
(* still lives here or not.                                                *)
OwnBills(r) == {b \in Bills : bill[b].resident = r /\ bill[b].status \in {"ISSUED", "PAID"}}

(* BillConfirmPaymentView finds the bill, without a lock, for the QR code  *)
(* that was scanned.                                                       *)
OpenPayment(r, b, ref) ==
    /\ b \in OwnBills(r)
    /\ payment' = [payment EXCEPT ![r] = [open |-> TRUE, bill |-> b, reference |-> ref]]
    /\ UNCHANGED <<announcementVars, bill, billNotice, receipts, manages, lives>>

Answered(r) == payment' = [payment EXCEPT ![r].open = FALSE]

(* What confirm_payment demands of the locked row. *)
Payable(r, b) ==
    /\ bill[b].status # "VOID"
    /\ payment[r].reference = bill[b].reference
    /\ bill[b].resident = r

(* A payment is recorded unless it was before. *)
Records(b) == bill[b].status # "PAID"

(* confirm_payment. *)
ConfirmPayment(r) ==
    LET b == payment[r].bill
    IN  /\ payment[r].open
        /\ Payable(r, b)
        /\ bill' = [bill EXCEPT ![b].status = "PAID"]
        /\ receipts' = [receipts EXCEPT ![b] = IF Records(b) THEN @ + 1 ELSE @]
        /\ Answered(r)
        /\ UNCHANGED <<announcementVars, billNotice, manages, lives>>

(* BillVoidedError or BillReferenceError. *)
RefusePayment(r) ==
    /\ payment[r].open
    /\ ~Payable(r, payment[r].bill)
    /\ Answered(r)
    /\ UNCHANGED <<announcementVars, bill, billNotice, receipts, manages, lives>>

(* void_bill. *)
VoidBill(m, b) ==
    /\ m \in manages
    /\ bill[b].status = "ISSUED"
    /\ bill' = [bill EXCEPT ![b].status = "VOID"]
    /\ billNotice' = billNotice \ {b}
    /\ UNCHANGED <<announcementVars, payment, receipts, manages, lives>>

-----------------------------------------------------------------------------

(* Residents move in and out. *)
Move(r) ==
    /\ lives' = IF r \in lives THEN lives \ {r} ELSE lives \cup {r}
    /\ UNCHANGED <<announcementVars, billVars, manages>>

(* A membership ends; require_management refuses from then on. *)
LeaveManagement(m) ==
    /\ m \in manages
    /\ manages' = manages \ {m}
    /\ UNCHANGED <<announcementVars, billVars, lives>>

NoticesNext ==
    \/ \E m \in Managers, a \in Announcements :
          \/ \E c \in Contents : Publish(m, a, c) \/ Edit(m, a, c)
          \/ OpenForm(m, a) \/ Withdraw(m, a) \/ Conflict(m, a)
    \/ \E r \in Residents, a \in Announcements : MarkRead(r, a)
    \/ \E m \in Managers, b \in Bills :
          VoidBill(m, b) \/ \E r \in Residents : IssueBill(m, b, r)
    \/ \E r \in Residents :
          \/ \E b \in Bills, ref \in References : OpenPayment(r, b, ref)
          \/ ConfirmPayment(r) \/ RefusePayment(r) \/ Move(r)
    \/ \E m \in Managers : LeaveManagement(m)

NoticesSpec == NoticesInit /\ [][NoticesNext]_noticesVars

-----------------------------------------------------------------------------
(* Properties.                                                             *)

(* Whoever moved in or out between the revisions, every in-app row of an   *)
(* announcement has its current content, and a withdrawn one has none.     *)
NoticeIsCurrent ==
    \A r \in Residents, a \in Announcements :
        notice[<<r, a>>].shown =>
            /\ announcement[a].state = "PUBLISHED"
            /\ notice[<<r, a>>].content = announcement[a].content

(* A page that was opened earlier never overwrites what happened since.  A *)
(* manager's edit or withdrawal only replaces the text that manager had on *)
(* the screen; a bill that was paid is never voided and a void one never   *)
(* paid, even when the resident opened it before it was voided.            *)
NoStaleWrite ==
    [][/\ \A m \in Managers : form[m].open /\ ~form'[m].open =>
             LET a == form[m].on
             IN  announcement'[a] = announcement[a] \/ announcement[a].content = form[m].seen
       /\ \A b \in Bills :
             bill[b].status \in {"PAID", "VOID"} => bill'[b] = bill[b]]_noticesVars

(* Confirming a payment again, before or after it was recorded, records    *)
(* one.                                                                    *)
PaymentRecordedOnce ==
    \A b \in Bills : receipts[b] = IF bill[b].status = "PAID" THEN 1 ELSE 0

(* The notice of a bill is there exactly as long as the resident's list    *)
(* has the bill.                                                           *)
BillNoticeMatches ==
    \A b \in Bills : b \in billNotice <=> \E r \in Residents : b \in OwnBills(r)

(* Residents see each announcement as it now stands and each bill they     *)
(* still owe or paid, once, whoever moved, edited, withdrew, paid or       *)
(* voided meanwhile (edit_announcement, confirm_payment, void_bill).       *)
NoticesMatch ==
    NoticesTypeOK /\ NoticeIsCurrent /\ PaymentRecordedOnce /\ BillNoticeMatches
=============================================================================
