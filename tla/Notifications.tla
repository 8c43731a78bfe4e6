---------------------------- MODULE Notifications ----------------------------
(***************************************************************************)
(* The notification queue, its delivery worker and the push devices        *)
(* (lamto/notifications/{services,push,devices,hooks}.py and the           *)
(* notification, deadline and stale device processors of                   *)
(* lamto/config/worker.py).                                                *)
(*                                                                         *)
(* A delivery row is named by its unique key (recipient, event, channel).  *)
(* A worker claims a batch in one transaction that ends at once, then      *)
(* handles each row in a transaction of its own, which keeps the row       *)
(* locked while the mail server or FCM is called.                          *)
(***************************************************************************)
EXTENDS FiniteSets, Naturals

CONSTANTS
    Users,         \* recipients
    Events,        \* event keys
    CappedEvents,  \* those of a daily-capped category (ledger publications)
    Channels,      \* the channels an event is queued for
    Installs,      \* app installs; a device is a user on an install
    Tokens,        \* FCM registration tokens
    Workers,       \* worker processes
    MaxEmailAttempts,
    MaxPushAttempts,
    DailyCap,      \* PUSH_DAILY_CAP_PER_CATEGORY; the model is one day
    MaxNotify,     \* how often one event is notified: bound of the model
    MaxCrashes     \* processes that end in the middle: bound of the model

ASSUME ChannelAssumption == Channels \subseteq {"IN_APP", "EMAIL", "PUSH"}
ASSUME WorkersAssumption == IsFiniteSet(Workers) /\ Tokens # {}
ASSUME CappedAssumption == CappedEvents \subseteq Events
ASSUME LimitAssumption ==
    /\ MaxEmailAttempts \in Nat \ {0}
    /\ MaxPushAttempts \in Nat \ {0}
    /\ DailyCap \in Nat \ {0}
    /\ MaxNotify \in Nat
    /\ MaxCrashes \in Nat

VARIABLES
    callback,  \* rows the on_commit callbacks still have to queue
    notified,  \* how often each event was notified
    row,       \* NotificationDelivery rows
    device,    \* Device rows
    mayPush,   \* users who are active, with an active occupancy in the building
    pref,      \* NotificationPreference of each user
    worker,    \* the workers' local state
    crashes,   \* how often a process ended
    mails,     \* messages the mail server accepted for each row
    pushes     \* messages FCM accepted for each row and device

queueVars == <<callback, notified, pref>>
sentVars == <<mails, pushes>>
notifyVars == <<queueVars, row, device, mayPush, worker, crashes, sentVars>>

Rows == Users \X Events \X Channels
Devices == Users \X Installs
Recipient(r) == r[1]
Event(r) == r[2]
Channel(r) == r[3]
Owner(d) == d[1]

Final == {"AVAILABLE", "SENT", "DEAD"}
RowStates ==
    [status : {"NONE", "PENDING", "FAILED"} \cup Final, attempts : Nat,
     retry : {"never", "later", "due"}, error : {"none", "error", "suppressed"},
     sentTo : SUBSET Devices]
DeviceStates == [token : Tokens, active : BOOLEAN]
Idle == [pc |-> "idle", batch |-> {}, rows |-> {}, left |-> {}, sentTo |-> {},
         dead |-> {}, failed |-> FALSE]
WorkerStates ==
    [pc : {"idle", "batch", "mailed", "push"}, batch : SUBSET Rows,
     rows : SUBSET Rows, left : SUBSET (Devices \X Tokens), sentTo : SUBSET Devices,
     dead : SUBSET (Devices \X Tokens), failed : BOOLEAN]

NotifyTypeOK ==
    /\ callback \subseteq Rows
    /\ notified \in [Events -> 0 .. MaxNotify]
    /\ row \in [Rows -> RowStates]
    /\ device \in [Devices -> DeviceStates]
    /\ mayPush \subseteq Users
    /\ pref \in [Users -> [email : BOOLEAN, push : BOOLEAN]]
    /\ worker \in [Workers -> WorkerStates]
    /\ crashes \in 0 .. MaxCrashes
    /\ mails \in [Rows -> Nat]
    /\ pushes \in [Rows \X Devices -> Nat]

(* No device is registered; nothing was notified. *)
NotifyInit ==
    /\ callback = {}
    /\ notified = [e \in Events |-> 0]
    /\ row = [r \in Rows |-> [status |-> "NONE", attempts |-> 0, retry |-> "never",
                              error |-> "none", sentTo |-> {}]]
    /\ device = [d \in Devices |-> [token |-> CHOOSE t \in Tokens : TRUE, active |-> FALSE]]
    /\ mayPush = Users
    /\ pref = [u \in Users |-> [email |-> TRUE, push |-> TRUE]]
    /\ worker = [w \in Workers |-> Idle]
    /\ crashes = 0
    /\ mails = [r \in Rows |-> 0]
    /\ pushes = [x \in Rows \X Devices |-> 0]

-----------------------------------------------------------------------------
(* Queueing.                                                               *)

(* notify_users: one key, every channel, the recipients of the event. *)
RowsOf(e) == {r \in Rows : Event(r) = e}

(* A business transaction that calls notify_users commits: its callbacks   *)
(* are due.  The deadline scan of every cycle, a repeated request and a    *)
(* second report of a case notify the same key again.                      *)
Notify(e) ==
    /\ notified[e] < MaxNotify
    /\ notified' = [notified EXCEPT ![e] = @ + 1]
    /\ callback' = callback \cup RowsOf(e)
    /\ UNCHANGED <<pref, row, device, mayPush, worker, sentVars, crashes>>

ActiveDevices(u) == {d \in Devices : Owner(d) = u /\ device[d].active}

(* The conditions of queue_notification for one channel. *)
Wanted(r) ==
    CASE Channel(r) = "IN_APP" -> TRUE
      [] Channel(r) = "EMAIL" -> pref[Recipient(r)].email
      [] Channel(r) = "PUSH" -> pref[Recipient(r)].push /\ ActiveDevices(Recipient(r)) # {}

(* get_or_create on (recipient, event_key, channel). *)
GetOrCreate(r) ==
    IF row[r].status = "NONE" THEN [row[r] EXCEPT !.status = "PENDING"] ELSE row[r]

(* queue_notification, one channel: each get_or_create commits by itself. *)
Queue(r) ==
    /\ r \in callback
    /\ callback' = callback \ {r}
    /\ row' = [row EXCEPT ![r] = IF Wanted(r) THEN GetOrCreate(r) ELSE row[r]]
    /\ UNCHANGED <<notified, pref, device, mayPush, worker, sentVars, crashes>>

(* An exception in a callback is swallowed, and a process that ends        *)
(* between the commit and its callbacks loses them.                        *)
DropCallback(u, e) ==
    /\ crashes < MaxCrashes
    /\ crashes' = crashes + 1
    /\ \E r \in callback : Recipient(r) = u /\ Event(r) = e
    /\ callback' = {r \in callback : ~(Recipient(r) = u /\ Event(r) = e)}
    /\ UNCHANGED <<notified, pref, row, device, mayPush, worker, sentVars>>

-----------------------------------------------------------------------------
(* Delivery.                                                               *)

(* The rows some worker's open transaction has locked. *)
LockedRows == UNION {worker[w].rows : w \in Workers}

(* Mutated form: rows that failed before are not taken again. *)
DuePendingOnly(r) == row[r].status = "PENDING"

Due(r) == row[r].status = "PENDING" \/ (row[r].status = "FAILED" /\ row[r].retry = "due")

(* claim_pending_deliveries, with a limit no instance reaches.  Nothing    *)
(* marks the rows as taken.                                                *)
Claim(w) ==
    LET due == {r \in Rows \ LockedRows : Due(r)}
    IN  /\ worker[w].pc = "idle"
        /\ due # {}
        /\ worker' = [worker EXCEPT ![w].pc = "batch", ![w].batch = due]
        /\ UNCHANGED <<queueVars, row, device, mayPush, sentVars, crashes>>

Took(w, r) == worker[w].pc = "batch" /\ r \in worker[w].batch /\ r \notin LockedRows

(* Worker w is done with row r. *)
Ready(w, r) ==
    LET rest == worker[w].batch \ {r}
    IN  [Idle EXCEPT !.pc = IF rest = {} THEN "idle" ELSE "batch", !.batch = rest]

(* Mutated form: the row is handled as it was claimed. *)
StillOpenUnchecked(r) == TRUE

(* What process_delivery looks at once it has the lock. *)
StillOpen(r) == row[r].status \notin Final

(* The row was finished by another worker meanwhile. *)
SkipDelivery(w, r) ==
    /\ Took(w, r)
    /\ ~StillOpen(r)
    /\ worker' = [worker EXCEPT ![w] = Ready(w, r)]
    /\ UNCHANGED <<queueVars, row, device, mayPush, sentVars, crashes>>

(* The in-app branch of process_delivery. *)
DeliverInApp(w, r) ==
    /\ Took(w, r)
    /\ StillOpen(r)
    /\ Channel(r) = "IN_APP"
    /\ row' = [row EXCEPT ![r].status = "AVAILABLE", ![r].attempts = @ + 1, ![r].error = "none"]
    /\ worker' = [worker EXCEPT ![w] = Ready(w, r)]
    /\ UNCHANGED <<queueVars, device, mayPush, sentVars, crashes>>

(* send_mail, which answers before the row is saved. *)
SendMail(w, r) ==
    /\ Took(w, r)
    /\ StillOpen(r)
    /\ Channel(r) = "EMAIL"
    /\ \E ok \in BOOLEAN :
          /\ mails' = [mails EXCEPT ![r] = IF ok THEN @ + 1 ELSE @]
          /\ worker' = [worker EXCEPT ![w].pc = "mailed", ![w].rows = {r}, ![w].failed = ~ok]
    /\ UNCHANGED <<queueVars, row, device, mayPush, pushes, crashes>>

(* What is saved after a mail that failed. *)
MailFailed(r) ==
    LET last == row[r].attempts + 1 >= MaxEmailAttempts
    IN  [row[r] EXCEPT !.attempts = @ + 1, !.error = "error",
                       !.status = IF last THEN "DEAD" ELSE "FAILED",
                       !.retry = IF last THEN "never" ELSE "later"]

(* The save that ends the e-mail branch. *)
SaveMail(w, r) ==
    /\ worker[w].pc = "mailed"
    /\ r \in worker[w].rows
    /\ row' = [row EXCEPT ![r] =
                  IF worker[w].failed THEN MailFailed(r)
                  ELSE [row[r] EXCEPT !.attempts = @ + 1, !.error = "none",
                                      !.status = "SENT", !.retry = "never"]]
    /\ worker' = [worker EXCEPT ![w] = Ready(w, r)]
    /\ UNCHANGED <<queueVars, device, mayPush, sentVars, crashes>>

-----------------------------------------------------------------------------
(* Push.                                                                   *)

(* Deliveries of the category that were really sent today. *)
SentToday(u) ==
    {r \in Rows : /\ Recipient(r) = u /\ Channel(r) = "PUSH" /\ Event(r) \in CappedEvents
                  /\ row[r].status = "SENT" /\ row[r].error = "none"}

(* _daily_push_cap_reached. *)
CapReached(r) ==
    Event(r) \in CappedEvents /\ Cardinality(SentToday(Recipient(r))) >= DailyCap

(* Mutated form: the daily cap is not looked at. *)
SuppressedUncapped(r) ==
    \/ Recipient(r) \notin mayPush
    \/ ActiveDevices(Recipient(r)) = {}

(* The three early returns of _process_push_delivery. *)
Suppressed(r) ==
    \/ Recipient(r) \notin mayPush
    \/ ActiveDevices(Recipient(r)) = {}
    \/ CapReached(r)

SuppressPush(w, r) ==
    /\ Took(w, r)
    /\ StillOpen(r)
    /\ Channel(r) = "PUSH"
    /\ Suppressed(r)
    /\ row' = [row EXCEPT ![r].status = "SENT", ![r].error = "suppressed"]
    /\ worker' = [worker EXCEPT ![w] = Ready(w, r)]
    /\ UNCHANGED <<queueVars, device, mayPush, sentVars, crashes>>

(* The devices are read, with their tokens; the loop begins. *)
BeginPush(w, r) ==
    /\ Took(w, r)
    /\ StillOpen(r)
    /\ Channel(r) = "PUSH"
    /\ ~Suppressed(r)
    /\ worker' = [worker EXCEPT ![w].pc = "push", ![w].rows = {r},
                     ![w].left = {<<d, device[d].token>> :
                                     d \in ActiveDevices(Recipient(r)) \ row[r].sentTo},
                     ![w].sentTo = row[r].sentTo]
    /\ UNCHANGED <<queueVars, row, device, mayPush, sentVars, crashes>>

(* send_push to one device: accepted, a transient error, or a token that   *)
(* classify_push_error calls terminal.                                     *)
SendPush(w, r, x) ==
    LET next == [worker[w] EXCEPT !.left = @ \ {x}]
        send(ok) == pushes' = [pushes EXCEPT ![<<r, x[1]>>] = IF ok THEN @ + 1 ELSE @]
    IN  /\ worker[w].pc = "push"
        /\ r \in worker[w].rows
        /\ x \in worker[w].left
        /\ \/ send(TRUE) /\ worker' = [worker EXCEPT ![w] = [next EXCEPT !.sentTo = @ \cup {x[1]}]]
           \/ send(FALSE) /\ worker' = [worker EXCEPT ![w] = [next EXCEPT !.failed = TRUE]]
           \/ send(FALSE) /\ worker' = [worker EXCEPT ![w] = [next EXCEPT !.dead = @ \cup {x}]]
        /\ UNCHANGED <<queueVars, row, device, mayPush, mails, crashes>>

(* push_sent_device_ids as it is saved. *)
PushProgress(w) == worker[w].sentTo

(* The row at the end of _process_push_delivery. *)
PushOutcome(w, r) ==
    LET tried == [row[r] EXCEPT !.attempts = @ + 1, !.sentTo = PushProgress(w)]
    IN  IF worker[w].failed
        THEN [tried EXCEPT !.status = "FAILED", !.error = "error",
                 !.retry = IF tried.attempts >= MaxPushAttempts THEN "never" ELSE "later"]
        ELSE [tried EXCEPT !.status = "SENT", !.retry = "never",
                 !.error = IF worker[w].sentTo # {} THEN "none" ELSE "suppressed"]

(* The devices whose token FCM refused. *)
Refused(w) == {x[1] : x \in worker[w].dead}

(* The transaction commits: the row and the devices whose token was        *)
(* refused, found by their key.                                            *)
SavePush(w, r) ==
    /\ worker[w].pc = "push"
    /\ r \in worker[w].rows
    /\ worker[w].left = {}
    /\ row' = [row EXCEPT ![r] = PushOutcome(w, r)]
    /\ device' = [d \in Devices |->
                     IF d \in Refused(w) THEN [device[d] EXCEPT !.active = FALSE]
                     ELSE device[d]]
    /\ worker' = [worker EXCEPT ![w] = Ready(w, r)]
    /\ UNCHANGED <<queueVars, mayPush, sentVars, crashes>>

(* The process ends: what its transaction did is rolled back, what the     *)
(* servers accepted is not.                                                *)
Crash(w) ==
    /\ crashes < MaxCrashes
    /\ crashes' = crashes + 1
    /\ worker[w].pc # "idle"
    /\ worker' = [worker EXCEPT ![w] = Idle]
    /\ UNCHANGED <<queueVars, row, device, mayPush, sentVars>>

(* next_retry_at is reached. *)
RetryDue(r) ==
    /\ row[r].retry = "later"
    /\ r \notin LockedRows
    /\ row' = [row EXCEPT ![r].retry = "due"]
    /\ UNCHANGED <<queueVars, device, mayPush, worker, sentVars, crashes>>

-----------------------------------------------------------------------------
(* Devices, preferences and occupancies.                                   *)

(* Devices an open push transaction has updated. *)
LockedDevices == UNION {Refused(w) : w \in Workers}

(* register_device: whoever else holds the token loses it. *)
RegisterDevice(d, t) ==
    LET holders == {o \in Devices \ {d} : device[o].active /\ device[o].token = t}
    IN  /\ (holders \cup {d}) \cap LockedDevices = {}
        /\ device[d] # [token |-> t, active |-> TRUE]
        /\ device' = [o \in Devices |->
                         IF o = d THEN [token |-> t, active |-> TRUE]
                         ELSE IF o \in holders THEN [device[o] EXCEPT !.active = FALSE]
                         ELSE device[o]]
        /\ UNCHANGED <<queueVars, row, mayPush, worker, sentVars, crashes>>

(* deactivate_device, deactivate_user_devices, deactivate_stale_devices:   *)
(* the devices of a logout, of a logout everywhere, or long unseen.        *)
Deactivate(some) ==
    /\ some # {}
    /\ some \cap LockedDevices = {}
    /\ \A d \in some : device[d].active
    /\ device' = [d \in Devices |->
                     IF d \in some THEN [device[d] EXCEPT !.active = FALSE] ELSE device[d]]
    /\ UNCHANGED <<queueVars, row, mayPush, worker, sentVars, crashes>>

(* MeNotificationPreferencesView.patch. *)
SetPreference(u) ==
    /\ u \in mayPush
    /\ \E p \in [email : BOOLEAN, push : BOOLEAN] : pref' = [pref EXCEPT ![u] = p]
    /\ UNCHANGED <<callback, notified, row, device, mayPush, worker, sentVars, crashes>>

(* The account is closed or the occupancy ends. *)
LoseOccupancy(u) ==
    /\ u \in mayPush
    /\ mayPush' = mayPush \ {u}
    /\ UNCHANGED <<queueVars, row, device, worker, sentVars, crashes>>

-----------------------------------------------------------------------------

Deliver(w, r) ==
    \/ SkipDelivery(w, r) \/ DeliverInApp(w, r)
    \/ SendMail(w, r) \/ SaveMail(w, r)
    \/ SuppressPush(w, r) \/ BeginPush(w, r) \/ SavePush(w, r)
    \/ \E x \in worker[w].left : SendPush(w, r, x)

WorkerStep(w) == Claim(w) \/ \E r \in Rows : Deliver(w, r)

NotifyNext ==
    \/ \E e \in Events : Notify(e) \/ \E u \in Users : DropCallback(u, e)
    \/ \E r \in Rows : Queue(r) \/ RetryDue(r)
    \/ \E w \in Workers : WorkerStep(w) \/ Crash(w)
    \/ \E d \in Devices : (\E t \in Tokens : RegisterDevice(d, t)) \/ Deactivate({d})
    \/ \E u \in Users : Deactivate(ActiveDevices(u)) \/ SetPreference(u) \/ LoseOccupancy(u)

NotifySpec == NotifyInit /\ [][NotifyNext]_notifyVars

-----------------------------------------------------------------------------
(* Properties.                                                             *)

(* Whoever claims a row, and however often its event is notified, the mail *)
(* server accepts at most one message for it, unless a worker dies between *)
(* the answer and the save.                                                *)
MailedOnce == \A r \in Rows : mails[r] <= 1

(* Under the same condition no device is sent the same push twice, though  *)
(* a delivery is retried when some of the recipient's devices failed.      *)
PushedOnce == \A x \in Rows \X Devices : pushes[x] <= 1

(* A row that counts as sent was accepted by the server, and the devices   *)
(* it names as served were served, whatever crashes.                       *)
SentIsTrue ==
    \A r \in Rows :
        /\ row[r].status = "SENT" /\ Channel(r) = "EMAIL" => mails[r] > 0
        /\ row[r].status = "SENT" /\ Channel(r) = "PUSH" /\ row[r].error = "none" =>
              \E d \in Devices : pushes[<<r, d>>] > 0
        /\ \A d \in row[r].sentTo : pushes[<<r, d>>] > 0

(* E-mail is never tried more often than MAX_EMAIL_ATTEMPTS; a push that   *)
(* has used up its attempts is tried again only by workers that had        *)
(* claimed it before: a parked row is FAILED, which process_delivery does  *)
(* not take for finished.                                                  *)
AttemptsBounded ==
    \A r \in Rows :
        row[r].attempts <= IF Channel(r) = "PUSH"
                           THEN MaxPushAttempts + Cardinality(Workers) - 1
                           ELSE MaxEmailAttempts

(* No category is pushed to a user more often a day than the cap allows    *)
(* (one worker: the count and the save are not one step for several).      *)
CapRespected == \A u \in Users : Cardinality(SentToday(u)) <= DailyCap

(* The queue tells the truth about what left the building: a delivery that *)
(* counts as sent was accepted, attempts end, and unless a process died    *)
(* nobody is mailed or pushed the same thing twice (process_delivery,      *)
(* _process_push_delivery).                                                *)
DeliveriesAreTrue ==
    /\ NotifyTypeOK
    /\ SentIsTrue /\ AttemptsBounded
    /\ crashes = 0 => MailedOnce /\ PushedOnce

(* Every row that is queued ends: shown, sent, given up, or parked after   *)
(* its last attempt.                                                       *)
EveryDeliveryEnds ==
    \A r \in Rows :
        row[r].status = "PENDING" ~>
            \/ row[r].status \in Final
            \/ row[r].status = "FAILED" /\ row[r].retry = "never"
=============================================================================
