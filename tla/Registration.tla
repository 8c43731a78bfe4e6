----------------------------- MODULE Registration -----------------------------
(***************************************************************************)
(* Resident self-registration: the public form, the status page, the two   *)
(* Management decisions, the worker's expiry pass and the creation of      *)
(* accounts by the onboarding command.                                     *)
(*                                                                         *)
(* submit_registration is one transaction that reads first and inserts     *)
(* last: SubmitCheck is its reading part (it keeps the stale rows it found *)
(* locked), SubmitInsert its end. Every other operation locks its row      *)
(* first, and is one step.                                                 *)
(***************************************************************************)
EXTENDS Integers, FiniteSets

CONSTANTS Requests,    \* identities of registration requests (1..N)
          Submitters,  \* concurrent runs of submit_registration
          Numbers,     \* subscriber numbers
          Emails,      \* case-folded addresses
          Spellings,   \* the ways the onboarding command spells an address
          Managers,    \* management accounts
          ManagerOf,   \* the building each of them manages
          Units,       \* flats
          BuildingOf,  \* the building of each flat
          TTL,         \* days a request stays open (30)
          BatchLimit,  \* rows one expiry pass takes (100)
          MaxDay,      \* bound on the clock
          Nothing

ASSUME RegistrationTimeAssumption == TTL \in Nat \ {0} /\ BatchLimit \in Nat \ {0} /\ MaxDay \in Nat
ASSUME RequestAssumption == Requests \subseteq Nat /\ IsFiniteSet(Requests)
ASSUME NothingAssumption == Nothing \notin Requests \cup Emails
ASSUME SpellingsAssumption == "lower" \in Spellings

VARIABLES day,    \* today
          req,    \* registration requests
          users,  \* accounts
          sub     \* runs of submit_registration
registrationVars == <<day, req, users, sub>>

(* A phone number as typed: the local form, an international one, or noise. *)
RawPhones == [form : {"local", "intl", "noise"}, number : Numbers]

(* The ways an e-mail address can be spelled. *)
Addresses == [folded : Emails, spelling : Spellings]
Lower == "lower"

(* normalize_phone: both forms of a number give the local one, noise gives nothing. *)
NormalizePhone(raw) ==
    IF raw.form = "noise" THEN Nothing ELSE [form |-> "local", number |-> raw.number]

(* The form a request keeps: "+84" and the subscriber number. *)
International(phone) == [form |-> "intl", number |-> phone.number]

NoRequest == [status |-> "none"]

Pending(r) == req[r].status = "PENDING"
Stale(r) == Pending(r) /\ req[r].expires <= day

(* Two contacts a registration may not share; an address left out clashes with nothing. *)
SameContact(phone1, email1, phone2, email2) ==
    phone1 = phone2 \/ (email1 # Nothing /\ email1 = email2)

Matching(phone, email) ==
    {r \in Requests : req[r].status # "none"
                      /\ SameContact(req[r].phone, req[r].email, phone, email)}

(* An account a registration with this contact would duplicate: the phone in *)
(* local form, or the address whatever its case.                             *)
DuplicateUsers(phone, email) ==
    {u \in users : u.phone = phone
                   \/ (email # Nothing /\ u.email # Nothing /\ u.email.folded = email)}

(* Rows some running submission holds locked. *)
Locked == UNION {sub[s].locked : s \in Submitters}

Expired(r) == [req[r] EXCEPT !.status = "EXPIRED", !.hash = FALSE, !.decidedAt = day]

(* _expire_requests: the bulk update of the rows a caller has locked. *)
ExpireAll(rs) == [r \in Requests |-> IF r \in rs THEN Expired(r) ELSE req[r]]

NotSubmitting == [pc |-> "idle", locked |-> {}]

(* Bounds on a new submission: an identity left for it, and days enough to run out. *)
RoomForOne == /\ day + TTL <= MaxDay
              /\ Cardinality({s \in Submitters : sub[s].pc = "checked"})
                   < Cardinality({r \in Requests : req[r].status = "none"})

RegistrationInit == /\ day = 0
                    /\ req = [r \in Requests |-> NoRequest]
                    /\ users = {}
                    /\ sub = [s \in Submitters |-> NotSubmitting]

(* submit_registration up to its duplicate checks. The matching stale rows are *)
(* locked (waiting for whoever holds them), then every other stale row that is *)
(* free. A duplicate raises and rolls everything back.                         *)
SubmitCheck(s, raw, email, unit) ==
    LET phone == NormalizePhone(raw)
        rivals == Matching(International(phone), email)
        stale == {r \in rivals : Stale(r)}
        others == {r \in Requests : Stale(r)} \ Locked
    IN  /\ sub[s].pc = "idle"
        /\ RoomForOne
        /\ phone # Nothing
        /\ stale \cap Locked = {}
        /\ DuplicateUsers(phone, email) = {}
        /\ \A r \in rivals : Pending(r) => r \in stale \cup others
        /\ sub' = [sub EXCEPT ![s] = [pc |-> "checked", phone |-> International(phone),
                                      email |-> email, unit |-> unit,
                                      locked |-> stale \cup others]]
        /\ UNCHANGED <<day, req, users>>

(* What the partial unique indexes on the pending phone and address let in. *)
PendingIsUnique(s) ==
    ~ \E r \in Matching(sub[s].phone, sub[s].email) \ sub[s].locked : Pending(r)

(* When a request made now runs out. *)
ExpiresAt == day + TTL

(* The INSERT and the commit; a violated index turns into RegistrationConflict, *)
(* which rolls the expiry of the stale rows back too.                           *)
SubmitInsert(s) ==
    /\ sub[s].pc = "checked"
    /\ sub' = [sub EXCEPT ![s] = NotSubmitting]
    /\ UNCHANGED <<day, users>>
    /\ \/ /\ PendingIsUnique(s)
          /\ \E r \in Requests :
                /\ req[r].status = "none" /\ \A q \in Requests : q < r => req[q].status # "none"
                /\ req' = [ExpireAll(sub[s].locked) EXCEPT ![r] =
                             [status |-> "PENDING", phone |-> sub[s].phone,
                              email |-> sub[s].email, unit |-> sub[s].unit, hash |-> TRUE,
                              expires |-> ExpiresAt, decidedAt |-> Nothing, decidedBy |-> Nothing]]
       \/ ~PendingIsUnique(s) /\ UNCHANGED req

(* get_registration_status: the holder of the token asks; a request found *)
(* past its time expires there and then.                                  *)
GetRegistrationStatus(r) ==
    /\ Stale(r) /\ r \notin Locked
    /\ req' = ExpireAll({r})
    /\ UNCHANGED <<day, users, sub>>

(* Mutated form: the pass looks for the requests that run out today. *)
ExpireToday ==
    LET due == {r \in Requests : Pending(r) /\ req[r].expires = day} \ Locked
    IN  /\ due # {}
        /\ req' = ExpireAll(due)
        /\ UNCHANGED <<day, users, sub>>

(* expire_registration_requests, run by the worker: the oldest stale rows *)
(* nobody holds, at most BatchLimit of them.                              *)
ExpireBatch ==
    \E batch \in SUBSET ({r \in Requests : Stale(r)} \ Locked) :
        /\ batch # {} /\ Cardinality(batch) <= BatchLimit
        /\ \A r \in batch, q \in {p \in Requests : Stale(p)} \ (Locked \cup batch) :
              req[r].expires <= req[q].expires
        /\ \/ Cardinality(batch) = BatchLimit
           \/ batch = {r \in Requests : Stale(r)} \ Locked
        /\ req' = ExpireAll(batch)
        /\ UNCHANGED <<day, users, sub>>

(* What a decision of manager m on r starts from: the row lock, the     *)
(* membership in the request's building, a request still pending.       *)
Decidable(m, r) ==
    /\ r \notin Locked
    /\ req[r].status # "none"
    /\ ManagerOf[m] = BuildingOf[req[r].unit]
    /\ Pending(r)

Decided(m, r, status) ==
    [req EXCEPT ![r] = [@ EXCEPT !.status = status, !.hash = FALSE,
                                 !.decidedAt = day, !.decidedBy = m]]

(* User.save puts the number in the form the login looks up. *)
SavedPhone(phone) == NormalizePhone(phone)

NewResident(r) == [phone |-> SavedPhone(req[r].phone),
                   email |-> IF req[r].email = Nothing THEN Nothing
                             ELSE [folded |-> req[r].email, spelling |-> Lower],
                   unit |-> req[r].unit, of |-> r]

(* Mutated form: the unique indexes on the account are missing. *)
UserUnchecked(new) == TRUE

(* The unique indexes on User.phone and User.email. The second compares the *)
(* addresses as written.                                                    *)
UserIsUnique(new) ==
    \A u \in users : /\ u.phone = Nothing \/ u.phone # new.phone
                     /\ u.email = Nothing \/ u.email # new.email

(* approve_registration: the account, the occupancy and the decision in one *)
(* transaction; a request past its time expires instead, and an account     *)
(* that exists by now leaves everything as it was.                          *)
ApproveRegistration(m, r) ==
    /\ Decidable(m, r)
    /\ IF Stale(r)
       THEN req' = ExpireAll({r}) /\ UNCHANGED users
       ELSE /\ UserIsUnique(NewResident(r))
            /\ users' = users \cup {NewResident(r)}
            /\ req' = Decided(m, r, "APPROVED")
    /\ UNCHANGED <<day, sub>>

(* reject_registration, with a reason given. *)
RejectRegistration(m, r) ==
    /\ Decidable(m, r)
    /\ req' = IF Stale(r) THEN ExpireAll({r}) ELSE Decided(m, r, "REJECTED")
    /\ UNCHANGED <<day, users, sub>>

(* onboard_building for one address of --managers: an account with exactly *)
(* this address is reused, otherwise one is created without a phone.       *)
OnboardManager(address) ==
    LET new == [phone |-> Nothing, email |-> address, unit |-> Nothing, of |-> Nothing]
    IN  /\ ~ \E u \in users : u.email = address
        /\ users' = users \cup {new}
        /\ UNCHANGED <<day, req, sub>>

(* A day passes. A submission takes no days: one that is running ends while the *)
(* bound still leaves room for its request to run out.                          *)
NextDay == /\ day < MaxDay
           /\ day + TTL < MaxDay \/ \A s \in Submitters : sub[s] = NotSubmitting
           /\ day' = day + 1
           /\ UNCHANGED <<req, users, sub>>

Submit == \E s \in Submitters, raw \in RawPhones, email \in Emails \cup {Nothing}, u \in Units :
              SubmitCheck(s, raw, email, u)
Insert == \E s \in Submitters : SubmitInsert(s)
AskStatus == \E r \in Requests : GetRegistrationStatus(r)
Approve == \E m \in Managers, r \in Requests : ApproveRegistration(m, r)
Reject == \E m \in Managers, r \in Requests : RejectRegistration(m, r)
Onboard == \E a \in Addresses : OnboardManager(a)

RegistrationNext == Submit \/ Insert \/ AskStatus \/ ExpireBatch \/ Approve \/ Reject \/ Onboard \/ NextDay

RegistrationSpec == RegistrationInit /\ [][RegistrationNext]_registrationVars

-----------------------------------------------------------------------------
Phones == [form : {"local", "intl"}, number : Numbers]

(* The type of the state. *)
RegistrationTypeOK ==
    /\ day \in 0 .. MaxDay
    /\ \A r \in Requests :
          req[r] = NoRequest
          \/ req[r] \in [status : {"PENDING", "APPROVED", "REJECTED", "EXPIRED"},
                         phone : Phones, email : Emails \cup {Nothing}, unit : Units,
                         hash : BOOLEAN, expires : Nat, decidedAt : Nat \cup {Nothing},
                         decidedBy : Managers \cup {Nothing}]
    /\ users \subseteq [phone : Phones \cup {Nothing}, email : Addresses \cup {Nothing},
                        unit : Units \cup {Nothing}, of : Requests \cup {Nothing}]
    /\ \A s \in Submitters : sub[s].pc \in {"idle", "checked"} /\ sub[s].locked \subseteq Requests

(* The password a stranger chose is kept exactly as long as the decision is *)
(* open: every way out of PENDING, lazy or by the worker, erases it.        *)
HashOnlyWhilePending ==
    \A r \in Requests : req[r].status # "none" => (req[r].hash <=> Pending(r))

(* Whatever two submissions interleave, at most one open request holds a phone *)
(* number or an address.                                                       *)
OnePendingPerContact ==
    \A r, q \in Requests :
        (r # q /\ Pending(r) /\ Pending(q))
        => ~SameContact(req[r].phone, req[r].email, req[q].phone, req[q].email)

(* An approved request, and only an approved one, has its account: one, with   *)
(* the request's flat, found by the login under either form of the number, and *)
(* approved by the building's own management before the request ran out.       *)
ApprovedHasItsAccount ==
    \A r \in Requests :
        LET own == {u \in users : u.of = r}
        IN  IF req[r].status = "APPROVED"
            THEN /\ Cardinality(own) = 1
                 /\ ManagerOf[req[r].decidedBy] = BuildingOf[req[r].unit]
                 /\ req[r].decidedAt < req[r].expires
                 /\ \A u \in own : u.unit = req[r].unit
                                   /\ u.phone = NormalizePhone(req[r].phone)
            ELSE own = {}

(* An account that the onboarding command made of an address as it was given. *)
KeptSpelling(u) == u.of = Nothing /\ u.email # Nothing /\ u.email.spelling # Lower

(* An identifier typed at the login names at most one account: the backend    *)
(* compares phones in local form and addresses without regard to case, and    *)
(* has no answer for two.  The unique index tells spellings apart, so that    *)
(* an address may name two accounts when the onboarding command kept another  *)
(* spelling of it; no registration and no approval does that.                 *)
LoginIsUnambiguous ==
    \A u, v \in users :
        u # v => /\ u.phone = Nothing \/ u.phone # v.phone
                 /\ \/ u.email = Nothing \/ v.email = Nothing \/ u.email.folded # v.email.folded
                    \/ KeptSpelling(u) \/ KeptSpelling(v)

(* Whatever strangers, managers, the worker and the onboarding command do  *)
(* in whichever order, a request holds its number and its password only    *)
(* while it is open, and accounts come from approvals and can be told      *)
(* apart at the login, but for a spelling the command kept                 *)
(* (submit_registration, approve_registration, onboard_building).          *)
RegistrationsHold ==
    /\ RegistrationTypeOK
    /\ HashOnlyWhilePending /\ OnePendingPerContact
    /\ ApprovedHasItsAccount /\ LoginIsUnambiguous

(* Nobody waits for ever: an open request is decided or expires. *)
EveryRequestEnds == \A r \in Requests : Pending(r) ~> ~Pending(r)
=============================================================================
