----------------------------- MODULE AuthThrottle -----------------------------
(***************************************************************************)
(* The attempt counter shared by the resident login, the workspace login   *)
(* and the public registration form. A bucket counts the attempts of one   *)
(* key in a window that starts with the first of them, and locks the key   *)
(* for the length of a window when the count reaches the limit.            *)
(*                                                                         *)
(* The registration form admits and counts in one transaction. The resident *)
(* login checks the lock, looks at the password and counts afterwards; the *)
(* workspace login looks at the password first.                            *)
(***************************************************************************)
EXTENDS Integers, FiniteSets, Sums

CONSTANTS Attempts,         \* requests in flight at the same time
          LoginKeys,        \* (identifier, address) pairs of logins
          AddressKeys,      \* client addresses of the registration form
          PhoneKeys,        \* normalised numbers of the registration form
          MaxFailures,      \* THROTTLE_MAX_FAILURES (5)
          Window,           \* THROTTLE_WINDOW_SECONDS (15 minutes)
          MaxThrottleTime,  \* bound on the clock
          MaxCount,         \* bound on the attempts of one moment
          NoTime

(* The limit is above one: a key is never locked by its first attempt. *)
ASSUME ThrottleAssumption ==
    /\ MaxFailures \in Nat /\ MaxFailures >= 2 /\ Window \in Nat \ {0} /\ MaxThrottleTime \in Nat
    /\ IsFiniteSet(Attempts) /\ Attempts # {}

(* throttle_digest is over (identifier, address) for a login and over a prefix *)
(* of its own for the form, so no bucket serves both.                          *)
ASSUME KeysAssumption == LoginKeys \cap (AddressKeys \cup PhoneKeys) = {}

ASSUME NoTimeAssumption ==
    /\ NoTime \notin Int
    /\ NoTime \notin [count : Nat, start : Int \cup {NoTime}, until : Int \cup {NoTime}]

Keys == LoginKeys \cup AddressKeys \cup PhoneKeys

VARIABLES clock,    \* the time
          bucket,   \* AuthThrottleBucket rows; NoTime before the first attempt
          attempt,  \* what each request in flight has done
          taken     \* ghost: attempts let through and counted, per key and moment,
                    \* since the last success
throttleVars == <<clock, bucket, attempt, taken>>

Fresh == [count |-> 0, start |-> clock, until |-> NoTime]

(* get_or_create, under the row lock. *)
Row(k) == IF bucket[k] = NoTime THEN Fresh ELSE bucket[k]

LockedRow(b) == b.until # NoTime /\ b.until > clock
LockedOut(k) == bucket[k] # NoTime /\ LockedRow(bucket[k])

WindowOver(b) == b.start = NoTime \/ clock - b.start > Window

(* The count of one more attempt. *)
Counted(b) == IF WindowOver(b) THEN [count |-> 1, start |-> clock, until |-> NoTime]
              ELSE [b EXCEPT !.count = @ + 1]

(* The lock that goes with a count at the limit. *)
WithLock(b) == IF b.count >= MaxFailures THEN [b EXCEPT !.until = clock + Window] ELSE b

(* record_auth_failure and the second half of record_registration_attempt. *)
Record(k) == bucket' = [bucket EXCEPT ![k] = WithLock(Counted(Row(k)))]

Take(k) == taken[k][clock] < MaxCount /\ taken' = [taken EXCEPT ![k][clock] = @ + 1]

(* reset_auth_throttle: a row there is emptied. *)
Reset(k) ==
    /\ bucket' = [bucket EXCEPT ![k] =
                    IF @ = NoTime THEN NoTime ELSE [count |-> 0, start |-> NoTime, until |-> NoTime]]
    /\ taken' = [taken EXCEPT ![k] = [t \in 0 .. MaxThrottleTime |-> 0]]

NoAttempt == [at |-> "idle"]

ThrottleInit == /\ clock = 0
                /\ bucket = [k \in Keys |-> NoTime]
                /\ attempt = [a \in Attempts |-> NoAttempt]
                /\ taken = [k \in Keys |-> [t \in 0 .. MaxThrottleTime |-> 0]]

(* Mutated form: the login never looks at the lock. *)
LoginUnchecked(a, k) ==
    /\ attempt[a] = NoAttempt
    /\ attempt' = [attempt EXCEPT ![a] = [at |-> "checked", key |-> k]]
    /\ UNCHANGED <<clock, bucket, taken>>

(* LoginView.post up to assert_not_throttled; a locked key is answered 429. *)
LoginCheck(a, k) ==
    /\ attempt[a] = NoAttempt
    /\ ~LockedOut(k)
    /\ attempt' = [attempt EXCEPT ![a] = [at |-> "checked", key |-> k]]
    /\ UNCHANGED <<clock, bucket, taken>>

(* The rest of LoginView.post: a wrong password, and a right one without an *)
(* active occupancy, are counted; a success empties the row.                *)
LoginOutcome(a) ==
    /\ attempt[a].at = "checked"
    /\ (Record(attempt[a].key) /\ Take(attempt[a].key)) \/ Reset(attempt[a].key)
    /\ attempt' = [attempt EXCEPT ![a] = NoAttempt]
    /\ UNCHANGED clock

(* SecureLoginView: the form has looked at the password already. A wrong one is *)
(* counted, and so is a right one on a locked key (form_invalid).               *)
WebRefused(a, k) ==
    /\ attempt[a] = NoAttempt
    /\ Row(k).count < MaxCount
    /\ Record(k)
    /\ UNCHANGED <<clock, attempt, taken>>

(* SecureLoginView.form_valid with the lock open; the row is emptied after the *)
(* session is made, in a transaction of its own.                               *)
WebAccepted(a, k) ==
    /\ attempt[a] = NoAttempt
    /\ ~LockedOut(k)
    /\ attempt' = [attempt EXCEPT ![a] = [at |-> "in", key |-> k]]
    /\ UNCHANGED <<clock, bucket, taken>>

WebReset(a) ==
    /\ attempt[a].at = "in"
    /\ Reset(attempt[a].key)
    /\ attempt' = [attempt EXCEPT ![a] = NoAttempt]
    /\ UNCHANGED clock

(* record_registration_attempt: refused while locked, counted otherwise. *)
Admit(k) == ~LockedRow(Row(k)) /\ Record(k) /\ Take(k)

(* RegistrationCreateView.post: the client address first ... *)
RegisterAddress(a, k) ==
    /\ attempt[a] = NoAttempt
    /\ Admit(k)
    /\ attempt' = [attempt EXCEPT ![a] = [at |-> "address", key |-> k]]
    /\ UNCHANGED clock

(* ... then the number, if the text is one; the request goes on or ends. *)
RegisterPhone(a, k) ==
    /\ attempt[a].at = "address"
    /\ Admit(k) \/ (LockedOut(k) /\ UNCHANGED <<bucket, taken>>)
    /\ attempt' = [attempt EXCEPT ![a] = NoAttempt]
    /\ UNCHANGED clock

RegisterWithoutPhone(a) ==
    /\ attempt[a].at = "address"
    /\ attempt' = [attempt EXCEPT ![a] = NoAttempt]
    /\ UNCHANGED <<clock, bucket, taken>>

ThrottleTick == clock < MaxThrottleTime /\ clock' = clock + 1 /\ UNCHANGED <<bucket, attempt, taken>>

ApiLogin == \E a \in Attempts, k \in LoginKeys : LoginCheck(a, k)
Answer == \E a \in Attempts : LoginOutcome(a)
WebForm == \E a \in Attempts, k \in LoginKeys : WebRefused(a, k) \/ WebAccepted(a, k)
WebEnter == \E a \in Attempts : WebReset(a)
Register == \/ \E a \in Attempts, k \in AddressKeys : RegisterAddress(a, k)
            \/ \E a \in Attempts, k \in PhoneKeys : RegisterPhone(a, k)
            \/ \E a \in Attempts : RegisterWithoutPhone(a)

ThrottleNext == ApiLogin \/ Answer \/ WebForm \/ WebEnter \/ Register \/ ThrottleTick

ThrottleSpec == ThrottleInit /\ [][ThrottleNext]_throttleVars

-----------------------------------------------------------------------------
(* The type of the state: a lock never starts more than a window ahead. *)
ThrottleTypeOK ==
    /\ clock \in 0 .. MaxThrottleTime
    /\ \A k \in Keys :
          \/ bucket[k] = NoTime
          \/ /\ bucket[k] \in [count : Nat, start : 0 .. clock \cup {NoTime},
                               until : 0 .. clock + Window \cup {NoTime}]
             /\ bucket[k].until # NoTime => bucket[k].count >= MaxFailures
    /\ \A a \in Attempts : attempt[a].at \in {"idle", "checked", "in", "address"}

(* The attempts let through in the window that begins at t. *)
TakenFrom(k, t) == SumOver(taken[k], {u \in 0 .. MaxThrottleTime : t <= u /\ u < t + Window})

(* The public form admits one address, and one number whatever the addresses it *)
(* comes from, at most 2 * MaxFailures - 2 times in a period of Window that has *)
(* begun: the tail of a window that never filled, and a full one.               *)
RegistrationsBounded ==
    \A k \in AddressKeys \cup PhoneKeys, t \in 0 .. clock :
        TakenFrom(k, t) <= 2 * MaxFailures - 2

(* The resident login counts after it has checked, so requests in flight slip   *)
(* past the limit, but never more of them than run at once in each of the two   *)
(* windows a period can touch.                                                  *)
GuessesBounded ==
    \A k \in LoginKeys, t \in 0 .. clock :
        TakenFrom(k, t) <= 2 * MaxFailures - 2 + 2 * (Cardinality(Attempts) - 1)

(* However requests overlap and windows follow each other, the throttle    *)
(* bounds the attempts of every key (record_registration_attempt,          *)
(* assert_not_throttled, record_auth_failure).                             *)
AttemptsAreBounded == ThrottleTypeOK /\ RegistrationsBounded /\ GuessesBounded
=============================================================================
