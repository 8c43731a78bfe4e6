---------------------------- MODULE ResidentAccess ----------------------------
(***************************************************************************)
(* Tokens of the resident API against the resident's right to use it: the  *)
(* login that issues them, the requests that present them, and the        *)
(* services that take the right away.                                     *)
(*                                                                         *)
(* None of these run in a transaction: the login reads the eligibility,    *)
(* evicts and issues in three steps, a deactivation writes the row and     *)
(* deletes the tokens in two, a request is authenticated in two steps and  *)
(* picks its flat in a third.                                              *)
(***************************************************************************)
EXTENDS Integers, FiniteSets

CONSTANTS Flats,      \* occupancies of the one resident of the model
          Logins,     \* runs of LoginView.post
          Calls,      \* other requests of the app
          Cap,        \* TOKEN_CAP_PER_USER (5)
          MaxToken,   \* bound on tokens ever issued
          MaxChange,  \* bound on changes of the resident's rights
          NoFlat

ASSUME CapAssumption == Cap \in Nat \ {0}
ASSUME LoginsAssumption == IsFiniteSet(Logins)
ASSUME AccessBoundsAssumption == MaxToken \in Nat /\ MaxChange \in Nat
ASSUME NoFlatAssumption == NoFlat \notin Flats

VARIABLES active,  \* User.is_active
          flats,   \* active occupancies
          tokens,  \* tokens of the resident; the number is the order of issue
          issued,  \* tokens issued so far
          login,   \* the runs of the login
          call,    \* the requests in flight
          job,     \* the deactivation that has not yet deleted the tokens
          changes  \* changes of rights so far
accessVars == <<active, flats, tokens, issued, login, call, job, changes>>

Eligible == flats # {}

NoCall == [at |-> "idle"]

AccessInit == /\ active = TRUE
              /\ flats = Flats
              /\ tokens = {}
              /\ issued = 0
              /\ login = [l \in Logins |-> NoCall]
              /\ call = [c \in Calls |-> NoCall]
              /\ job = "none"
              /\ changes = 0

(* revoke_tokens_if_no_active_occupancy. *)
AfterCleanup == IF Eligible THEN tokens ELSE {}

-----------------------------------------------------------------------------
(* Login *)

(* The tokens from the Cap-th newest on, newest first. *)
StaleTokens == {t \in tokens : Cardinality({u \in tokens : u > t}) >= Cap - 1}

(* LoginView.post with the right password, up to the occupancy check. A resident *)
(* without a flat is refused, and loses the tokens left over.                    *)
LoginChecks(l) ==
    /\ login[l] = NoCall /\ active
    /\ IF Eligible
       THEN login' = [login EXCEPT ![l] = [at |-> "eligible"]] /\ UNCHANGED tokens
       ELSE tokens' = AfterCleanup /\ UNCHANGED login
    /\ UNCHANGED <<active, flats, issued, call, job, changes>>

(* The list of stale tokens is read ... *)
LoginReads(l) ==
    /\ login[l].at = "eligible"
    /\ login' = [login EXCEPT ![l] = [at |-> "evicting", stale |-> StaleTokens]]
    /\ UNCHANGED <<active, flats, tokens, issued, call, job, changes>>

(* ... then deleted (a token already gone is no error) ... *)
LoginEvicts(l) ==
    /\ login[l].at = "evicting"
    /\ tokens' = tokens \ login[l].stale
    /\ login' = [login EXCEPT ![l] = [at |-> "issuing"]]
    /\ UNCHANGED <<active, flats, issued, call, job, changes>>

(* ... and the new token is created. *)
LoginIssues(l) ==
    /\ login[l].at = "issuing"
    /\ issued < MaxToken
    /\ issued' = issued + 1
    /\ tokens' = tokens \cup {issued'}
    /\ login' = [login EXCEPT ![l] = NoCall]
    /\ UNCHANGED <<active, flats, call, job, changes>>

-----------------------------------------------------------------------------
(* Requests *)

(* Knox finds the token and an active user. *)
Authenticate(c, t) ==
    /\ call[c] = NoCall
    /\ t \in tokens /\ active
    /\ call' = [call EXCEPT ![c] = [at |-> "known", token |-> t]]
    /\ UNCHANGED <<active, flats, tokens, issued, login, job, changes>>

(* ResidentTokenAuthentication: without a flat every token goes, and the request *)
(* is refused.                                                                   *)
CheckOccupancy(c) ==
    /\ call[c].at = "known"
    /\ call' = [call EXCEPT ![c] = IF Eligible THEN [at |-> "in", token |-> call[c].token] ELSE NoCall]
    /\ tokens' = AfterCleanup
    /\ UNCHANGED <<active, flats, issued, login, job, changes>>

(* Mutated form: without a header the first of several flats is taken. *)
SelectedByAccident(header) ==
    IF header # NoFlat THEN {header} \cap flats ELSE {f \in flats : TRUE}

(* resolve_api_occupancy: the flat named by the header, or the only one. Any other *)
(* header ends the request (403, 404 or 422).                                      *)
Selected(header) ==
    IF header # NoFlat THEN {header} \cap flats
    ELSE {f \in flats : flats = {f}}

Resolve(c, header) ==
    /\ call[c].at = "in"
    /\ call' = [call EXCEPT ![c] =
                  IF Selected(header) = {} THEN NoCall
                  ELSE [at |-> "serving", header |-> header, token |-> call[c].token,
                        flat |-> CHOOSE f \in Selected(header) : TRUE, others |-> flats]]
    /\ UNCHANGED <<active, flats, tokens, issued, login, job, changes>>

(* The response is sent. *)
Respond(c) ==
    /\ call[c].at = "serving"
    /\ call' = [call EXCEPT ![c] = NoCall]
    /\ UNCHANGED <<active, flats, tokens, issued, login, job, changes>>

(* LogoutView and LogoutAllView: the request's own token, or every token. *)
Logout(c, all) ==
    /\ call[c].at = "in"
    /\ tokens' = IF all THEN {} ELSE tokens \ {call[c].token}
    /\ call' = [call EXCEPT ![c] = NoCall]
    /\ UNCHANGED <<active, flats, issued, login, job, changes>>

-----------------------------------------------------------------------------
(* Changes of the resident's rights *)

Change == changes < MaxChange /\ changes' = changes + 1 /\ job = "none"

(* deactivate_occupancy and deactivate_occupancies write the rows first. *)
DeactivateOccupancy(gone) ==
    /\ Change
    /\ gone # {} /\ gone \subseteq flats
    /\ flats' = flats \ gone
    /\ job' = "occupancy"
    /\ UNCHANGED <<active, tokens, issued, login, call>>

(* deactivate_user writes the row first. *)
DeactivateUser ==
    /\ Change /\ active
    /\ active' = FALSE
    /\ job' = "user"
    /\ UNCHANGED <<flats, tokens, issued, login, call>>

(* The signal and the end of the service delete the tokens. *)
Revoke ==
    /\ job # "none"
    /\ tokens' = IF job = "user" THEN {} ELSE AfterCleanup
    /\ job' = "none"
    /\ UNCHANGED <<active, flats, issued, login, call, changes>>

(* A bulk update of the rows, which runs neither signal nor service. *)
BulkDeactivate(gone) ==
    /\ Change
    /\ gone # {} /\ gone \subseteq flats
    /\ flats' = flats \ gone
    /\ UNCHANGED <<active, tokens, issued, login, call, job>>

(* Management gives a flat back, or lets the account in again. *)
Restore ==
    /\ Change
    /\ \/ active' = TRUE /\ ~active /\ UNCHANGED flats
       \/ \E f \in Flats \ flats : flats' = flats \cup {f} /\ UNCHANGED active
    /\ UNCHANGED <<tokens, issued, login, call, job>>

LoginStep == \E l \in Logins : LoginChecks(l) \/ LoginReads(l)
                              \/ LoginEvicts(l) \/ LoginIssues(l)
CallStep == \E c \in Calls :
                \/ \E t \in tokens : Authenticate(c, t)
                \/ CheckOccupancy(c)
                \/ \E h \in Flats \cup {NoFlat} : Resolve(c, h)
                \/ Respond(c)
LogoutStep == \E c \in Calls, all \in BOOLEAN : Logout(c, all)
RightsStep == \/ \E gone \in SUBSET Flats : DeactivateOccupancy(gone) \/ BulkDeactivate(gone)
              \/ DeactivateUser
              \/ Restore

AccessNext == LoginStep \/ CallStep \/ LogoutStep \/ RightsStep \/ Revoke

AccessSpec == AccessInit /\ [][AccessNext]_accessVars

-----------------------------------------------------------------------------
(* The type of the state. *)
AccessTypeOK ==
    /\ active \in BOOLEAN /\ flats \subseteq Flats
    /\ issued \in 0 .. MaxToken /\ tokens \subseteq 1 .. issued
    /\ job \in {"none", "occupancy", "user"}
    /\ changes \in 0 .. MaxChange
    /\ \A l \in Logins : login[l].at \in {"idle", "eligible", "evicting", "issuing"}
    /\ \A c \in Calls : call[c].at \in {"idle", "known", "in", "serving"}

(* Logins that overlap can each keep Cap - 1 tokens and add their own, and no *)
(* number of them leaves more than that behind.                              *)
TokensBounded == Cardinality(tokens) <= Cap - 1 + Cardinality(Logins)

(* What is served is the flat the request named or, without a name, one that    *)
(* was the resident's only flat: the flat of a resident with several is never   *)
(* guessed, whatever was activated or lost since the token was checked.         *)
ServedFlatIsMeant ==
    \A c \in Calls : call[c].at = "serving" =>
        /\ call[c].flat \in call[c].others
        /\ IF call[c].header = NoFlat THEN call[c].others = {call[c].flat}
           ELSE call[c].flat = call[c].header

(* However logins, requests and the services that take the right away      *)
(* overlap, live tokens stay bounded and nobody is served a flat by        *)
(* accident (LoginView.post, resolve_api_occupancy).                       *)
AccessHolds == AccessTypeOK /\ TokensBounded /\ ServedFlatIsMeant
=============================================================================
