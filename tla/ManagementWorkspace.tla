-------------------------- MODULE ManagementWorkspace --------------------------
(***************************************************************************)
(* One manager's browser in the Management workspace: a session row shared *)
(* by several tabs, the building it points at, the requests of the tabs    *)
(* and the session each of them loaded, read and saves again, and what the *)
(* requests write or export, while memberships are granted and revoked,    *)
(* the password is changed and the account is disabled by others.          *)
(*                                                                         *)
(* A membership is named by its building. Requests are told apart by what  *)
(* they may do: show a page (to switch the building is to ask for one with *)
(* a building parameter), post a form that carries no record (a fund       *)
(* source), post on a record (verify one), export.                         *)
(***************************************************************************)
EXTENDS Naturals, FiniteSets

CONSTANTS Tabs,
          Buildings,  \* buildings in the order of their names (1..N)
          MaxAge,     \* days a session lives without a request (400)
          MaxDays,    \* bound on the clock, in days
          MaxLogins,  \* bound on logins
          MaxWrites,  \* bound on records written and files exported
          MaxChanges  \* bound on changes to memberships and to the account

ASSUME BuildingsAssumption == Buildings \subseteq Nat \ {0} /\ Buildings # {}
ASSUME WorkspaceBoundsAssumption == {MaxAge, MaxDays, MaxLogins, MaxWrites, MaxChanges} \subseteq Nat

Kinds == {"page", "form", "record", "export"}
NoRow == [building |-> 0, expiry |-> 0, password |-> 0]
Steps == {"open", "collected", "checked", "done", "stream"}
NoTabRequest == [kind |-> "idle", step |-> "done", key |-> 0, session |-> NoRow, shown |-> 0,
                 moved |-> FALSE, began |-> 0, checked |-> 0, event |-> 0, rows |-> {}]

VARIABLES rows,         \* session rows by key; NoRow: none
          cookie,       \* the browser's session key, 0 when it has none
          logins,       \* keys handed out
          memberships,  \* buildings the manager has an active membership in
          enabled,      \* the account's is_active
          password,     \* version of the password
          request,      \* request in flight of each tab
          page,         \* building the page of each tab was rendered for; 0: none
          moved,        \* tabs whose session was changed under them by others
          written,      \* records written and files handed out
          files,        \* exported files: their building, audit event, rows and
                        \* the length of the log when their request began
          log,          \* number of audit events of accepted actions
          ended,        \* keys of sessions that were logged out
          used,         \* day of the last workspace request of the session
          today, accountChanges
account == <<memberships, enabled, password, accountChanges>>
workspaceVars == <<rows, cookie, logins, account, request, page, moved, written, files, log, ended, used, today>>

WorkspaceInit == /\ rows = [k \in 1 .. MaxLogins |-> NoRow]
                 /\ cookie = 0 /\ logins = 0
                 /\ memberships = Buildings /\ enabled = TRUE /\ password = 1
                 /\ request = [t \in Tabs |-> NoTabRequest]
                 /\ page = [t \in Tabs |-> 0]
                 /\ moved = {}
                 /\ written = {} /\ files = {} /\ log = 0
                 /\ ended = {} /\ used = 0
                 /\ today = 0 /\ accountChanges = 0

-----------------------------------------------------------------------------
(* Sessions *)

(* Django's authentication of a request: a row that has not expired, an    *)
(* account that may log in, and the password the session was made with.    *)
Authenticated(key) ==
    /\ key # 0 /\ rows[key] # NoRow
    /\ today < rows[key].expiry
    /\ enabled /\ rows[key].password = password

(* form_valid: a login rotates the session key. *)
StartSession ==
    /\ logins < MaxLogins /\ enabled
    /\ \A t \in Tabs : request[t] = NoTabRequest
    /\ logins' = logins + 1 /\ cookie' = logins + 1
    /\ rows' = [rows EXCEPT ![logins + 1] =
                   [building |-> 0, expiry |-> today + MaxAge, password |-> password]]
    /\ page' = [t \in Tabs |-> 0] /\ moved' = {}
    /\ used' = today
    /\ UNCHANGED <<account, request, written, files, log, ended, today>>

(* secure_logout, revoke_session: the row is deleted; requests of other    *)
(* tabs may still be in flight.                                            *)
EndSession ==
    /\ cookie # 0
    /\ rows' = [rows EXCEPT ![cookie] = NoRow]
    /\ ended' = ended \cup {cookie}
    /\ cookie' = 0
    /\ UNCHANGED <<logins, account, request, page, moved, written, files, log, used, today>>

(* renew_management_session. *)
Renewed(session) == [session EXCEPT !.expiry = today + MaxAge]

-----------------------------------------------------------------------------
(* Requests *)

First(S) == CHOOSE b \in S : \A c \in S : b <= c

(* resolve_active_management: the membership asked for or remembered if it *)
(* is still active, else the first.                                        *)
ResolveBuilding(wanted) == IF wanted \in memberships THEN wanted ELSE First(memberships)

(* The building parameter of a request, if it has one, else the session's. *)
Wanted(posted, session) == IF posted # 0 THEN posted ELSE session.building

(* A request begins: the session is read once, the middleware renews it    *)
(* and the view resolves the building, all in what was read.  Every page   *)
(* takes a building parameter.  A form is posted to the address of its     *)
(* page and repeats the parameter that had; one that named no membership   *)
(* when the page was shown is left out.                                    *)
Begin(t, kind, posted) ==
    /\ request[t] = NoTabRequest /\ Authenticated(cookie) /\ memberships # {}
    /\ kind \in {"form", "record"} => page[t] # 0 /\ posted \in {0, page[t]}
    /\ kind \in {"form", "record", "export"} => Cardinality(written) < MaxWrites
    /\ LET old == rows[cookie]
           building == ResolveBuilding(Wanted(posted, old))
       IN  request' = [request EXCEPT ![t] =
              [kind |-> kind, step |-> IF kind = "page" THEN "done" ELSE "open",
               key |-> cookie, shown |-> page[t], moved |-> t \in moved,
               began |-> log, checked |-> 0, event |-> 0, rows |-> {},
               session |-> [Renewed(old) EXCEPT !.building = building]]]
    /\ used' = today
    /\ UNCHANGED <<rows, cookie, logins, account, page, moved, written, files, log, ended, today>>

ActiveBuilding(t) == request[t].session.building

(* get_object_or_404 with the building of the session. *)
OwnRecord(t) == request[t].kind = "record" => request[t].shown = ActiveBuilding(t)

(* Mutated form: the membership resolved at the start is trusted. *)
TrustedMember(b) == TRUE

(* require_management and record_audit look the membership up again,       *)
(* without a lock.                                                         *)
StillMember(b) == b \in memberships

(* The rows an export of building b reads. *)
ExportRows(b) == {w.id : w \in {v \in written : v.building = b}}

(* audit_export collects the rows of the kinds that are not read lazily. *)
Collect(t) ==
    /\ request[t].kind = "export" /\ request[t].step = "open"
    /\ request' = [request EXCEPT ![t].step = "collected", ![t].rows = ExportRows(ActiveBuilding(t))]
    /\ UNCHANGED <<rows, cookie, logins, account, page, moved, written, files, log, ended, used, today>>

(* The last look at the membership, that of record_audit.  A refusal       *)
(* changes nothing and the request goes on to its response.                *)
CheckMembership(t) ==
    /\ \/ request[t].kind \in {"form", "record"} /\ request[t].step = "open"
       \/ request[t].step = "collected"
    /\ request' = [request EXCEPT
          ![t].step = IF OwnRecord(t) /\ StillMember(ActiveBuilding(t)) THEN "checked" ELSE "done",
          ![t].checked = accountChanges]
    /\ UNCHANGED <<rows, cookie, logins, account, page, moved, written, files, log, ended, used, today>>

(* The commit: of a record with its audit event, or of the audit event of  *)
(* an export.                                                              *)
Commit(t) ==
    /\ request[t].step = "checked"
    /\ log' = log + 1
    /\ written' = written \cup
          {[id |-> Cardinality(written), kind |-> request[t].kind, building |-> ActiveBuilding(t),
            shown |-> request[t].shown, moved |-> request[t].moved, event |-> log',
            member |-> ActiveBuilding(t) \in memberships,
            late |-> accountChanges # request[t].checked]}
    /\ request' = [request EXCEPT ![t].step = "done", ![t].event = log']
    /\ UNCHANGED <<rows, cookie, logins, account, page, moved, files, ended, used, today>>

(* The middleware saves the whole session as this request read and changed *)
(* it; a row that is gone is an interrupted session, never made again.     *)
SaveSession(t) ==
    rows' = IF rows[request[t].key] = NoRow THEN rows
            ELSE [rows EXCEPT ![request[t].key] = request[t].session]

(* An accepted export is answered with a stream, not with a page. *)
Streams(t) == request[t].event # 0 /\ request[t].kind = "export" /\ rows[request[t].key] # NoRow

(* What the tab shows after the response. *)
PageAfter(t) == IF rows[request[t].key] = NoRow THEN 0
                ELSE IF Streams(t) THEN page[t] ELSE ActiveBuilding(t)

(* The response: the session is saved, then a page for the selected        *)
(* building is sent, or the streaming of the file begins.                  *)
SendPage(t) ==
    /\ request[t].kind # "idle" /\ request[t].step = "done"
    /\ SaveSession(t)
    /\ page' = [page EXCEPT ![t] = PageAfter(t)]
    /\ moved' = (IF ActiveBuilding(t) \in memberships /\ PageAfter(t) = ActiveBuilding(t)
                 THEN moved \ {t} ELSE moved \cup {t})
                \cup {u \in Tabs \ {t} : page[u] \notin {0, ActiveBuilding(t)}}
    /\ request' = IF Streams(t) THEN [request EXCEPT ![t].step = "stream"]
                  ELSE [request EXCEPT ![t] = NoTabRequest]
    /\ UNCHANGED <<cookie, logins, account, written, files, log, ended, used, today>>

(* The file: rows read lazily are those of now. *)
Stream(t) ==
    /\ request[t].step = "stream"
    /\ \E read \in {request[t].rows, ExportRows(ActiveBuilding(t))} :
          files' = files \cup {[building |-> ActiveBuilding(t), event |-> request[t].event,
                               began |-> request[t].began, rows |-> read]}
    /\ request' = [request EXCEPT ![t] = NoTabRequest]
    /\ UNCHANGED <<rows, cookie, logins, account, page, moved, written, log, ended, used, today>>

-----------------------------------------------------------------------------
(* The surroundings *)

AccountChange == accountChanges < MaxChanges /\ accountChanges' = accountChanges + 1

(* An administrator grants or revokes a membership. *)
SetMembership(b) ==
    /\ AccountChange
    /\ memberships' = IF b \in memberships THEN memberships \ {b} ELSE memberships \cup {b}
    /\ moved' = {t \in Tabs : page[t] # 0}
    /\ UNCHANGED <<rows, cookie, logins, enabled, password, request, page, written, files, log, ended,
                   used, today>>

ChangePassword ==
    /\ AccountChange
    /\ password' = password + 1
    /\ UNCHANGED <<rows, cookie, logins, memberships, enabled, request, page, moved, written, files, log,
                   ended, used, today>>

SetEnabled ==
    /\ AccountChange
    /\ enabled' = ~enabled
    /\ UNCHANGED <<rows, cookie, logins, memberships, password, request, page, moved, written, files, log,
                   ended, used, today>>

(* A day passes; a request is over long before. *)
NextSessionDay ==
    /\ today < MaxDays
    /\ \A t \in Tabs : request[t] = NoTabRequest
    /\ today' = today + 1
    /\ UNCHANGED <<rows, cookie, logins, account, request, page, moved, written, files, log, ended, used>>

WorkspaceNext == \/ StartSession \/ EndSession \/ ChangePassword \/ SetEnabled \/ NextSessionDay
                 \/ \E b \in Buildings : SetMembership(b)
                 \/ \E t \in Tabs : \/ \E kind \in Kinds, b \in Buildings \cup {0} : Begin(t, kind, b)
                                    \/ Collect(t) \/ CheckMembership(t) \/ Commit(t)
                                    \/ SendPage(t) \/ Stream(t)

WorkspaceSpec == WorkspaceInit /\ [][WorkspaceNext]_workspaceVars

-----------------------------------------------------------------------------
(* Properties *)

WorkspaceTypeOK ==
    /\ DOMAIN rows = 1 .. MaxLogins
    /\ cookie \in 0 .. logins /\ logins \in 0 .. MaxLogins
    /\ memberships \subseteq Buildings /\ enabled \in BOOLEAN
    /\ \A t \in Tabs : request[t] # NoTabRequest => ActiveBuilding(t) \in Buildings
    /\ page \in [Tabs -> Buildings \cup {0}] /\ moved \subseteq Tabs
    /\ \A w \in written : w.kind \in {"form", "record", "export"} /\ w.building \in Buildings
    /\ ended \subseteq 1 .. logins /\ today \in 0 .. MaxDays

(* A session that was logged out never comes back, although requests that  *)
(* had read it are still being answered (secure_logout, revoke_session).   *)
LoggedOutStaysOut == \A k \in ended : rows[k] = NoRow

(* A session in use does not expire: it is valid as long as the last       *)
(* workspace request is less than the maximum age ago, whichever of its    *)
(* requests saved last (renew_management_session).                         *)
UsedSessionSurvives ==
    cookie # 0 /\ today < used + MaxAge => today < rows[cookie].expiry

(* A revoked membership ends what the manager can do in a building: a      *)
(* record is written, or an export logged, without one only when the       *)
(* account was changed between the last look of the request and its commit *)
(* (record_audit takes no lock); no later request, and none that was still *)
(* on its way to that look, gets through.                                  *)
RevokedStops == \A w \in written : w.member \/ w.late

(* A post acts in the building its page was rendered for: one on a record  *)
(* in every case, since it is refused once the session points elsewhere; a *)
(* form that carries no record unless another tab or a change of the       *)
(* memberships has moved the session (resolve_active_management).          *)
PostsActWhereShown ==
    \A w \in written : w.kind = "record" \/ (w.kind = "form" /\ ~w.moved)
                         => w.building = w.shown

(* A file holds every row of its building that was committed when its     *)
(* request began, and no row of another building, however long collecting, *)
(* logging and streaming take and whatever building the session has moved  *)
(* to (audit_export).  A row committed after the rows were collected may   *)
(* be missing although it is older than the export's own audit event.      *)
FilesCoverTheirBuilding ==
    \A f \in files, w \in written :
        /\ w.building = f.building /\ w.event <= f.began => w.id \in f.rows
        /\ w.id \in f.rows => w.building = f.building

(* Every record written has an audit event of its own, and every file      *)
(* handed out that of an export of its building (record_audit,             *)
(* audit_export).                                                          *)
ActionsAreLogged ==
    /\ \A v, w \in written : v.event \in 1 .. log /\ (v.event = w.event => v = w)
    /\ \A f \in files : \E w \in written :
          w.kind = "export" /\ w.event = f.event /\ w.building = f.building

(* A manager with several tabs, a session that lives for months and a      *)
(* membership that may end at any moment acts only where the page said, as *)
(* a member when last looked at, on the record, and not with a session     *)
(* that was logged out (resolve_active_management, record_audit,           *)
(* renew_management_session, audit_export).                                *)
WorkspaceHolds ==
    /\ WorkspaceTypeOK
    /\ LoggedOutStaysOut /\ UsedSessionSurvives
    /\ RevokedStops /\ PostsActWhereShown
    /\ FilesCoverTheirBuilding /\ ActionsAreLogged
=============================================================================
