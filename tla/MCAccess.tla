------------------------------- MODULE MCAccess -------------------------------
(***************************************************************************)
(* Who gets in, for TLC: the gate, registration, the login throttle, the   *)
(* tokens of residents and the sessions of managers.  The components share *)
(* no state, so they are checked side by side: "part" names the one that   *)
(* runs, and in which scenario, while the others stay where they start.    *)
(***************************************************************************)
EXTENDS GateEnrollment, GateAccess, Registration, AuthThrottle, ResidentAccess,
        ManagementWorkspace

CONSTANTS o1, x1, x2, x3,
          h1, h2, plate1, txt1, txt2, txt3, k1, k2, k3,
          s1, s2, n1, n2, e1, u1,
          a1, a2, key1, ip1, ip2, tel1,
          f1, f2, l1, l2, c1, t1, t2

VARIABLE part

OneOccupancy == {o1}
ThreeSubmissions == {x1, x2, x3}

TwoHolders == {h1, h2}
OnePlate == {plate1}
ThreeTexts == {txt1, txt2, txt3}
TwoSpellings == [t \in ThreeTexts |-> IF t = txt3 THEN Unreadable ELSE plate1]
ThreeCredentials == {k1, k2, k3}

ThreeRequests == 1 .. 3
FlatBuilding == [u \in {u1} |-> "b1"]
TwoManagers == {"m1", "m2"}
OwnAndOther == [m \in TwoManagers |-> IF m = "m1" THEN "b1" ELSE "b2"]

(* One credential, up to the purge of the first events. *)
PlateScenario ==
    /\ rotation' = {} /\ UNCHANGED cred
    /\ gateTime' <= 2 /\ Cardinality(events') <= 2

(* One resident at the gate; rotations follow each other or overlap. *)
CredentialScenario == UNCHANGED <<plateVars, lives>> /\ events' = {}

(* Logins alone. *)
LoginScenario == \A k \in AddressKeys : bucket'[k] = NoTime

(* One request at a time; the second address comes later, to a number that was *)
(* tried from the first.                                                       *)
FormScenario ==
    /\ clock' <= 3 /\ taken'[ip2][0] = 0 /\ attempt'[a2] = NoAttempt
    /\ \A k \in LoginKeys : bucket'[k] = NoTime

(* Pages of one day; only the first tab writes and exports, a file once,   *)
(* and the second asks for the second building as long as it may be shown. *)
TabScenario ==
    /\ today' = 0 /\ logins' <= 1 /\ ended' = {}
    /\ UNCHANGED <<enabled, password>>
    /\ request'[t2].kind \in {"idle", "page"}
    /\ request'[t2].kind = "page" =>
          request'[t2].session.building = 2 \/ 2 \notin memberships'
    /\ Cardinality({w \in written' : w.kind = "export"}) <= 1

(* Pages and logins over several days. *)
SessionScenario == \A t \in Tabs : request'[t].kind \in {"idle", "page"}

Parts == {"enrolment", "plates", "credentials", "registration", "login", "form", "tokens",
          "tabs", "sessions"}

AccessesInit ==
    /\ part \in Parts
    /\ EnrolInit /\ GateInit /\ RegistrationInit /\ ThrottleInit /\ AccessInit /\ WorkspaceInit
    /\ cred[k1].issued

AccessesNext ==
    /\ UNCHANGED part
    /\ \/ /\ part = "enrolment"
          /\ EnrolNext
          /\ UNCHANGED <<gateVars, registrationVars, throttleVars, accessVars, workspaceVars>>
       \/ /\ \/ part = "plates" /\ (PlateNext \/ ReaderNext) /\ PlateScenario
             \/ part = "credentials" /\ (ReaderNext \/ OverlapNext) /\ CredentialScenario
          /\ UNCHANGED <<enrolVars, registrationVars, throttleVars, accessVars, workspaceVars>>
       \/ /\ part = "registration"
          /\ RegistrationNext
          /\ UNCHANGED <<enrolVars, gateVars, throttleVars, accessVars, workspaceVars>>
       \/ /\ \/ part = "login" /\ ThrottleNext /\ LoginScenario
             \/ part = "form" /\ ThrottleNext /\ FormScenario
          /\ UNCHANGED <<enrolVars, gateVars, registrationVars, accessVars, workspaceVars>>
       \/ /\ part = "tokens"
          /\ AccessNext
          /\ UNCHANGED <<enrolVars, gateVars, registrationVars, throttleVars, workspaceVars>>
       \/ /\ \/ part = "tabs" /\ WorkspaceNext /\ TabScenario
             \/ part = "sessions" /\ WorkspaceNext /\ SessionScenario
          /\ UNCHANGED <<enrolVars, gateVars, registrationVars, throttleVars, accessVars>>

AccessesSpec ==
    AccessesInit /\ [][AccessesNext]_<<part, enrolVars, gateVars, registrationVars, throttleVars,
                                       accessVars, workspaceVars>>
=============================================================================
