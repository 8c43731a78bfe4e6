----------------------------- MODULE MCResidents ------------------------------
(***************************************************************************)
(* What residents send and are sent, for TLC: report intake, the           *)
(* notification queue, announcements and bills.  The components share no   *)
(* state, so they are checked side by side: "part" names the one that      *)
(* runs, and in which scenario, while the others stay where they start.    *)
(***************************************************************************)
EXTENDS ReportIntake, Notifications, BuildingNotices

CONSTANTS q1, q2, f1, f2, c1, c2, s1, up1, up2, tw1,
          u1, e1, e2, i1, i2, t1, t2, w1, w2,
          a1, b1, r1, r2, m1, m2, g1, g2

VARIABLE part

TwoPosts == {q1, q2}
TwoRefs == {f1, f2}
TwoContents == {c1, c2}
OnePrivate == {c2}
OnePhoto == {s1}
TwoUploads == {up1, up2}
OneTriageWorker == {tw1}

OneUser == {u1}
TwoEvents == {e1, e2}
MailAndPush == {"EMAIL", "PUSH"}
TwoInstalls == {i1, i2}
TwoTokens == {t1, t2}
TwoWorkers == {w1, w2}

OneAnnouncement == {a1}
OneBill == {b1}
TwoResidents == {r1, r2}
TwoManagers == {m1, m2}
TwoReferences == {g1, g2}

(* One event, one device with one token. *)
OneDevice ==
    /\ notified'[e2] = 0
    /\ device'[<<u1, i2>>] = device[<<u1, i2>>]
    /\ device'[<<u1, i1>>].active => device'[<<u1, i1>>].token = t1

(* Two workers over the rows of one event that is notified again. *)
QueueScenario == OneDevice /\ crashes' = 0

(* One worker, two capped events, two installs that exchange two tokens;   *)
(* the callbacks of the e-mails do not run.                                *)
PushScenario ==
    /\ crashes' = 0
    /\ worker'[w2] = Idle
    /\ \A e \in Events : notified'[e] <= 1
    /\ \A r \in Rows : Channel(r) = "EMAIL" => row'[r] = row[r]
    /\ pref'[u1].email

(* One worker that dies in the middle. *)
FaultScenario == OneDevice /\ worker'[w2] = Idle

AnnouncementScenario == UNCHANGED billVars
BillScenario == UNCHANGED announcementVars /\ m2 \in manages'

Parts == {"intake", "queue", "push", "faults", "announcements", "bills"}

ResidentsInit ==
    /\ part \in Parts
    /\ IntakeInit /\ NotifyInit /\ NoticesInit
    /\ part # "intake" => /\ \A q \in Posts : ask[q] = [ref |-> f1, content |-> c1]
                          /\ \A u \in Uploads : upload[u].report = q1
    /\ part # "bills" => \A b \in Bills : bill[b].reference = g1

ResidentsNext ==
    /\ UNCHANGED part
    /\ \/ /\ part = "intake"
          /\ IntakeNext
          /\ UNCHANGED <<notifyVars, noticesVars>>
       \/ /\ \/ part = "queue" /\ NotifyNext /\ QueueScenario
             \/ part = "push" /\ NotifyNext /\ PushScenario
             \/ part = "faults" /\ NotifyNext /\ FaultScenario
          /\ UNCHANGED <<intakeVars, noticesVars>>
       \/ /\ \/ part = "announcements" /\ NoticesNext /\ AnnouncementScenario
             \/ part = "bills" /\ NoticesNext /\ BillScenario
          /\ UNCHANGED <<intakeVars, notifyVars>>

ResidentsSpec ==
    ResidentsInit /\ [][ResidentsNext]_<<part, intakeVars, notifyVars, noticesVars>>
=============================================================================
