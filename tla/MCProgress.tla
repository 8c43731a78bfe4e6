------------------------------ MODULE MCProgress ------------------------------
(***************************************************************************)
(* What must eventually happen, for TLC: the components whose workers,     *)
(* timers and scripts are expected to get through their work, each under   *)
(* the fairness its scheduling gives it.  They share no state, so they are *)
(* checked side by side: "part" names the one that runs, while the others  *)
(* stay where they start.                                                  *)
(***************************************************************************)
EXTENDS Notifications, GateEnrollment, ReportIntake, Registration, UnifiedWorker,
        IntegrityChecks, DemoBringUp

CONSTANTS u1, e1, i1, t1, w1, o1, x1, x2, x3, q1, q2, g1, g2, c1, s1, tw1, tw2,
          a1, n1, n2, m1, h1, d1

VARIABLE part

AllChannels == {"IN_APP", "EMAIL", "PUSH"}
OneDay == [c \in Cases |-> 1]
TwoManagers == {"m1", "m2"}
OwnAndOther == [m \in TwoManagers |-> IF m = "m1" THEN "b1" ELSE "b2"]
FlatBuilding == [h \in {h1} |-> "b1"]

Parts == {"notify", "gate", "intake", "registration", "worker", "integrity", "demo"}

NotifyRuns == part = "notify"
EnrolRuns == part = "gate"
IntakeRuns == part = "intake"
RegistrationRuns == part = "registration"
WorkerRuns == part = "worker"
IntegrityRuns == part = "integrity"
DemoRuns == part = "demo"

progressVars == <<part, notifyVars, enrolVars, intakeVars, registrationVars,
                  workerVars, integrityVars, demoVars>>

ProgressInit ==
    /\ part \in Parts
    /\ NotifyInit /\ EnrolInit /\ IntakeInit /\ RegistrationInit
    /\ WorkerInit /\ IntegrityInit /\ DemoInit
    /\ ~IntakeRuns => \A q \in Posts : ask[q].ref = g1

(* No one runs verify_integrity by hand. *)
IntegrityWorker == Worker \/ World

ProgressNext ==
    /\ UNCHANGED part
    /\ IF NotifyRuns THEN NotifyNext ELSE UNCHANGED notifyVars
    /\ IF EnrolRuns THEN EnrolNext ELSE UNCHANGED enrolVars
    /\ IF IntakeRuns THEN IntakeNext ELSE UNCHANGED intakeVars
    /\ IF RegistrationRuns THEN RegistrationNext ELSE UNCHANGED registrationVars
    /\ IF WorkerRuns THEN WorkerNext ELSE UNCHANGED workerVars
    /\ IF IntegrityRuns THEN IntegrityWorker ELSE UNCHANGED integrityVars
    /\ IF DemoRuns THEN DemoNext ELSE UNCHANGED demoVars

-----------------------------------------------------------------------------
(* Fairness: what schedules the component that runs.                       *)

(* Callbacks run, workers loop, time passes; residents need do nothing. *)
NotifyFairness ==
    /\ \A w \in Workers : WF_notifyVars(NotifyRuns /\ WorkerStep(w))
    /\ \A r \in Rows : WF_notifyVars(NotifyRuns /\ Queue(r))
    /\ \A r \in Rows : WF_notifyVars(NotifyRuns /\ RetryDue(r))

(* Time passes, and purge_gate_data is run every hour by a timer and tries *)
(* every row, against a storage that works between failures.               *)
EnrolFairness ==
    /\ \A p \in Submissions : WF_enrolVars(EnrolRuns /\ Expire(p))
    /\ \A p \in Submissions : WF_enrolVars(EnrolRuns /\ ProcessDeletion(p))
    /\ \A o \in Occupancies : WF_enrolVars(EnrolRuns /\ PurgePhoto(o))

(* The worker loop takes jobs and works on them, and may stop in any of    *)
(* them; people need do nothing.                                           *)
TriageLoop(w) == TriageStep(w) \/ \E q \in Posts : ClaimTriageJob(w, q)

IntakeFairness == \A w \in TriageWorkers : WF_intakeVars(IntakeRuns /\ TriageLoop(w))

(* Time passes, the worker's pass runs every cycle, and a transaction ends. *)
RegistrationFairness ==
    /\ WF_registrationVars(RegistrationRuns /\ NextDay)
    /\ WF_registrationVars(RegistrationRuns /\ ExpireBatch)
    /\ \A s \in Submitters : WF_registrationVars(RegistrationRuns /\ SubmitInsert(s))

(* A worker goes on, and one that is off is started again. *)
WorkerFairness ==
    \A d \in Replicas :
        /\ WF_workerVars(WorkerRuns /\ Step(d))
        /\ WF_workerVars(WorkerRuns /\ \E m \in Modes : Start(d, m))

(* The worker comes back to its queue, and the ledger goes on publishing. *)
IntegrityFairness ==
    \A e \in Entries :
        /\ WF_integrityVars(IntegrityRuns /\ WorkerVerify(e))
        /\ WF_integrityVars(IntegrityRuns /\ Publish(e))

(* A script that runs goes on to its next step. *)
DemoFairness ==
    /\ WF_demoVars(DemoRuns /\ (UpStep \/ UpFails \/ Watch))
    /\ WF_demoVars(DemoRuns /\ ResetStep)

ProgressFairness ==
    /\ NotifyFairness /\ EnrolFairness /\ IntakeFairness /\ RegistrationFairness
    /\ WorkerFairness /\ IntegrityFairness /\ DemoFairness

ProgressSpec == ProgressInit /\ [][ProgressNext]_progressVars /\ ProgressFairness

(* Operations go on past a failure: the worker drains every queue but the  *)
(* broken one, the integrity worker observes every entry but the broken    *)
(* one, and a demo that lost a process is taken down.                      *)
OperationsGoOn ==
    /\ OtherQueuesDrain
    /\ IntegrityRuns => EveryEntryObserved
    /\ DeathEndsTheDemo
=============================================================================
