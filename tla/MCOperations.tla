----------------------------- MODULE MCOperations -----------------------------
(***************************************************************************)
(* What keeps the building's data, for TLC: the worker process, the demo   *)
(* scripts, the document store and the integrity checks.  The components   *)
(* share no state, so they are checked side by side: "part" names the one  *)
(* that runs, and in which scenario, while the others stay where they      *)
(* start.                                                                  *)
(***************************************************************************)
EXTENDS UnifiedWorker, DemoBringUp, DocumentStore, IntegrityChecks

CONSTANTS w1, w2, u1, u2, u3, r1

VARIABLE part

TwoDays == [c \in Cases |-> c]
TwoOutboxEvents == {"version", "settlement"}

(* Two visits and a fault, a visit and two faults, or three faults. *)
DemoScenario == visits' + demoFaults' <= 3

(* One upload of every kind the pages treat differently. *)
JobScenario == UNCHANGED accessVars

(* The pages of one reader, with two uploads and no cleanup or backup. *)
LinkScenario == UNCHANGED <<cleanup, backup>> /\ step'[u3] = "new"

Parts == {"worker", "demo", "jobs", "links", "integrity"}

OperationsInit ==
    /\ part \in Parts
    /\ WorkerInit /\ DemoInit /\ StoreInit /\ IntegrityInit
    /\ use[u1] = "fund"
    /\ use[u2] \in IF part \in {"jobs", "links"} THEN {"bill", "photo"} ELSE {"bill"}
    /\ use[u3] \in IF part = "jobs" THEN {"proposal", "settlement"} ELSE {"proposal"}

OperationsNext ==
    /\ UNCHANGED part
    /\ \/ /\ part = "worker"
          /\ WorkerNext
          /\ UNCHANGED <<demoVars, storeVars, integrityVars>>
       \/ /\ part = "demo"
          /\ DemoNext /\ DemoScenario
          /\ UNCHANGED <<workerVars, storeVars, integrityVars>>
       \/ /\ \/ part = "jobs" /\ (UploadNext \/ JobNext) /\ JobScenario
             \/ part = "links" /\ (UploadNext \/ DownloadNext) /\ LinkScenario
          /\ UNCHANGED <<workerVars, demoVars, integrityVars>>
       \/ /\ part = "integrity"
          /\ IntegrityNext
          /\ UNCHANGED <<workerVars, demoVars, storeVars>>

OperationsSpec ==
    OperationsInit /\ [][OperationsNext]_<<part, workerVars, demoVars, storeVars, integrityVars>>
=============================================================================
