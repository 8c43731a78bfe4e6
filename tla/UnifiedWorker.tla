----------------------------- MODULE UnifiedWorker -----------------------------
(***************************************************************************)
(* The unified worker: replicas that walk through seven queue processors,  *)
(* cycle after cycle, while work arrives, adapters break and are repaired, *)
(* and processes die; and the scan that warns Management of cases near     *)
(* their deadline, which is the one processor with no module of its own.   *)
(*                                                                         *)
(* A queue is the number of its due items; what an item is and how it is   *)
(* claimed is the business of the module of that queue.                    *)
(***************************************************************************)
EXTENDS Naturals, Sequences, FiniteSets

CONSTANTS Replicas,        \* worker processes (replicas)
          Modes,           \* ways a worker is started: "loop", "capped", "once"
          Cases,           \* maintenance cases, in the order of their keys (1..N)
          Deadline,        \* deadline_at of each case, in ticks
          Horizon,         \* the scan's horizon and floor, in ticks (24 hours)
          ScanLimit,       \* limit of the deadline scan (50)
          OnceLimit,       \* --limit of a single cycle (50)
          QueueLimit,      \* default limit of the other processors (20 to 100)
          Breakable,       \* processors whose adapter may break
          MaxArrivals,     \* bound on items that arrive in the queues
          MaxTime,         \* bound on the clock
          MaxWorkerFaults  \* bound on adapters breaking and workers dying

ASSUME CasesAssumption == Cases \subseteq Nat /\ IsFiniteSet(Cases)
ASSUME DeadlineAssumption == Deadline \in [Cases -> Nat]
ASSUME LimitsAssumption ==
    /\ {ScanLimit, OnceLimit, QueueLimit, Horizon} \subseteq Nat \ {0}
    /\ MaxTime \in Nat
    /\ Modes \subseteq {"loop", "capped", "once"}

PROCESSORS == <<"triage", "blockchain_outbox", "integrity", "deadline_risk",
                "notifications", "stale_devices", "registration_expiry">>
Names == {PROCESSORS[k] : k \in 1 .. Len(PROCESSORS)}
Queues == Names \ {"deadline_risk"}

ASSUME BreakableAssumption == Breakable \subseteq Names

VARIABLES mode,     \* how each worker runs: a mode, or "off"
          pc,       \* the processor each worker is at; Len + 1 between cycles
          batch,    \* cases of the scan each worker still has to warn about
          failed,   \* processors that reported a failure in the current cycle
          queue,    \* due items of each queue
          broken,   \* adapters that raise
          raised,   \* adapters that have been broken at some time in the cycle
          arrivals,
          case,     \* state of each case: "none", "open", "completed"
          warned,   \* cases with a deadline-risk notice
          now,
          scanned,  \* a scan has run to its end in this tick
          workerFaults
work == <<queue, arrivals>>
workerVars == <<mode, pc, batch, failed, queue, broken, raised, arrivals, case, warned,
          now, scanned, workerFaults>>

WorkerInit == /\ mode = [w \in Replicas |-> "off"]
              /\ pc = [w \in Replicas |-> 1]
              /\ batch = [w \in Replicas |-> {}]
              /\ failed = [w \in Replicas |-> {}]
              /\ queue = [p \in Queues |-> 0]
              /\ broken = {} /\ raised = [w \in Replicas |-> {}]
              /\ arrivals = 0
              /\ case = [c \in Cases |-> "none"]
              /\ warned = {}
              /\ now = 0 /\ scanned = FALSE
              /\ workerFaults = 0

At(w, p) == mode[w] # "off" /\ pc[w] <= Len(PROCESSORS) /\ PROCESSORS[pc[w]] = p

-----------------------------------------------------------------------------
(* The cycle *)

(* _kwargs_for: no caller names a limit of its own for one processor. *)
KwargsFor(p, given) == IF p = "stale_devices" THEN given \cap {"days"}
                       ELSE given \ {"days"}

(* What run_worker_cycle is called with; only --once passes a limit on. *)
Given(w) == IF mode[w] = "once" THEN {"limit"} ELSE {}

(* The keyword a processor takes; any other is a TypeError. *)
Takes(p) == IF p = "stale_devices" THEN {"days"} ELSE {"limit"}

Limit(w, p) == IF "limit" \in KwargsFor(p, Given(w)) THEN OnceLimit
               ELSE IF p = "deadline_risk" THEN ScanLimit ELSE QueueLimit

Fails(w, p) == p \in broken \/ ~(KwargsFor(p, Given(w)) \subseteq Takes(p))

(* Mutated form: a failed processor ends the cycle. *)
StopAtFailure(w, p, ok) ==
    /\ pc' = [pc EXCEPT ![w] = IF ok THEN @ + 1 ELSE Len(PROCESSORS) + 1]
    /\ failed' = [failed EXCEPT ![w] = IF ok THEN @ ELSE @ \cup {p}]

(* Either handler, the processor's own or the cycle's, turns the exception *)
(* into a result and the loop goes on.                                     *)
Report(w, p, ok) ==
    /\ pc' = [pc EXCEPT ![w] = @ + 1]
    /\ failed' = [failed EXCEPT ![w] = IF ok THEN @ ELSE @ \cup {p}]

(* The items one pass takes: all that are due, up to the limit. *)
Batch(w, p) == IF Limit(w, p) < queue[p] THEN Limit(w, p) ELSE queue[p]

(* A queue processor: up to its limit of items. One whose adapter raises   *)
(* has dealt with some of them first.                                      *)
RunQueue(w, p) ==
    /\ At(w, p)
    /\ \E n \in IF Fails(w, p) THEN 0 .. Batch(w, p) ELSE {Batch(w, p)} :
          queue' = [queue EXCEPT ![p] = @ - n]
    /\ Report(w, p, ~Fails(w, p))
    /\ UNCHANGED <<mode, batch, broken, raised, arrivals, case, warned, now, scanned, workerFaults>>

(* Mutated form: a deadline that has passed is not looked at. *)
AtRiskAhead == {c \in Cases : /\ case[c] = "open"
                              /\ Deadline[c] <= now + Horizon
                              /\ Deadline[c] >= now}

(* Cases the scan looks at: open, due within the horizon either way. *)
AtRisk == {c \in Cases : /\ case[c] = "open"
                         /\ Deadline[c] <= now + Horizon
                         /\ Deadline[c] + Horizon >= now}

(* ORDER BY deadline_at, pk. *)
Before(c, d) == \/ Deadline[c] < Deadline[d]
                \/ (Deadline[c] = Deadline[d] /\ c < d)

(* The slice of the query: the n first. *)
Scan(n) == {c \in AtRisk : Cardinality({d \in AtRisk : Before(d, c)}) < n}

(* process_deadline_risk_batch evaluates its query once ... *)
StartScan(w) ==
    /\ At(w, "deadline_risk") /\ batch[w] = {}
    /\ \/ /\ Fails(w, "deadline_risk")
          /\ Report(w, "deadline_risk", FALSE)
          /\ UNCHANGED <<batch, scanned>>
       \/ /\ ~Fails(w, "deadline_risk")
          /\ Scan(Limit(w, "deadline_risk")) = {}
          /\ scanned' = TRUE
          /\ Report(w, "deadline_risk", TRUE)
          /\ UNCHANGED batch
       \/ /\ ~Fails(w, "deadline_risk")
          /\ batch' = [batch EXCEPT ![w] = Scan(Limit(w, "deadline_risk"))]
          /\ batch' # batch
          /\ UNCHANGED <<pc, failed, scanned>>
    /\ UNCHANGED <<mode, queue, broken, raised, arrivals, case, warned, now, workerFaults>>

(* ... and warns about one case after the other; the event key of the case *)
(* and its day keeps one notice whoever warns again. A case whose warning  *)
(* raises is logged and left.                                              *)
Warn(w) ==
    /\ At(w, "deadline_risk")
    /\ \E c \in batch[w] :
          /\ \A d \in batch[w] \ {c} : Before(c, d)
          /\ warned' = IF "deadline_risk" \in broken THEN warned ELSE warned \cup {c}
          /\ batch' = [batch EXCEPT ![w] = @ \ {c}]
          /\ IF batch[w] = {c}
             THEN /\ Report(w, "deadline_risk", TRUE)
                  /\ scanned' = (scanned \/ "deadline_risk" \notin raised[w])
             ELSE UNCHANGED <<pc, failed, scanned>>
    /\ UNCHANGED <<mode, queue, broken, raised, arrivals, case, now, workerFaults>>

(* run_worker_loop and the command: a loop sleeps and starts over, a capped *)
(* one stops after its last cycle, --once prints the results and exits.     *)
AfterCycle(m) == CASE m = "loop" -> {"loop"}
                   [] m = "capped" -> {"capped", "off"}
                   [] m = "once" -> {"off"}

EndCycle(w) ==
    /\ mode[w] # "off" /\ pc[w] = Len(PROCESSORS) + 1
    /\ \E m \in AfterCycle(mode[w]) : mode' = [mode EXCEPT ![w] = m]
    /\ pc' = [pc EXCEPT ![w] = 1]
    /\ failed' = [failed EXCEPT ![w] = {}]
    /\ raised' = [raised EXCEPT ![w] = broken]
    /\ UNCHANGED <<batch, queue, broken, arrivals, case, warned, now, scanned, workerFaults>>

(* run_worker is started, by an operator or by whatever supervises it. *)
Start(w, m) ==
    /\ mode[w] = "off"
    /\ mode' = [mode EXCEPT ![w] = m]
    /\ raised' = [raised EXCEPT ![w] = broken]
    /\ UNCHANGED <<pc, batch, failed, queue, broken, arrivals, case, warned, now, scanned, workerFaults>>

-----------------------------------------------------------------------------
(* The surroundings *)

Arrive(p) ==
    /\ arrivals < MaxArrivals
    /\ queue' = [queue EXCEPT ![p] = @ + 1]
    /\ arrivals' = arrivals + 1
    /\ UNCHANGED <<mode, pc, batch, failed, broken, raised, case, warned, now, scanned, workerFaults>>

(* A case is opened with a deadline ahead of it. *)
OpenCase(c) ==
    /\ case[c] = "none" /\ Deadline[c] >= now
    /\ case' = [case EXCEPT ![c] = "open"]
    /\ UNCHANGED <<mode, pc, batch, failed, work, broken, raised, warned, now, scanned, workerFaults>>

CompleteCase(c) ==
    /\ case[c] = "open"
    /\ case' = [case EXCEPT ![c] = "completed"]
    /\ UNCHANGED <<mode, pc, batch, failed, work, broken, raised, warned, now, scanned, workerFaults>>

(* An adapter starts to raise, or stops. *)
Break(p) ==
    /\ workerFaults < MaxWorkerFaults /\ p \in Breakable \ broken
    /\ broken' = broken \cup {p}
    /\ raised' = [w \in Replicas |-> raised[w] \cup {p}]
    /\ workerFaults' = workerFaults + 1
    /\ UNCHANGED <<mode, pc, batch, failed, work, case, warned, now, scanned>>

Repair(p) ==
    /\ p \in broken
    /\ broken' = broken \ {p}
    /\ UNCHANGED <<mode, pc, batch, failed, work, raised, case, warned, now, scanned, workerFaults>>

(* A worker is killed; the items it did not reach stay due. *)
Kill(w) ==
    /\ workerFaults < MaxWorkerFaults /\ mode[w] # "off"
    /\ mode' = [mode EXCEPT ![w] = "off"]
    /\ pc' = [pc EXCEPT ![w] = 1]
    /\ batch' = [batch EXCEPT ![w] = {}]
    /\ failed' = [failed EXCEPT ![w] = {}]
    /\ workerFaults' = workerFaults + 1
    /\ UNCHANGED <<queue, broken, raised, arrivals, case, warned, now, scanned>>

(* A tick is a day, a cycle seconds.  Time waits until some scan has run   *)
(* to its end in the tick with the adapter working throughout, unless no   *)
(* case is near its deadline: an assumption about the deployment, which    *)
(* nothing in config/worker.py enforces.                                   *)
ClockTicks ==
    /\ now < MaxTime
    /\ scanned \/ AtRisk = {}
    /\ \A w \in Replicas : batch[w] = {}
    /\ now' = now + 1 /\ scanned' = FALSE
    /\ UNCHANGED <<mode, pc, batch, failed, work, broken, raised, case, warned, workerFaults>>

Step(w) == \/ \E p \in Queues : RunQueue(w, p)
           \/ StartScan(w)
           \/ Warn(w)
           \/ EndCycle(w)

WorkerNext == \/ \E w \in Replicas : \/ Step(w)
                                     \/ \E m \in Modes : Start(w, m)
                                     \/ Kill(w)
              \/ \E p \in Queues : Arrive(p)
              \/ \E p \in Breakable : Break(p) \/ Repair(p)
              \/ \E c \in Cases : OpenCase(c) \/ CompleteCase(c)
              \/ ClockTicks

WorkerSpec == WorkerInit /\ [][WorkerNext]_workerVars

-----------------------------------------------------------------------------
(* Properties *)

WorkerTypeOK ==
    /\ mode \in [Replicas -> Modes \cup {"off"}]
    /\ pc \in [Replicas -> 1 .. Len(PROCESSORS) + 1]
    /\ batch \in [Replicas -> SUBSET Cases]
    /\ failed \in [Replicas -> SUBSET Names]
    /\ queue \in [Queues -> Nat]
    /\ broken \subseteq Breakable /\ raised \in [Replicas -> SUBSET Names]
    /\ case \in [Cases -> {"none", "open", "completed"}]
    /\ warned \subseteq Cases
    /\ now \in 0 .. MaxTime /\ scanned \in BOOLEAN

(* A processor reports a failure only in a cycle in which its own adapter  *)
(* was broken: neither another adapter nor the arguments of the cycle fail *)
(* it (run_worker_cycle, _kwargs_for).                                     *)
FailuresAreTheirOwn == \A w \in Replicas : failed[w] \subseteq raised[w]

(* A case that was open from 24 hours before its deadline until 24 hours   *)
(* after it has been warned about (process_deadline_risk_batch), provided  *)
(* that a scan works once per tick (ClockTicks) and that the cases near    *)
(* their deadline fit into one scan (ScanLimit).                           *)
NearDueIsWarned ==
    \A c \in Cases : case[c] = "open" /\ now > Deadline[c] + Horizon => c \in warned

(* Whatever breaks, dies or is started twice, a failure is reported where  *)
(* it is, and no case passes its deadline unannounced while scans run      *)
(* (run_worker_cycle, process_deadline_risk_batch).                        *)
WorkerHolds == WorkerTypeOK /\ FailuresAreTheirOwn /\ NearDueIsWarned

(* One failed adapter does not stop the other queues: whatever stays       *)
(* broken for ever, a queue whose own adapter works in the end is drained  *)
(* (run_worker_cycle).                                                     *)
OtherQueuesDrain ==
    \A p \in Queues : <>[](p \notin broken) => []<>(queue[p] = 0)
=============================================================================
