------------------------------ MODULE DemoBringUp ------------------------------
(***************************************************************************)
(* The demo on one laptop: reset.sh, which archives the last visit, wipes, *)
(* seeds and builds; up.sh, which verifies, starts the processes, runs the *)
(* smoke check and only then shows the address; and their helpers          *)
(* demo_env.py and demo_up.py. Either script may stop at any step, an      *)
(* operator edits or deletes the environment file, processes die, and      *)
(* up.sh itself may be killed before its exit handler runs.                *)
(*                                                                         *)
(* Keys are numbers, 0 an unset one. A visit is a number; visits stand for *)
(* the rows the visitors made. Containers, tools and paths of the machine  *)
(* are left to the steps that may fail.                                    *)
(***************************************************************************)
EXTENDS Naturals, Sequences, FiniteSets

CONSTANTS MaxKeys,        \* bound on keys minted or typed in
          MaxVisits,      \* bound on visits
          MaxDemoFaults,  \* bound on deaths, kills, stopped steps and edits
          Careful         \* the operator runs one script at a time and edits between runs;
                          \* processes left behind by a killed up.sh may still serve

ASSUME DemoBoundsAssumption == {MaxKeys, MaxVisits, MaxDemoFaults} \subseteq Nat /\ Careful \in BOOLEAN

KIT_FILES == {"quotation", "transfer_proof", "notice"}
CHECKS == <<"app", "wasm", "static", "kit", "login", "api", "worker", "clamav">>
Processes == {"gunicorn", "worker", "caddy", "cloudflared"}
NotRunning == "none"                \* no step: the script does not run
NoEnv == [secret_key |-> 0, evidence |-> 0, signer |-> 0, inside |-> FALSE]  \* no file
NoKeys == [evidence_secret |-> 0, signer_address |-> 0]     \* nothing recorded

VARIABLES env,       \* .env.demo: its keys and whether its paths are inside .demo/
          recorded,  \* .demo/fingerprints
          db,        \* the Postgres volume: its state, the keys that seeded it, its visits
          archive,   \* visits in .demo/archive
          site,      \* parts present on disk: "app", "static"
          kit,       \* files of .demo/kit with their index
          reset,     \* step of the running reset.sh, or None
          rkeys,     \* environment it sourced
          up,        \* step of the running up.sh, or None
          ukeys,     \* environment it sourced
          checked,   \* smoke checks run so far
          passed,    \* none of them has failed
          procs,     \* running processes, with the keys they were started with
          mine,      \* processes the running up.sh started
          clamav,    \* ClamAV answers
          visits,    \* visits made
          late,      \* those made while reset.sh was between its dump and its wipe
          minted, demoFaults,
          killed     \* a run of up.sh has left processes behind
files == <<env, recorded, db, archive, site, kit>>
resets == <<reset, rkeys>>
ups == <<up, ukeys, checked, passed, mine, killed>>
bounds == <<visits, late, minted, demoFaults>>
demoVars == <<files, resets, ups, procs, clamav, bounds>>

Running(p) == \E q \in procs : q.name = p
DemoFault == demoFaults < MaxDemoFaults /\ demoFaults' = demoFaults + 1

DemoInit == /\ env = NoEnv /\ recorded = NoKeys
            /\ db = [state |-> "absent", keys |-> NoKeys, visits |-> {}]
            /\ archive = {} /\ site = {} /\ kit = {}
            /\ reset = NotRunning /\ rkeys = NoEnv
            /\ up = NotRunning /\ ukeys = NoEnv /\ checked = 0 /\ passed = TRUE /\ mine = {} /\ killed = FALSE
            /\ procs = {} /\ clamav = FALSE
            /\ visits = 0 /\ late = {} /\ minted = 0 /\ demoFaults = 0

-----------------------------------------------------------------------------
(* demo_env.py *)

(* init_env: O_EXCL, and an existing file is kept. *)
InitEnv ==
    IF env # NoEnv THEN UNCHANGED <<env, minted>>
    ELSE /\ minted < MaxKeys
         /\ minted' = minted + 1
         /\ env' = [secret_key |-> minted + 1, evidence |-> minted + 1,
                    signer |-> minted + 1, inside |-> TRUE]

(* fingerprints: the evidence secret falls back to SECRET_KEY. *)
EvidenceSecret(e) == IF e.evidence = 0 THEN e.secret_key ELSE e.evidence
Fingerprints(e) == [evidence_secret |-> EvidenceSecret(e), signer_address |-> e.signer]

(* Mutated form: only the evidence secret is compared. *)
VerifySecretOnly == /\ env # NoEnv /\ recorded # NoKeys /\ env.signer # 0
                    /\ Fingerprints(env).evidence_secret = recorded.evidence_secret

(* verify_fingerprints finds nothing wrong. *)
VerifyFingerprints ==
    /\ env # NoEnv /\ recorded # NoKeys
    /\ env.signer # 0
    /\ Fingerprints(env) = recorded

-----------------------------------------------------------------------------
(* reset.sh *)

ResetAt(s) == reset = s
ResetGoes(s) == reset' = s /\ UNCHANGED rkeys

(* reset.sh looks for tools and for the development stack; processes that  *)
(* an earlier up.sh has left behind do not hold it up.                     *)
StartReset ==
    /\ reset = NotRunning
    /\ Careful => up = NotRunning
    /\ reset' = "env"
    /\ UNCHANGED <<rkeys, files, ups, procs, clamav, bounds>>

(* The file is made once, sourced, and its two paths are checked. *)
ResetEnv ==
    /\ ResetAt("env")
    /\ InitEnv
    /\ env'.inside
    /\ reset' = "archive" /\ rkeys' = env'
    /\ UNCHANGED <<recorded, db, archive, site, kit, ups, procs, clamav, visits, late, demoFaults>>

(* The database is dumped to a partial file and renamed. *)
Archive ==
    /\ ResetAt("archive")
    /\ archive' = archive \cup db.visits
    /\ ResetGoes("forget")
    /\ UNCHANGED <<env, recorded, db, site, kit, ups, procs, clamav, bounds>>

(* From here the old fingerprints do not describe what is on disk. *)
ForgetFingerprints ==
    /\ ResetAt("forget")
    /\ recorded' = NoKeys
    /\ ResetGoes("wipe")
    /\ UNCHANGED <<env, db, archive, site, kit, ups, procs, clamav, bounds>>

Wipe ==
    /\ ResetAt("wipe")
    /\ db' = [state |-> "absent", keys |-> NoKeys, visits |-> {}]
    /\ ResetGoes("migrate")
    /\ UNCHANGED <<env, recorded, archive, site, kit, ups, procs, clamav, bounds>>

Migrate ==
    /\ ResetAt("migrate")
    /\ db' = [db EXCEPT !.state = "empty"]
    /\ ResetGoes("seed")
    /\ UNCHANGED <<env, recorded, archive, site, kit, ups, procs, clamav, bounds>>

(* seed_demo signs what it makes with the keys reset.sh sourced. *)
Seed ==
    /\ ResetAt("seed")
    /\ db' = [db EXCEPT !.state = "seeded", !.keys = Fingerprints(rkeys)]
    /\ ResetGoes("clear")
    /\ UNCHANGED <<env, recorded, archive, site, kit, ups, procs, clamav, bounds>>

(* The old web build is removed before the new one is copied. *)
ClearApp ==
    /\ ResetAt("clear")
    /\ site' = site \ {"app"}
    /\ ResetGoes("build")
    /\ UNCHANGED <<env, recorded, db, archive, kit, ups, procs, clamav, bounds>>

BuildApp ==
    /\ ResetAt("build")
    /\ site' = site \cup {"app"}
    /\ ResetGoes("static")
    /\ UNCHANGED <<env, recorded, db, archive, kit, ups, procs, clamav, bounds>>

CollectStatic ==
    /\ ResetAt("static")
    /\ site' = site \cup {"static"}
    /\ ResetGoes("fingerprints")
    /\ UNCHANGED <<env, recorded, db, archive, kit, ups, procs, clamav, bounds>>

(* Taken from the file as it is now, not from what was sourced. *)
RecordFingerprints ==
    /\ ResetAt("fingerprints")
    /\ env # NoEnv /\ env.signer # 0
    /\ recorded' = Fingerprints(env)
    /\ reset' = NotRunning /\ rkeys' = NoEnv
    /\ UNCHANGED <<env, db, archive, site, kit, ups, procs, clamav, bounds>>

ResetStep == \/ ResetEnv \/ Archive \/ ForgetFingerprints \/ Wipe \/ Migrate \/ Seed
             \/ ClearApp \/ BuildApp \/ CollectStatic \/ RecordFingerprints

(* A step fails, or Ctrl-C: the script stops where it is. *)
ResetStops ==
    /\ reset # NotRunning
    /\ \/ DemoFault
       \/ /\ ResetAt("env") /\ env # NoEnv
          /\ ~env.inside
          /\ UNCHANGED demoFaults
       \/ /\ ResetAt("fingerprints") /\ (env.signer = 0)
          /\ UNCHANGED demoFaults
    /\ reset' = NotRunning /\ rkeys' = NoEnv
    /\ UNCHANGED <<files, ups, procs, clamav, visits, late, minted>>

-----------------------------------------------------------------------------
(* up.sh *)

UpGoes(s) == up' = s /\ UNCHANGED <<ukeys, killed>>

StartUp ==
    /\ up = NotRunning /\ env # NoEnv
    /\ Careful => reset = NotRunning
    /\ up' = "verify" /\ ukeys' = env /\ checked' = 0 /\ passed' = TRUE
    /\ UNCHANGED <<mine, killed, files, resets, procs, clamav, bounds>>

(* ports-free: nothing listens on Caddy's and gunicorn's ports. *)
PortsFree == ~Running("gunicorn") /\ ~Running("caddy")

(* Everything is checked before anything is started. *)
UpVerify ==
    /\ up = "verify"
    /\ "app" \in site
    /\ VerifyFingerprints
    /\ PortsFree
    /\ UpGoes("clamav")
    /\ UNCHANGED <<checked, passed, mine, files, resets, procs, clamav, bounds>>

(* wait-clamav: pings until it answers or the timeout is over (UpFails). *)
WaitClamav ==
    /\ up = "clamav" /\ clamav
    /\ UpGoes("kit")
    /\ UNCHANGED <<checked, passed, mine, files, resets, procs, clamav, bounds>>

(* kit-site: stale files go, the PDFs and the index come. *)
KitSite ==
    /\ up = "kit"
    /\ kit' = KIT_FILES \cup {"index"}
    /\ UpGoes("gunicorn")
    /\ UNCHANGED <<checked, passed, mine, env, recorded, db, archive, site, resets, procs, clamav, bounds>>

StartOrder == <<"gunicorn", "worker", "caddy", "cloudflared", "tunnel">>

(* Each process is started with the environment up.sh sourced, and its PID *)
(* is recorded; StrayStart is the signal between the two.                  *)
StartProcess ==
    /\ \E i \in 1 .. 4 :
          LET new == [name |-> StartOrder[i], keys |-> Fingerprints(ukeys)]
          IN  /\ up = StartOrder[i]
              /\ procs' = procs \cup {new}
              /\ mine' = mine \cup {new}
              /\ UpGoes(StartOrder[i + 1])
    /\ UNCHANGED <<checked, passed, files, resets, clamav, bounds>>

(* The two ports answer, cloudflared's log names the tunnel, and /app/ is  *)
(* reachable through it.                                                   *)
Tunnel ==
    /\ up = "tunnel"
    /\ \A p \in {"gunicorn", "caddy", "cloudflared"} : Running(p)
    /\ UpGoes("smoke")
    /\ UNCHANGED <<checked, passed, mine, files, resets, procs, clamav, bounds>>

Served == Running("caddy") /\ Running("cloudflared")

(* What each check sees through the tunnel. *)
Holds(check) ==
    CASE check \in {"app", "wasm"} -> Served /\ "app" \in site
      [] check = "static" -> Served /\ "static" \in site
      [] check = "kit" -> Served /\ kit = KIT_FILES \cup {"index"}
      [] check = "login" -> Served /\ Running("gunicorn")
      [] check = "api" -> Served /\ Running("gunicorn") /\ db.state = "seeded"
      [] check = "worker" -> \E q \in mine : q.name = "worker" /\ q \in procs
      [] check = "clamav" -> clamav

Accumulate(ok) == passed /\ ok

(* run_smoke: every check runs even when one has failed. *)
SmokeCheck ==
    /\ up = "smoke" /\ checked < Len(CHECKS)
    /\ checked' = checked + 1
    /\ passed' = Accumulate(Holds(CHECKS[checked + 1]))
    /\ UNCHANGED <<up, ukeys, killed, mine, files, resets, procs, clamav, bounds>>

(* The address and the QR code. *)
ShowAddress ==
    /\ up = "smoke" /\ checked = Len(CHECKS) /\ passed
    /\ UpGoes("shown")
    /\ UNCHANGED <<checked, passed, mine, files, resets, procs, clamav, bounds>>

(* on_exit: every process this run started is stopped. *)
Exit ==
    /\ up' = NotRunning /\ ukeys' = NoEnv /\ mine' = {}
    /\ procs' = procs \ mine
    /\ UNCHANGED <<checked, passed, killed>>

(* A precondition fails, a wait runs out, a check failed. *)
UpFails ==
    /\ \/ up = "verify" /\ ~("app" \in site /\ VerifyFingerprints /\ PortsFree)
       \/ up = "clamav" /\ ~clamav
       \/ up = "tunnel" /\ \E p \in {"gunicorn", "caddy", "cloudflared"} : ~Running(p)
       \/ up = "smoke" /\ checked = Len(CHECKS) /\ ~passed
    /\ Exit
    /\ UNCHANGED <<files, resets, clamav, bounds>>

(* Ctrl-C or SIGTERM. *)
StopUp ==
    /\ up # NotRunning
    /\ Exit
    /\ UNCHANGED <<files, resets, clamav, bounds>>

(* A signal between the start of a process and the record of its PID: it   *)
(* is not among those that are stopped.                                    *)
StrayStart ==
    /\ \E i \in 1 .. 4 :
          /\ up = StartOrder[i]
          /\ procs' = (procs \ mine) \cup {[name |-> StartOrder[i], keys |-> Fingerprints(ukeys)]}
    /\ DemoFault
    /\ up' = NotRunning /\ ukeys' = NoEnv /\ mine' = {} /\ killed' = TRUE
    /\ UNCHANGED <<checked, passed, files, resets, clamav, visits, late, minted>>

(* The loop after ready finds a process dead and stops the rest. *)
Watch ==
    /\ up = "shown"
    /\ \E q \in mine : q \notin procs
    /\ Exit
    /\ UNCHANGED <<files, resets, clamav, bounds>>

UpStep == UpVerify \/ WaitClamav \/ KitSite \/ StartProcess \/ Tunnel \/ SmokeCheck \/ ShowAddress

-----------------------------------------------------------------------------
(* The surroundings *)

(* up.sh is killed without its exit handler; its processes stay. *)
KillUp ==
    /\ up # NotRunning /\ DemoFault
    /\ up' = NotRunning /\ ukeys' = NoEnv /\ mine' = {} /\ killed' = TRUE
    /\ UNCHANGED <<checked, passed, files, resets, procs, clamav, visits, late, minted>>

(* A process dies, or the operator ends one that was left behind. *)
ProcessDies(q) ==
    /\ q \in procs
    /\ \/ DemoFault
       \/ up = NotRunning /\ UNCHANGED demoFaults
    /\ procs' = procs \ {q}
    /\ UNCHANGED <<files, resets, ups, clamav, visits, late, minted>>

(* ClamAV has loaded its signatures, or its container goes away. *)
ClamavChanges ==
    /\ \/ clamav /\ DemoFault
       \/ ~clamav /\ UNCHANGED demoFaults
    /\ clamav' = ~clamav
    /\ UNCHANGED <<files, resets, ups, procs, visits, late, minted>>

(* The operator deletes the file, or types in another key or path. *)
EditEnv ==
    /\ env # NoEnv /\ DemoFault
    /\ Careful => reset = NotRunning /\ up = NotRunning
    /\ \/ env' = NoEnv /\ UNCHANGED minted
       \/ env' \in {[env EXCEPT !.evidence = 0], [env EXCEPT !.signer = 0],
                    [env EXCEPT !.inside = FALSE]} /\ UNCHANGED minted
       \/ /\ minted < MaxKeys /\ minted' = minted + 1
          /\ env' \in {[env EXCEPT !.evidence = minted + 1],
                       [env EXCEPT !.signer = minted + 1]}
    /\ UNCHANGED <<recorded, db, archive, site, kit, resets, ups, procs, clamav, visits, late>>

(* Files of the build or of the collected static files are removed. *)
LoseFiles ==
    /\ DemoFault
    /\ Careful => reset = NotRunning /\ up = NotRunning
    /\ site' \in {site \ {"app"}, site \ {"static"}}
    /\ UNCHANGED <<env, recorded, db, archive, kit, resets, ups, procs, clamav, visits, late, minted>>

(* A visitor makes something through the address. *)
Visit ==
    /\ visits < MaxVisits
    /\ Served /\ Running("gunicorn") /\ db.state = "seeded"
    /\ visits' = visits + 1
    /\ db' = [db EXCEPT !.visits = @ \cup {visits + 1}]
    /\ late' = IF reset \in {"forget", "wipe"} THEN late \cup {visits + 1} ELSE late
    /\ UNCHANGED <<env, recorded, archive, site, kit, resets, ups, procs, clamav, minted, demoFaults>>

DemoNext == \/ StartReset \/ ResetStep \/ ResetStops
            \/ StartUp \/ UpStep \/ UpFails \/ StopUp \/ Watch
            \/ StrayStart \/ KillUp \/ ClamavChanges \/ EditEnv \/ LoseFiles \/ Visit
            \/ \E q \in procs : ProcessDies(q)

DemoSpec == DemoInit /\ [][DemoNext]_demoVars

-----------------------------------------------------------------------------
(* Properties *)

DemoTypeOK ==
    /\ recorded \in [evidence_secret : 0 .. MaxKeys, signer_address : 0 .. MaxKeys]
    /\ db.state \in {"absent", "empty", "seeded"}
    /\ archive \cup late \subseteq 1 .. visits /\ db.visits \subseteq 1 .. visits
    /\ site \subseteq {"app", "static"}
    /\ reset \in {NotRunning, "env", "archive", "forget", "wipe", "migrate", "seed", "clear",
                  "build", "static", "fingerprints"}
    /\ {q.name : q \in procs \cup mine} \subseteq Processes
    /\ (up = NotRunning) = (ukeys = NoEnv)
    /\ passed \in BOOLEAN /\ clamav \in BOOLEAN

(* While the address is shown, the building is seeded and every server     *)
(* that answers signs with the keys the data was made with, however the    *)
(* environment file was edited and whatever an earlier run left behind     *)
(* (verify_fingerprints, ports-free, the order of reset.sh).               *)
AddressOverItsOwnData ==
    up = "shown" =>
        /\ db.state = "seeded"
        /\ \A q \in procs : q.name = "gunicorn" => q.keys = db.keys

(* While the address is shown and no process of the run has died, all that *)
(* the smoke check looks at is in place, whatever was removed between the  *)
(* reset and the visit; ClamAV alone may go away unseen (run_smoke).       *)
AddressMeansChecked ==
    up = "shown" /\ mine \subseteq procs =>
        \A i \in 1 .. Len(CHECKS) : CHECKS[i] # "clamav" => Holds(CHECKS[i])

(* A run of up.sh leaves no process behind unless it was killed, or        *)
(* signalled before a PID was recorded (on_exit, stop_processes).          *)
NothingLeftRunning == up = NotRunning /\ ~killed => procs = {}

(* A reset that stops anywhere and is run again loses no visit, since it   *)
(* wipes the database only after it was archived (reset.sh).  The one      *)
(* exception: servers that an earlier up.sh has left behind take visits    *)
(* between the dump and the wipe.                                          *)
VisitsAreKept == /\ archive \cup db.visits \cup late = 1 .. visits
                 /\ late # {} => killed

(* However the scripts stop, processes die and the environment file is     *)
(* edited between runs, visitors are shown an address only over a demo     *)
(* that was checked and signs with its own keys, and what they made is     *)
(* kept unless servers were left behind by a killed run (reset.sh, up.sh,  *)
(* demo_up.py, demo_env.py).                                               *)
DemoHolds ==
    /\ DemoTypeOK
    /\ AddressOverItsOwnData /\ AddressMeansChecked
    /\ NothingLeftRunning /\ VisitsAreKept

(* A process that dies under a shown address takes the demo down (the loop *)
(* of up.sh).                                                              *)
DeathEndsTheDemo ==
    (up = "shown" /\ ~(mine \subseteq procs)) ~> (up # "shown")
=============================================================================
