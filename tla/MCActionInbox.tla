----------------------------- MODULE MCActionInbox ----------------------------
(***************************************************************************)
(* The inbox over the cases of CaseWork, for TLC: with two reports the     *)
(* handlers of the cases alone, with one report the queues too.            *)
(***************************************************************************)
EXTENDS ActionInbox

CONSTANTS r1, r2

VARIABLE part

TwoReports == {r1, r2}
NonePrivate == {}

Untouched(r) == report'[r] = report[r] /\ page'[r] = page[r]

PagesInit == InboxInit /\ part \in {"work", "queues"}

PagesNext ==
    /\ UNCHANGED part
    /\ \/ part = "work" /\ Next /\ UNCHANGED inboxVars
       \/ part = "queues" /\ InboxNext /\ Untouched(r2) /\ job'[r2] = job[r2]

PagesSpec == PagesInit /\ [][PagesNext]_<<allVars, part>>

(* The inbox where its queues run. *)
QueuesHold == part = "queues" => InboxHolds
=============================================================================
