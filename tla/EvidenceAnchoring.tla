-------------------------- MODULE EvidenceAnchoring -------------------------
(***************************************************************************)
(* What the evidence outbox promises, without workers, leases, retries or  *)
(* transactions: an event is accepted once with an identity that never     *)
(* changes, its identity is recorded on the chain at most once, and it is  *)
(* given one verdict, which is true when it is given and never withdrawn.  *)
(***************************************************************************)
CONSTANTS EventIds, Identities, NoIdentity

VARIABLES identity, record, verdict

anchoringVars == <<identity, record, verdict>>

Init ==
    /\ identity = [e \in EventIds |-> NoIdentity]
    /\ record = [e \in EventIds |-> NoIdentity]
    /\ verdict = [e \in EventIds |-> "open"]

Accept(e, i) ==
    /\ identity[e] = NoIdentity
    /\ identity' = [identity EXCEPT ![e] = i]
    /\ UNCHANGED <<record, verdict>>

(* The chain takes the event; a worker may still have to notice. *)
Record(e) ==
    /\ identity[e] # NoIdentity
    /\ record[e] = NoIdentity
    /\ record' = [record EXCEPT ![e] = identity[e]]
    /\ UNCHANGED <<identity, verdict>>

TrueVerdicts(e) ==
    {"local"} \cup (IF record[e] = NoIdentity THEN {}
                    ELSE IF record[e] = identity[e] THEN {"confirmed"}
                    ELSE {"mismatch"})

Settle(e, v) ==
    /\ identity[e] # NoIdentity
    /\ verdict[e] = "open"
    /\ v \in TrueVerdicts(e)
    /\ verdict' = [verdict EXCEPT ![e] = v]
    /\ UNCHANGED <<identity, record>>

Next ==
    \E e \in EventIds :
        \/ \E i \in Identities : Accept(e, i)
        \/ Record(e)
        \/ \E v \in {"local", "confirmed", "mismatch"} : Settle(e, v)

Spec == Init /\ [][Next]_anchoringVars
=============================================================================
