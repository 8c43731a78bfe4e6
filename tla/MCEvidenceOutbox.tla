-------------------------- MODULE MCEvidenceOutbox --------------------------
(* Instances of EvidenceOutbox for TLC. *)
EXTENDS EvidenceOutbox, TLC

CONSTANTS e1, e2, i1, i2, w1, w2

OneEvent == {e1}
TwoEvents == {e1, e2}
OneIdentity == {i1}
TwoIdentities == {i1, i2}
TwoWorkers == {w1, w2}

Symmetry == Permutations(Workers) \cup Permutations(Identities) \cup Permutations(EventIds)
=============================================================================
