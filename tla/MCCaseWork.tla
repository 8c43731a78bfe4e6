------------------------------ MODULE MCCaseWork -----------------------------
(* Instances of CaseWork for TLC. *)
EXTENDS CaseWork, TLC

CONSTANTS r1, r2

TwoReports == {r1, r2}
OnePrivate == {r2}
NonePrivate == {}
=============================================================================
