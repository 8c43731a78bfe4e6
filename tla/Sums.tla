-------------------------------- MODULE Sums ----------------------------------
(***************************************************************************)
(* Sums over finite sets.  The community modules' MapThenSumSet takes an   *)
(* operator; SumOver takes a function, so that a fact about sums can be    *)
(* stated once for all functions and cited where it is needed.             *)
(***************************************************************************)
EXTENDS Integers, FiniteSetsExt

(* The sum of f[x] for the elements x of S. *)
SumOver(f, S) == MapThenSumSet(LAMBDA x : f[x], S)
=============================================================================
