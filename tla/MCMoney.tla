------------------------------- MODULE MCMoney --------------------------------
(***************************************************************************)
(* Settlement, price comparisons and fund reports for TLC.  The components *)
(* share no state, so they are checked side by side: "part" names the one  *)
(* that runs while the others stay where they start.                       *)
(***************************************************************************)
EXTENDS SettlementLedger, PriceComparison, FundReporting, TLC

CONSTANTS p1, p2, d1, lift, hall, t1, t2

VARIABLE part

TwoProposals == {p1, p2}
OneStandalone == {p1}
OneDocument == {d1}
TwoAmounts == {3, 5}

TwoTabs == {t1, t2}
TwoCases == {lift, hall}
BothLifts == (lift :> "ELEVATOR" @@ hall :> "ELEVATOR")
ElevatorBand == ("ELEVATOR" :> [min |-> 5, central |-> 8, max |-> 9])

(* 7 is a tie of the rounding against the reference band. *)
TypedValues == {4, 7, 9, 11}

Answer(e, v, r, lo, mid, hi) ==
    [endpoint |-> e, envelope |-> v, reasoning |-> r,
     band |-> [min |-> lo, central |-> mid, max |-> hi]]
SomeAnswers ==
    {Answer("usable", "none", "none", 0, 0, 0),
     Answer("usable", "plain", "sentence", 3, 7, 7),
     Answer("usable", "fenced", "sentence", 8, 7, 9),
     Answer("usable", "fenced", "sentence", 0, 7, 9),
     Answer("usable", "plain", "empty", 2, 7, 9),
     Answer("usable", "refusal", "sentence", 1, 7, 9),
     Answer("unset", "none", "none", 0, 0, 0)}

TwoRanges == {2, 3}
FlowValues == {1, 3}

(* Two managers with two cases, each typing 4 or 9; the provider answers. *)
Forms ==
    /\ \A t \in Tabs : tab'[t].amount \in {0, 4, 9}
    /\ \A i \in DOMAIN predictions' : predictions'[i].source = "predicted"
    /\ \A c \in Cases : \A n \in DOMAIN versions'[c] : versions'[c][n].amount \in {4, 9}

(* One manager with one case, up to the first comparison: every amount     *)
(* against every answer.                                                   *)
Readings ==
    /\ tab'[t2] = tab[t2]
    /\ tab'[t1].case /= hall
    /\ Len(predictions') <= 1
    /\ \A c \in Cases : Len(versions'[c]) <= 1

Parts == {"settlement", "forms", "readings", "fund"}

MoneyInit ==
    /\ part \in Parts
    /\ Init /\ PriceInit /\ FundInit

MoneyNext ==
    /\ UNCHANGED part
    /\ \/ /\ part = "settlement"
          /\ Next
          /\ UNCHANGED <<priceVars, reportVars>>
       \/ /\ part = "forms"
          /\ PriceNext /\ Forms
          /\ UNCHANGED <<vars, reportVars>>
       \/ /\ part = "readings"
          /\ PriceNext /\ Readings
          /\ UNCHANGED <<vars, reportVars>>
       \/ /\ part = "fund"
          /\ FundNext
          /\ UNCHANGED <<vars, priceVars>>

MoneySpec == MoneyInit /\ [][MoneyNext]_<<part, vars, priceVars, reportVars>>

-----------------------------------------------------------------------------
(* What the fund pages draw is the fund (ReportsAgree, for the reports of  *)
(* fund_series_from_entries, fund_month_calendar_from_entries and          *)
(* fund_period_flows), asked only while the fund runs: computing its       *)
(* charts again in the other parts' states would show nothing new.         *)
FundReportsAgree == part = "fund" => ReportsAgree
=============================================================================
