--------------------------- MODULE PriceComparison ---------------------------
(***************************************************************************)
(* The price comparison of a spending proposal: the band a provider        *)
(* predicts or the reference set supplies (lamto/finance/ai.py,            *)
(* lamto/finance/reference_prices.py), the prediction row every comparison *)
(* leaves behind (lamto/finance/predictions.py), and the publication that  *)
(* freezes one of those rows into the version residents read               *)
(* (lamto/finance/proposals.py).                                           *)
(*                                                                         *)
(* A comparison takes seconds, during which the form stays editable and    *)
(* can be submitted, other managers compare and publish, and the answer    *)
(* may never arrive.  The form carries the id of a prediction, never its   *)
(* figures.                                                                *)
(***************************************************************************)
EXTENDS Integers, Sequences, FiniteSets

CONSTANTS
    Tabs,                \* proposal forms open in browsers
    Cases,               \* maintenance cases of one building
    Category,            \* the category triage gave each case
    Reference,           \* the reference price set: category -> band
    Answers,             \* what asking the provider may come to
    TypedAmounts,        \* amounts a manager types
    None,
    MaxPredictions,      \* bound on prediction rows
    MaxComparedVersions  \* bound on the versions of one proposal

ASSUME CategoryAssumption == Cases \subseteq DOMAIN Category
Band == [min : Int, central : Int, max : Int]

ASSUME TypedAssumption == TypedAmounts \subseteq Nat
ASSUME AnswersAssumption == \A a \in Answers : a.band \in Band
ASSUME ReferenceAssumption ==
    \A k \in DOMAIN Reference :
        /\ Reference[k] \in Band
        /\ 0 < Reference[k].min
        /\ Reference[k].min <= Reference[k].central
        /\ Reference[k].central <= Reference[k].max
ASSUME PriceBoundAssumption == MaxPredictions \in Nat /\ MaxComparedVersions \in Nat

VARIABLES
    tab,          \* each form: its case, amount, prediction id and request
    predictions,  \* PricePrediction rows, in the order of their ids
    versions      \* the published versions of each case's proposal

priceVars == <<tab, predictions, versions>>

Closed == [case |-> None, amount |-> 0, id |-> 0, shown |-> {}, asked |-> 0, reply |-> 0]

PriceTypeOK ==
    /\ tab \in [Tabs -> [case : Cases \cup {None}, amount : TypedAmounts \cup {0},
                         id : 0 .. MaxPredictions, shown : SUBSET (1 .. MaxPredictions),
                         asked : TypedAmounts \cup {0}, reply : 0 .. MaxPredictions]]
    /\ Len(predictions) <= MaxPredictions
    /\ \A p \in DOMAIN predictions :
          /\ predictions[p].case \in Cases
          /\ predictions[p].amount \in TypedAmounts
          /\ predictions[p].source \in {"predicted", "fallback"}
          /\ predictions[p].version \in 0 .. MaxComparedVersions
    /\ \A c \in Cases : Len(versions[c]) <= MaxComparedVersions

PriceInit ==
    /\ tab = [t \in Tabs |-> Closed]
    /\ predictions = <<>>
    /\ versions = [c \in Cases |-> <<>>]

-----------------------------------------------------------------------------
(* The arithmetic. *)

(* _endpoint_url: without a usable URL, token and model nothing is sent. *)
Configured(answer) == answer.endpoint = "usable"

(* _extract_prediction: an envelope with an id whose message is no refusal *)
(* and holds one JSON object, with or without a fence around it.           *)
Extracted(answer) == answer.envelope \in {"plain", "fenced"}

(* _validate_response: positive integers, in order. *)
ValidBand(b) ==
    /\ 0 < b.min /\ 0 < b.central /\ 0 < b.max
    /\ b.min <= b.central /\ b.central <= b.max

Distance(x, y) == IF x < y THEN y - x ELSE x - y

(* Python's round: to the nearest integer, a tie to the even one. *)
RoundedQuotient(n, d) ==
    LET q == n \div d
        r == n % d
    IN  IF 2 * r < d \/ (2 * r = d /\ q % 2 = 0) THEN q ELSE q + 1

(* compare_price_against_band *)
Compare(b, amount) ==
    [position   |-> IF b.min <= amount /\ amount <= b.max THEN "within_range"
                    ELSE IF amount > b.max THEN "above_range" ELSE "below_range",
     direction  |-> IF amount > b.central THEN "above"
                    ELSE IF amount < b.central THEN "below" ELSE "equal",
     percentage |-> RoundedQuotient(100 * Distance(amount, b.central), b.central)]

Supported(c) == Category[c] \in DOMAIN Reference

(* get_price_band_for_case: anything that goes wrong with the provider is  *)
(* the reference band, marked as such.                                     *)
PriceBand(c, answer) ==
    IF /\ Configured(answer)
       /\ Extracted(answer)
       /\ ValidBand(answer.band) /\ answer.reasoning = "sentence"
    THEN [band |-> answer.band, source |-> "predicted"]
    ELSE [band |-> Reference[Category[c]], source |-> "fallback"]

(* The comparison shown of a prediction row: formatted_comparison. *)
Reading(p) == Compare(predictions[p].band, predictions[p].amount)

(* What the workspace and the app show of a version with prediction p: the *)
(* frozen reading, or nothing.                                             *)
VersionReading(p) ==
    IF p = 0 THEN None ELSE [reading |-> Reading(p), source |-> predictions[p].source]

-----------------------------------------------------------------------------
(* The form. *)

(* proposal_create, GET: a case whose proposal is published has no form. *)
OpenForm(t, c) ==
    /\ tab[t] = Closed
    /\ versions[c] = <<>>
    /\ tab' = [tab EXCEPT ![t].case = c]
    /\ UNCHANGED <<predictions, versions>>

(* Typing leaves the hidden prediction id as it is. *)
TypeAmount(t, a) ==
    /\ tab[t].case /= None
    /\ a /= tab[t].amount
    /\ tab' = [tab EXCEPT ![t].amount = a]
    /\ UNCHANGED <<predictions, versions>>

(* The compare button; it is disabled while a request is under way and     *)
(* sends nothing for a category without reference price.                   *)
AskCompare(t) ==
    /\ tab[t].case /= None /\ tab[t].asked = 0 /\ tab[t].reply = 0
    /\ tab[t].amount > 0
    /\ Supported(tab[t].case)
    /\ tab' = [tab EXCEPT ![t].asked = tab[t].amount]
    /\ UNCHANGED <<predictions, versions>>

(* evaluate_and_record_price_comparison, once the provider has answered. *)
RecordPrediction(t, answer) ==
    /\ tab[t].asked > 0
    /\ Len(predictions) < MaxPredictions
    /\ LET c == tab[t].case
           made == PriceBand(c, answer)
       IN  predictions' = Append(predictions,
               [case |-> c, category |-> Category[c], amount |-> tab[t].asked,
                band |-> made.band, source |-> made.source, version |-> 0])
    /\ tab' = [tab EXCEPT ![t].asked = 0, ![t].reply = Len(predictions) + 1]
    /\ UNCHANGED versions

(* The answer reaches the form. *)
ReceiveReply(t) ==
    /\ tab[t].reply > 0
    /\ tab' = [tab EXCEPT ![t].id = tab[t].reply, ![t].reply = 0,
                          ![t].shown = @ \cup {tab[t].reply}]
    /\ UNCHANGED <<predictions, versions>>

(* The connection breaks, before or after the row is written. *)
LoseReply(t) ==
    /\ tab[t].asked > 0 \/ tab[t].reply > 0
    /\ tab' = [tab EXCEPT ![t].asked = 0, ![t].reply = 0]
    /\ UNCHANGED <<predictions, versions>>

-----------------------------------------------------------------------------
(* Publication. *)

(* Mutated form: a changed amount does not make the prediction stale. *)
FitsStale(p, c, amount) ==
    p \in DOMAIN predictions /\ predictions[p].case = c /\ predictions[p].version = 0

(* The conditions under which the named prediction is attached. *)
Fits(p, c, amount) ==
    /\ p \in DOMAIN predictions
    /\ predictions[p].case = c
    /\ predictions[p].amount = amount
    /\ predictions[p].version = 0

(* The prediction a publication attaches, 0 for none. *)
Chosen(p, c, amount) == IF Fits(p, c, amount) THEN p ELSE 0

(* publish_proposal_version: the version is written, then the prediction   *)
(* is marked with it.  What its form showed and what the version reads now *)
(* are kept for the properties.                                            *)
FreezeVersion(c, amount, p, shown) ==
    /\ amount > 0
    /\ Len(versions[c]) < MaxComparedVersions
    /\ LET q == Chosen(p, c, amount)
       IN  /\ versions' = [versions EXCEPT ![c] = Append(@,
                              [amount |-> amount, prediction |-> q, shown |-> shown,
                               reading |-> VersionReading(q)])]
           /\ predictions' = IF q = 0 THEN predictions
                             ELSE [predictions EXCEPT ![q].version = Len(versions[c]) + 1]

(* proposal_create, POST.  The form of a case that somebody else published *)
(* meanwhile changes nothing: the view redirects, or create_proposal meets *)
(* the unique case.                                                        *)
SubmitForm(t) ==
    /\ tab[t].case /= None
    /\ tab' = [tab EXCEPT ![t] = Closed]
    /\ LET c == tab[t].case
       IN  IF versions[c] = <<>>
           THEN FreezeVersion(c, tab[t].amount, tab[t].id, tab[t].shown)
           ELSE UNCHANGED <<predictions, versions>>

(* Another version of a published proposal, naming any prediction. *)
Revise(c, amount, p) ==
    /\ versions[c] /= <<>>
    /\ FreezeVersion(c, amount, p, DOMAIN predictions)
    /\ UNCHANGED tab

PriceNext ==
    \/ \E t \in Tabs, c \in Cases : OpenForm(t, c)
    \/ \E t \in Tabs, a \in TypedAmounts : TypeAmount(t, a)
    \/ \E t \in Tabs : AskCompare(t)
    \/ \E t \in Tabs, answer \in Answers : RecordPrediction(t, answer)
    \/ \E t \in Tabs : ReceiveReply(t)
    \/ \E t \in Tabs : LoseReply(t)
    \/ \E t \in Tabs : SubmitForm(t)
    \/ \E c \in Cases, a \in TypedAmounts, p \in 0 .. MaxPredictions : Revise(c, a, p)

PriceSpec == PriceInit /\ [][PriceNext]_priceVars

-----------------------------------------------------------------------------
(* Properties *)

Attached == {a \in Cases \X (1 .. MaxComparedVersions) :
                a[2] \in DOMAIN versions[a[1]] /\ versions[a[1]][a[2]].prediction /= 0}

(* A comparison residents see was made for that very case and amount, and  *)
(* the row and the version point at each other, so that no prediction      *)
(* serves two versions (publish_proposal_version).                         *)
ComparisonFits ==
    \A a \in Attached :
        LET v == versions[a[1]][a[2]]
            p == predictions[v.prediction]
        IN  p.case = a[1] /\ p.amount = v.amount /\ p.version = a[2]

(* Every recorded band is positive and in order, and one that is marked as *)
(* predicted is the provider's, one that is not the reference band: the    *)
(* fallback is never silent (get_price_band_for_case).                     *)
BandSound ==
    \A p \in DOMAIN predictions :
        LET row == predictions[p]
        IN  /\ 0 < row.band.min
            /\ row.band.min <= row.band.central /\ row.band.central <= row.band.max
            /\ IF row.source = "fallback" THEN row.band = Reference[row.category]
               ELSE \E a \in Answers : Configured(a) /\ Extracted(a) /\ row.band = a.band

(* What the sentence says is true of the figures: an amount outside the    *)
(* band is on the side the arrow points to, and the percentage is within   *)
(* one half of the exact one (compare_price_against_band).                 *)
SentenceTrue ==
    \A p \in DOMAIN predictions :
        LET b == predictions[p].band
            a == predictions[p].amount
            r == Reading(p)
        IN  /\ r.position = "above_range" <=> a > b.max
            /\ r.position = "below_range" <=> a < b.min
            /\ r.direction = "above" <=> a > b.central
            /\ r.direction = "below" <=> a < b.central
            /\ 2 * Distance(100 * Distance(a, b.central), r.percentage * b.central) <= b.central

(* The frozen reading is the one the manager acted on: it was shown on the *)
(* form that published it.                                                 *)
FrozenWasShown ==
    \A a \in Attached : LET v == versions[a[1]][a[2]] IN v.prediction \in v.shown

(* A published version reads as it did when it was published: it never     *)
(* gains, loses or changes its comparison, whatever is compared later.     *)
ReadingFrozen ==
    \A c \in Cases : \A n \in DOMAIN versions[c] :
        versions[c][n].reading = VersionReading(versions[c][n].prediction)

(* What residents read next to the amount of a proposal: a comparison made *)
(* for that case and amount, shown to the manager who published it, frozen *)
(* since, sound, and marked when it is not the provider's                  *)
(* (publish_proposal_version, get_price_band_for_case).                    *)
ComparisonsHold ==
    PriceTypeOK /\ ComparisonFits /\ FrozenWasShown /\ ReadingFrozen /\ BandSound /\ SentenceTrue
=============================================================================
