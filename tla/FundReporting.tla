---------------------------- MODULE FundReporting -----------------------------
(***************************************************************************)
(* What the fund pages and the resident app say about the maintenance      *)
(* fund: the balance chart, the calendar of the month, the flows of the    *)
(* trailing period (lamto/finance/selectors.py, lamto/web/views/fund.py).  *)
(*                                                                         *)
(* A source keeps the moment of its recording and counts only from the     *)
(* later moment somebody verifies it: a report made on one day about an    *)
(* earlier one may be answered differently tomorrow.  An expense counts    *)
(* from its settlement, which publishes it in the same transaction.        *)
(*                                                                         *)
(* Time is counted in half days.  Buckets are days of the local calendar,  *)
(* seven hours ahead of the stored moments: the first half of a local day  *)
(* still belongs to the previous day in UTC.  Months have equal length.    *)
(***************************************************************************)
EXTENDS Integers, Sequences, FiniteSets, FiniteSetsExt, Sums

CONSTANTS
    FlowAmounts,  \* amounts recorded or settled
    DaysPerMonth,
    RecentDays,   \* points of the day chart, and days of the trailing period
    MonthRanges,  \* points of the month charts
    Start,        \* the first moment
    MaxMoment,    \* bound on time
    MaxRows       \* bound on fund rows

ASSUME AmountAssumption == \A a \in FlowAmounts : a \in Nat /\ a > 0
ASSUME CalendarAssumption ==
    /\ DaysPerMonth \in Nat /\ DaysPerMonth > 0
    /\ RecentDays \in Nat /\ RecentDays > 0
    /\ \A k \in MonthRanges : k \in Nat /\ k > 0
ASSUME FundBoundAssumption ==
    Start \in Nat /\ MaxMoment \in Nat /\ Start <= MaxMoment /\ MaxRows \in Nat

VARIABLES
    now,
    rows  \* sources recorded and settlements made, in order

reportVars == <<now, rows>>

FundTypeOK ==
    /\ now \in Start .. MaxMoment
    /\ Len(rows) <= MaxRows
    /\ \A i \in DOMAIN rows :
          /\ rows[i].kind \in {"source", "outflow"}
          /\ rows[i].amount \in FlowAmounts \cup {-a : a \in FlowAmounts}
          /\ (rows[i].kind = "source") <=> (rows[i].amount > 0)
          /\ rows[i].at \in Start .. now
          /\ rows[i].done \in BOOLEAN

FundInit == now = Start /\ rows = <<>>

-----------------------------------------------------------------------------
(* Recording and confirming. *)

Tick == now < MaxMoment /\ now' = now + 1 /\ UNCHANGED rows

Add(kind, amount, at, done) ==
    /\ Len(rows) < MaxRows
    /\ rows' = Append(rows, [kind |-> kind, amount |-> amount, at |-> at, done |-> done])
    /\ UNCHANGED now

(* record_fund_source: counted once it is verified. *)
RecordSource(amount) == Add("source", amount, now, FALSE)

(* record_settlement, with the outflow and the ledger entry it writes. *)
Settle(amount) == Add("outflow", -amount, now, TRUE)

(* pending_fund_verification_entries *)
PendingVerification == {i \in DOMAIN rows : rows[i].kind = "source" /\ ~rows[i].done}

(* verify_fund_source *)
VerifySource(i) ==
    /\ i \in PendingVerification
    /\ rows' = [rows EXCEPT ![i].done = TRUE]
    /\ UNCHANGED now

FundNext ==
    \/ Tick
    \/ \E a \in FlowAmounts : RecordSource(a)
    \/ \E a \in FlowAmounts : Settle(a)
    \/ \E i \in DOMAIN rows : VerifySource(i)

FundSpec == FundInit /\ [][FundNext]_reportVars

-----------------------------------------------------------------------------
(* The selectors. *)

(* verified_fund_entries *)
Verified == {i \in DOMAIN rows : rows[i].done}

Total(S) == SumOver([i \in DOMAIN rows |-> rows[i].amount], S)

(* fund_balance *)
Balance == Total(Verified)

(* Mutated form: the day of the stored moment. *)
UtcDay(moment) == (moment - 1) \div 2

(* timezone.localtime(recorded_at).date() *)
LocalDay(moment) == moment \div 2

Today == LocalDay(now)
DayOf(i) == LocalDay(rows[i].at)
MonthStart(day) == DaysPerMonth * (day \div DaysPerMonth)

In(S) == Total({i \in S : rows[i].amount > 0})
Out(S) == Total({i \in S : rows[i].amount < 0})

(* fund_period_flows: the trailing period counts from this moment. *)
PeriodRows == {i \in Verified : rows[i].at >= now - 2 * RecentDays}

(* The buckets of a chart: the days of "30d", the months of the others. *)
DayStarts == [k \in 1 .. RecentDays |-> Today - RecentDays + k]
MonthStarts(months) ==
    [k \in 1 .. months |-> MonthStart(Today) - DaysPerMonth * (months - k)]

BucketOf(day, unit) == IF unit = "day" THEN day ELSE MonthStart(day)

(* fund_series_from_entries: what lies before the window opens the         *)
(* balance, each bucket adds its flows.                                    *)
Series(starts, unit) ==
    LET opening == Total({i \in Verified : DayOf(i) < starts[1]})
        inside(k) == {i \in Verified : DayOf(i) >= starts[1] /\ BucketOf(DayOf(i), unit) = starts[k]}
        sofar(k) == UNION {inside(j) : j \in 1 .. k}
    IN  [k \in DOMAIN starts |->
            [start |-> starts[k], inflows |-> In(inside(k)), outflows |-> Out(inside(k)),
             balance |-> opening + In(sofar(k)) + Out(sofar(k))]]

DayChart == Series(DayStarts, "day")
MonthChart(months) == Series(MonthStarts(months), "month")

(* fund_home: the figures above the chart. *)
WindowIn(chart) == SumOver([k \in DOMAIN chart |-> chart[k].inflows], DOMAIN chart)
WindowOut(chart) == SumOver([k \in DOMAIN chart |-> chart[k].outflows], DOMAIN chart)
Closing(chart) == chart[Len(chart)].balance
Opening(chart) == Closing(chart) - WindowIn(chart) - WindowOut(chart)

(* fund_month_calendar_from_entries *)
MonthRows == {i \in Verified : MonthStart(DayOf(i)) = MonthStart(Today)}
Spent(day) == -Out({i \in MonthRows : DayOf(i) = day})
MonthDays == MonthStart(Today) .. (MonthStart(Today) + DaysPerMonth - 1)
Peak == Max({0} \cup {Spent(d) : d \in MonthDays})

(* The shade of a day: a quarter of the peak, rounded up. *)
Level(day) ==
    IF Spent(day) = 0 THEN 0 ELSE Max({1, -((-4 * Spent(day)) \div Peak)})

(* The days as cells of weeks, padded on both sides; day 0 is a Monday. *)
Cells ==
    LET lead == MonthStart(Today) % 7
        len == lead + DaysPerMonth
        full == len + ((-len) % 7)
    IN  [n \in 1 .. full |-> IF n > lead /\ n <= len THEN MonthStart(Today) + n - lead - 1 ELSE -1]

-----------------------------------------------------------------------------
(* Properties *)

BalanceThrough(day) == Total({i \in Verified : DayOf(i) <= day})

Charts == {DayChart} \cup {MonthChart(k) : k \in MonthRanges}

(* Every chart closes at the verified balance, whatever the range          *)
(* (the promise of fund_series), and opens at what lay before it.          *)
ChartsCloseAtBalance ==
    \A c \in Charts :
        /\ Closing(c) = Balance
        /\ Opening(c) = BalanceThrough(c[1].start - 1)

(* Every point of the day chart is the balance of the rows dated through   *)
(* that day of the local calendar.                                         *)
PointsAreBalances ==
    \A k \in DOMAIN DayChart : DayChart[k].balance =
        Total({i \in Verified : rows[i].at < 2 * (DayChart[k].start + 1)})

(* The calendar and the month charts tell the same month.                  *)
CalendarAgrees ==
    \A n \in MonthRanges :
        LET c == MonthChart(n)
        IN  /\ c[Len(c)].inflows = In(MonthRows)
            /\ -c[Len(c)].outflows = SumOver([d \in MonthDays |-> Spent(d)], MonthDays)

(* Shades lie between 0 and 4, 0 only for a day without expense, 4 for the *)
(* dearest day, and a dearer day is never lighter.                         *)
ShadesRank ==
    \A d \in MonthDays :
        /\ Level(d) \in 0 .. 4
        /\ Level(d) = 0 <=> Spent(d) = 0
        /\ Spent(d) = Peak /\ Peak > 0 => Level(d) = 4
        /\ \A e \in MonthDays : Spent(d) <= Spent(e) => Level(d) <= Level(e)

(* Every day of the month has one cell, in the column of its weekday.      *)
CellsInWeeks ==
    /\ Len(Cells) % 7 = 0
    /\ \A d \in MonthDays :
          \E n \in DOMAIN Cells : Cells[n] = d /\ (n - 1) % 7 = d % 7

(* The trailing period holds everything the day chart shows, and at most   *)
(* the rest of the day before it.                                          *)
PeriodCoversChart ==
    LET before == {i \in Verified : DayOf(i) = Today - RecentDays}
    IN  /\ WindowIn(DayChart) <= In(PeriodRows)
        /\ In(PeriodRows) <= WindowIn(DayChart) + In(before)
        /\ Out(PeriodRows) <= WindowOut(DayChart)
        /\ WindowOut(DayChart) + Out(before) <= Out(PeriodRows)

(* What the fund pages and the app draw on any day is the fund: every      *)
(* chart, the calendar and the period agree with the verified rows         *)
(* (fund_series_from_entries, fund_month_calendar_from_entries,            *)
(* fund_period_flows).                                                     *)
ReportsAgree ==
    /\ FundTypeOK
    /\ ChartsCloseAtBalance /\ PointsAreBalances
    /\ CalendarAgrees /\ ShadesRank /\ CellsInWeeks
    /\ PeriodCoversChart
=============================================================================
