---- MODULE Reports ----
(***************************************************************************)
(* services/report_service.py: the daily, monthly and yearly reports on a  *)
(* list of trades, and its overall figures.  A time is a tick of half a    *)
(* second: a day keeps its first tick and its last two, a month its days,  *)
(* a year its months.  Amounts are whole; roots and rates are left out.    *)
(***************************************************************************)
EXTENDS FiniteSetsExt, SequencesExt, Fractions

CONSTANTS
    Years, MonthsOfYear, DaysOfMonth,   \* numbers of each, counted from 0
    Profits,           \* the pnl of a trade
    Invested,          \* entry_price * quantity of a trade
    Entries, Exits,    \* ticks at which a trade begins, and at which it ends
    MaxTrades          \* bound on the trades, in the guard

VARIABLE recorded      \* ReportGenerator.trades: <<[entry, exit, pnl], ...>>

Day == 3
Month == Day * DaysOfMonth
Year == Month * MonthsOfYear
Open == -1             \* the exit_time of a trade that has none

DayOf(time) == time \div Day
MonthOf(time) == time \div Month
Dated(trade) == IF trade.exit = Open THEN trade.entry ELSE trade.exit

\* From the first tick to one second before the next period: without the last half second.
Within(time, start, length) == start <= time /\ time <= start + length - 2

\* The trades of a report are the positions they are recorded at.
PnlOf == [i \in DOMAIN recorded |-> recorded[i].pnl]
Sum(trades) == SumFunctionOnSet(PnlOf, trades)
Winning(trades) == {i \in trades : PnlOf[i] > 0}
Losing(trades) == {i \in trades : PnlOf[i] < 0}
Percent(part, whole) == IF whole = 0 THEN Whole(0) ELSE Fraction(100 * part, whole)
DateOf(i) == Dated(recorded[i])
DaysTraded(trades) == {DayOf(DateOf(i)) : i \in trades}

\* What every report has.
Report(trades) ==
    [total_trades |-> Cardinality(trades), winning_trades |-> Cardinality(Winning(trades)),
     losing_trades |-> Cardinality(Losing(trades)), total_pnl |-> Sum(trades),
     win_rate |-> Percent(Cardinality(Winning(trades)), Cardinality(trades)),
     total_pnl_percent |-> Percent(Sum(trades), Invested * Cardinality(trades))]

DailyReport(day) ==
    LET trades == {i \in DOMAIN recorded : DayOf(DateOf(i)) = day}
        pnl == {PnlOf[i] : i \in trades}
        mean(some) == IF some = {} THEN Whole(0) ELSE Fraction(Sum(some), Cardinality(some))
    IN  [overall |-> Report(trades),
         best_trade |-> IF trades = {} THEN 0 ELSE Max(pnl),
         worst_trade |-> IF trades = {} THEN 0 ELSE Min(pnl),
         avg_win |-> mean(Winning(trades)), avg_loss |-> mean(Losing(trades))]

TradesOf(month) == {i \in DOMAIN recorded : Within(DateOf(i), month * Month, Month)}

\* The daily reports are those of whole days, of which the month's own figures may lack the
\* last half second.
MonthlyReport(month) ==
    LET trades == TradesOf(month)
        days == DaysTraded(trades)
        pnl == {Sum({i \in trades : DayOf(DateOf(i)) = d}) : d \in days}
    IN  [overall |-> Report(trades),
         daily_reports |-> [d \in days |-> DailyReport(d)],
         best_day_pnl |-> IF days = {} THEN 0 ELSE Max(pnl),
         worst_day_pnl |-> IF days = {} THEN 0 ELSE Min(pnl),
         trading_days |-> Cardinality(days)]

YearlyReport(year) ==
    LET trades == {i \in DOMAIN recorded : Within(DateOf(i), year * Year, Year)}
        months == {MonthOf(DateOf(i)) : i \in trades}
    IN  [overall |-> Report(trades),
         monthly_reports |-> [m \in months |-> MonthlyReport(m)],
         trading_days |-> Cardinality({DayOf(recorded[i].entry) : i \in trades})]

\* In the order of the entries; those of one time in the order recorded.
Before(i, j) ==
    \/ recorded[i].entry < recorded[j].entry
    \/ recorded[i].entry = recorded[j].entry /\ i <= j

EquityCurve ==
    LET order == CHOOSE s \in [DOMAIN recorded -> DOMAIN recorded] :
                   \A i, j \in DOMAIN recorded : i < j => s[i] # s[j] /\ Before(s[i], s[j])
    IN  [i \in DOMAIN recorded |-> Sum({order[k] : k \in 1..i})]

\* The peak starts at the first value of the curve, not at zero.
MaxDrawdown(curve) ==
    LET peak[i \in DOMAIN curve] == IF i = 1 THEN curve[1] ELSE Max({peak[i - 1], curve[i]})
    IN  Max({0} \cup {peak[i] - curve[i] : i \in DOMAIN curve})

PerformanceMetrics ==
    LET all == DOMAIN recorded
    IN  [overall |-> Report(all),
         max_drawdown |-> MaxDrawdown(EquityCurve),
         profit_factor |-> IF Sum(Losing(all)) = 0 THEN Whole(0)
                           ELSE Fraction(Sum(Winning(all)), -Sum(Losing(all))),
         trading_days |-> Cardinality({DayOf(recorded[i].entry) : i \in all})]

----
ReportInit == recorded = <<>>

RecordTrade ==
    /\ Len(recorded) < MaxTrades
    /\ \E entry \in Entries, exit \in Exits \cup {Open}, pnl \in Profits :
         /\ exit = Open \/ entry <= exit
         /\ recorded' = Append(recorded, [entry |-> entry, exit |-> exit, pnl |-> pnl])

ReportSpec == ReportInit /\ [][RecordTrade]_recorded

----
(* Properties. *)

LastHalfSecond(length) ==
    Sum({i \in DOMAIN recorded : DateOf(i) % length = length - 1})

\* The reports agree with each other and with the trades: each trade is in one year and one
\* month, but for those of the last half second of it; in the months of a year are all of
\* its trades, in the days of a month all trades of those days; the only day is the best and
\* the worst.
ReportsAgree ==
    LET total(reports) == SumFunction([r \in DOMAIN reports |-> reports[r].overall.total_pnl])
        years == [y \in 0 .. Years - 1 |-> YearlyReport(y)]
        months == [m \in 0 .. Years * MonthsOfYear - 1 |-> MonthlyReport(m)]
        days == [d \in 0 .. Years * MonthsOfYear * DaysOfMonth - 1 |-> DailyReport(d)]
    IN  /\ total(days) = Sum(DOMAIN recorded)
        /\ total(months) = Sum(DOMAIN recorded) - LastHalfSecond(Month)
        /\ total(years) = Sum(DOMAIN recorded) - LastHalfSecond(Year)
        /\ \A y \in DOMAIN years : \A m \in DOMAIN months :
             m \div MonthsOfYear = y /\ months[m].overall.total_trades > 0 =>
                years[y].monthly_reports[m] = months[m]
        /\ \A m \in DOMAIN months :
             months[m].trading_days = 1 =>
                /\ months[m].best_day_pnl = months[m].overall.total_pnl
                /\ months[m].worst_day_pnl = months[m].overall.total_pnl

\* The drawdown reported is the greatest loss from one trade to a later one, in the order
\* of entries; a loss before the first trade's result does not count.
DrawdownTrue ==
    LET upTo(i) == Sum({j \in DOMAIN recorded : Before(j, i)})
        after(i) == {j \in DOMAIN recorded : Before(i, j)}
        losses == UNION {{upTo(i) - upTo(j) : j \in after(i)} : i \in DOMAIN recorded}
    IN  PerformanceMetrics.max_drawdown = Max({0} \cup losses)
====
