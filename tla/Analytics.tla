---- MODULE Analytics ----
(***************************************************************************)
(* backtesting/analytics.py: the figures drawn from the trades and the     *)
(* equity curve it is given.  A back-test keeps the curve by the bar and   *)
(* counts open positions in it (Backtest), so nothing ties the two.        *)
(* Amounts are whole numbers, rates are fractions, times are hours; ratios *)
(* with roots and percentiles and the text of the report are left out.     *)
(***************************************************************************)
EXTENDS FiniteSetsExt, SequencesExt, Fractions

CONSTANTS
    Results,           \* trades of one share: [symbol, entry, exit, entered, left], entered <= left
    Equities,          \* values of the curve: above 0, as a return is a part of one
    InitialCapital,
    MaxResults         \* bound on trades and points of the curve, in the guards

VARIABLES
    results,           \* the trades, in the order they were closed
    equity_curve       \* one value for each bar

anvars == <<results, equity_curve>>

Pnl(trade) == trade.exit - trade.entry
Profits == [i \in DOMAIN results |-> Pnl(results[i])]

\* Some of a list of numbers are the positions that they are at.
Total(s, some) == SumFunctionOnSet(s, some)
Winning(s) == {i \in DOMAIN s : s[i] > 0}
Losing(s) == {i \in DOMAIN s : s[i] < 0}
Values(s, some) == {s[i] : i \in some}
Mean(s, some) == IF some = {} THEN Whole(0) ELSE Fraction(Total(s, some), Cardinality(some))

AnalyzeProfit(profits) ==
    LET winning == Winning(profits)  losing == Losing(profits)
        gained == Total(profits, winning)  lost == Total(profits, losing)
    IN  [total_profit |-> gained, total_loss |-> lost,
         net_profit |-> Total(profits, DOMAIN profits),
         expectancy |-> Mean(profits, DOMAIN profits),
         avg_profit_per_trade |-> Mean(profits, winning),
         avg_loss_per_trade |-> Mean(profits, losing),
         best_trade |-> Max({0} \cup Values(profits, winning)),
         worst_trade |-> Min({0} \cup Values(profits, losing)),
         profit_margin |-> IF winning = {} THEN Whole(0)
             ELSE Fraction(100 * (gained + lost), gained)]

PercentOf(part, whole) == IF whole > 0 THEN Fraction(100 * part, whole) ELSE Whole(0)

Drawdown0(equity) ==
    [peak |-> equity, drops |-> FALSE, start |-> 0, depth |-> 0, percent |-> Whole(0),
     periods |-> <<>>]

\* Mutant: the depth starts anew with each period.
DepthOfPeriod(d, i, equity) ==
    IF equity > d.peak
    THEN [d EXCEPT !.peak = equity, !.drops = FALSE, !.depth = 0,
                   !.periods = IF d.drops
                        THEN Append(@, [start |-> d.start, end |-> i, depth |-> d.depth]) ELSE @]
    ELSE [d EXCEPT !.drops = TRUE, !.depth = Max({@, d.peak - equity})]

\* A new peak ends a period; any other value, the first included, is in one.  The count of
\* the days in drawdown is never set back, so that every period has the start of the first;
\* its depth is the greatest so far, its percentage that of the deepest fall.
DrawdownStep(d, i, equity) ==
    IF equity > d.peak
    THEN [d EXCEPT !.peak = equity, !.drops = FALSE,
                   !.periods = IF d.drops
                        THEN Append(@, [start |-> d.start, end |-> i, depth |-> d.depth]) ELSE @]
    ELSE [d EXCEPT !.drops = TRUE,
                   !.start = IF @ = 0 THEN i ELSE @,
                   !.depth = Max({@, d.peak - equity}),
                   !.percent = IF d.peak - equity > d.depth
                               THEN PercentOf(d.peak - equity, d.peak) ELSE @]

NoDrawdown ==
    [max_drawdown |-> 0, max_drawdown_pct |-> Whole(0), current_drawdown |-> 0,
     drawdown_periods |-> <<>>, longest_recovery_days |-> 0]

AnalyzeDrawdown(equity) ==
    IF equity = <<>> THEN NoDrawdown ELSE
    LET d[i \in 0 .. Len(equity)] ==
            IF i = 0 THEN Drawdown0(equity[1]) ELSE DrawdownStep(d[i - 1], i, equity[i])
        last == d[Len(equity)]
        recoveries == {last.periods[k].end - last.periods[k].start : k \in DOMAIN last.periods}
    IN  [max_drawdown |-> last.depth, max_drawdown_pct |-> last.percent,
         current_drawdown |-> last.peak - Last(equity), drawdown_periods |-> last.periods,
         longest_recovery_days |-> Max({0} \cup recoveries)]

Sorted(s, some) ==
    CHOOSE order \in [1 .. Cardinality(some) -> some] :
      \A i, j \in 1 .. Cardinality(some) :
        i < j => order[i] # order[j] /\ s[order[i]] <= s[order[j]]

\* The median is the upper one of the two in the middle.
Distribution(s, some) ==
    IF some = {} THEN {}
    ELSE {[min |-> Min(Values(s, some)), max |-> Max(Values(s, some)), avg |-> Mean(s, some),
           median |-> s[Sorted(s, some)[Cardinality(some) \div 2 + 1]]]}

Kind(pnl) == IF pnl > 0 THEN "win" ELSE IF pnl < 0 THEN "loss" ELSE "breakeven"

\* The longest run of wins is taken from the runs of all kinds, and so is that of losses;
\* without a win, or without a loss, the maximum is one of nothing and raises.
AnalyzeWinRate(s) ==
    LET streak[i \in 0 .. Len(s)] ==
            IF i = 0 THEN 0
            ELSE IF i > 1 /\ Kind(s[i]) = Kind(s[i - 1]) THEN streak[i - 1] + 1 ELSE 1
        longest == Max({streak[i] : i \in 0 .. Len(s)})
    IN  [total_trades |-> Len(s), current_streak |-> streak[Len(s)],
         winning_trades |-> Cardinality(Winning(s)), losing_trades |-> Cardinality(Losing(s)),
         win_rate |-> PercentOf(Cardinality(Winning(s)), Len(s)),
         max_consecutive_wins |-> longest, max_consecutive_losses |-> longest,
         win_distribution |-> Distribution(s, Winning(s)),
         loss_distribution |-> Distribution(s, Losing(s))]

GetMaxDrawdownPct(equity) ==
    LET peak(i) == Max({equity[k] : k \in 1..i})
        fall == {PercentOf(peak(i) - equity[i], peak(i)) : i \in DOMAIN equity}
    IN  CHOOSE f \in fall : \A g \in fall : AtMost(g, f)

\* The sum of the gains over that of the losses, of the returns from bar to bar.
AnalyzeRisk(equity) ==
    LET return(i) == Fraction(equity[i + 1] - equity[i], equity[i])
        steps == 1 .. Len(equity) - 1
        sum(S) == FoldSet(LAMBDA i, t : Plus(return(i), t), Whole(0), S)
        gains == sum({i \in steps : return(i)[1] > 0})
        losses == sum({i \in steps : return(i)[1] < 0})
    IN  [omega_ratio |-> IF losses = Whole(0) THEN Whole(0)
                         ELSE Fraction(gains[1] * losses[2], -(gains[2] * losses[1])),
         max_drawdown_pct |-> IF steps = {} THEN Whole(0) ELSE GetMaxDrawdownPct(equity)]

\* How often each key occurs.
CountBy(keys) == [k \in ToSet(keys) |-> Cardinality({i \in DOMAIN keys : keys[i] = k})]

\* Sorting keeps the order of equals, downwards too: the first of them comes first.
\* The lowest entry price is the worst entry and the highest the best, though a buyer
\* would say it the other way round.
AnalyzeTradeHistory(trades) ==
    LET hours == [i \in DOMAIN trades |-> trades[i].left - trades[i].entered]
        before(price, i, j) == price[i] < price[j] \/ (price[i] = price[j] /\ i < j)
        first(price) == CHOOSE i \in DOMAIN trades :
                          \A j \in DOMAIN trades \ {i} : before(price, i, j)
        last(price) == CHOOSE i \in DOMAIN trades :
                         \A j \in DOMAIN trades \ {i} : before(price, j, i)
        entry == [i \in DOMAIN trades |-> trades[i].entry]
        fall == [i \in DOMAIN trades |-> -trades[i].exit]
    IN  [avg_trade_duration_hours |-> Mean(hours, DOMAIN hours),
         longest_trade_hours |-> Max(ToSet(hours)),
         shortest_trade_hours |-> Min(ToSet(hours)),
         trades_by_hour |-> CountBy([i \in DOMAIN trades |-> trades[i].entered % 24]),
         trades_by_day |-> CountBy([i \in DOMAIN trades |-> (trades[i].entered \div 24) % 7]),
         trades_by_symbol |-> CountBy([i \in DOMAIN trades |-> trades[i].symbol]),
         worst_entry |-> trades[first(entry)], best_entry |-> trades[last(entry)],
         best_exit |-> trades[first(fall)], worst_exit |-> trades[last(fall)]]

Raised == [raised |-> TRUE]

Generate ==
    IF results # <<>> /\ (Winning(Profits) = {} \/ Losing(Profits) = {}) THEN Raised
    ELSE [raised |-> FALSE,
          total_return |-> IF equity_curve = <<>> THEN 0 ELSE Last(equity_curve) - InitialCapital,
          profit |-> AnalyzeProfit(Profits), drawdown |-> AnalyzeDrawdown(equity_curve),
          win_rate |-> AnalyzeWinRate(Profits), risk |-> AnalyzeRisk(equity_curve),
          trades |-> IF results = <<>> THEN {} ELSE {AnalyzeTradeHistory(results)}]

----
AnalyticsInit == results = <<>> /\ equity_curve = <<>>

TradeClosed ==
    /\ Len(results) + Len(equity_curve) < MaxResults
    /\ \E trade \in Results : results' = Append(results, trade)
    /\ UNCHANGED equity_curve

EquityTaken ==
    /\ Len(results) + Len(equity_curve) < MaxResults
    /\ \E equity \in Equities : equity_curve' = Append(equity_curve, equity)
    /\ UNCHANGED results

AnalyticsStep == TradeClosed \/ EquityTaken

AnalyticsSpec == AnalyticsInit /\ [][AnalyticsStep]_anvars

----
(* Properties. *)

\* The figures agree with each other and with what they are of: the profit with what was
\* gained and lost, the return and the drawdown at the end with the peak, the drawdown with
\* the greatest fall between two points, its percentage with that of the risk figures (which
\* look for the greatest percentage, not for that of the greatest fall), each period with a
\* recovery to a new peak.  What is reported as the longest run of wins, and as that of
\* losses, is for both the longest run of trades of one kind, whichever it is: no run of wins
\* is longer, but there need be none as long.
AnalyticsAgree ==
    LET g == Generate
        e == equity_curve
        longest == g.win_rate.max_consecutive_wins
        alike(i, j) == \A k \in i..j : Kind(Profits[k]) = Kind(Profits[i])
        newPeak(i) == i > 1 /\ \A k \in 1 .. i - 1 : e[k] < e[i]
        falls == UNION {{e[i] - e[j] : j \in i .. Len(e)} : i \in DOMAIN e}
    IN  ~g.raised =>
        /\ g.profit.net_profit = g.profit.total_profit + g.profit.total_loss
        /\ e # <<>> =>
             g.total_return + g.drawdown.current_drawdown = Max(ToSet(e)) - InitialCapital
        /\ g.drawdown.max_drawdown = Max({0} \cup falls)
        /\ AtMost(g.drawdown.max_drawdown_pct, g.risk.max_drawdown_pct)
        /\ {g.drawdown.drawdown_periods[k].end : k \in DOMAIN g.drawdown.drawdown_periods}
             = {i \in DOMAIN e : newPeak(i) /\ ~newPeak(i - 1)}
        /\ g.win_rate.max_consecutive_losses = longest
        /\ \A i, j \in DOMAIN results : alike(i, j) => j - i + 1 <= longest
        /\ results # <<>> =>
             \E i, j \in DOMAIN results : alike(i, j) /\ j - i + 1 = longest

\* The history of the trades agrees with the profits: each grouping counts every trade
\* once, no trade earns more than from the lowest entry to the highest exit, and the
\* median of the wins, and of the losses, has at most half of them on either side.
HistoryAgrees ==
    LET g == Generate
        counted(by) == SumFunction(by)
        halved(d, some) ==
            /\ 2 * Cardinality({i \in some : Profits[i] < d.median}) <= Cardinality(some)
            /\ 2 * Cardinality({i \in some : Profits[i] > d.median}) <= Cardinality(some)
            /\ AtMost(Whole(d.min), d.avg) /\ AtMost(d.avg, Whole(d.max))
    IN  ~g.raised =>
        /\ \A h \in g.trades :
             /\ counted(h.trades_by_hour) = Len(results)
             /\ counted(h.trades_by_day) = Len(results)
             /\ counted(h.trades_by_symbol) = Len(results)
             /\ AtMost(Whole(h.shortest_trade_hours), h.avg_trade_duration_hours)
             /\ AtMost(h.avg_trade_duration_hours, Whole(h.longest_trade_hours))
             /\ \A i \in DOMAIN results : Profits[i] <= h.best_exit.exit - h.worst_entry.entry
        /\ \A d \in g.win_rate.win_distribution : halved(d, Winning(Profits))
        /\ \A d \in g.win_rate.loss_distribution : halved(d, Losing(Profits))
====
