---- MODULE Backtest ----
(***************************************************************************)
(* A back-test: backtesting/engine.py over bars that come one at a time,   *)
(* driven by any executor of signals or by the one that                    *)
(* services/strategy_backtest_service.py makes of a parsed strategy.       *)
(* Everything happens within one call of run, one step per bar; ratios of  *)
(* the metrics (Sharpe, Sortino, per cent) are left out.                   *)
(***************************************************************************)
EXTENDS Integers, Sequences, Functions

CONSTANTS
    ClosePrices,
    Sizes,             \* quantities that signals carry
    Slip,              \* slippage per unit
    RateOf,            \* commission per unit of value
    Funds,             \* initial_capital
    MaxLength          \* bound on the bars


VARIABLES
    phase,             \* "load", "bars", "done", "raised"
    executor,          \* who is asked for signals: anyone, or a parsed strategy
    position,          \* [quantity, entry_price], or none
    current_capital,
    curve,             \* the equity after each bar
    peak_capital, max_drawdown,
    done,              \* the trades: [entry, exit, quantity, pnl, commission]
    entryFees          \* history: commissions of the positions opened

bvars == <<phase, executor, position, current_capital, curve, peak_capital, max_drawdown,
           done, entryFees>>

Flat == [quantity |-> 0, entry_price |-> 0]
\* What a parsed strategy amounts to here: the one value of a bar meets no condition
\* but "price above VWAP" (no VWAP is computed, and 0 stands for it) and the empty list.
AnyExecutor == [position |-> "ANY", entry |-> "met"]
Parsed == [position : {"BUY", "SELL"}, entry : {"met", "unmet"}]

BacktestInit ==
    /\ phase = "load"
    /\ executor \in {AnyExecutor} \cup Parsed
    /\ position = Flat
    /\ current_capital = Funds /\ peak_capital = Funds
    /\ curve = <<>> /\ max_drawdown = 0 /\ done = <<>> /\ entryFees = 0

Commission(value) == value * RateOf
FillPrice(price, side) == IF side = "buy" THEN price + Slip ELSE price - Slip
Book == [capital |-> current_capital, position |-> position, trades |-> done, fees |-> entryFees]

\* Only the commission is taken out of the capital, and a position that is already
\* held is forgotten.
OpenPosition(b, quantity, price) ==
    LET fee == Commission(price * quantity) IN
    IF price * quantity + fee > b.capital THEN b
    ELSE [b EXCEPT !.capital = @ - fee, !.fees = @ + fee,
                   !.position = [quantity |-> quantity, entry_price |-> price]]

\* The whole value of the position comes back.
ClosePosition(b, price) ==
    LET quantity == b.position.quantity
        fee == Commission(price * quantity)
    IN  IF quantity = 0 THEN b
        ELSE [b EXCEPT !.capital = @ + price * quantity - fee, !.position = Flat,
                       !.trades = Append(@, [entry |-> b.position.entry_price, exit |-> price,
                            quantity |-> quantity, commission |-> fee,
                            pnl |-> (price - b.position.entry_price) * quantity - fee])]

HandleSignal(b, signal) ==
    CASE signal.type = "buy" -> OpenPosition(b, signal.quantity, FillPrice(signal.price, "buy"))
      [] signal.type = "sell" -> ClosePosition(b, FillPrice(signal.price, "sell"))
      [] OTHER -> b

NoSignal == [type |-> "none"]

\* _evaluate_strategy: an exit is tested against an entry price that no bar holds, so
\* none is ever signalled.
EvaluateStrategy(strategy, bar, held) ==
    IF held.quantity = 0 /\ strategy.entry = "met"
    THEN {[type |-> IF strategy.position = "BUY" THEN "buy" ELSE "sell",
           price |-> bar, quantity |-> 1]}
    ELSE {NoSignal}

SignalsFor(bar, held) ==
    IF executor = AnyExecutor
    THEN {NoSignal} \cup [type : {"buy", "sell", "close"}, price : {bar}, quantity : Sizes]
    ELSE EvaluateStrategy(executor, bar, held)

----
\* The four ways to run, and what becomes of them.  A comparison puts a list where a
\* coroutine is awaited, and the provider of a multi-asset run is given the symbol twice
\* (or, without data, cannot be awaited): both raise.  A walk-forward run has no
\* provider, and no bars in any of its windows.
RunBacktest == "bars"
RunComparison == "raised"
RunWalkForward == "done"
RunMultiAsset == "raised"

LoadData ==
    /\ phase = "load"
    /\ phase' \in {RunBacktest} \cup
          (IF executor = AnyExecutor THEN {RunComparison, RunWalkForward, RunMultiAsset} ELSE {})
    /\ UNCHANGED <<executor, position, current_capital, curve, peak_capital, max_drawdown,
                   done, entryFees>>

\* Mutant: only the first fall is looked at.
EquityLate(equity) ==
    /\ curve' = Append(curve, equity)
    /\ peak_capital' = IF equity > peak_capital THEN equity ELSE peak_capital
    /\ max_drawdown' = IF max_drawdown = 0 /\ peak_capital - equity > 0
                       THEN peak_capital - equity ELSE max_drawdown

UpdateEquity(equity) ==
    /\ curve' = Append(curve, equity)
    /\ peak_capital' = IF equity > peak_capital THEN equity ELSE peak_capital
    /\ max_drawdown' = IF peak_capital' - equity > max_drawdown
                       THEN peak_capital' - equity ELSE max_drawdown

Becomes(b) ==
    /\ current_capital' = b.capital
    /\ position' = b.position
    /\ done' = b.trades
    /\ entryFees' = b.fees

\* The equity is taken before the signal of the bar is acted upon.  After the last bar
\* run closes what is open, at the close and without slippage.
ProcessBar ==
    /\ phase = "bars" /\ Len(curve) < MaxLength
    /\ \E bar \in ClosePrices, last \in BOOLEAN :
         /\ UpdateEquity(current_capital
                + (bar - position.entry_price) * position.quantity)
         /\ \E signal \in SignalsFor(bar, position) :
              LET b == HandleSignal(Book, signal)
              IN  Becomes(IF last THEN ClosePosition(b, bar) ELSE b)
         /\ phase' = IF last THEN "done" ELSE "bars"
    /\ UNCHANGED executor

\* An executor that called stop ends the loop at the next bar, whose close is used.
Stop ==
    /\ phase = "bars" /\ executor = AnyExecutor /\ curve # <<>>
    /\ \E bar \in ClosePrices : Becomes(ClosePosition(Book, bar))
    /\ phase' = "done"
    /\ UNCHANGED <<executor, curve, peak_capital, max_drawdown>>

BacktestStep == LoadData \/ ProcessBar \/ Stop

BacktestSpec == BacktestInit /\ [][BacktestStep]_bvars

----
(* Properties. *)

\* What _calculate_metrics makes of the lists.
Total(Value(_)) == SumFunction([i \in DOMAIN done |-> Value(done[i])])
Gross(t) == (t.exit - t.entry) * t.quantity
Metrics ==
    [total_trades |-> Len(done),
     winning_trades |-> Len(SelectSeq(done, LAMBDA t : Gross(t) > 0)),
     gross_profit |-> Total(LAMBDA t : IF Gross(t) > 0 THEN Gross(t) ELSE 0),
     gross_loss |-> Total(LAMBDA t : IF Gross(t) > 0 THEN 0 ELSE -Gross(t)),
     total_commission |-> Total(LAMBDA t : t.commission),
     total_return |-> IF done = <<>> THEN 0 ELSE curve[Len(curve)] - Funds,
     max_drawdown |-> max_drawdown]

\* The metrics agree with the record they summarise, for every series of bars and
\* signals: the drawdown is the deepest fall of the curve below an earlier point or the
\* initial capital, the capital left is the initial one, the profits net of both
\* commissions, and the entry value of each closed position, which opening it never
\* took out.  And a parsed strategy trades at most once, a SELL never.
MetricsTrue ==
    LET point(i) == IF i = 0 THEN Funds ELSE curve[i]
    IN  /\ \A i \in 0..Len(curve) : \A k \in i..Len(curve) : point(i) - point(k) <= max_drawdown
        /\ \E i \in 0..Len(curve) : \E k \in i..Len(curve) : point(i) - point(k) = max_drawdown
        /\ current_capital = Funds - entryFees + Metrics.gross_profit - Metrics.gross_loss
             - Metrics.total_commission + Total(LAMBDA t : t.entry * t.quantity)
        /\ executor # AnyExecutor => Metrics.total_trades <= 1
        /\ executor # AnyExecutor /\ done # <<>> => executor.position = "BUY"
====
