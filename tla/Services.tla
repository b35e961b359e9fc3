---- MODULE Services ----
(***************************************************************************)
(* The engines and helpers that keep their state in memory (or, the rate   *)
(* limiter, in Redis).  None calls another, so a behaviour is one of one   *)
(* of them, the service; the others rest, and all of them when there is    *)
(* none.                                                                   *)
(***************************************************************************)
EXTENDS Integers, Sequences, FiniteSets

CONSTANTS
    Symbols, Prices, Quantities, Slippage, CommissionRate, InitialBalance, MaxTrades,
    NoPosition,                                     \* PaperEngine
    MockSymbols, MockPrices, MockQuantities, MockFunds, MaxFilled,
    Closes, Volumes, Period, Fast, Slow, Threshold, MinBars, Distances, Capital, RiskPercent,
    MaxBars,                                        \* Signals
    ClosePrices, Sizes, Slip, RateOf, Funds, MaxLength,                  \* Backtest
    Processes, Limit, Window, MaxCount,             \* RateLimiter
    Workers, Spacing, Timeout, MaxNow, MaxOrders,   \* OrderQueue
    Servers, Shares, Ttl, MaxTime,                  \* Market
    Sockets, Streamed, Brokers, NoSocket            \* Streaming

VARIABLES
    service,
    account, held, orders, unmatched,
    cash, positions, filled, vanished,
    bars,
    phase, executor, position, current_capital, peak_capital, curve, max_drawdown, done,
    entryFees,
    key, checking, verdict, admitted,
    queueTime, queue, count, lastSubmit, worker, lockQueue, taken,
    quoteTime, provider, cache, asking, reply,
    broker, running, current, subscribed, token, socket, wire, task, disconnecting,
    unsubscribed

engineVars == <<account, held, orders, unmatched>>
mockVars == <<cash, positions, filled, vanished>>
backtestVars == <<phase, executor, position, current_capital, peak_capital, curve,
                  max_drawdown, done, entryFees>>
rateVars == <<key, checking, verdict, admitted>>
queueVars == <<queueTime, queue, count, lastSubmit, worker, lockQueue, taken>>
marketVars == <<quoteTime, provider, cache, asking, reply>>
streamVars == <<broker, running, current, subscribed, token, socket, wire, task,
                disconnecting, unsubscribed>>

vars == <<service, engineVars, mockVars, bars, backtestVars, rateVars, queueVars, marketVars,
          streamVars>>

Engine == INSTANCE PaperEngine

Mock == INSTANCE MockBroker WITH
    Symbols <- MockSymbols, Prices <- MockPrices, Quantities <- MockQuantities,
    Funds <- MockFunds

Signal == INSTANCE Signals

Test == INSTANCE Backtest

Rate == INSTANCE RateLimiter WITH Workers <- Processes

Queue == INSTANCE OrderQueue WITH now <- queueTime

Quotes == INSTANCE Market WITH MaxNow <- MaxTime, now <- quoteTime

Stream == INSTANCE Streaming WITH Symbols <- Streamed

-----------------------------------------------------------------------------
(* What the constants have to be for the proofs.                            *)

\* The absence of a socket is none, and the absence of a position none.
ASSUME Absences ==
    /\ NoSocket \notin Sockets
    /\ NoPosition \notin [quantity : Int, cost : Int, realized_pnl : Int]

\* Periods are numbers of seconds.
ASSUME Periods == Ttl \in Nat /\ Spacing \in Nat /\ Timeout \in Nat /\ Window \in Nat

\* Symbols are finitely many, amounts are whole, and an order has a quantity.
ASSUME Amounts ==
    /\ IsFiniteSet(Symbols) /\ Quantities \subseteq Nat \ {0}
    /\ Prices \subseteq Int /\ Slippage \in Int /\ CommissionRate \in Int
    /\ InitialBalance \in Int

\* So are those of the portfolio.
ASSUME PortfolioAmounts ==
    /\ IsFiniteSet(MockSymbols) /\ MockQuantities \subseteq Int
    /\ MockPrices \subseteq Int /\ MockFunds \in Int

\* And those of a back-test.
ASSUME TestAmounts ==
    /\ ClosePrices \subseteq Int /\ Sizes \subseteq Int
    /\ Slip \in Int /\ RateOf \in Int /\ Funds \in Int

\* Bars have prices, a signal and an average need a bar, levels are whole, and percentages and
\* capital are no less than 0.
ASSUME Trading ==
    /\ Closes \subseteq Nat \ {0} /\ Volumes \subseteq Nat
    /\ Period \in Nat \ {0} /\ Fast \in Nat \ {0} /\ Slow \in Nat \ {0} /\ Threshold \in Int
    /\ MinBars \in Nat \ {0}
    /\ Distances \subseteq Nat /\ Capital \in Nat /\ RiskPercent \in Nat

\* Server processes are finitely many, and a limit admits somebody.
ASSUME Limits == IsFiniteSet(Processes) /\ Limit \in Nat \ {0}

-----------------------------------------------------------------------------
Services == {"none", "engine", "mock", "signals", "backtest", "rates", "queue", "market",
             "stream"}

\* A service that rests has one first state.
Init ==
    /\ service \in Services
    /\ Engine!EngineInit /\ Mock!MockInit /\ Signal!SignalInit /\ Test!BacktestInit
    /\ Rate!RateInit /\ Queue!QueueInit /\ Quotes!MarketInit /\ Stream!StreamInit
    /\ service # "backtest" => executor = Test!AnyExecutor
    /\ service # "stream" => broker = "kotak"

EngineWorks ==
    /\ service = "engine" /\ Engine!EngineStep
    /\ UNCHANGED <<service, mockVars, bars, backtestVars, rateVars, queueVars, marketVars,
                   streamVars>>

MockWorks ==
    /\ service = "mock" /\ Mock!MockStep
    /\ UNCHANGED <<service, engineVars, bars, backtestVars, rateVars, queueVars, marketVars,
                   streamVars>>

SignalsSeen ==
    /\ service = "signals" /\ Signal!NewBar
    /\ UNCHANGED <<service, engineVars, mockVars, backtestVars, rateVars, queueVars,
                   marketVars, streamVars>>

BacktestWorks ==
    /\ service = "backtest" /\ Test!BacktestStep
    /\ UNCHANGED <<service, engineVars, mockVars, bars, rateVars, queueVars, marketVars,
                   streamVars>>

RatesWork ==
    /\ service = "rates" /\ Rate!RateStep
    /\ UNCHANGED <<service, engineVars, mockVars, bars, backtestVars, queueVars, marketVars,
                   streamVars>>

QueueWorks ==
    /\ service = "queue" /\ Queue!QueueStep
    /\ UNCHANGED <<service, engineVars, mockVars, bars, backtestVars, rateVars, marketVars,
                   streamVars>>

MarketWorks ==
    /\ service = "market" /\ Quotes!MarketStep
    /\ UNCHANGED <<service, engineVars, mockVars, bars, backtestVars, rateVars, queueVars,
                   streamVars>>

StreamWorks ==
    /\ service = "stream" /\ Stream!StreamStep
    /\ UNCHANGED <<service, engineVars, mockVars, bars, backtestVars, rateVars, queueVars,
                   marketVars>>

Next ==
    \/ EngineWorks \/ MockWorks \/ SignalsSeen \/ BacktestWorks
    \/ RatesWork \/ QueueWorks \/ MarketWorks \/ StreamWorks

Spec == Init /\ [][Next]_vars /\ Stream!StreamFairness

-----------------------------------------------------------------------------
(* The properties of the services, which the run and the theorems name.     *)

\* The cash of the paper engine, that of the mock broker's portfolio and the capital of a
\* back-test are what their trades explain, the SELL without a position, the BUY that fails
\* half-way and the value that no position took out included.
CashAccounted == Engine!CashExplained /\ Mock!PortfolioExplained /\ Test!MetricsTrue

\* A finished bar's signals stay what they were when later bars come, and a crossing is
\* told of once, but for the bar that completes one of its averages.
SignalsSettle == Signal!NoRepaint /\ Signal!CrossesOnce

\* A signal's stop and target lie on either side of its price, and its size risks no
\* more than it may.
SignalsProtected == Signal!SignalsProtected

\* Neither concurrent requests nor concurrent workers exceed a rate by more than their
\* number explains.
RatesBounded == Rate!AdmittedBounded /\ Queue!QueuePaced

\* A quote that is answered from the cache was one of the last few seconds when the request
\* came, and is not overtaken while a provider is asked for others.
QuotesFresh == Quotes!QuotesFresh

\* A symbol that was taken back is not streamed on the current socket.
TakenBackIsGone == Stream!TakenBackIsGone

\* A stream that broke is there again, or was stopped, or was refused a token.
StreamsAgain == Stream!StreamsAgain
====
