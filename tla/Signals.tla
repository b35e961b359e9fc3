---- MODULE Signals ----
(***************************************************************************)
(* strategy_engine/executor.py: the indicators computed from the bars seen *)
(* so far, and the conditions of a parsed strategy on their last values.   *)
(* A condition is a record, its words taken from the text by the patterns  *)
(* of the code; values are fractions <<numerator, denominator>>, so that   *)
(* nothing is rounded.                                                     *)
(***************************************************************************)
EXTENDS Sequences, SequencesExt, FiniteSetsExt, Fractions

CONSTANTS
    Closes, Volumes,   \* what a bar may hold; high and low are the close
    Period, Fast, Slow,    \* of RSI and the averages: 14, 12 and 26 in the code
    Threshold,
    MinBars,           \* a signal needs that many, 20 in the code
    Distances,         \* the numbers of a strategy's stop and target
    Capital, RiskPercent,
    MaxBars            \* bound on the bars, in the guard

VARIABLE bars          \* the market: <<[close, volume], ...>>

SumOf(s) == FoldSeq(+, 0, s)
Series(length, Value(_)) == <<>> \o [i \in 1..length |-> Value(i)]

----
\* The indicators: each a sequence as long as the closes.

\* Mutant: the window ends one bar late.
SmaAhead(closes, period) ==
    Series(Len(closes), LAMBDA i :
        LET last == IF i < Len(closes) THEN i + 1 ELSE i
            first == Max({1, last - period + 1})
        IN  Fraction(SumOf(SubSeq(closes, first, last)), last - first + 1))

\* With too few closes, their mean throughout.
CalculateSma(closes, period) ==
    IF Len(closes) < period
    THEN Series(Len(closes), LAMBDA i : Fraction(SumOf(closes), Len(closes)))
    ELSE Series(Len(closes), LAMBDA i :
            LET first == Max({1, i - period + 1})
            IN  Fraction(SumOf(SubSeq(closes, first, i)), i - first + 1))

Ema(values, period) ==
    LET ema[i \in 1..Len(values)] ==
            IF i = 1 THEN values[1]
            ELSE LET last == ema[i - 1] IN
                 Fraction(2 * values[i][1] * last[2] + (period - 1) * last[1] * values[i][2],
                          (period + 1) * last[2] * values[i][2])
    IN  Series(Len(values), LAMBDA i : ema[i])

\* With too few values, the first one throughout.
CalculateEma(values, period) ==
    IF Len(values) < period THEN Series(Len(values), LAMBDA i : values[1])
    ELSE Ema(values, period)

\* The averages of the rises, or of the falls: the first covers the first "period" changes
\* and stands for all earlier bars; the bar that completes them averages its own change in a
\* second time.
Averages(closes, period, up) ==
    LET part(i) == Max({IF up THEN closes[i + 1] - closes[i] ELSE closes[i] - closes[i + 1], 0})
        avg[i \in 1..Len(closes)] ==
            IF i < period + 1 THEN Fraction(SumOf([k \in 1..period |-> part(k)]), period)
            ELSE Fraction(avg[i - 1][1] * (period - 1) + part(i - 1) * avg[i - 1][2],
                          period * avg[i - 1][2])
    IN  avg

CalculateRsi(closes, period) ==
    LET gains == Averages(closes, period, TRUE)
        losses == Averages(closes, period, FALSE)
        rsi(i) == LET gain == gains[i]  loss == losses[i]
                  IN  IF i = 1 THEN Whole(50)
                      ELSE IF loss[1] = 0 THEN Whole(100)
                      ELSE Fraction(100 * gain[1] * loss[2],
                                    gain[1] * loss[2] + loss[1] * gain[2])
    IN  IF Len(closes) < period + 1 THEN Series(Len(closes), LAMBDA i : Whole(50))
        ELSE Series(Len(closes), rsi)

CalculateVwap(data) ==
    LET upTo(i) == SubSeq(data, 1, i)
        volume(i) == SumOf([k \in 1..i |-> data[k].volume])
    IN  Series(Len(data), LAMBDA i :
            IF volume(i) = 0 THEN Whole(0)
            ELSE Fraction(SumOf([k \in 1..i |-> data[k].close * data[k].volume]), volume(i)))

CalculateMacd(values, fast, slow, signal) ==
    LET quick == CalculateEma(values, fast)
        late == CalculateEma(values, slow)
        line == Series(Len(values), LAMBDA i : Minus(quick[i], late[i]))
    IN  [line |-> line, signal |-> CalculateEma(line, signal)]

CalculateAll(data) ==
    LET closes == [i \in DOMAIN data |-> data[i].close]
        values == [i \in DOMAIN data |-> Whole(data[i].close)]
        macd == CalculateMacd(values, Fast, Slow, Fast)
    IN  [close |-> values, rsi |-> CalculateRsi(closes, Period),
         ema |-> [p \in {Fast, Slow} |-> CalculateEma(values, p)],
         sma |-> [p \in {Fast, Slow} |-> CalculateSma(closes, p)],
         vwap |-> CalculateVwap(data), macd |-> macd.line, macd_signal |-> macd.signal]

----
\* The conditions.  A condition names an indicator, an operator, and a value or a
\* second average.

Now(s) == s[Len(s)]
Before(s) == s[Len(s) - 1]

\* Mutant: the value before is not looked at.
CrossesNow(values, others, up) ==
    IF up THEN AtMost(Now(others), Now(values)) ELSE AtMost(Now(values), Now(others))

\* From strictly one side of a level to the level or beyond.
CrossesLevel(values, others, up) ==
    IF up THEN Less(Before(values), Before(others)) /\ AtMost(Now(others), Now(values))
    ELSE Less(Before(others), Before(values)) /\ AtMost(Now(values), Now(others))

\* From the other side or the line itself to strictly beyond it.
CrossesLine(values, others, up) ==
    IF up THEN AtMost(Before(values), Before(others)) /\ Less(Now(others), Now(values))
    ELSE AtMost(Before(others), Before(values)) /\ Less(Now(values), Now(others))

Beyond(values, others, up) ==
    IF up THEN Less(Now(others), Now(values)) ELSE Less(Now(values), Now(others))

Level(values, n) == [i \in DOMAIN values |-> Whole(n)]

\* A condition given as a record {indicator, operator, value, period, period2}.
EvaluateDict(c, ind) ==
    LET values == CASE c.indicator = "rsi" -> ind.rsi
                    [] c.indicator = "ema" -> ind.ema[c.period]
                    [] c.indicator = "sma" -> ind.sma[c.period]
                    [] c.indicator = "vwap" -> ind.vwap
                    [] c.indicator = "macd" -> ind.macd
                    [] OTHER -> <<Now(ind.close)>>
    IN  /\ Len(values) >= 2
        /\ IF c.period2 = 0
           THEN IF c.crosses THEN CrossesLevel(values, Level(values, Threshold), c.up)
                ELSE Beyond(values, Level(values, Threshold), c.up)
           ELSE IF c.crosses THEN CrossesLine(values, ind.ema[c.period2], c.up)
                ELSE Beyond(values, ind.ema[c.period2], c.up)

EvaluateRsi(c, ind) ==
    IF c.crosses THEN CrossesLevel(ind.rsi, Level(ind.rsi, Threshold), c.up)
    ELSE Beyond(ind.rsi, Level(ind.rsi, Threshold), c.up)

\* An average that crosses above a second one is compared with itself for the bar
\* before, so that being above is enough.
EvaluateEma(c, ind) ==
    LET ema == ind.ema[c.period]
    IN  IF c.period2 = 0
        THEN IF c.crosses THEN CrossesLine(ind.close, ema, c.up) ELSE Beyond(ind.close, ema, c.up)
        ELSE IF c.crosses /\ ~c.up THEN CrossesLine(ema, ind.ema[c.period2], FALSE)
             ELSE Beyond(ema, ind.ema[c.period2], c.up)

\* Of an average alone, and of a crossing, only "above" and "below" are looked for.
EvaluateSma(c, ind) ==
    c.period2 # 0 /\ Beyond(ind.sma[c.period], ind.sma[c.period2], c.up)

\* "above" is found in "crosses above" too.
EvaluateVwap(c, ind) == Beyond(ind.close, ind.vwap, c.up)

EvaluateMacd(c, ind) == c.crosses /\ CrossesLine(ind.macd, ind.macd_signal, c.up)

\* The price is compared with today's VWAP on both bars.
EvaluatePrice(c, ind) ==
    c.crosses /\ CrossesLine(ind.close, [i \in DOMAIN ind.close |-> Now(ind.vwap)], c.up)

\* A condition given as text; the words decide who looks at it.
EvaluateString(c, ind) ==
    /\ Len(ind.close) >= 2 \/ c.indicator = "vwap"
    /\ CASE c.indicator = "rsi" -> EvaluateRsi(c, ind)
         [] c.indicator = "ema" -> EvaluateEma(c, ind)
         [] c.indicator = "sma" -> EvaluateSma(c, ind)
         [] c.indicator = "vwap" -> EvaluateVwap(c, ind)
         [] c.indicator = "macd" -> EvaluateMacd(c, ind)
         [] c.indicator = "volume" -> TRUE
         [] c.indicator = "price" -> EvaluatePrice(c, ind)

Evaluate(c, ind) == IF c.dict THEN EvaluateDict(c, ind) ELSE EvaluateString(c, ind)

----
\* The signal of a strategy [position, entry, stop, target]: "entry" is a set of
\* conditions, a stop or target is absent (0) or a figure with its unit.

NoSignal == [action |-> "none"]

\* A number counts as a percentage, points are not understood, and zero is as good as
\* nothing.
ParsePercentage(limit) == IF limit.unit = "points" THEN 0 ELSE limit.figure

\* Mutant: the stop of a sale is where that of a purchase would be.
MovedDown(position, price, percent) == Fraction(price * (100 - percent), 100)

\* Where the price is when it has gone that far against the position.
Against(position, price, percent) ==
    Fraction(price * (IF position = "BUY" THEN 100 - percent ELSE 100 + percent), 100)

InFavour(position, price, percent) == Against(position, price, -percent)

EvaluateConditions(strategy, ind, price) ==
    LET stop == ParsePercentage(strategy.stop)
        target == ParsePercentage(strategy.target)
    IN  IF strategy.entry # {} /\ \A c \in strategy.entry : Evaluate(c, ind)
        THEN [action |-> strategy.position, price |-> Whole(price), quantity |-> 1,
              stop |-> IF stop = 0 THEN Whole(0) ELSE Against(strategy.position, price, stop),
              target |-> IF target = 0 THEN Whole(0)
                         ELSE InFavour(strategy.position, price, target)]
        ELSE NoSignal

\* The market service of the code answers with objects, of which this reads none: there are
\* bars only with a service that answers with dictionaries.
FetchOhlcv(data, dictionaries) == IF dictionaries THEN data ELSE <<>>

GenerateSignal(strategy, data) ==
    IF Len(data) < MinBars THEN NoSignal
    ELSE EvaluateConditions(strategy, CalculateAll(data), Last(data).close)

Distance(a, b) == IF Less(a, b) THEN Minus(b, a) ELSE Minus(a, b)

\* As many as lose the risk amount when the stop is hit, at least one; without a stop as
\* many as the capital buys.  The first number may cost more than the capital.
CalculatePositionSize(price, stop) ==
    LET distance == Distance(price, stop)
    IN  IF stop # Whole(0) /\ stop # price
        THEN Max({1, (Capital * RiskPercent * distance[2]) \div (100 * distance[1])})
        ELSE Max({1, (Capital * price[2]) \div price[1]})

ExecuteStrategy(strategy, data) ==
    LET signal == GenerateSignal(strategy, data)
    IN  IF signal = NoSignal THEN NoSignal
        ELSE [signal EXCEPT !.quantity = CalculatePositionSize(signal.price, signal.stop)]

----
SignalInit == bars = <<>>

NewBar ==
    /\ Len(bars) < MaxBars
    /\ \E close \in Closes, volume \in Volumes :
         bars' = Append(bars, [close |-> close, volume |-> volume])

SignalSpec == SignalInit /\ [][NewBar]_bars

----
(* Properties. *)

CloseOf(data) == [i \in DOMAIN data |-> data[i].close]
ValueOf(data) == [i \in DOMAIN data |-> Whole(data[i].close)]

\* An indicator does not repaint: once there are enough bars for it, a new bar leaves
\* the values of all earlier ones as they were.  (RSI may still change before its
\* first "period" changes, where one average stands for all bars.)
ValuesKept(data, more) ==
    LET old == CloseOf(data)  new == CloseOf(more)
    IN  /\ \A p \in {Fast, Slow} : Len(old) >= p =>
             /\ IsPrefix(CalculateSma(old, p), CalculateSma(new, p))
             /\ IsPrefix(CalculateEma(ValueOf(data), p), CalculateEma(ValueOf(more), p))
        /\ \A i \in Period + 1 .. Len(old) :
             CalculateRsi(old, Period)[i] = CalculateRsi(new, Period)[i]
        /\ IsPrefix(CalculateVwap(data), CalculateVwap(more))

NoRepaint == [][ValuesKept(bars, bars')]_bars

\* The conditions whose crossing looks at the bar before: not those on VWAP in text,
\* nor an average that crosses above a second one in text.
Crossings ==
    {c \in [dict : BOOLEAN, indicator : {"rsi", "ema", "sma", "vwap", "macd"}, crosses : {TRUE},
            up : BOOLEAN, period : {Fast}, period2 : {0, Slow}] :
       \/ c.indicator \in {"rsi", "macd"} /\ c.period2 = 0
       \/ c.indicator \in {"sma", "vwap"} /\ c.period2 = 0 /\ c.dict
       \/ c.indicator = "ema" /\ (c.period2 = 0 \/ c.dict \/ ~c.up)}

\* With too few bars for the longer of the averages it is about, a condition is decided
\* from the first value in its place; the bar that completes it changes all values before.
Completes(c, n) ==
    \/ c.indicator = "macd" /\ n = Max({Fast, Slow})
    \/ c.indicator = "ema" /\ ~(c.dict /\ c.period2 = 0) /\ n = Max({c.period, c.period2})

\* A crossing is an event of one bar: the same condition is not met at two bars in a row,
\* although the indicators are recomputed from all bars each time.  The bar that completes
\* an average of the condition is the exception: what was a crossing is told of again.
ToldOnce(data, more) ==
    LET old == CalculateAll(data)  new == CalculateAll(more)
    IN  \A c \in Crossings :
          data # <<>> /\ ~Completes(c, Len(more)) => ~(Evaluate(c, old) /\ Evaluate(c, new))

CrossesOnce == [][ToldOnce(bars, bars')]_bars

Limits == {[unit |-> unit, figure |-> n] : unit \in {"%", "points"}, n \in Distances}

\* A strategy that enters when the price crosses its average, with equal stop and target.
Protected(position, limit) ==
    [position |-> position, stop |-> limit, target |-> limit,
     entry |-> {[dict |-> FALSE, indicator |-> "ema", crosses |-> TRUE,
                 up |-> position = "BUY", period |-> Fast, period2 |-> 0]}]

\* A signal's order is protected as the strategy says: the stop on the losing side and
\* the target on the winning side of the price, and what is lost at the stop is at most
\* the share of the capital to be risked, unless that is a single share, or the stop is
\* the whole price below it: a stop at zero counts as none.
SignalsProtected ==
    \A position \in {"BUY", "SELL"}, limit \in Limits :
      \A signal \in {ExecuteStrategy(Protected(position, limit), FetchOhlcv(bars, TRUE))} :
      LET losing(a, b) == IF position = "BUY" THEN Less(a, b) ELSE Less(b, a)
      IN  signal # NoSignal /\ ParsePercentage(limit) # 0 =>
            /\ losing(signal.stop, signal.price)
            /\ losing(signal.price, signal.target)
            /\ \/ signal.quantity = 1
               \/ signal.stop = Whole(0)
               \/ AtMost(Times(signal.quantity, Distance(signal.price, signal.stop)),
                         Fraction(Capital * RiskPercent, 100))
====
