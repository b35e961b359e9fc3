---- MODULE Parser ----
(***************************************************************************)
(* strategy_engine/improved_parser.py: from the text of a strategy to its  *)
(* entry and exit conditions.  A text is a sequence of words in lower case *)
(* with "," "." and "%" as words of their own, "stoploss" as two words and *)
(* numbers from Numbers; it is written clause by clause.  A regular        *)
(* expression is a sequence of sets of words, of which one must stand at   *)
(* each place, or none if the set holds "".  Names, symbols, time frames   *)
(* and option details are left out, and the average a price is compared    *)
(* with: the readable form of a condition drops it.                        *)
(***************************************************************************)
EXTENDS Integers, Sequences, SequencesExt, FiniteSetsExt

CONSTANTS
    Clauses,           \* what may be written next: sequences of words
    Numbers,           \* the words that are numbers
    Ratios,            \* those that are ratios, as "2:1"
    MaxClauses         \* bound on a text, in the guard

VARIABLE clauses       \* the text, as the clauses written so far

Absent == [found |-> FALSE]

\* Where a match of the pattern that starts at i may end (one past it).
Ends(text, i, pattern) ==
    LET step(at, words) ==
            {e + 1 : e \in {e \in at : e <= Len(text) /\ text[e] \in words}}
            \cup (IF "" \in words THEN at ELSE {})
    IN  FoldLeft(step, {i}, pattern)

\* What a pattern matches, wherever it does.
Found(text, pattern) ==
    UNION {{SubSeq(text, i, e - 1) : e \in Ends(text, i, pattern)} : i \in DOMAIN text}
FoundAny(text, patterns) == UNION {Found(text, p) : p \in patterns}
Has(text, pattern) == Found(text, pattern) # {}
Mentions(text, words) == Range(text) \cap words # {}
Figures(match) == SelectSeq(match, LAMBDA w : w \in Numbers \cup Ratios)

\* Of patterns in order, the first that is found decides, and its first match.
FirstFigure(text, patterns) ==
    LET hits == {k \in DOMAIN patterns : Has(text, patterns[k][1])}
        chosen == patterns[Min(hits)]
        first == Min({i \in DOMAIN text : Ends(text, i, chosen[1]) # {}})
    IN  IF hits = {} THEN Absent
        ELSE [found |-> TRUE, unit |-> chosen[2],
              figures |-> Figures(SubSeq(text, first, Min(Ends(text, first, chosen[1])) - 1))]

\* "sl", "stl" and "stp" before a number are a stop loss; a word said twice is said once.
NormalizeText(text) ==
    LET expanded(i) == IF text[i] \in {"sl", "stl", "stp"} /\ i < Len(text) /\ text[i + 1] \in Numbers
                       THEN <<"stop", "loss">> ELSE <<text[i]>>
        kept(i) == IF i > 1 /\ text[i] = text[i - 1] THEN <<>> ELSE expanded(i)
    IN  FlattenSeq([i \in DOMAIN text |-> kept(i)])

----
\* The conditions of a section of the text, as the executor is told of them.
Condition(indicator, operator, args) ==
    [indicator |-> indicator, operator |-> operator, args |-> args]

N == Numbers
Above == {"above", "over"}
Below == {"below", "under"}

\* All of these count as a crossing upwards.
EmaCrossings(text) ==
    {Condition("ema_crossover", "crosses_above", Figures(m)) : m \in FoundAny(text,
        {<<N, {"ema"}, {"cross", "crosses"}, Above, N, {"ema"}>>,
         <<N, {"ema"}, {"cross", "crosses"}, N, {"ema"}>>,
         <<{"ema"}, N, {"cross", "crosses"}, Above, {"ema"}, N>>,
         <<{"cross", "crosses"}, {"above"}, N, {"ema"}, N>>,
         <<N, {"ema"}, {"goes", ""}, {"above"}, N, {"ema"}>>,
         <<{"crossover"}, N, Above, N>>})}

EmaOrder(text) ==
    {Condition("ema", "greater_than", Figures(m)) :
        m \in Found(text, <<N, {"ema"}, Above, N, {"ema"}>>)}

\* Also of two averages: any "above N ema" is the price's.
PriceConditions(text) ==
    {Condition("price", "crosses_above", <<>>) : m \in FoundAny(text,
        {<<{"above"}, N, {"ema"}>>,
         <<{"price"}, {"crosses", ""}, {"above"}, {"vwap"}>>, <<{"crosses"}, Above, {"vwap"}>>})}
    \cup
    {Condition("price", "crosses_below", <<>>) : m \in FoundAny(text,
        {<<{"below"}, N, {"ema"}>>, <<{"price"}, {"crosses", ""}, {"below"}, {"ema"}, N>>})}
    \cup
    {Condition("price", "breaks", <<>>) : m \in FoundAny(text, {<<{"price"}, {"breaks"}, {"previous"}>>})}

\* The first "price is above" or "below" decides of the two.
VwapConditions(text) ==
    LET compared == <<{"price"}, {"is", ""}, {"above", "below"}, {"vwap"}>>
        first == Min({i \in DOMAIN text : Ends(text, i, compared) # {}})
    IN  (IF Has(text, compared)
         THEN {Condition("vwap", IF "above" \in {text[first + 1], text[first + 2]}
                                 THEN "greater_than" ELSE "less_than", <<>>)}
         ELSE {})
        \cup {Condition("vwap", "greater_than", <<>>) : m \in Found(text, <<{"above"}, {"vwap"}>>)}

\* "crosses under" is taken for upwards; a bare number only at the end of the section.
RsiConditions(text) ==
    LET bare == Found(text, <<{"rsi"}, {"crosses", ""}, N>>)
        crossed == FoundAny(text, {<<{"rsi"}, {"crosses"}, Above \cup Below, N>>,
                                   <<{"rsi"}, {"crosses", ""}, N, Above \cup Below>>})
                   \cup {m \in bare : IsSuffix(m, text)}
        downward(m) == Mentions(m, {"below"}) \/ (Mentions(m, {"under"}) /\ ~Mentions(m, {"crosses"}))
    IN  {Condition("rsi", IF downward(m) THEN "crosses_below" ELSE "crosses_above", Figures(m)) :
            m \in crossed}
        \cup {Condition("rsi", "greater_than", Figures(m)) :
                m \in Found(text, <<{"rsi"}, {"is", ""}, Above, N>>)}
        \cup {Condition("rsi", "less_than", Figures(m)) :
                m \in Found(text, <<{"rsi"}, {"is", ""}, Below, N>>)}

SmaConditions(text) ==
    {Condition("sma", "less_than", Figures(m)) :
        m \in Found(text, <<N, {"sma"}, {"is", ""}, Below, N>>)}

\* Which way it crosses is looked for in the whole section, and "over" in "crossover".
MacdConditions(text) ==
    {Condition("macd", "crosses_above", <<>>) :
        m \in Found(text, <<{"macd"}, {"gives", "give", ""}, {"bullish"}, {"crossover"}>>)}
    \cup
    {Condition("macd", IF Mentions(text, Above \cup {"crossover"}) THEN "crosses_above"
                       ELSE "crosses_below", <<>>) :
        m \in Found(text, <<{"macd"}, {"crosses"}, Above \cup Below>>)}

VolumeConditions(text) ==
    {Condition("volume", "greater_than", <<>>) :
        m \in Found(text, <<{"volume"}, {"higher"}, {"than"}, {"previous"}>>)}

ExtractConditions(text) ==
    EmaCrossings(text) \cup EmaOrder(text) \cup PriceConditions(text) \cup VwapConditions(text)
    \cup RsiConditions(text) \cup SmaConditions(text) \cup MacdConditions(text)
    \cup VolumeConditions(text)

----
\* The sections of a text that follow a keyword, up to one of the stops; each search
\* goes on behind the stop of the one before.
Sections(text, keyword, stops) ==
    LET stands(words, i) == IsPrefix(words, SubSeq(text, i, Len(text)))
        starts(i) == IF stands(keyword, i) THEN {i + Len(keyword)} ELSE {}
        stopped(i) == {s \in stops : stands(s, i)}
        from[i \in 1..Len(text) + 3] ==
            LET begins == UNION {starts(k) : k \in i..Len(text)}
                begin == Min(begins)
                ends == {k \in begin + 1..Len(text) : stopped(k) # {}}
                end == Min(ends)
            IN  IF begins = {} \/ begin > Len(text) THEN {}
                ELSE IF ends = {} THEN {SubSeq(text, begin, Len(text))}
                ELSE {SubSeq(text, begin, end - 1)}
                     \cup from[end + Max({Len(s) : s \in stopped(end)})]
    IN  from[1]

SentenceStops == {<<".">>, <<",", "exit">>, <<",", "and", "exit">>}
ClauseStops == {<<",">>, <<".">>}

\* Mutant: a section runs on behind the full stop.
RunsOn(text, keywords) ==
    UNION {Sections(text, k, {<<",", "exit">>, <<",", "and", "exit">>}) : k \in keywords}

ExtractSection(text, keywords) ==
    UNION {Sections(text, k, SentenceStops) \cup Sections(text, k, ClauseStops) : k \in keywords}

BuyWords == {<<"buy">>, <<"enter", "long">>, <<"long">>}
ExitWords == {<<"sell">>, <<"exit">>, <<"square", "off">>}

EntrySections(text) ==
    LET sections == ExtractSection(text, BuyWords)
    IN  IF sections # {} THEN sections ELSE ExtractSection(text, {<<"enter">>})

\* Without a condition behind a word for buying, the whole text is searched.
ParseEntryConditions(text) ==
    LET conditions == UNION {ExtractConditions(s) : s \in EntrySections(text)}
    IN  IF conditions # {} THEN conditions ELSE ExtractConditions(text)

ParseExitConditions(text) ==
    UNION {ExtractConditions(s) : s \in ExtractSection(text, ExitWords)}

HasRealExitConditions(conditions) ==
    \E c \in conditions : c.indicator # "volume"

Opposite(c) ==
    CASE c.operator = "crosses_above" -> {[c EXCEPT !.operator = "crosses_below"]}
      [] c.operator = "crosses_below" -> {[c EXCEPT !.operator = "crosses_above"]}
      [] c.operator = "greater_than" -> {[c EXCEPT !.operator = "less_than"]}
      [] c.operator = "less_than" -> {[c EXCEPT !.operator = "greater_than"]}
      [] OTHER -> {}

Points == {"point", "points", "rs"}

\* Of the two ways to say what is risked for what reward the first here has the last word.
\* A word that ends in "ts" is one for a trailing stop.
ParseRiskManagement(text) ==
    LET stop == FirstFigure(text,
            <<<< <<{"stop"}, {"loss"}, {"of"}, N, {"%"}>>, "percentage">>,
              << <<{"stop"}, {"loss"}, {"of"}, N, Points>>, "points">>,
              << <<{"stop"}, {"loss"}, N, {"%"}>>, "percentage">>,
              << <<{"stop"}, {"loss"}, N, Points>>, "points">>,
              << <<N, {"%"}, {"stop", ""}, {"loss"}>>, "percentage">>>>)
        target == FirstFigure(text,
            <<<< <<{"target"}, N, {"%"}>>, "percentage">>,
              << <<{"take", ""}, {"profit"}, N, {"%"}>>, "percentage">>,
              << <<N, {"%"}, {"profit", "target"}>>, "percentage">>,
              << <<{"target"}, N, Points>>, "points">>,
              << <<N, Points, {"profit", "target"}>>, "points">>>>)
        reward == FirstFigure(text,
            <<<< <<Ratios, {"risk"}, {"reward"}>>, "ratio">>,
              << <<{"risk"}, {"reward"}, {"ratio", ""}, Ratios>>, "ratio">>>>)
        trailing == FirstFigure(text,
            <<<< <<{"trailing"}, {"stop"}, {"loss"}, N, {"%"}>>, "activated at 1 %">>,
              << <<{"ts", "points"}, N, {"%"}, {"activate"}, N, {"%"}>>, "activated as said">>,
              << <<{"trailing"}, {"stop"}, N, {"%"}>>, "activated at 1 %">>>>)
    IN  [stop |-> stop, target |-> target, reward |-> reward, trailing |-> trailing]

NoRisk == [stop |-> Absent, target |-> Absent, reward |-> Absent, trailing |-> Absent]

----
ExtractPosition(text) ==
    LET first == text[1]
        buys == Mentions(text, {"buy"})
        sells == Mentions(text, {"sell"})
    IN  IF first \in {"buy", "long"} \/ IsPrefix(<<"enter", "long">>, text) THEN "BUY"
        ELSE IF first \in {"sell", "short"} THEN "SELL"
        ELSE IF sells /\ ~buys THEN "SELL"
        ELSE IF buys \/ Mentions(text, {"long"}) THEN "BUY"
        ELSE IF Mentions(text, {"short"}) THEN "SELL" ELSE "BUY"

IsAmbiguous(text) ==
    Has(text, <<{"rsi"}, {"is"}, {"low", "high", "overbought", "oversold", "neutral"}>>)
    \/ Has(text, <<{"price"}, {"is"}, {"high", "low", "expensive", "cheap"}>>)
    \/ Has(text, <<{"stock"}, {"is"}, {"good", "bad", "strong", "weak"}>>)

IsUnclear(text) ==
    /\ FoundAny(text, {<<{"above", "below"}, N>>, <<{"higher", "lower"}, {"than"}, N>>}) # {}
    /\ ~Mentions(text, {"ema", "sma", "rsi", "price", "vwap", "macd"})

IsSubjective(text) ==
    Has(text, <<{"market"}, {"is"}, {"strong", "weak", "bullish", "bearish", "volatile"}>>)

Rejected(kind, confidence) == [accepted |-> FALSE, kind |-> kind, confidence |-> confidence]

\* Words that only hold "low" or "high" count as them.
HandleAmbiguous(text) ==
    LET extremes == {"low", "high", "overbought", "oversold", "below", "lower", "higher"}
    IN  Rejected(IF Mentions(text, {"rsi"}) /\ Mentions(text, extremes)
                 THEN "error" ELSE "warning", 40)

Parse(written) ==
    LET text == NormalizeText(written)
        entry == ParseEntryConditions(text)
        stated == ParseExitConditions(text)
        opposite == Has(text, <<{"vice"}, {"versa"}>>) \/ Has(text, <<{"opposite"}, {"signal"}>>)
                    \/ Mentions(text, {"reverse"})
        reversed == UNION {Opposite(c) : c \in entry}
        exits == IF opposite /\ reversed # {} THEN reversed ELSE stated
        risk == ParseRiskManagement(text)
        byRisk == (IF risk.stop.found THEN {Condition("stoploss", "less_than", risk.stop.figures)}
                   ELSE {})
                  \cup (IF risk.target.found
                        THEN {Condition("target", "greater_than", risk.target.figures)} ELSE {})
    IN  IF text = <<>> THEN Rejected("error", 0)
        ELSE IF IsAmbiguous(text) THEN HandleAmbiguous(text)
        ELSE IF IsUnclear(text) THEN Rejected("warning", 30)
        ELSE IF IsSubjective(text) THEN Rejected("error", 10)
        ELSE [accepted |-> TRUE, position |-> ExtractPosition(text), entry |-> entry,
              exit |-> IF HasRealExitConditions(exits) \/ byRisk = {} THEN exits ELSE byRisk,
              by_opposite |-> opposite /\ (entry # {} \/ Has(text, <<{"opposite"}, {"signal"}>>)),
              risk |-> risk]

\* What the caller is given for the exit: the risk, or the word for an opposite signal,
\* in place of the conditions.
ShownExit(strategy) ==
    IF strategy.risk # NoRisk THEN [risk |-> strategy.risk]
    ELSE IF strategy.by_opposite THEN [opposite |-> TRUE] ELSE [conditions |-> strategy.exit]

----
TextInit == clauses = <<>>

Write == /\ Len(clauses) < MaxClauses
         /\ \E c \in Clauses : clauses' = Append(clauses, c)

TextSpec == TextInit /\ [][Write]_clauses

Text == FlattenSeq(clauses)

----
(* Properties. *)

\* A text that begins with a full sentence for buying keeps the conditions it had, whatever
\* sentences follow: only one that itself speaks of buying adds conditions to enter, and
\* only one that speaks of a stop, a target or profit, the risk and reward, or the opposite
\* signal takes the stated conditions to leave out of the caller's sight.
SentencesStandAlone ==
    [][LET before == Parse(Text)  after == Parse(Text')
           said == NormalizeText(Last(clauses'))
           entered == UNION {ExtractConditions(s) : s \in EntrySections(NormalizeText(Text))}
           hiding == {"stop", "loss", "target", "profit", "risk", "ts", "points",
                      "vice", "opposite", "reverse"}
       IN  (/\ Text # <<>> /\ Head(Text) = "buy" /\ Last(Text) = "."
            /\ before.accepted /\ after.accepted /\ entered # {})
           => /\ before.entry \subseteq after.entry
              /\ ~Mentions(said, {"buy", "long", "enter"}) => after.entry = before.entry
              /\ ("conditions" \in DOMAIN ShownExit(before) /\ ~Mentions(said, hiding))
                 => /\ "conditions" \in DOMAIN ShownExit(after)
                    /\ before.exit \subseteq ShownExit(after).conditions]_clauses
====
