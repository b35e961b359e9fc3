---- MODULE MCParser ----
(* Texts of a few sentences, among them those the parser has cases of its own for. *)
EXTENDS Parser

Sentences ==
    {<<"buy", "when", "rsi", "crosses", "above", "30", ".">>,
     <<"buy", "when", "macd", "crosses", "below", "signal", ".">>,
     <<"buy", "when", "13", "ema", "above", "34", "ema">>,
     <<"enter", "when", "volume", "higher", "than", "previous", ".">>,
     <<"and", "price", "above", "vwap">>,
     <<",", "sell", "when", "rsi", "crosses", "under", "70", ".">>,
     <<"exit", "when", "13", "ema", "crosses", "above", "34", "ema", ".">>,
     <<"sell", "sl", "2", "%", ".">>,
     <<"stop", "loss", "2", "points", "target", "4", "%", ".">>,
     <<"risk", "reward", "2:1", ".">>,
     <<"ts", "2", "%", "activate", "4", "%", ".">>,
     <<"vice", "versa", ".">>,
     <<"rsi", "is", "high">>,
     <<"above", "30">>}
Said == {"2", "4", "13", "30", "34", "70"}
Weighed == {"2:1"}
====
