---- MODULE ServicesProofs ----
(***************************************************************************)
(* What is proved of the services: that quotes stay fresh, that a symbol   *)
(* taken back is not streamed, that rates are bounded, that a signal's     *)
(* order is protected, that indicators and crossings are settled and that  *)
(* cash is accounted for, for all the values of their constants.  Each has *)
(* an inductive invariant over the variables of its own service.           *)
(***************************************************************************)
EXTENDS Services, Induction

\* A step is one of one service.
LEMMA OneWorks ==
    ASSUME [Next]_vars
    PROVE  /\ Engine!EngineStep \/ UNCHANGED engineVars
           /\ Mock!MockStep \/ UNCHANGED mockVars
           /\ Signal!NewBar \/ UNCHANGED bars
           /\ Test!BacktestStep \/ UNCHANGED backtestVars
           /\ Rate!RateStep \/ UNCHANGED rateVars
           /\ Queue!QueueStep \/ UNCHANGED queueVars
           /\ Quotes!MarketStep \/ UNCHANGED marketVars
           /\ Stream!StreamStep \/ UNCHANGED streamVars
BY DEF Next, vars, EngineWorks, MockWorks, SignalsSeen, BacktestWorks, RatesWork, QueueWorks,
       MarketWorks, StreamWorks

-----------------------------------------------------------------------------
(* The cache of quotes. *)

\* The quotes that are kept were taken, none of them later than now; those that a request has
\* read were fresh when it came, and are still kept.
QuotesTaken ==
    /\ quoteTime \in Nat
    /\ cache \in [Servers -> [Shares -> Int]]
    /\ \A w \in Servers, s \in Shares :
         cache[w][s] = Quotes!NoQuote \/ cache[w][s] \in 0 .. quoteTime

HeldFresh(request, w) ==
    /\ DOMAIN request.hits \subseteq Shares
    /\ \A s \in DOMAIN request.hits : /\ request.since - request.hits[s] \in 0 .. Ttl
                                   /\ request.hits[s] = cache[w][s]
    /\ request.keeps # {} => request.hits = <<>>

RequestsHeld ==
    /\ DOMAIN asking = Servers
    /\ \A w \in Servers : HeldFresh(asking[w], w)

QuotesInv == QuotesTaken /\ RequestsHeld

\* An answer has quotes that were fresh when the request came, and that are still kept when a
\* provider was asked meanwhile; the quotes kept get no older.
QuoteStep ==
    /\ reply' # reply => \A s \in DOMAIN reply'.quotes :
         reply'.since - reply'.quotes[s] \in 0 .. Ttl
    /\ \A w \in Servers :
         asking[w] # Quotes!Nobody /\ asking'[w] = Quotes!Nobody =>
           \A s \in DOMAIN reply'.quotes : reply'.quotes[s] = cache'[w][s]
    /\ \A w \in Servers, s \in Shares : cache[w][s] <= cache'[w][s]

\* Nobody has read anything.
LEMMA NobodyFresh ==
    /\ DOMAIN Quotes!Nobody.hits = {} /\ Quotes!Nobody.hits = <<>>
    /\ \A w : HeldFresh(Quotes!Nobody, w)
BY DEF Quotes!Nobody, HeldFresh

\* What is read from the cache is fresh.
LEMMA ReadFresh ==
    ASSUME QuotesTaken, NEW w \in Servers, NEW S \in SUBSET Shares,
           \A s \in S : Quotes!Cached(w, s),
           NEW hits, hits = Quotes!Restrict(cache[w], S)
    PROVE  /\ DOMAIN hits = S
           /\ \A s \in DOMAIN hits : quoteTime - hits[s] \in 0 .. Ttl /\ hits[s] = cache[w][s]
<1>1. hits = [s \in S |-> cache[w][s]]
  BY DEF Quotes!Restrict
<1>2. \A s \in S : quoteTime - cache[w][s] \in 0 .. Ttl
  BY Periods DEF QuotesTaken, Quotes!Cached, Quotes!IsExpired, Quotes!NoQuote
<1>3. QED
  BY <1>1, <1>2

\* A request that is answered from the cache at once.
LEMMA ReadAtOnce ==
    ASSUME QuotesInv, NEW w \in Servers, NEW S \in SUBSET Shares,
           \A s \in S : Quotes!Cached(w, s),
           Quotes!Replies(200, quoteTime, Quotes!Restrict(cache[w], S)),
           UNCHANGED <<quoteTime, cache, asking>>
    PROVE  QuotesInv' /\ QuoteStep
<1>1. reply'.since = quoteTime /\ reply'.quotes = Quotes!Restrict(cache[w], S)
  BY DEF Quotes!Replies
<1>2. \A s \in DOMAIN reply'.quotes : reply'.since - reply'.quotes[s] \in 0 .. Ttl
  BY <1>1, ReadFresh DEF QuotesInv
<1>3. \A v \in Servers, s \in Shares : cache[v][s] <= cache[v][s]
  BY DEF QuotesInv, QuotesTaken
<1>4. QuoteStep
  BY <1>2, <1>3 DEF QuoteStep
<1>5. QED
  BY <1>4 DEF QuotesInv, QuotesTaken, RequestsHeld, HeldFresh

\* A request that has a provider asked holds what it has read.
LEMMA AskedHeld ==
    ASSUME QuotesInv, NEW w \in Servers, asking[w] = Quotes!Nobody, NEW hits, NEW keeps, NEW alone,
           Quotes!Asked(w, hits, keeps, alone), DOMAIN hits \subseteq Shares,
           \A s \in DOMAIN hits : quoteTime - hits[s] \in 0 .. Ttl /\ hits[s] = cache[w][s],
           keeps # {} => hits = <<>>,
           UNCHANGED <<quoteTime, cache, reply>>
    PROVE  QuotesInv' /\ QuoteStep
<1>1. PICK request :
        request = [since |-> quoteTime, hits |-> hits, keeps |-> keeps, alone |-> alone]
  OBVIOUS
<1>2. HeldFresh(request, w)
  BY <1>1 DEF HeldFresh
<1>3. asking' = [asking EXCEPT ![w] = request]
  BY <1>1 DEF Quotes!Asked
<1>4. /\ DOMAIN asking' = Servers
      /\ \A v \in Servers : asking'[v] = IF v = w THEN request ELSE asking[v]
  BY <1>3 DEF QuotesInv, RequestsHeld
<1>5. \A v \in Servers : HeldFresh(asking'[v], v)
  BY <1>2, <1>4 DEF QuotesInv, RequestsHeld
<1>6. \A v \in Servers : HeldFresh(asking[v], v)'
  BY <1>5 DEF HeldFresh
<1>7. QuotesInv'
  BY <1>4, <1>6 DEF QuotesInv, QuotesTaken, RequestsHeld
<1>8. request # Quotes!Nobody
  BY <1>1 DEF Quotes!Nobody, Quotes!NoQuote, QuotesInv, QuotesTaken
<1>9. \A v \in Servers : asking[v] # Quotes!Nobody => asking'[v] # Quotes!Nobody
  BY <1>4, <1>8
<1>10. \A v \in Servers, s \in Shares : cache[v][s] <= cache[v][s]
  BY DEF QuotesInv, QuotesTaken
<1>11. QuoteStep
  BY <1>9, <1>10 DEF QuoteStep
<1>12. QED
  BY <1>7, <1>11

\* What the request of another server holds is not touched.
LEMMA AnswersHeld ==
    ASSUME QuotesInv, NEW w \in Servers, asking' = [asking EXCEPT ![w] = Quotes!Nobody],
           \A v \in Servers \ {w} : cache'[v] = cache[v]
    PROVE  RequestsHeld'
<1>1. /\ DOMAIN asking' = Servers
      /\ \A v \in Servers : asking'[v] = IF v = w THEN Quotes!Nobody ELSE asking[v]
  BY DEF QuotesInv, RequestsHeld
<1>2. ASSUME NEW v \in Servers PROVE HeldFresh(asking[v], v)'
  <2>1. CASE v = w
    <3>1. asking'[v] = Quotes!Nobody
      BY <1>1, <2>1
    <3>2. QED
      BY <3>1 DEF HeldFresh, Quotes!Nobody
  <2>2. CASE v # w
    <3>1. HeldFresh(asking[v], v) /\ asking'[v] = asking[v] /\ cache'[v] = cache[v]
      BY <1>1, <2>2 DEF QuotesInv, RequestsHeld
    <3>2. QED
      BY <3>1 DEF HeldFresh
  <2>3. QED
    BY <2>1, <2>2
<1>3. QED
  BY <1>1, <1>2 DEF RequestsHeld

\* Each step of the market is such a step.
LEMMA QuoteSteps ==
    ASSUME QuotesInv, Quotes!MarketStep
    PROVE  QuotesInv' /\ QuoteStep
<1>s. \A w \in Servers, s \in Shares : cache[w][s] <= cache[w][s]
  BY DEF QuotesInv, QuotesTaken
<1>1. ASSUME NEW w \in Servers, Quotes!GetQuote(w) PROVE QuotesInv' /\ QuoteStep
  <2>1. asking[w] = Quotes!Nobody /\ UNCHANGED <<quoteTime, cache>>
    BY <1>1 DEF Quotes!GetQuote
  <2>2. PICK s \in Shares, use_cache \in BOOLEAN :
         \/ /\ use_cache /\ Quotes!Cached(w, s)
            /\ Quotes!Replies(200, quoteTime, Quotes!Restrict(cache[w], {s}))
            /\ UNCHANGED asking
         \/ /\ Quotes!Asked(w, <<>>, IF use_cache THEN {s} ELSE {}, TRUE)
            /\ UNCHANGED reply
    BY <1>1 DEF Quotes!GetQuote
  <2>3. CASE /\ use_cache /\ Quotes!Cached(w, s)
             /\ Quotes!Replies(200, quoteTime, Quotes!Restrict(cache[w], {s}))
             /\ UNCHANGED asking
    <3>1. PICK S \in SUBSET Shares : S = {s}
      OBVIOUS
    <3>2. /\ \A r \in S : Quotes!Cached(w, r)
          /\ Quotes!Replies(200, quoteTime, Quotes!Restrict(cache[w], S))
      BY <2>3, <3>1
    <3>3. QED
      BY <2>1, <2>3, <3>2, ReadAtOnce
  <2>4. CASE /\ Quotes!Asked(w, <<>>, IF use_cache THEN {s} ELSE {}, TRUE)
             /\ UNCHANGED reply
    <3>1. PICK keeps, hits, alone :
            keeps = (IF use_cache THEN {s} ELSE {}) /\ hits = <<>> /\ alone = TRUE
      OBVIOUS
    <3>2. Quotes!Asked(w, hits, keeps, alone)
      BY ONLY <2>4, <3>1, Zenon
    <3>3. DOMAIN hits = {}
      BY ONLY <3>1
    <3>4. QED
      BY <2>1, <2>4, <3>1, <3>2, <3>3, AskedHeld
  <2>5. QED
    BY <2>2, <2>3, <2>4
<1>2. ASSUME NEW w \in Servers, Quotes!GetQuotes(w) PROVE QuotesInv' /\ QuoteStep
  <2>1. asking[w] = Quotes!Nobody /\ UNCHANGED <<quoteTime, cache>>
    BY <1>2 DEF Quotes!GetQuotes
  <2>2. PICK wanted \in SUBSET Shares :
         \/ /\ Quotes!Replies(200, quoteTime,
                    Quotes!Restrict(cache[w], {s \in wanted : Quotes!Cached(w, s)}))
            /\ UNCHANGED asking
         \/ /\ Quotes!Asked(w,
                    Quotes!Restrict(cache[w], {s \in wanted : Quotes!Cached(w, s)}), {}, FALSE)
            /\ UNCHANGED reply
    BY <1>2 DEF Quotes!GetQuotes
  <2>3. PICK S : S = {s \in wanted : Quotes!Cached(w, s)}
    OBVIOUS
  <2>4. S \in SUBSET Shares /\ \A s \in S : Quotes!Cached(w, s)
    BY <2>3
  <2>5. CASE /\ Quotes!Replies(200, quoteTime, Quotes!Restrict(cache[w], S))
             /\ UNCHANGED asking
    BY <2>1, <2>4, <2>5, ReadAtOnce
  <2>6. CASE /\ Quotes!Asked(w, Quotes!Restrict(cache[w], S), {}, FALSE)
             /\ UNCHANGED reply
    <3>1. PICK hits, keeps, alone :
            hits = Quotes!Restrict(cache[w], S) /\ keeps = {} /\ alone = FALSE
      OBVIOUS
    <3>2. /\ DOMAIN hits = S
          /\ \A s \in DOMAIN hits : quoteTime - hits[s] \in 0 .. Ttl /\ hits[s] = cache[w][s]
      BY <2>4, <3>1, ReadFresh DEF QuotesInv
    <3>3. Quotes!Asked(w, hits, keeps, alone) /\ DOMAIN hits \subseteq Shares
      BY <2>4, <2>6, <3>1, <3>2
    <3>4. QED
      BY <2>1, <2>6, <3>1, <3>2, <3>3, AskedHeld
  <2>7. QED
    BY <2>2, <2>3, <2>5, <2>6
<1>3. ASSUME NEW w \in Servers, Quotes!NotFetched(w) PROVE QuotesInv' /\ QuoteStep
  <2>1. /\ reply'.since = asking[w].since /\ reply'.quotes = asking[w].hits
        /\ asking' = [asking EXCEPT ![w] = Quotes!Nobody] /\ UNCHANGED <<quoteTime, cache>>
    BY <1>3 DEF Quotes!NotFetched, Quotes!Replies
  <2>2. HeldFresh(asking[w], w)
    BY DEF QuotesInv, RequestsHeld
  <2>3. /\ \A s \in DOMAIN reply'.quotes : reply'.since - reply'.quotes[s] \in 0 .. Ttl
        /\ \A s \in DOMAIN reply'.quotes : reply'.quotes[s] = cache'[w][s]
    BY <2>1, <2>2 DEF HeldFresh
  <2>4. \A v \in Servers : asking[v] # Quotes!Nobody /\ asking'[v] = Quotes!Nobody => v = w
    BY <2>1 DEF QuotesInv, RequestsHeld
  <2>5. QuoteStep
    BY <1>s, <2>1, <2>3, <2>4 DEF QuoteStep
  <2>6. RequestsHeld'
    BY <2>1, AnswersHeld
  <2>7. QED
    BY <2>1, <2>5, <2>6 DEF QuotesInv, QuotesTaken
<1>4. ASSUME NEW w \in Servers, Quotes!Fetched(w) PROVE QuotesInv' /\ QuoteStep
  <2>1. /\ reply'.quotes = <<>>
        /\ asking' = [asking EXCEPT ![w] = Quotes!Nobody] /\ UNCHANGED quoteTime
        /\ cache' = [cache EXCEPT ![w] =
                       [s \in Shares |-> IF s \in asking[w].keeps THEN quoteTime ELSE @[s]]]
    BY <1>4 DEF Quotes!Fetched, Quotes!Replies
  <2>2. /\ cache' \in [Servers -> [Shares -> Int]]
        /\ \A v \in Servers, s \in Shares :
             cache'[v][s] = IF v = w /\ s \in asking[w].keeps THEN quoteTime ELSE cache[v][s]
    BY <2>1 DEF QuotesInv, QuotesTaken
  <2>3. QuotesTaken'
    BY <2>1, <2>2 DEF QuotesInv, QuotesTaken
  <2>4. \A v \in Servers, s \in Shares : cache[v][s] <= cache'[v][s]
    BY <2>2 DEF QuotesInv, QuotesTaken, Quotes!NoQuote
  <2>5. DOMAIN reply'.quotes = {}
    BY <2>1
  <2>6. QuoteStep
    BY <2>4, <2>5 DEF QuoteStep
  <2>7. \A v \in Servers \ {w} : cache'[v] = cache[v]
    BY <2>1 DEF QuotesInv, QuotesTaken
  <2>8. RequestsHeld'
    BY <2>1, <2>7, AnswersHeld
  <2>9. QED
    BY <2>3, <2>6, <2>8 DEF QuotesInv
<1>5. ASSUME NEW w \in Servers,
             \/ Quotes!GetIndex(w) \/ Quotes!GetHistorical(w)
             \/ Quotes!SearchSymbols(w) \/ Quotes!ClearCache(w)
      PROVE  QuotesInv' /\ QuoteStep
  <2>1. UNCHANGED <<quoteTime, cache, asking>> /\ reply'.quotes = <<>>
    BY <1>5 DEF Quotes!GetIndex, Quotes!GetHistorical, Quotes!SearchSymbols,
                Quotes!ClearCache, Quotes!Replies
  <2>2. DOMAIN reply'.quotes = {}
    BY <2>1
  <2>3. QED
    BY <1>s, <2>1, <2>2 DEF QuotesInv, QuotesTaken, RequestsHeld, HeldFresh, QuoteStep
<1>6. ASSUME Quotes!Second PROVE QuotesInv' /\ QuoteStep
  BY <1>s, <1>6 DEF Quotes!Second, QuotesInv, QuotesTaken, RequestsHeld, HeldFresh, QuoteStep
<1>7. QED
  BY <1>1, <1>2, <1>3, <1>4, <1>5, <1>6 DEF Quotes!MarketStep

\* A quote that is answered from the cache was one of the last few seconds when the request
\* came; none is overtaken by a newer one while a provider is asked for others, and what is
\* kept is never replaced by what is older.
THEOREM QuotesStayFresh == Spec => QuotesFresh
<1>1. Init => QuotesInv
  <2>1. SUFFICES ASSUME Init PROVE QuotesInv
    OBVIOUS
  <2>2. QuotesTaken
    BY <2>1 DEF Init, Quotes!MarketInit, Quotes!NoQuote, QuotesTaken
  <2>3. asking = [w \in Servers |-> Quotes!Nobody]
    BY <2>1 DEF Init, Quotes!MarketInit
  <2>4. QED
    BY <2>2, <2>3, NobodyFresh DEF QuotesInv, RequestsHeld
<1>2. QuotesInv /\ [Next]_vars => QuotesInv' /\ [QuoteStep]_marketVars
  <2>1. SUFFICES ASSUME QuotesInv, [Next]_vars PROVE QuotesInv' /\ [QuoteStep]_marketVars
    OBVIOUS
  <2>2. CASE UNCHANGED marketVars
    BY <2>1, <2>2 DEF marketVars, QuotesInv, QuotesTaken, RequestsHeld, HeldFresh
  <2>3. QED
    BY <2>1, <2>2, OneWorks, QuoteSteps
<1>3. Spec => [][QuoteStep]_marketVars
  BY <1>1, <1>2, PTL DEF Spec
<1>4. QED
  BY <1>3 DEF QuotesFresh, Quotes!QuotesFresh, Quotes!mvars, QuoteStep, marketVars

-----------------------------------------------------------------------------
(* The streamer. *)

\* The types of the streamer.
StreamTyped ==
    /\ running \in BOOLEAN
    /\ current \in Sockets \cup {NoSocket}
    /\ subscribed \subseteq Streamed /\ unsubscribed \subseteq Streamed
    /\ socket \in [Sockets -> {"open", "broken", "shut"}]
    /\ wire \in [Sockets -> SUBSET Streamed]

\* What makes it hold that a symbol taken back is gone: it is not to be subscribed again when a
\* task connects, either.
StreamInv == StreamTyped /\ subscribed \cap unsubscribed = {} /\ Stream!TakenBackIsGone

\* What is put on the wire of the current socket is what is subscribed.
LEMMA Sent ==
    ASSUME StreamTyped, NEW S \in SUBSET Streamed, Stream!Send(S)
    PROVE  /\ wire' \in [Sockets -> SUBSET Streamed]
           /\ running /\ current # NoSocket /\ socket[current] = "open"
                => wire'[current] = wire[current] \cup S
BY DEF StreamTyped, Stream!Send

\* The first state: there is no socket.
LEMMA StreamStarts == ASSUME Stream!StreamInit PROVE StreamInv
BY Absences DEF Stream!StreamInit, StreamInv, StreamTyped, Stream!TakenBackIsGone

\* A new socket carries what is subscribed, or nothing yet.
LEMMA StreamConnects ==
    ASSUME StreamInv, NEW t \in Stream!Tasks, Stream!ConnectOpens(t)
    PROVE  StreamInv'
<1>1. PICK k \in Stream!Unused \cup ({t} \cap Sockets) :
        /\ current' = k
        /\ socket' = [socket EXCEPT ![k] = "open"]
        /\ wire' = [wire EXCEPT ![k] = IF Stream!ByTask(t) THEN subscribed ELSE {}]
  BY DEF Stream!ConnectOpens
<1>2. k \in Sockets
  BY DEF Stream!Unused
<1>3. running' = TRUE /\ UNCHANGED <<subscribed, unsubscribed>>
  BY DEF Stream!ConnectOpens
<1>4. wire'[k] \in {subscribed, {}}
  BY <1>1, <1>2 DEF StreamInv, StreamTyped
<1>5. StreamTyped'
  BY <1>1, <1>2, <1>3 DEF StreamInv, StreamTyped
<1>6. QED
  BY <1>1, <1>3, <1>4, <1>5 DEF StreamInv, Stream!TakenBackIsGone

\* Whatever becomes of the streamer leads to a state of that kind.
LEMMA StreamKeeps == ASSUME StreamInv, Stream!StreamStep PROVE StreamInv'
<1>t. StreamTyped
  BY DEF StreamInv
<1>1. ASSUME Stream!Subscribe PROVE StreamInv'
  <2>1. PICK S \in SUBSET Streamed \ {{}} :
          /\ subscribed' = subscribed \cup S
          /\ unsubscribed' = unsubscribed \ S
    BY <1>1 DEF Stream!Subscribe
  <2>2. PICK T \in SUBSET Streamed : T = subscribed'
    BY <1>t, <2>1 DEF StreamTyped
  <2>3. Stream!Send(T) /\ UNCHANGED <<running, current, socket>>
    BY <1>1, <2>2 DEF Stream!Subscribe
  <2>4. /\ wire' \in [Sockets -> SUBSET Streamed]
        /\ running /\ current # NoSocket /\ socket[current] = "open"
             => wire'[current] = wire[current] \cup subscribed'
    BY <1>t, <2>2, <2>3, Sent
  <2>5. QED
    BY <1>t, <2>1, <2>3, <2>4 DEF StreamInv, StreamTyped, Stream!TakenBackIsGone
<1>2. ASSUME Stream!Unsubscribe PROVE StreamInv'
  <2>1. PICK S \in SUBSET Streamed \ {{}} :
          /\ subscribed' = subscribed \ S
          /\ unsubscribed' = unsubscribed \cup S
          /\ Stream!Withdraw(S)
    BY <1>2 DEF Stream!Unsubscribe
  <2>2. UNCHANGED <<running, current, socket>>
    BY <1>2 DEF Stream!Unsubscribe
  <2>3. /\ wire' \in [Sockets -> SUBSET Streamed]
        /\ running /\ current # NoSocket /\ socket[current] = "open"
             => wire'[current] = wire[current] \ S
    BY <1>t, <2>1 DEF StreamTyped, Stream!Withdraw
  <2>4. StreamTyped'
    BY <1>t, <2>1, <2>2, <2>3 DEF StreamTyped
  <2>5. QED
    BY <2>1, <2>2, <2>3, <2>4 DEF StreamInv, Stream!TakenBackIsGone
<1>3. ASSUME NEW t \in Stream!Tasks, Stream!TokenMissing(t) PROVE StreamInv'
  <2>1. UNCHANGED <<running, current, socket, subscribed, unsubscribed>>
    BY <1>3 DEF Stream!TokenMissing
  <2>2. CASE UNCHANGED wire
    BY <2>1, <2>2 DEF StreamInv, StreamTyped, Stream!TakenBackIsGone
  <2>3. CASE Stream!Send(subscribed)
    <3>1. /\ wire' \in [Sockets -> SUBSET Streamed]
          /\ running /\ current # NoSocket /\ socket[current] = "open"
               => wire'[current] = wire[current] \cup subscribed
      BY <1>t, <2>3, Sent DEF StreamTyped
    <3>2. QED
      BY <1>t, <2>1, <3>1 DEF StreamInv, StreamTyped, Stream!TakenBackIsGone
  <2>4. QED
    BY <1>3, <2>2, <2>3 DEF Stream!TokenMissing
<1>4. ASSUME Stream!Disconnect PROVE StreamInv'
  BY <1>4 DEF Stream!Disconnect, StreamInv, StreamTyped, Stream!TakenBackIsGone
<1>5. ASSUME Stream!Disconnected \/ Stream!RemoveStreamer PROVE StreamInv'
  BY <1>5 DEF Stream!Disconnected, Stream!RemoveStreamer, StreamInv, StreamTyped,
              Stream!TakenBackIsGone
<1>6. ASSUME NEW k \in Sockets,
             Stream!Breaks(k) \/ Stream!ClosedByBroker(k) \/ Stream!LoopEnds(k)
      PROVE  StreamInv'
  <2>1. CASE Stream!Breaks(k)
    BY <2>1 DEF Stream!Breaks, StreamInv, StreamTyped, Stream!TakenBackIsGone
  <2>2. CASE Stream!ClosedByBroker(k)
    BY <2>2 DEF Stream!ClosedByBroker, StreamInv, StreamTyped, Stream!TakenBackIsGone
  <2>3. CASE Stream!LoopEnds(k)
    BY <2>3 DEF Stream!LoopEnds, StreamInv, StreamTyped, Stream!TakenBackIsGone
  <2>4. QED
    BY <1>6, <2>1, <2>2, <2>3
<1>7. ASSUME \/ Stream!Connect
             \/ \E t \in Stream!Tasks :
                  Stream!TokenGiven(t) \/ Stream!ConnectFails(t) \/ Stream!Wakes(t)
             \/ \E k \in Sockets : Stream!MessageStopped(k) \/ Stream!LoopRaises(k)
      PROVE  StreamInv'
  <2>1. UNCHANGED <<running, current, subscribed, socket, wire, unsubscribed>>
    BY <1>7 DEF Stream!Connect, Stream!TokenGiven, Stream!ConnectFails, Stream!Wakes,
                Stream!MessageStopped, Stream!LoopRaises
  <2>2. QED
    BY <2>1 DEF StreamInv, StreamTyped, Stream!TakenBackIsGone
<1>8. QED
  BY <1>1, <1>2, <1>3, <1>4, <1>5, <1>6, <1>7, StreamConnects DEF Stream!StreamStep

\* A symbol that was taken back is not streamed on the current socket, whatever broke, was
\* connected again or disconnected in the middle.
THEOREM TakenBackStaysGone == Spec => []TakenBackIsGone
<1>1. Init => StreamInv
  BY StreamStarts DEF Init
<1>2. ASSUME StreamInv, [Next]_vars PROVE StreamInv'
  <2>1. CASE Stream!StreamStep
    BY <1>2, <2>1, StreamKeeps
  <2>2. CASE UNCHANGED streamVars
    BY <1>2, <2>2 DEF streamVars, StreamInv, StreamTyped, Stream!TakenBackIsGone
  <2>3. QED
    BY <1>2, <2>1, <2>2, OneWorks
<1>3. StreamInv => TakenBackIsGone
  BY DEF StreamInv, TakenBackIsGone
<1>4. QED
  BY <1>1, <1>2, <1>3, PTL DEF Spec

-----------------------------------------------------------------------------
(* The queue of orders. *)

\* The types of the queue of orders.
Taking == [order : Nat, time : Nat]

QueueTyped ==
    /\ queueTime \in Nat /\ lastSubmit \in Nat /\ count \in Nat
    /\ queue \in Seq(Nat)
    /\ taken \in Seq(Taking)
    /\ worker \in [Workers -> [at : {"idle", "lock", "pause", "get"}, until : Nat]]
    /\ lockQueue \in Seq(Workers)

\* Those who are not idle are those in the queue for the lock, each once, and only the first of
\* them is past the lock.
Locked ==
    /\ \A i, j \in DOMAIN lockQueue : lockQueue[i] = lockQueue[j] => i = j
    /\ \A w \in Workers : worker[w].at # "idle" <=> \E i \in DOMAIN lockQueue : lockQueue[i] = w
    /\ \A w \in Workers : worker[w].at \in {"pause", "get"} => lockQueue[1] = w

\* Whoever waits for an order has let the spacing pass, and whoever pauses will have.
Spaced ==
    \A w \in Workers :
        /\ worker[w].at = "get" => queueTime >= lastSubmit + Spacing
        /\ worker[w].at = "pause" => worker[w].until >= lastSubmit + Spacing

\* The orders that were taken, and those in the queue, are numbered without a gap.
Numbered ==
    /\ Len(taken) + Len(queue) = count
    /\ \A i \in DOMAIN taken : taken[i].order = i
    /\ \A i \in DOMAIN queue : queue[i] = Len(taken) + i

\* Two orders have the spacing between them, and the last was taken when it is noted.
Apart ==
    /\ \A i \in DOMAIN taken : i > 1 => taken[i].time - taken[i - 1].time >= Spacing
    /\ taken # <<>> => taken[Len(taken)].time = lastSubmit

QueueInv == QueueTyped /\ Locked /\ Spaced /\ Numbered /\ Apart

\* The numbers of all orders, those taken and those in the queue.
LEMMA NumberedPaced ==
    ASSUME QueueTyped, Numbered, Apart
    PROVE  Queue!QueuePaced
<1>1. PICK numbers : numbers = [i \in DOMAIN taken |-> taken[i].order]
  OBVIOUS
<1>2. numbers \in Seq(Nat) /\ Len(numbers) = Len(taken)
  <2>1. PICK n \in Nat : n = Len(taken) /\ DOMAIN taken = 1 .. n
    BY DEF QueueTyped
  <2>2. \A i \in 1 .. n : taken[i] \in Taking
    BY <2>1 DEF QueueTyped
  <2>3. numbers \in [1 .. n -> Nat]
    BY <1>1, <2>1, <2>2 DEF Taking
  <2>4. QED
    BY <2>1, <2>3
<1>3. /\ Len(taken) \in Nat /\ Len(queue) \in Nat
      /\ DOMAIN taken = 1 .. Len(taken) /\ DOMAIN queue = 1 .. Len(queue)
  BY DEF QueueTyped
<1>4. PICK all : all = numbers \o queue
  OBVIOUS
<1>5. /\ all \in Seq(Nat) /\ Len(all) = count
      /\ \A i \in 1 .. Len(taken) : all[i] = numbers[i]
      /\ \A i \in 1 .. Len(queue) : all[Len(taken) + i] = queue[i]
  <2>1. queue \in Seq(Nat)
    BY DEF QueueTyped
  <2>2. QED
    <3>1. /\ all \in Seq(Nat) /\ Len(all) = Len(numbers) + Len(queue)
          /\ \A i \in 1 .. Len(numbers) : all[i] = numbers[i]
          /\ \A i \in 1 .. Len(queue) : all[Len(numbers) + i] = queue[i]
      <4>1. numbers \in Seq(Nat)
        BY <1>2
      <4>2. QED
        BY <1>4, <2>1, <4>1
    <3>2. QED
      BY <1>2, <3>1 DEF Numbered
<1>6. ASSUME NEW n \in 1 .. count PROVE all[n] = n
  <2>1. CASE n <= Len(taken)
    BY <1>1, <1>3, <1>5, <2>1 DEF Numbered
  <2>2. CASE n > Len(taken)
    <3>1. PICK i \in 1 .. Len(queue) : n = Len(taken) + i
      <4>1. n - Len(taken) \in 1 .. Len(queue) /\ n = Len(taken) + (n - Len(taken))
        BY <1>3, <2>2 DEF Numbered
      <4>2. QED
        BY <4>1
    <3>2. QED
      BY <1>3, <1>5, <3>1 DEF Numbered
  <2>3. QED
    BY <1>3, <2>1, <2>2
<1>7. all = [n \in 1 .. count |-> n]
  BY <1>5, <1>6
<1>8. QED
  BY <1>1, <1>4, <1>7 DEF Queue!QueuePaced, Apart

\* A worker that leaves is no longer in the queue for the lock, and the others are as they
\* were, in the same order.
LEMMA LeavesLock ==
    ASSUME QueueTyped, Locked, NEW w \in Workers, worker[w].at # "idle", Queue!Leaves(w)
    PROVE  /\ lockQueue' \in Seq(Workers) /\ Locked'
           /\ worker' \in [Workers -> [at : {"idle", "lock", "pause", "get"}, until : Nat]]
           /\ \A v \in Workers \ {w} : worker'[v] = worker[v]
           /\ worker'[w].at = "idle"
<1>1. PICK k \in DOMAIN lockQueue : lockQueue[k] = w
  BY DEF Locked
<1>2. PICK n \in Nat : n = Len(lockQueue) /\ DOMAIN lockQueue = 1 .. n
  BY DEF QueueTyped
<1>3. {i \in 1 .. n : lockQueue[i] = w} = {k}
  BY <1>1, <1>2 DEF Locked
<1>4. Queue!Min({k}) = k
  BY <1>1, <1>2 DEF Queue!Min
<1>5. Queue!SelectInSeq(lockQueue, LAMBDA v : v = w) = k
  BY <1>2, <1>3, <1>4 DEF Queue!SelectInSeq
<1>6. lockQueue' = SubSeq(lockQueue, 1, k - 1) \o SubSeq(lockQueue, k + 1, n)
  BY <1>1, <1>2, <1>5 DEF Queue!Leaves, Queue!RemoveFirst, Queue!RemoveAt
<1>7. /\ lockQueue' \in Seq(Workers) /\ Len(lockQueue') = n - 1 /\ DOMAIN lockQueue' = 1 .. n - 1
      /\ \A i \in 1 .. n - 1 : lockQueue'[i] = IF i < k THEN lockQueue[i] ELSE lockQueue[i + 1]
  <2>1. PICK front, back : /\ front = SubSeq(lockQueue, 1, k - 1)
                           /\ back = SubSeq(lockQueue, k + 1, n)
    OBVIOUS
  <2>2. k \in 1 .. n /\ lockQueue \in Seq(Workers)
    BY <1>2 DEF QueueTyped
  <2>3. /\ front \in Seq(Workers) /\ Len(front) = k - 1
        /\ \A i \in 1 .. k - 1 : front[i] = lockQueue[i]
    BY <1>2, <2>1, <2>2
  <2>4. /\ back \in Seq(Workers) /\ Len(back) = n - k
        /\ \A i \in 1 .. n - k : back[i] = lockQueue[k + i]
    BY <1>2, <2>1, <2>2
  <2>5. lockQueue' = front \o back
    BY <1>6, <2>1
  <2>6. /\ lockQueue' \in Seq(Workers) /\ Len(lockQueue') = n - 1
        /\ \A i \in 1 .. k - 1 : lockQueue'[i] = front[i]
        /\ \A i \in 1 .. n - k : lockQueue'[(k - 1) + i] = back[i]
    <3>1. front \in Seq(Workers) /\ back \in Seq(Workers)
      BY <2>3, <2>4
    <3>2. /\ lockQueue' \in Seq(Workers) /\ Len(lockQueue') = Len(front) + Len(back)
          /\ \A i \in 1 .. Len(front) : lockQueue'[i] = front[i]
          /\ \A i \in 1 .. Len(back) : lockQueue'[Len(front) + i] = back[i]
      BY <2>5, <3>1
    <3>3. (k - 1) + (n - k) = n - 1
      BY <1>2, <2>2
    <3>4. QED
      BY <2>3, <2>4, <3>2, <3>3
  <2>7. ASSUME NEW i \in 1 .. n - 1
        PROVE  lockQueue'[i] = IF i < k THEN lockQueue[i] ELSE lockQueue[i + 1]
    <3>1. CASE i < k
      BY <2>2, <2>3, <2>6, <3>1
    <3>2. CASE i >= k
      <4>1. PICK j \in 1 .. n - k : i = (k - 1) + j /\ k + j = i + 1
        <5>1. /\ i - (k - 1) \in 1 .. n - k /\ i = (k - 1) + (i - (k - 1))
              /\ k + (i - (k - 1)) = i + 1
          BY <2>2, <3>2
        <5>2. QED
          BY <5>1
      <4>2. QED
        <5>1. lockQueue'[i] = back[j]
          BY <2>6, <4>1
        <5>2. back[j] = lockQueue[k + j]
          BY <2>4, <4>1
        <5>3. ~(i < k)
          BY <1>2, <2>2, <3>2
        <5>4. QED
          BY <4>1, <5>1, <5>2, <5>3
    <3>3. i < k \/ i >= k
      BY <1>2, <2>2
    <3>4. QED
      BY <3>1, <3>2, <3>3
  <2>8. QED
    BY <2>6, <2>7
<1>8. worker' = [worker EXCEPT ![w] = [at |-> "idle", until |-> 0]]
  BY DEF Queue!Leaves, Queue!At
<1>9. /\ worker' \in [Workers -> [at : {"idle", "lock", "pause", "get"}, until : Nat]]
      /\ \A v \in Workers \ {w} : worker'[v] = worker[v]
      /\ worker'[w].at = "idle"
  BY <1>8 DEF QueueTyped
<1>10. \A i, j \in 1 .. n - 1 : lockQueue'[i] = lockQueue'[j] => i = j
  <2>1. SUFFICES ASSUME NEW i \in 1 .. n - 1, NEW j \in 1 .. n - 1,
                        lockQueue'[i] = lockQueue'[j]
                 PROVE  i = j
    OBVIOUS
  <2>2. PICK a \in 1 .. n : a = IF i < k THEN i ELSE i + 1
    BY <1>2
  <2>3. PICK b \in 1 .. n : b = IF j < k THEN j ELSE j + 1
    BY <1>2
  <2>4. lockQueue[a] = lockQueue[b]
    BY <1>7, <2>1, <2>2, <2>3
  <2>5. a = b
    BY <1>2, <2>4 DEF Locked
  <2>6. QED
    BY <1>2, <2>2, <2>3, <2>5
<1>11. ASSUME NEW v \in Workers \ {w}
       PROVE  (\E i \in 1 .. n - 1 : lockQueue'[i] = v) <=> \E i \in 1 .. n : lockQueue[i] = v
  <2>1. ASSUME NEW i \in 1 .. n, lockQueue[i] = v PROVE \E j \in 1 .. n - 1 : lockQueue'[j] = v
    <3>1. CASE i < k
      BY <1>2, <1>7, <2>1, <3>1
    <3>2. CASE i > k
      <4>1. i - 1 \in 1 .. n - 1 /\ ~(i - 1 < k) /\ (i - 1) + 1 = i
        BY <1>2, <3>2
      <4>2. QED
        BY <1>7, <2>1, <4>1
    <3>3. QED
      BY <1>1, <1>2, <2>1, <3>1, <3>2
  <2>2. ASSUME NEW i \in 1 .. n - 1, lockQueue'[i] = v PROVE \E j \in 1 .. n : lockQueue[j] = v
    <3>1. i \in 1 .. n /\ i + 1 \in 1 .. n
      BY <1>2
    <3>2. QED
      BY <1>7, <2>2, <3>1
  <2>3. QED
    BY <2>1, <2>2
<1>12. ~\E i \in 1 .. n - 1 : lockQueue'[i] = w
  <2>1. SUFFICES ASSUME NEW i \in 1 .. n - 1, lockQueue'[i] = w PROVE FALSE
    OBVIOUS
  <2>2. PICK a \in 1 .. n : a = IF i < k THEN i ELSE i + 1
    BY <1>2
  <2>3. lockQueue[a] = w /\ a # k
    BY <1>2, <1>7, <2>1, <2>2
  <2>4. QED
    BY <1>1, <1>2, <2>3 DEF Locked
<1>13. ASSUME NEW v \in Workers, worker'[v].at \in {"pause", "get"} PROVE lockQueue'[1] = v
  <2>1. v # w /\ worker[v].at \in {"pause", "get"}
    BY <1>9, <1>13
  <2>2. lockQueue[1] = v
    BY <2>1 DEF Locked
  <2>3. k # 1 /\ 1 \in 1 .. n - 1
    BY <1>1, <1>2, <2>1, <2>2
  <2>4. QED
    BY <1>2, <1>7, <2>2, <2>3
<1>14. Locked'
  <2>1. \A v \in Workers : worker'[v].at # "idle" <=> \E i \in 1 .. n - 1 : lockQueue'[i] = v
    BY <1>2, <1>9, <1>11, <1>12 DEF Locked
  <2>2. QED
    BY <1>7, <1>10, <1>13, <2>1 DEF Locked
<1>15. QED
  BY <1>7, <1>9, <1>14

\* A worker that asks for the lock is the last in its queue.
LEMMA QueuesUp ==
    ASSUME QueueInv, NEW w \in Workers, Queue!Dequeue(w)
    PROVE  QueueInv'
<1>1. PICK n \in Nat : n = Len(lockQueue) /\ DOMAIN lockQueue = 1 .. n
  BY DEF QueueInv, QueueTyped
<1>2. /\ lockQueue' \in Seq(Workers) /\ DOMAIN lockQueue' = 1 .. n + 1 /\ lockQueue'[n + 1] = w
      /\ \A i \in 1 .. n : lockQueue'[i] = lockQueue[i]
  BY <1>1 DEF Queue!Dequeue, QueueInv, QueueTyped
<1>3. worker' = [worker EXCEPT ![w] = [at |-> "lock", until |-> 0]]
  BY DEF Queue!Dequeue, Queue!At
<1>4. /\ worker' \in [Workers -> [at : {"idle", "lock", "pause", "get"}, until : Nat]]
      /\ \A v \in Workers \ {w} : worker'[v] = worker[v]
      /\ worker'[w].at = "lock" /\ worker[w].at = "idle"
  BY <1>3 DEF QueueInv, QueueTyped, Queue!Dequeue
<1>5. UNCHANGED <<queueTime, queue, count, lastSubmit, taken>>
  BY DEF Queue!Dequeue
<1>6. \A i \in 1 .. n : lockQueue[i] # w
  BY <1>1, <1>4 DEF QueueInv, Locked
<1>7. Locked'
  <2>1. \A i, j \in 1 .. n + 1 : lockQueue'[i] = lockQueue'[j] => i = j
    <3>1. \A i \in 1 .. n + 1 : i = n + 1 \/ i \in 1 .. n
      BY <1>1
    <3>2. QED
      BY <1>1, <1>2, <1>6, <3>1 DEF QueueInv, Locked
  <2>2. \A v \in Workers : worker'[v].at # "idle" <=> \E i \in 1 .. n + 1 : lockQueue'[i] = v
    <3>1. \A i \in 1 .. n + 1 : i = n + 1 \/ i \in 1 .. n
      BY <1>1
    <3>2. n + 1 \in 1 .. n + 1 /\ 1 .. n \subseteq 1 .. n + 1
      BY <1>1
    <3>3. ASSUME NEW v \in Workers \ {w}
          PROVE  worker'[v].at # "idle" <=> \E i \in 1 .. n + 1 : lockQueue'[i] = v
      <4>1. worker'[v].at # "idle" <=> \E i \in 1 .. n : lockQueue[i] = v
        BY <1>1, <1>4 DEF QueueInv, Locked
      <4>2. (\E i \in 1 .. n : lockQueue[i] = v) <=> \E i \in 1 .. n + 1 : lockQueue'[i] = v
        BY <1>2, <3>1, <3>2
      <4>3. QED
        BY <4>1, <4>2
    <3>4. QED
      BY <1>2, <1>4, <3>2, <3>3
  <2>3. ASSUME NEW v \in Workers, worker'[v].at \in {"pause", "get"} PROVE lockQueue'[1] = v
    <3>1. v # w /\ worker[v].at \in {"pause", "get"}
      BY <1>4, <2>3
    <3>2. lockQueue[1] = v /\ \E i \in 1 .. n : lockQueue[i] = v
      BY <1>1, <3>1 DEF QueueInv, Locked
    <3>3. QED
      BY <1>1, <1>2, <3>2
  <2>4. QED
    BY <1>2, <2>1, <2>2, <2>3 DEF Locked
<1>8. QED
  BY <1>2, <1>4, <1>5, <1>7 DEF QueueInv, QueueTyped, Spaced, Numbered, Apart

\* A worker that goes on in the critical section stays the first in the queue for the lock.
LEMMA GoesOn ==
    ASSUME QueueTyped, Locked, NEW w \in Workers, NEW place \in {"pause", "get"},
           NEW until \in Nat, worker[w].at # "idle", lockQueue[1] = w,
           Queue!At(w, place, until), UNCHANGED lockQueue
    PROVE  /\ worker' \in [Workers -> [at : {"idle", "lock", "pause", "get"}, until : Nat]]
           /\ \A v \in Workers \ {w} : worker'[v] = worker[v]
           /\ worker'[w] = [at |-> place, until |-> until]
           /\ Locked'
<1>1. worker' = [worker EXCEPT ![w] = [at |-> place, until |-> until]]
  BY DEF Queue!At
<1>2. /\ worker' \in [Workers -> [at : {"idle", "lock", "pause", "get"}, until : Nat]]
      /\ \A v \in Workers \ {w} : worker'[v] = worker[v]
      /\ worker'[w] = [at |-> place, until |-> until]
  BY <1>1 DEF QueueTyped
<1>3. QED
  BY <1>2 DEF Locked

\* With the lock, a worker pauses first if the last order is too near.
LEMMA Pauses ==
    ASSUME QueueInv, NEW w \in Workers, Queue!Paces(w) \/ Queue!Paced(w)
    PROVE  QueueInv'
<1>1. UNCHANGED <<queueTime, queue, count, lastSubmit, lockQueue, taken>>
  BY DEF Queue!Paces, Queue!Paced
<1>2. queueTime + Timeout \in Nat /\ lastSubmit + Spacing \in Nat
  BY Periods DEF QueueInv, QueueTyped
<1>3. worker[w].at # "idle" /\ lockQueue[1] = w
  <2>1. CASE Queue!Paces(w)
    BY <2>1 DEF Queue!Paces, Queue!Holder, QueueInv, QueueTyped
  <2>2. CASE Queue!Paced(w)
    BY <2>2 DEF Queue!Paced, QueueInv, Locked
  <2>3. QED
    BY <2>1, <2>2
<1>4. PICK place \in {"pause", "get"}, until \in Nat :
        /\ Queue!At(w, place, until)
        /\ place = "get" => queueTime >= lastSubmit + Spacing
        /\ place = "pause" => until >= lastSubmit + Spacing
  <2>1. CASE Queue!Paces(w)
    BY <1>2, <2>1, Periods DEF Queue!Paces, QueueInv, QueueTyped
  <2>2. CASE Queue!Paced(w)
    <3>1. queueTime >= lastSubmit + Spacing
      <4>1. worker[w].until >= lastSubmit + Spacing /\ queueTime >= worker[w].until
        BY <2>2 DEF Queue!Paced, QueueInv, Spaced
      <4>2. worker[w].until \in Nat /\ queueTime \in Nat
        BY DEF QueueInv, QueueTyped
      <4>3. QED
        BY <1>2, <4>1, <4>2
    <3>2. QED
      BY <1>2, <2>2, <3>1 DEF Queue!Paced
  <2>3. QED
    BY <2>1, <2>2
<1>5. /\ worker' \in [Workers -> [at : {"idle", "lock", "pause", "get"}, until : Nat]]
      /\ \A v \in Workers \ {w} : worker'[v] = worker[v]
      /\ worker'[w] = [at |-> place, until |-> until]
      /\ Locked'
  BY <1>1, <1>3, <1>4, GoesOn DEF QueueInv
<1>6. Spaced'
  BY <1>1, <1>4, <1>5 DEF QueueInv, Spaced
<1>7. QED
  BY <1>1, <1>5, <1>6 DEF QueueInv, QueueTyped, Numbered, Apart

\* Whoever takes an order notes the time, with which the next one will have to keep apart.
LEMMA OrderTaken ==
    ASSUME QueueInv, NEW w \in Workers, Queue!Takes(w)
    PROVE  QueueInv'
<1>1. PICK n \in Nat : n = Len(taken) /\ DOMAIN taken = 1 .. n
  BY DEF QueueInv, QueueTyped
<1>2. PICK m \in Nat : m = Len(queue) /\ DOMAIN queue = 1 .. m /\ m >= 1
  BY DEF QueueInv, QueueTyped, Queue!Takes
<1>3. /\ UNCHANGED <<queueTime, count>> /\ lastSubmit' = queueTime
      /\ worker[w].at = "get" /\ Queue!Leaves(w)
  BY DEF Queue!Takes
<1>4. Head(queue) = n + 1
  <2>1. Head(queue) = queue[1] /\ 1 \in 1 .. m
    BY <1>2 DEF QueueInv, QueueTyped
  <2>2. QED
    BY <1>1, <1>2, <2>1 DEF QueueInv, Numbered
<1>5. /\ queue' \in Seq(Nat) /\ Len(queue') = m - 1 /\ DOMAIN queue' = 1 .. m - 1
      /\ \A i \in 1 .. m - 1 : queue'[i] = queue[i + 1]
  <2>1. queue' = Tail(queue) /\ queue \in Seq(Nat)
    BY DEF Queue!Takes, QueueInv, QueueTyped
  <2>2. QED
    BY <1>2, <2>1
<1>6. /\ taken' \in Seq(Taking) /\ Len(taken') = n + 1
      /\ DOMAIN taken' = 1 .. n + 1
      /\ \A i \in 1 .. n : taken'[i] = taken[i]
      /\ taken'[n + 1] = [order |-> n + 1, time |-> queueTime]
  <2>1. PICK entry : entry = [order |-> n + 1, time |-> queueTime]
    OBVIOUS
  <2>2. entry \in Taking /\ taken \in Seq(Taking)
    BY <1>1, <2>1 DEF QueueInv, QueueTyped, Taking
  <2>3. taken' = Append(taken, entry)
    BY <1>4, <2>1 DEF Queue!Takes
  <2>4. QED
    BY <1>1, <2>1, <2>2, <2>3
<1>7. /\ lockQueue' \in Seq(Workers) /\ Locked'
      /\ worker' \in [Workers -> [at : {"idle", "lock", "pause", "get"}, until : Nat]]
      /\ \A v \in Workers \ {w} : worker'[v] = worker[v]
      /\ worker'[w].at = "idle"
  BY <1>3, LeavesLock DEF QueueInv
<1>8. QueueTyped'
  BY <1>3, <1>5, <1>6, <1>7 DEF QueueInv, QueueTyped
<1>9. Spaced'
  <2>1. \A v \in Workers \ {w} : worker[v].at \notin {"get", "pause"}
    BY <1>3 DEF QueueInv, Locked
  <2>2. QED
    BY <1>7, <2>1 DEF Spaced
<1>10. Numbered'
  <2>1. \A i \in 1 .. n + 1 : taken'[i].order = i
    <3>1. \A i \in 1 .. n : taken'[i].order = i
      BY <1>1, <1>6 DEF QueueInv, Numbered
    <3>2. \A i \in 1 .. n + 1 : i \in 1 .. n \/ i = n + 1
      BY <1>1
    <3>3. QED
      BY <1>6, <3>1, <3>2
  <2>2. \A i \in 1 .. m - 1 : queue'[i] = n + 1 + i
    <3>1. SUFFICES ASSUME NEW i \in 1 .. m - 1 PROVE queue'[i] = n + 1 + i
      OBVIOUS
    <3>2. i + 1 \in 1 .. m /\ n + (i + 1) = n + 1 + i
      BY <1>1, <1>2
    <3>3. QED
      BY <1>1, <1>2, <1>5, <3>2 DEF QueueInv, Numbered
  <2>3. n + m = count
    BY <1>1, <1>2 DEF QueueInv, Numbered
  <2>4. QED
    BY <1>1, <1>2, <1>3, <1>5, <1>6, <2>1, <2>2, <2>3 DEF Numbered
<1>11. Apart'
  <2>1. ASSUME NEW i \in 1 .. n + 1, i > 1 PROVE taken'[i].time - taken'[i - 1].time >= Spacing
    <3>1. CASE i <= n
      <4>1. i \in 1 .. n /\ i - 1 \in 1 .. n
        BY <1>1, <2>1, <3>1
      <4>2. QED
        BY <1>1, <1>6, <2>1, <4>1 DEF QueueInv, Apart
    <3>2. CASE i = n + 1
      <4>1. n \in 1 .. n /\ i - 1 = n /\ taken # <<>>
        BY <1>1, <2>1, <3>2
      <4>2. taken'[n].time = lastSubmit /\ taken'[n + 1].time = queueTime
        BY <1>1, <1>6, <4>1 DEF QueueInv, Apart
      <4>3. queueTime >= lastSubmit + Spacing
        BY <1>3 DEF QueueInv, Spaced
      <4>4. queueTime - lastSubmit >= Spacing
        BY <4>3, Periods DEF QueueInv, QueueTyped
      <4>5. QED
        BY <3>2, <4>1, <4>2, <4>4
    <3>3. QED
      BY <1>1, <3>1, <3>2
  <2>2. taken'[n + 1].time = lastSubmit'
    BY <1>3, <1>6
  <2>3. QED
    BY <1>6, <2>1, <2>2 DEF Apart
<1>12. QED
  BY <1>7, <1>8, <1>9, <1>10, <1>11 DEF QueueInv

\* Whatever happens at the queue leads to a state of that kind.
LEMMA QueueKeeps == ASSUME QueueInv, Queue!QueueStep PROVE QueueInv'
<1>1. ASSUME Queue!Enqueue PROVE QueueInv'
  <2>1. PICK m \in Nat : m = Len(queue) /\ DOMAIN queue = 1 .. m
    BY DEF QueueInv, QueueTyped
  <2>2. /\ count' = count + 1 /\ count' \in Nat /\ queue' = Append(queue, count')
        /\ UNCHANGED <<queueTime, lastSubmit, worker, lockQueue, taken>>
    BY <1>1 DEF Queue!Enqueue, QueueInv, QueueTyped
  <2>3. /\ queue' \in Seq(Nat) /\ Len(queue') = m + 1 /\ DOMAIN queue' = 1 .. m + 1
        /\ \A i \in 1 .. m : queue'[i] = queue[i]
        /\ queue'[m + 1] = count + 1
    BY <2>1, <2>2 DEF QueueInv, QueueTyped
  <2>4. Len(taken) \in Nat /\ Len(taken) + m = count
    BY <2>1 DEF QueueInv, QueueTyped, Numbered
  <2>5. \A i \in 1 .. m + 1 : i \in 1 .. m \/ i = m + 1
    BY <2>1
  <2>6. Numbered'
    BY <2>1, <2>2, <2>3, <2>4, <2>5 DEF QueueInv, Numbered
  <2>7. QED
    BY <2>2, <2>3, <2>6 DEF QueueInv, QueueTyped, Locked, Spaced, Apart
<1>2. ASSUME Queue!Tick PROVE QueueInv'
  <2>1. /\ queueTime' \in Nat /\ queueTime' > queueTime
        /\ UNCHANGED <<queue, count, lastSubmit, worker, lockQueue, taken>>
    BY <1>2 DEF Queue!Tick, QueueInv, QueueTyped
  <2>2. Spaced'
    BY <2>1, Periods DEF QueueInv, QueueTyped, Spaced
  <2>3. QED
    BY <2>1, <2>2 DEF QueueInv, QueueTyped, Locked, Numbered, Apart
<1>3. ASSUME NEW w \in Workers, Queue!TimesOut(w) \/ Queue!Cancelled(w) PROVE QueueInv'
  <2>1. /\ worker[w].at # "idle" /\ Queue!Leaves(w)
        /\ UNCHANGED <<queueTime, queue, count, lastSubmit, taken>>
    BY <1>3 DEF Queue!TimesOut, Queue!Cancelled
  <2>2. /\ lockQueue' \in Seq(Workers) /\ Locked'
        /\ worker' \in [Workers -> [at : {"idle", "lock", "pause", "get"}, until : Nat]]
        /\ \A v \in Workers \ {w} : worker'[v] = worker[v]
        /\ worker'[w].at = "idle"
    BY <2>1, LeavesLock DEF QueueInv
  <2>3. Spaced'
    BY <2>1, <2>2 DEF QueueInv, Spaced
  <2>4. QED
    BY <2>1, <2>2, <2>3 DEF QueueInv, QueueTyped, Numbered, Apart
<1>4. QED
  BY <1>1, <1>2, <1>3, QueuesUp, Pauses, OrderTaken DEF Queue!QueueStep

\* The first state: nobody waits for an order, and none was taken.
LEMMA QueueStarts == ASSUME Queue!QueueInit PROVE QueueInv
<1>1. /\ queueTime = Spacing /\ lastSubmit = 0 /\ queue = <<>> /\ count = 0 /\ taken = <<>>
      /\ lockQueue = <<>> /\ worker = [w \in Workers |-> [at |-> "idle", until |-> 0]]
  BY DEF Queue!QueueInit
<1>2. QueueTyped
  BY <1>1, Periods DEF QueueTyped
<1>3. QED
  BY <1>1, <1>2 DEF QueueInv, Locked, Spaced, Numbered, Apart

-----------------------------------------------------------------------------
(* The rate limiter. *)

\* What so many workers may have admitted, if each counted on its own and one more is let in
\* for each pair.
Explained(m) == m * Limit + (m * (m - 1)) \div 2

\* The workers that do not hold a first count in their hands, and those about to count.
Settled == {w \in Processes : checking[w] # "setex"}
Counting == {w \in Processes : checking[w] = "incr"}

\* The requests that may still be admitted to a counter before it is written anew: up to the
\* limit and one for each worker, or once it is reached one for each that had looked before.
StillAdmitted ==
    IF key.count < Limit THEN Limit - 1 - key.count + Cardinality(Settled)
    ELSE Cardinality(Counting)

RateTyped ==
    /\ key \in [count : Nat, ttl : Int] /\ admitted \in Nat
    /\ checking \in [Processes -> {"get", "setex", "incr"}]

\* The counter that is missing has admitted nobody; one that is there, with what it may still
\* admit, no more than what the workers explain that do not overwrite it.
RateInv ==
    /\ RateTyped
    /\ key = Rate!NoKey => admitted = 0
    /\ key # Rate!NoKey => /\ key.count >= 1
                           /\ admitted + StillAdmitted <= Explained(Cardinality(Settled))

\* One worker more explains a round of the limit, and one request for each of the others.
LEMMA OneMore ==
    ASSUME NEW m \in Nat
    PROVE  Explained(m) \in Nat /\ Explained(m + 1) = Explained(m) + Limit + m
<1>1. PICK x \in Int : x = m * (m - 1)
  OBVIOUS
<1>2. (m + 1) * m = x + 2 * m
  BY <1>1
<1>3. x >= 0
  <2>1. CASE m = 0
    BY <1>1, <2>1
  <2>2. CASE m >= 1
    BY <1>1, <2>2
  <2>3. QED
    BY <2>1, <2>2
<1>4. (x + 2 * m) \div 2 = x \div 2 + m
  BY <1>3
<1>5. PICK y \in Nat : y = m * Limit
  BY Limits
<1>6. (m + 1) * Limit = y + Limit
  BY <1>5, Limits
<1>7. (m + 1) - 1 = m
  OBVIOUS
<1>8. Explained(m) = y + x \div 2
  BY <1>1, <1>5 DEF Explained
<1>9. Explained(m + 1) = (y + Limit) + (x \div 2 + m)
  BY <1>2, <1>4, <1>6, <1>7 DEF Explained
<1>10. x \div 2 \in Nat
  BY <1>3
<1>11. QED
  BY <1>5, <1>8, <1>9, <1>10, Limits

\* More workers explain more.
LEMMA MoreExplain ==
    ASSUME NEW m \in Nat, NEW n \in Nat, m <= n PROVE Explained(m) <= Explained(n)
<1> DEFINE G == {k \in Nat : Explained(m) <= Explained(m + k)}
<1>1. 0 \in G
  <2>1. Explained(m) \in Nat /\ m + 0 = m
    BY OneMore
  <2>2. QED
    BY <2>1
<1>2. ASSUME NEW k \in Nat, k \in G PROVE k + 1 \in G
  <2>1. PICK j \in Nat : j = m + k
    OBVIOUS
  <2>2. /\ Explained(m) \in Nat /\ Explained(j) \in Nat
        /\ Explained(j + 1) = Explained(j) + Limit + j
    BY OneMore
  <2>3. Explained(m) <= Explained(j)
    BY <1>2, <2>1
  <2>4. m + (k + 1) = j + 1
    BY <2>1
  <2>5. Explained(m) <= Explained(j + 1)
    BY <2>2, <2>3, Limits
  <2>6. QED
    BY <2>4, <2>5
<1> HIDE DEF G
<1>3. n - m \in G
  BY <1>1, <1>2, NumberInduction
<1>4. QED
  BY <1>3 DEF G

\* Both sets of workers are finite, those about to count among those that are settled.
LEMMA RateSets ==
    ASSUME RateTyped
    PROVE  /\ IsFiniteSet(Settled) /\ IsFiniteSet(Counting)
           /\ Cardinality(Settled) \in Nat /\ Cardinality(Counting) \in Nat
           /\ Cardinality(Counting) <= Cardinality(Settled)
           /\ Cardinality(Settled) <= Cardinality(Processes)
<1>1. Counting \subseteq Settled /\ Settled \subseteq Processes
  BY DEF Counting, Settled
<1>2. QED
  BY <1>1, Limits, FS_Subset, FS_CardinalityType

\* How many there are, after the next call of one worker is another.
LEMMA WorkerMoves ==
    ASSUME RateTyped, NEW w \in Processes, NEW step \in {"get", "incr"}, Rate!Calls(w, step)
    PROVE  /\ checking' \in [Processes -> {"get", "setex", "incr"}]
           /\ Cardinality(Settled') =
                Cardinality(Settled) + IF checking[w] = "setex" THEN 1 ELSE 0
           /\ step = "get" =>
                Cardinality(Counting') =
                  Cardinality(Counting) - IF checking[w] = "incr" THEN 1 ELSE 0
           /\ IsFiniteSet(Counting') /\ Cardinality(Counting') \in Nat
           /\ Cardinality(Counting') <= Cardinality(Settled')
<1>1. checking' = [checking EXCEPT ![w] = step]
  BY DEF Rate!Calls
<1>2. /\ checking' \in [Processes -> {"get", "setex", "incr"}]
      /\ checking'[w] = step
      /\ \A v \in Processes \ {w} : checking'[v] = checking[v]
  BY <1>1 DEF RateTyped
<1>3. Settled' = Settled \cup {w}
  BY <1>2 DEF Settled
<1>4. w \in Settled <=> checking[w] # "setex"
  BY DEF Settled
<1>5. Cardinality(Settled') = Cardinality(Settled) + IF checking[w] = "setex" THEN 1 ELSE 0
  <2>1. CASE w \in Settled
    <3>1. Settled' = Settled
      BY <1>3, <2>1
    <3>2. QED
      BY <1>4, <2>1, <3>1, RateSets
  <2>2. CASE w \notin Settled
    BY <1>3, <1>4, <2>2, RateSets, FS_AddElement
  <2>3. QED
    BY <2>1, <2>2
<1>6. ASSUME step = "get"
      PROVE  Cardinality(Counting') =
               Cardinality(Counting) - IF checking[w] = "incr" THEN 1 ELSE 0
  <2>1. Counting' = Counting \ {w}
    BY <1>2, <1>6 DEF Counting
  <2>2. w \in Counting <=> checking[w] = "incr"
    BY DEF Counting
  <2>3. CASE w \in Counting
    BY <2>1, <2>2, <2>3, RateSets, FS_RemoveElement
  <2>4. CASE w \notin Counting
    <3>1. Counting' = Counting
      BY <2>1, <2>4
    <3>2. QED
      BY <2>2, <2>4, <3>1, RateSets
  <2>5. QED
    BY <2>3, <2>4
<1>7. /\ IsFiniteSet(Counting') /\ Cardinality(Counting') \in Nat
      /\ Cardinality(Counting') <= Cardinality(Settled')
  <2>1. Counting' \subseteq Settled' /\ Settled' \subseteq Processes
    BY DEF Counting, Settled
  <2>2. QED
    BY <2>1, Limits, FS_Subset, FS_CardinalityType
<1>8. QED
  BY <1>2, <1>5, <1>6, <1>7

\* Whoever admits counts one request, or none when the count of the model is at its bound.
LEMMA OneAdmitted ==
    ASSUME RateTyped, NEW w \in Processes, Rate!Admits(w)
    PROVE  Rate!Calls(w, "get") /\ admitted' \in {admitted, admitted + 1} /\ admitted' \in Nat
BY DEF Rate!Admits, RateTyped

\* A first count makes a round of its own: the worker that wrote it is settled from here on.
LEMMA Resets ==
    ASSUME RateInv, NEW w \in Processes, Rate!SetCounter(w)
    PROVE  RateInv'
<1>1. PICK m \in Nat, i \in Nat : m = Cardinality(Settled) /\ i = Cardinality(Counting) /\ i <= m
  BY RateSets DEF RateInv
<1>2. Rate!Calls(w, "get") /\ admitted' \in {admitted, admitted + 1} /\ admitted' \in Nat
  BY OneAdmitted DEF RateInv, Rate!SetCounter
<1>3. /\ checking' \in [Processes -> {"get", "setex", "incr"}]
      /\ Cardinality(Settled') = m + 1
      /\ Cardinality(Counting') = i
  BY <1>1, <1>2, WorkerMoves DEF RateInv, Rate!SetCounter
<1>4. key' = [count |-> 1, ttl |-> Window] /\ key' # Rate!NoKey
  BY DEF Rate!SetCounter, Rate!NoKey
<1>5. Explained(m) \in Nat /\ Explained(m + 1) = Explained(m) + Limit + m
  BY OneMore
<1>6. admitted <= Explained(m) /\ admitted \in Nat
  <2>1. CASE key = Rate!NoKey
    BY <1>5, <2>1 DEF RateInv
  <2>2. CASE key # Rate!NoKey
    <3>1. admitted + StillAdmitted <= Explained(m) /\ admitted \in Nat /\ key.count \in Nat
      BY <1>1, <2>2 DEF RateInv, RateTyped
    <3>2. StillAdmitted \in Nat
      BY <1>1, <3>1, Limits DEF StillAdmitted
    <3>3. QED
      BY <1>5, <3>1, <3>2
  <2>3. QED
    BY <2>1, <2>2
<1>7. StillAdmitted' = IF 1 < Limit THEN Limit - 1 - 1 + (m + 1) ELSE i
  BY <1>3, <1>4 DEF StillAdmitted
<1>8. admitted' + StillAdmitted' <= Explained(m + 1)
  BY <1>1, <1>2, <1>5, <1>6, <1>7, Limits
<1>9. RateTyped'
  BY <1>2, <1>3, <1>4, Periods DEF RateTyped
<1>10. QED
  BY <1>3, <1>4, <1>8, <1>9 DEF RateInv

\* A count is one of those that were still to be admitted, or the first of a new counter.
LEMMA Counts ==
    ASSUME RateInv, NEW w \in Processes, Rate!Increment(w)
    PROVE  RateInv'
<1>1. PICK m \in Nat, i \in Nat : m = Cardinality(Settled) /\ i = Cardinality(Counting) /\ i <= m
  BY RateSets DEF RateInv
<1>2. Rate!Calls(w, "get") /\ admitted' \in {admitted, admitted + 1} /\ admitted' \in Nat
  BY OneAdmitted DEF RateInv, Rate!Increment
<1>3. /\ checking' \in [Processes -> {"get", "setex", "incr"}]
      /\ Cardinality(Settled') = m
      /\ Cardinality(Counting') = i - 1
      /\ i - 1 \in Nat
  BY <1>1, <1>2, WorkerMoves DEF RateInv, Rate!Increment
<1>4. admitted \in Nat /\ key.count \in Nat
  BY DEF RateInv, RateTyped
<1>5. CASE key = Rate!NoKey
  <2>1. key' = [count |-> 1, ttl |-> Rate!Forever] /\ key' # Rate!NoKey
    BY <1>5 DEF Rate!Increment, Rate!NoKey
  <2>2. admitted' <= 1
    BY <1>2, <1>4, <1>5 DEF RateInv
  <2>3. Explained(m - 1) \in Nat /\ Explained((m - 1) + 1) = Explained(m - 1) + Limit + (m - 1)
    BY <1>1, <1>3, OneMore
  <2>4. (m - 1) + 1 = m /\ m >= 1
    BY <1>1, <1>3
  <2>5. StillAdmitted' = IF 1 < Limit THEN Limit - 1 - 1 + m ELSE i - 1
    BY <1>3, <2>1 DEF StillAdmitted
  <2>6. Explained(m) = Explained(m - 1) + Limit + (m - 1)
    BY <2>3, <2>4
  <2>7. admitted' + StillAdmitted' <= Explained(m)
    BY <1>1, <1>2, <2>2, <2>3, <2>4, <2>5, <2>6, Limits
  <2>8. RateTyped'
    BY <1>2, <1>3, <2>1 DEF RateTyped, Rate!Forever
  <2>9. QED
    BY <1>3, <2>1, <2>7, <2>8 DEF RateInv
<1>6. CASE key # Rate!NoKey
  <2>1. key' = [key EXCEPT !.count = @ + 1]
    BY <1>6 DEF Rate!Increment
  <2>2. key' \in [count : Nat, ttl : Int] /\ key'.count = key.count + 1
    BY <2>1 DEF RateInv, RateTyped
  <2>3. key' # Rate!NoKey
    BY <1>4, <2>2 DEF Rate!NoKey
  <2>4. admitted + StillAdmitted <= Explained(m)
    BY <1>1, <1>6 DEF RateInv
  <2>5. StillAdmitted = IF key.count < Limit THEN Limit - 1 - key.count + m ELSE i
    BY <1>1 DEF StillAdmitted
  <2>6. StillAdmitted' = IF key.count + 1 < Limit THEN Limit - 1 - (key.count + 1) + m ELSE i - 1
    BY <1>3, <2>2 DEF StillAdmitted
  <2>7. Explained(m) \in Nat
    BY OneMore
  <2>8. admitted' + StillAdmitted' <= Explained(m)
    BY <1>1, <1>2, <1>3, <1>4, <2>4, <2>5, <2>6, <2>7, Limits
  <2>9. RateTyped'
    BY <1>2, <1>3, <2>2 DEF RateTyped
  <2>10. QED
    BY <1>3, <1>4, <2>2, <2>3, <2>8, <2>9 DEF RateInv
<1>7. QED
  BY <1>5, <1>6

\* A look at the counter changes nothing of what may be admitted.
LEMMA Looks ==
    ASSUME RateInv, NEW w \in Processes, Rate!CheckRateLimit(w)
    PROVE  RateInv'
<1>1. PICK m \in Nat, i \in Nat : m = Cardinality(Settled) /\ i = Cardinality(Counting) /\ i <= m
  BY RateSets DEF RateInv
<1>2. UNCHANGED <<key, admitted>> /\ checking[w] = "get"
  BY DEF Rate!CheckRateLimit
<1>3. CASE UNCHANGED checking
  BY <1>2, <1>3 DEF RateInv, RateTyped, StillAdmitted, Settled, Counting
<1>4. CASE key = Rate!NoKey /\ Rate!Calls(w, "setex")
  <2>1. checking' \in [Processes -> {"get", "setex", "incr"}]
    BY <1>4 DEF RateInv, RateTyped, Rate!Calls
  <2>2. QED
    BY <1>2, <1>4, <2>1 DEF RateInv, RateTyped
<1>5. CASE key # Rate!NoKey /\ ~Rate!Exceeded(key.count) /\ Rate!Calls(w, "incr")
  <2>1. /\ checking' \in [Processes -> {"get", "setex", "incr"}]
        /\ Cardinality(Settled') = m
    BY <1>1, <1>2, <1>5, WorkerMoves DEF RateInv
  <2>2. key.count < Limit /\ key.count \in Nat
    BY <1>5, Limits DEF Rate!Exceeded, RateInv, RateTyped
  <2>3. StillAdmitted' = StillAdmitted
    BY <1>1, <1>2, <2>1, <2>2 DEF StillAdmitted
  <2>4. QED
    BY <1>1, <1>2, <1>5, <2>1, <2>3 DEF RateInv, RateTyped
<1>6. QED
  BY <1>3, <1>4, <1>5 DEF Rate!CheckRateLimit

\* A request that Redis fails is not counted.
LEMMA NotCounted ==
    ASSUME RateInv, NEW w \in Processes, Rate!RedisFails(w)
    PROVE  RateInv'
<1>1. PICK m \in Nat, i \in Nat : m = Cardinality(Settled) /\ i = Cardinality(Counting) /\ i <= m
  BY RateSets DEF RateInv
<1>2. UNCHANGED <<key, admitted>> /\ Rate!Calls(w, "get")
  BY DEF Rate!RedisFails
<1>3. PICK n \in Nat, j \in Nat :
        /\ n = Cardinality(Settled') /\ j = Cardinality(Counting')
        /\ n \in {m, m + 1} /\ j \in {i, i - 1} /\ j <= n
        /\ checking' \in [Processes -> {"get", "setex", "incr"}]
  <2>1. /\ checking' \in [Processes -> {"get", "setex", "incr"}]
        /\ Cardinality(Settled') \in {m, m + 1}
        /\ Cardinality(Counting') \in {i, i - 1}
        /\ Cardinality(Counting') \in Nat
        /\ Cardinality(Counting') <= Cardinality(Settled')
    BY <1>1, <1>2, WorkerMoves DEF RateInv
  <2>2. QED
    BY <1>1, <2>1
<1>4. RateTyped'
  BY <1>2, <1>3 DEF RateInv, RateTyped
<1>5. CASE key = Rate!NoKey
  BY <1>2, <1>4, <1>5 DEF RateInv
<1>6. CASE key # Rate!NoKey
  <2>1. admitted + StillAdmitted <= Explained(m) /\ admitted \in Nat /\ key.count \in Nat
    BY <1>1, <1>6 DEF RateInv, RateTyped
  <2>2. StillAdmitted = IF key.count < Limit THEN Limit - 1 - key.count + m ELSE i
    BY <1>1 DEF StillAdmitted
  <2>3. StillAdmitted' = IF key.count < Limit THEN Limit - 1 - key.count + n ELSE j
    BY <1>2, <1>3 DEF StillAdmitted
  <2>4. Explained(m) \in Nat /\ Explained(m + 1) = Explained(m) + Limit + m
    BY OneMore
  <2>5. admitted + StillAdmitted' <= Explained(n)
    <3>1. CASE n = m
      BY <1>3, <2>1, <2>2, <2>3, <2>4, <3>1, Limits
    <3>2. CASE n = m + 1
      BY <1>3, <2>1, <2>2, <2>3, <2>4, <3>2, Limits
    <3>3. QED
      BY <1>3, <3>1, <3>2
  <2>6. QED
    BY <1>2, <1>3, <1>4, <1>6, <2>5 DEF RateInv
<1>7. QED
  BY <1>5, <1>6

\* Whatever happens to the counter leads to a state of that kind.
LEMMA RateKeeps == ASSUME RateInv, Rate!RateStep PROVE RateInv'
<1>1. ASSUME Rate!Elapse PROVE RateInv'
  <2>1. UNCHANGED checking /\ key # Rate!NoKey
    BY <1>1 DEF Rate!Elapse, Rate!NoKey
  <2>2. CASE key.ttl = 1
    <3>1. key' = Rate!NoKey /\ admitted' = 0
      BY <1>1, <2>2 DEF Rate!Elapse
    <3>2. QED
      BY <2>1, <3>1 DEF RateInv, RateTyped, Rate!NoKey
  <2>3. CASE key.ttl # 1
    <3>1. key' = [key EXCEPT !.ttl = @ - 1] /\ UNCHANGED admitted
      BY <1>1, <2>3 DEF Rate!Elapse
    <3>2. key' \in [count : Nat, ttl : Int] /\ key'.count = key.count
      BY <3>1 DEF RateInv, RateTyped
    <3>3. key.count >= 1 /\ key' # Rate!NoKey
      BY <2>1, <3>2 DEF RateInv, Rate!NoKey
    <3>4. StillAdmitted' = StillAdmitted /\ Settled' = Settled
      BY <2>1, <3>2 DEF StillAdmitted, Settled, Counting
    <3>5. QED
      BY <2>1, <3>1, <3>2, <3>3, <3>4 DEF RateInv, RateTyped
  <2>4. QED
    BY <2>2, <2>3
<1>2. QED
  BY <1>1, Resets, Counts, Looks, NotCounted DEF Rate!RateStep, Rate!Serve

\* The first state: there is no counter.
LEMMA RateStarts == ASSUME Rate!RateInit PROVE RateInv
BY DEF Rate!RateInit, RateInv, RateTyped, Rate!NoKey

\* What a counter has admitted, all workers explain.
LEMMA RateExplained == ASSUME RateInv PROVE Rate!AdmittedBounded
<1>1. PICK m \in Nat, i \in Nat : m = Cardinality(Settled) /\ i = Cardinality(Counting)
  BY RateSets DEF RateInv
<1>2. PICK n \in Nat : n = Cardinality(Processes) /\ m <= n
  BY <1>1, Limits, RateSets, FS_CardinalityType DEF RateInv
<1>3. Explained(m) \in Nat /\ Explained(n) \in Nat /\ Explained(m) <= Explained(n)
  BY <1>2, OneMore, MoreExplain
<1>4. admitted <= Explained(n)
  <2>1. CASE key = Rate!NoKey
    BY <1>3, <2>1 DEF RateInv
  <2>2. CASE key # Rate!NoKey
    <3>1. admitted + StillAdmitted <= Explained(m) /\ admitted \in Nat /\ key.count \in Nat
      BY <1>1, <2>2 DEF RateInv, RateTyped
    <3>2. StillAdmitted \in Nat
      BY <1>1, <3>1, Limits DEF StillAdmitted
    <3>3. QED
      BY <1>3, <3>1, <3>2
  <2>3. QED
    BY <2>1, <2>2
<1>5. Rate!Cardinality(Processes) = n
  BY <1>2 DEF Rate!Cardinality, Cardinality
<1>6. QED
  BY <1>4, <1>5 DEF Rate!AdmittedBounded, Explained

-----------------------------------------------------------------------------
\* However requests interleave at the rate limiter and workers at the queue, no window admits
\* more than its limit for each process and one for each pair, and orders keep apart.
THEOREM RatesStayBounded == Spec => []RatesBounded
<1>1. Init => RateInv /\ QueueInv
  BY RateStarts, QueueStarts DEF Init
<1>2. ASSUME RateInv, QueueInv, [Next]_vars PROVE RateInv' /\ QueueInv'
  <2>1. RateInv'
    <3>1. CASE Rate!RateStep
      BY <1>2, <3>1, RateKeeps
    <3>2. CASE UNCHANGED rateVars
      BY <1>2, <3>2 DEF rateVars, RateInv, RateTyped, StillAdmitted, Settled, Counting
    <3>3. QED
      BY <1>2, <3>1, <3>2, OneWorks
  <2>2. QueueInv'
    <3>1. CASE Queue!QueueStep
      BY <1>2, <3>1, QueueKeeps
    <3>2. CASE UNCHANGED queueVars
      BY <1>2, <3>2
      DEF queueVars, QueueInv, QueueTyped, Locked, Spaced, Numbered, Apart
    <3>3. QED
      BY <1>2, <3>1, <3>2, OneWorks
  <2>3. QED
    BY <2>1, <2>2
<1>3. RateInv /\ QueueInv => RatesBounded
  BY RateExplained, NumberedPaced DEF RatesBounded, QueueInv
<1>4. QED
  BY <1>1, <1>2, <1>3, PTL DEF Spec

-----------------------------------------------------------------------------
(* The stops, targets and sizes of signals. *)

\* The fractions of the signals are these.
LEMMA SignalFractions ==
    /\ \A n, d : Signal!Fraction(n, d) = Fraction(n, d)
    /\ \A n : Signal!Whole(n) = Whole(n)
    /\ \A a, b : Signal!Minus(a, b) = Minus(a, b)
    /\ \A n, a : Signal!Times(n, a) = Times(n, a)
    /\ \A a, b : Signal!Less(a, b) <=> Less(a, b)
    /\ \A a, b : Signal!AtMost(a, b) <=> AtMost(a, b)
<1>1. Signal!Gcd = Gcd
  BY DEF Signal!Gcd, Gcd
<1>2. \A n, d : Signal!Fraction(n, d) = Fraction(n, d)
  <2>1. \A n : Signal!Size(n) = Size(n)
    BY DEF Signal!Size, Size
  <2>2. ASSUME NEW n, NEW d PROVE Signal!Fraction(n, d) = Fraction(n, d)
    <3>1. Signal!Gcd[<<Signal!Size(n), Signal!Size(d)>>] = Gcd[<<Size(n), Size(d)>>]
      BY ONLY <1>1, <2>1
    <3>2. PICK g : g = Gcd[<<Size(n), Size(d)>>]
      OBVIOUS
    <3>3. QED
      BY ONLY <3>1, <3>2 DEF Signal!Fraction, Fraction
  <2>3. QED
    BY <2>2
<1>3. /\ \A n : Signal!Whole(n) = Whole(n)
      /\ \A a, b : Signal!Minus(a, b) = Minus(a, b)
      /\ \A n, a : Signal!Times(n, a) = Times(n, a)
  BY <1>2 DEF Signal!Whole, Whole, Signal!Minus, Minus, Signal!Times, Times
<1>4. \A a, b : Signal!Less(a, b) <=> Less(a, b)
  BY DEF Signal!Less, Less
<1>5. \A a, b : Signal!AtMost(a, b) <=> AtMost(a, b)
  BY DEF Signal!AtMost, AtMost
<1>6. QED
  BY <1>2, <1>3, <1>4, <1>5

\* The bars are some.
Bars == [close : Closes, volume : Volumes]
SignalInv == bars \in Seq(Bars)

\* One number is below and one above another, both as far away.
Around(w, f, g, e) ==
    /\ Less(g, w) /\ Less(w, f) /\ ~Less(w, g) /\ ~Less(f, w) /\ g # w /\ f # w
    /\ Minus(f, w) = e /\ Minus(w, g) = e

\* A percentage above and below a price.
LEMMA StopDistance ==
    ASSUME NEW p \in Nat \ {0}, NEW d \in Nat \ {0}
    PROVE  /\ Around(Whole(p), Fraction(p * (100 + d), 100), Fraction(p * (100 - d), 100),
                     Fraction(p * d, 100))
           /\ p * d \in Nat \ {0}
<1>0. PICK up, down : up = p * (100 + d) /\ down = p * (100 - d)
  OBVIOUS
<1>1. PICK m, e, h : m = p * 100 /\ e = p * d /\ h = 100
  OBVIOUS
<1>2. /\ m \in Int /\ e \in Nat \ {0} /\ h \in Nat \ {0} /\ up = m + e /\ down = m - e
  BY <1>0, <1>1
<1>3. Whole(p) = Fraction(m, h)
  BY <1>1, WholeFraction
<1>4. \A x, y : x \in Int /\ y \in Int => (Less(Fraction(x, h), Fraction(y, h)) <=> x < y)
  <2>1. SUFFICES ASSUME NEW x \in Int, NEW y \in Int
                 PROVE  Less(Fraction(x, h), Fraction(y, h)) <=> x < y
    OBVIOUS
  <2>2. Less(Fraction(x, h), Fraction(y, h)) <=> x * h < y * h
    BY <1>2, FractionOrder
  <2>3. x * h < y * h <=> x < y
    BY <1>1
  <2>4. QED
    BY <2>2, <2>3
<1>5. /\ Less(Fraction(down, h), Fraction(m, h)) /\ ~Less(Fraction(m, h), Fraction(down, h))
      /\ Less(Fraction(m, h), Fraction(up, h)) /\ ~Less(Fraction(up, h), Fraction(m, h))
      /\ ~Less(Fraction(m, h), Fraction(m, h))
  <2>1. down < m /\ ~(m < down) /\ m < up /\ ~(up < m) /\ ~(m < m)
    BY <1>2
  <2>2. QED
    BY <1>2, <1>4, <2>1
<1>6. Fraction(down, h) # Fraction(m, h) /\ Fraction(up, h) # Fraction(m, h)
  BY <1>5
<1>7. /\ Minus(Fraction(up, h), Fraction(m, h)) = Fraction(e, h)
      /\ Minus(Fraction(m, h), Fraction(down, h)) = Fraction(e, h)
  <2>1. up - m = e /\ m - down = e /\ up \in Int /\ down \in Int /\ m \in Int /\ h \in Nat \ {0}
    BY <1>2
  <2>2. /\ Minus(Fraction(up, h), Fraction(m, h)) = Fraction(up - m, h)
        /\ Minus(Fraction(m, h), Fraction(down, h)) = Fraction(m - down, h)
    BY ONLY <2>1, PlusFractions
  <2>3. QED
    BY ONLY <2>1, <2>2
<1>8. QED
  BY <1>0, <1>1, <1>2, <1>3, <1>5, <1>6, <1>7 DEF Around

\* As many as the risk allows lose no more than it.
LEMMA RiskKept ==
    ASSUME NEW e \in Nat \ {0}, NEW c \in Nat, NEW f, f = Fraction(e, 100), NEW q,
           q = (c * f[2]) \div (100 * f[1])
    PROVE  q \in Int /\ AtMost(Times(q, f), Fraction(c, 100))
<1>1. PICK h \in Nat \ {0} : h = 100
  OBVIOUS
<1>2. PICK x \in Int, y \in Nat \ {0}, g \in Nat \ {0} :
         Fraction(e, h) = <<x, y>> /\ e = g * x /\ h = g * y
  <2>1. e \in Int /\ h \in Nat \ {0}
    OBVIOUS
  <2>2. QED
    BY ONLY <2>1, FractionParts
<1>3. f[1] = x /\ f[2] = y
  BY <1>1, <1>2
<1>4. x \in Nat \ {0}
  BY <1>2
<1>5. PICK a, b : a = c * y /\ b = h * x
  OBVIOUS
<1>6. a \in Nat /\ b \in Nat \ {0}
  BY <1>4, <1>5
<1>7. q = a \div b
  BY <1>1, <1>3, <1>5
<1>8. q \in Nat /\ b * q <= a
  BY <1>6, <1>7, Division
<1>9. (q * e) * h <= c * h
  <2>1. g * (b * q) <= g * a
    <3>1. PICK z : z = b * q
      OBVIOUS
    <3>2. z \in Int /\ z <= a
      BY <1>6, <1>8, <3>1
    <3>3. g * z <= g * a
      BY <1>6, <3>2
    <3>4. QED
      BY <3>1, <3>3
  <2>2. g * (b * q) = (q * e) * h
    <3>1. g * ((h * x) * q) = (q * (g * x)) * h
      BY <1>8
    <3>2. QED
      BY ONLY <1>2, <1>5, <3>1
  <2>3. g * a = c * h
    <3>1. g * (c * y) = c * (g * y)
      OBVIOUS
    <3>2. QED
      BY ONLY <1>2, <1>5, <3>1
  <2>4. QED
    BY ONLY <2>1, <2>2, <2>3
<1>10. q * e \in Int /\ Times(q, Fraction(e, h)) = Fraction(q * e, h)
  <2>1. q \in Int /\ e \in Int /\ h \in Nat \ {0}
    BY <1>8
  <2>2. q * e \in Int
    BY ONLY <2>1
  <2>3. QED
    BY ONLY <2>1, <2>2, TimesFraction
<1>11. AtMost(Fraction(q * e, h), Fraction(c, h))
  BY <1>9, <1>10, FractionOrder
<1>12. QED
  BY <1>1, <1>8, <1>10, <1>11

\* The greater of two numbers is one of them.
LEMMA GreaterIs ==
    ASSUME NEW k \in Int
    PROVE  Signal!Max({1, k}) = 1 \/ Signal!Max({1, k}) = k
<1>1. \E x \in {1, k} : \A y \in {1, k} : x >= y
  <2>1. CASE k >= 1
    BY <2>1
  <2>2. CASE 1 >= k
    BY <2>2
  <2>3. QED
    BY <2>1, <2>2
<1>2. QED
  BY <1>1 DEF Signal!Max

\* The size of a signal's order.
LEMMA SizeKept ==
    ASSUME NEW e \in Nat \ {0}, NEW price, NEW stop, stop # Whole(0), stop # price,
           Signal!Distance(price, stop) = Fraction(e, 100),
           NEW q, q = Signal!CalculatePositionSize(price, stop)
    PROVE  \/ q = 1
           \/ Signal!AtMost(Signal!Times(q, Signal!Distance(price, stop)),
                            Signal!Fraction(Capital * RiskPercent, 100))
<1>1. PICK f, c, k : /\ f = Signal!Distance(price, stop) /\ c = Capital * RiskPercent
                     /\ k = (c * f[2]) \div (100 * f[1])
  OBVIOUS
<1>2. c \in Nat /\ f = Fraction(e, 100)
  BY <1>1, Trading
<1>3. k \in Int /\ AtMost(Times(k, f), Fraction(c, 100))
  BY ONLY <1>1, <1>2, e \in Nat \ {0}, RiskKept
<1>4. q = Signal!Max({1, k})
  BY <1>1, SignalFractions DEF Signal!CalculatePositionSize
<1>5. q = 1 \/ q = k
  BY <1>3, <1>4, GreaterIs
<1>6. QED
  BY <1>1, <1>3, <1>5, SignalFractions

\* Stop and target are on either side, and the stop is e hundredths away.
OnBothSides(side, price, stop, target, e) ==
    /\ IF side = "BUY" THEN Signal!Less(stop, price) ELSE Signal!Less(price, stop)
    /\ IF side = "BUY" THEN Signal!Less(price, target) ELSE Signal!Less(target, price)
    /\ stop # price
    /\ Signal!Distance(price, stop) = Fraction(e, 100) /\ e \in Nat \ {0}

\* The stop and the target of an order are so.
LEMMA OrderProtected ==
    ASSUME NEW p \in Nat \ {0}, NEW d \in Nat \ {0}, NEW side \in {"BUY", "SELL"},
           NEW stop, stop = Signal!Against(side, p, d),
           NEW target, target = Signal!InFavour(side, p, d),
           NEW price, price = Signal!Whole(p)
    PROVE  OnBothSides(side, price, stop, target, p * d)
<1>1. PICK up, down, f, g, w : /\ up = p * (100 + d) /\ down = p * (100 - d)
                               /\ f = Fraction(up, 100) /\ g = Fraction(down, 100)
                               /\ w = Whole(p)
  <2>1. PICK up, down, w : up = p * (100 + d) /\ down = p * (100 - d) /\ w = Whole(p)
    OBVIOUS
  <2>2. PICK f, g : f = Fraction(up, 100) /\ g = Fraction(down, 100)
    OBVIOUS
  <2>3. QED
    BY <2>1, <2>2
<1>2. up \in Int /\ down \in Int
  BY <1>1
<1>3. /\ Less(g, w) /\ Less(w, f) /\ ~Less(w, g) /\ ~Less(f, w) /\ g # w /\ f # w
      /\ p * d \in Nat \ {0}
      /\ Minus(f, w) = Fraction(p * d, 100) /\ Minus(w, g) = Fraction(p * d, 100)
  <2>1. Around(w, f, g, Fraction(p * d, 100)) /\ p * d \in Nat \ {0}
    BY ONLY <1>1, p \in Nat \ {0}, d \in Nat \ {0}, StopDistance
  <2>2. QED
    BY ONLY <2>1 DEF Around
<1>4. price = w
  BY <1>1, SignalFractions
<1>5. Signal!Distance(price, stop) = IF Less(price, stop) THEN Minus(stop, price)
                                     ELSE Minus(price, stop)
  BY SignalFractions DEF Signal!Distance
<1>6. CASE side = "BUY"
  <2>1. stop = g
    BY <1>1, <1>6, SignalFractions DEF Signal!Against
  <2>2. target = f
    <3>1. 100 - (-d) = 100 + d
      OBVIOUS
    <3>2. QED
      BY <1>1, <1>6, <3>1, SignalFractions DEF Signal!Against, Signal!InFavour
  <2>3. QED
    BY <1>3, <1>4, <1>5, <1>6, <2>1, <2>2, SignalFractions DEF OnBothSides
<1>7. CASE side = "SELL"
  <2>1. stop = f
    BY <1>1, <1>7, SignalFractions DEF Signal!Against
  <2>2. target = g
    <3>1. 100 + (-d) = 100 - d
      OBVIOUS
    <3>2. QED
      BY <1>1, <1>7, <3>1, SignalFractions DEF Signal!Against, Signal!InFavour
  <2>3. QED
    BY <1>3, <1>4, <1>5, <1>7, <2>1, <2>2, SignalFractions DEF OnBothSides
<1>8. QED
  BY <1>6, <1>7

\* So is every signal of the strategies.
LEMMA SignalIsProtected ==
    ASSUME SignalInv
    PROVE  Signal!SignalsProtected
<1>1. SUFFICES ASSUME NEW side \in {"BUY", "SELL"}, NEW limit \in Signal!Limits,
                      NEW signal,
                      signal = Signal!ExecuteStrategy(Signal!Protected(side, limit),
                                                      Signal!FetchOhlcv(bars, TRUE)),
                      signal # Signal!NoSignal, Signal!ParsePercentage(limit) # 0
               PROVE  /\ IF side = "BUY" THEN Signal!Less(signal.stop, signal.price)
                         ELSE Signal!Less(signal.price, signal.stop)
                      /\ IF side = "BUY" THEN Signal!Less(signal.price, signal.target)
                         ELSE Signal!Less(signal.target, signal.price)
                      /\ \/ signal.quantity = 1
                         \/ signal.stop = Signal!Whole(0)
                         \/ Signal!AtMost(
                              Signal!Times(signal.quantity,
                                           Signal!Distance(signal.price, signal.stop)),
                              Signal!Fraction(Capital * RiskPercent, 100))
  BY DEF Signal!SignalsProtected
<1>2. PICK strategy, first, d : /\ strategy = Signal!Protected(side, limit)
                                /\ first = Signal!GenerateSignal(strategy, bars)
                                /\ d = Signal!ParsePercentage(limit)
  OBVIOUS
<1>3. /\ strategy.position = side /\ strategy.stop = limit /\ strategy.target = limit
  BY <1>2 DEF Signal!Protected
<1>4. d \in Nat \ {0}
  <2>1. d = 0 \/ d = limit.figure
    BY <1>2 DEF Signal!ParsePercentage
  <2>2. limit.figure \in Distances
    BY DEF Signal!Limits
  <2>3. limit.figure \in Nat
    BY <2>2, Trading
  <2>4. QED
    BY <1>1, <1>2, <2>1, <2>3
<1>5. /\ first # Signal!NoSignal
      /\ signal = [first EXCEPT !.quantity =
                     Signal!CalculatePositionSize(first.price, first.stop)]
  BY <1>1, <1>2 DEF Signal!ExecuteStrategy, Signal!FetchOhlcv
<1>6. PICK p : p = Signal!Last(bars).close
  OBVIOUS
<1>7. /\ ~(Len(bars) < MinBars)
      /\ first = Signal!EvaluateConditions(strategy, Signal!CalculateAll(bars), p)
  BY <1>2, <1>5, <1>6 DEF Signal!GenerateSignal
<1>8. p \in Nat \ {0}
  <2>1. Len(bars) \in Nat /\ Len(bars) > 0
    BY <1>7, Trading DEF SignalInv
  <2>2. bars[Len(bars)] \in Bars
    BY <2>1 DEF SignalInv
  <2>3. p \in Closes
    BY <1>6, <2>2 DEF Signal!Last, Bars
  <2>4. QED
    BY <2>3, Trading
<1>9. PICK price, stop, target : /\ price = Signal!Whole(p)
                                 /\ stop = Signal!Against(side, p, d)
                                 /\ target = Signal!InFavour(side, p, d)
  OBVIOUS
<1>10. first = [action |-> side, price |-> price, quantity |-> 1, stop |-> stop,
                target |-> target]
  BY <1>1, <1>2, <1>3, <1>5, <1>7, <1>9 DEF Signal!EvaluateConditions
<1>11. PICK q : q = Signal!CalculatePositionSize(price, stop)
  OBVIOUS
<1>12. signal = [action |-> side, price |-> price, quantity |-> q, stop |-> stop,
                 target |-> target]
  <2>1. first.price = price /\ first.stop = stop
    BY <1>10
  <2>2. signal = [first EXCEPT !.quantity = q]
    BY <1>5, <1>11, <2>1
  <2>3. QED
    BY ONLY <1>10, <2>2
<1>13. /\ signal.price = price /\ signal.quantity = q /\ signal.stop = stop
       /\ signal.target = target
  BY ONLY <1>12
<1>14. PICK e : e = p * d
  OBVIOUS
<1>15. /\ IF side = "BUY" THEN Signal!Less(stop, price) ELSE Signal!Less(price, stop)
       /\ IF side = "BUY" THEN Signal!Less(price, target) ELSE Signal!Less(target, price)
       /\ stop # price
       /\ Signal!Distance(price, stop) = Fraction(e, 100) /\ e \in Nat \ {0}
  <2>1. OnBothSides(side, price, stop, target, e)
    BY <1>4, <1>8, <1>9, <1>14, OrderProtected
  <2>2. QED
    BY ONLY <2>1 DEF OnBothSides
<1>16. \/ q = 1
       \/ stop = Signal!Whole(0)
       \/ Signal!AtMost(Signal!Times(q, Signal!Distance(price, stop)),
                        Signal!Fraction(Capital * RiskPercent, 100))
  BY <1>11, <1>15, SizeKept, SignalFractions
<1>17. QED
  BY <1>13, <1>15, <1>16

\* The bars stay some.
LEMMA SignalKeeps ==
    ASSUME SignalInv, Signal!NewBar
    PROVE  SignalInv'
<1>1. PICK close \in Closes, volume \in Volumes :
         bars' = Append(bars, [close |-> close, volume |-> volume])
  BY DEF Signal!NewBar
<1>2. PICK b : b = [close |-> close, volume |-> volume]
  OBVIOUS
<1>3. b \in Bars
  BY <1>2 DEF Bars
<1>4. bars \in Seq(Bars) /\ bars' = Append(bars, b)
  BY <1>1, <1>2 DEF SignalInv
<1>5. bars' \in Seq(Bars)
  BY ONLY <1>3, <1>4
<1>6. QED
  BY <1>5 DEF SignalInv

-----------------------------------------------------------------------------
\* Whatever bars come, the stop and the target of a signal lie on either side of its price, and
\* its size risks no more than it may.
THEOREM SignalsStayProtected == Spec => []SignalsProtected
<1>1. Init => SignalInv
  BY DEF Init, Signal!SignalInit, SignalInv
<1>2. ASSUME SignalInv, [Next]_vars PROVE SignalInv'
  <2>1. CASE UNCHANGED bars
    BY <1>2, <2>1 DEF SignalInv
  <2>2. QED
    BY <1>2, <2>1, OneWorks, SignalKeeps
<1>3. SignalInv => SignalsProtected
  BY SignalIsProtected DEF SignalsProtected
<1>4. QED
  BY <1>1, <1>2, <1>3, PTL DEF Spec

-----------------------------------------------------------------------------
(* The indicators of the signals, from bar to bar. *)

\* A sequence given by its values is that function.
LEMMA SeriesIs ==
    ASSUME NEW n \in Nat, NEW f, NEW V, f \in [1 .. n -> V]
    PROVE  <<>> \o f = f
<1>1. f \in Seq(V) /\ Len(f) = n
  OBVIOUS
<1>2. QED
  BY <1>1

\* A step of an exponential average.
EmaStep(values, period, n) ==
    [p \in (1 .. n) \X Rational |->
       Signal!Fraction(2 * values[p[1]][1] * p[2][2] + (period - 1) * p[2][1] * values[p[1]][2],
                       (period + 1) * p[2][2] * values[p[1]][2])]

\* It is of the type of values.
LEMMA EmaStepType ==
    ASSUME NEW n \in Nat, NEW values \in [1 .. n -> Rational], NEW period \in Nat \ {0}
    PROVE  EmaStep(values, period, n) \in [(1 .. n) \X Rational -> Rational]
<1>1. ASSUME NEW i \in 1 .. n, NEW v \in Rational
      PROVE  Signal!Fraction(2 * values[i][1] * v[2] + (period - 1) * v[1] * values[i][2],
                             (period + 1) * v[2] * values[i][2]) \in Rational
  <2>1. PICK a, b, c, d : a = values[i][1] /\ b = values[i][2] /\ c = v[1] /\ d = v[2]
    OBVIOUS
  <2>2. a \in Int /\ b \in Nat \ {0} /\ c \in Int /\ d \in Nat \ {0}
    BY <2>1, RationalParts
  <2>3. 2 * a * d + (period - 1) * c * b \in Int
    BY <2>2
  <2>4. (period + 1) * d * b \in Int \ {0}
    BY <2>2
  <2>5. QED
    BY <2>1, <2>3, <2>4, FractionRational, SignalFractions
<1>2. QED
  BY <1>1 DEF EmaStep

\* The average is such steps from the first value.
LEMMA EmaIs ==
    ASSUME NEW n \in Nat \ {0}, NEW values \in [1 .. n -> Rational], NEW period \in Nat \ {0}
    PROVE  \E f \in [1 .. n -> Rational] :
             /\ Stepwise(f, n, 2, values[1], EmaStep(values, period, n))
             /\ Signal!Ema(values, period) = f
<1>1. PICK base, step : base = values[1] /\ step = EmaStep(values, period, n)
  OBVIOUS
<1>2. base \in Rational /\ step \in [(1 .. n) \X Rational -> Rational] /\ Len(values) = n
  <2>1. EmaStep(values, period, n) \in [(1 .. n) \X Rational -> Rational]
    BY EmaStepType
  <2>2. values[1] \in Rational /\ Len(values) = n
    OBVIOUS
  <2>3. QED
    BY ONLY <1>1, <2>1, <2>2
<1>3. PICK f \in [1 .. n -> Rational] : Stepwise(f, n, 2, base, step)
  <2>1. PICK k, V : k = 2 /\ V = Rational
    OBVIOUS
  <2>2. n \in Nat /\ k \in Nat /\ k >= 2 /\ base \in V /\ step \in [(1 .. n) \X V -> V]
    BY <1>2, <2>1
  <2>3. \E f \in [1 .. n -> V] : Stepwise(f, n, k, base, step)
    BY ONLY <2>1, <2>2, StepwiseExists
  <2>4. QED
    BY <2>1, <2>3
<1> DEFINE Is(ema) == ema = [i \in 1 .. n |->
              IF i = 1 THEN values[1]
              ELSE Signal!Fraction(2 * values[i][1] * ema[i - 1][2]
                                     + (period - 1) * ema[i - 1][1] * values[i][2],
                                   (period + 1) * ema[i - 1][2] * values[i][2])]
<1>4. ASSUME NEW i \in 1 .. n
      PROVE f[i] = IF i = 1 THEN values[1]
              ELSE Signal!Fraction(2 * values[i][1] * f[i - 1][2]
                                     + (period - 1) * f[i - 1][1] * values[i][2],
                                   (period + 1) * f[i - 1][2] * values[i][2])
  <2>1. f[i] = IF i < 2 THEN base ELSE step[<<i, f[i - 1]>>]
    BY <1>3 DEF Stepwise
  <2>2. CASE i = 1
    BY <1>1, <2>1, <2>2
  <2>3. CASE i # 1
    <3>1. i - 1 \in 1 .. n /\ ~(i < 2)
      BY <2>3
    <3>2. f[i - 1] \in Rational
      BY <3>1
    <3>3. QED
      BY <1>1, <2>1, <2>3, <3>1, <3>2 DEF EmaStep
  <2>4. QED
    BY <2>2, <2>3
<1>5. Is(f)
  BY <1>4
<1>6. PICK A : A = CHOOSE ema : Is(ema)
  OBVIOUS
<1>7. Is(A)
  BY <1>5, <1>6
<1> DEFINE G == {m \in Nat : m \in 1 .. n => A[m] = f[m]}
<1>8. 0 \in G
  OBVIOUS
<1>9. ASSUME NEW m \in Nat, m \in G PROVE m + 1 \in G
  <2>1. PICK i : i = m + 1
    OBVIOUS
  <2>2. SUFFICES ASSUME i \in 1 .. n PROVE A[i] = f[i]
    BY <2>1
  <2>3. i = 1 \/ (i # 1 /\ i - 1 = m /\ m \in 1 .. n)
    BY <2>1, <2>2
  <2>4. i # 1 => A[i - 1] = f[i - 1]
    BY <1>9, <2>3
  <2>5. QED
    BY <1>4, <1>7, <2>2, <2>4
<1> HIDE DEF G
<1>10. \A m \in Nat : m \in G
  BY <1>8, <1>9, NumberInduction
<1>11. \A m \in 1 .. n : A[m] = f[m]
  BY <1>10 DEF G
<1>12. Signal!Ema(values, period) = <<>> \o [i \in 1 .. n |-> A[i]]
  BY <1>2, <1>6 DEF Signal!Ema, Signal!Series
<1>13. [i \in 1 .. n |-> A[i]] = f
  BY <1>11
<1>14. <<>> \o f = f
  BY SeriesIs
<1>15. QED
  BY <1>1, <1>3, <1>12, <1>13, <1>14

\* An exponential average has a value for each bar, the first one while it has too few.
LEMMA EmaType ==
    ASSUME NEW n \in Nat \ {0}, NEW values \in [1 .. n -> Rational], NEW period \in Nat \ {0}
    PROVE  /\ Signal!CalculateEma(values, period) \in [1 .. n -> Rational]
           /\ n < period => Signal!CalculateEma(values, period) = [i \in 1 .. n |-> values[1]]
           /\ n >= period => Signal!CalculateEma(values, period) = Signal!Ema(values, period)
<1>1. Len(values) = n
  OBVIOUS
<1>2. CASE n < period
  <2>1. Signal!CalculateEma(values, period) = <<>> \o [i \in 1 .. n |-> values[1]]
    BY <1>1, <1>2 DEF Signal!CalculateEma, Signal!Series
  <2>2. PICK f : f = [i \in 1 .. n |-> values[1]]
    OBVIOUS
  <2>3. f \in [1 .. n -> Rational]
    BY <2>2
  <2>4. <<>> \o f = f
    BY <2>3, SeriesIs
  <2>5. QED
    BY <1>2, <2>1, <2>2, <2>3, <2>4
<1>3. CASE n >= period
  <2>1. Signal!CalculateEma(values, period) = Signal!Ema(values, period)
    BY <1>1, <1>3 DEF Signal!CalculateEma
  <2>2. Signal!Ema(values, period) \in [1 .. n -> Rational]
    BY EmaIs
  <2>3. QED
    BY <1>3, <2>1, <2>2
<1>4. QED
  BY <1>2, <1>3

\* One more value leaves the earlier values of an average as they were, unless it is the one
\* that completes the period.
LEMMA EmaKept ==
    ASSUME NEW n \in Nat \ {0}, NEW m, m = n + 1, NEW values \in [1 .. n -> Rational],
           NEW more \in [1 .. m -> Rational], Begins(more, values, n, Rational),
           NEW period \in Nat \ {0}, period # m
    PROVE  Begins(Signal!CalculateEma(more, period), Signal!CalculateEma(values, period), n,
                  Rational)
<1>1. m \in Nat \ {0} /\ n < m /\ more[1] = values[1] /\ values[1] \in Rational
  BY DEF Begins
<1>2. CASE n < period
  <2>1. m < period
    BY <1>1, <1>2
  <2>2. Signal!CalculateEma(values, period) = [i \in 1 .. n |-> values[1]]
    BY <1>2, EmaType
  <2>3. Signal!CalculateEma(more, period) = [i \in 1 .. m |-> values[1]]
    <3>1. Signal!CalculateEma(more, period) = [i \in 1 .. m |-> more[1]]
      BY ONLY <1>1, <2>1, more \in [1 .. m -> Rational], period \in Nat \ {0}, EmaType
    <3>2. QED
      BY <1>1, <3>1
  <2>4. QED
    BY <1>1, <2>2, <2>3 DEF Begins
<1>3. CASE n >= period
  <2>1. PICK f \in [1 .. n -> Rational] :
           /\ Stepwise(f, n, 2, values[1], EmaStep(values, period, n))
           /\ Signal!Ema(values, period) = f
    BY EmaIs
  <2>2. PICK g \in [1 .. m -> Rational] :
           /\ Stepwise(g, m, 2, more[1], EmaStep(more, period, m))
           /\ Signal!Ema(more, period) = g
    BY ONLY <1>1, more \in [1 .. m -> Rational], period \in Nat \ {0}, EmaIs
  <2>3. PICK k, V, base, step, longer :
          /\ k = 2 /\ V = Rational /\ base = values[1] /\ step = EmaStep(values, period, n)
          /\ longer = EmaStep(more, period, m)
    OBVIOUS
  <2>4. StepsAs(longer, step, n, V)
    BY <1>1, <2>3 DEF EmaStep, StepsAs, Begins
  <2>5. /\ k \in Nat /\ k >= 2 /\ base \in V /\ n \in Nat /\ m \in Nat /\ n <= m
        /\ step \in [(1 .. n) \X V -> V]
        /\ Stepwise(f, n, k, base, step) /\ Stepwise(g, m, k, base, longer)
    <3>1. /\ k \in Nat /\ k >= 2 /\ base \in V /\ n \in Nat /\ m \in Nat /\ n <= m
      BY <1>1, <2>3
    <3>2. step \in [(1 .. n) \X V -> V]
      BY <2>3, <3>1, EmaStepType
    <3>3. Stepwise(f, n, k, base, step) /\ Stepwise(g, m, k, base, longer)
      BY <1>1, <2>1, <2>2, <2>3
    <3>4. QED
      BY <3>1, <3>2, <3>3
  <2>6. Begins(g, f, n, V)
    BY ONLY <2>4, <2>5, StepwiseAgrees
  <2>7. /\ Signal!CalculateEma(values, period) = f
        /\ Signal!CalculateEma(more, period) = g
    <3>1. m >= period
      BY <1>1, <1>3
    <3>2. QED
      BY <1>1, <1>3, <2>1, <2>2, <3>1, EmaType
  <2>8. QED
    BY <2>3, <2>6, <2>7
<1>4. QED
  BY <1>2, <1>3

-----------------------------------------------------------------------------
\* The sum of a sequence is that of its values.
LEMMA SumOfType ==
    ASSUME NEW n \in Nat, NEW s, DOMAIN s = 1 .. n
    PROVE  /\ (\A i \in 1 .. n : s[i] \in Int) => Signal!SumOf(s) \in Int
           /\ (\A i \in 1 .. n : s[i] \in Nat) => Signal!SumOf(s) \in Nat
<1>1. Signal!SumOf(s) = SumFunctionOnSet(s, 1 .. n)
  BY DEF Signal!SumOf, Signal!FoldSeq, Signal!FoldFunction, Signal!FoldFunctionOnSet,
         Signal!MapThenFoldSet, SumFunctionOnSet, FoldFunctionOnSet, MapThenFoldSet
<1>2. IsFiniteSet(1 .. n)
  BY FS_Interval
<1>3. QED
  BY <1>1, <1>2, SumType, SumNatural

\* The greater of 1 and another number, or of 0.
LEMMA GreaterOf ==
    ASSUME NEW a \in Nat, NEW k \in Int
    PROVE  /\ Signal!Max({a, k}) = IF k >= a THEN k ELSE a
           /\ Signal!Max({k, a}) = IF k >= a THEN k ELSE a
<1>1. \A x \in {a, k} : (\A y \in {a, k} : x >= y) <=> x = IF k >= a THEN k ELSE a
  OBVIOUS
<1>2. (IF k >= a THEN k ELSE a) \in {a, k} /\ {a, k} = {k, a}
  OBVIOUS
<1>3. QED
  BY <1>1, <1>2 DEF Signal!Max

\* A part of a sequence is the same part of a longer one.
LEMMA SamePart ==
    ASSUME NEW n \in Nat, NEW m \in Nat, n <= m, NEW V, NEW s \in [1 .. n -> V],
           NEW t \in [1 .. m -> V], \A i \in 1 .. n : t[i] = s[i],
           NEW a \in Nat \ {0}, NEW b \in Nat, b <= n
    PROVE  /\ SubSeq(s, a, b) = SubSeq(t, a, b)
           /\ a <= b => SubSeq(s, a, b) \in [1 .. b - a + 1 -> V]
<1>1. s \in Seq(V) /\ t \in Seq(V) /\ Len(s) = n /\ Len(t) = m
  OBVIOUS
<1>2. SubSeq(s, a, b) = [i \in 1 .. b - a + 1 |-> s[a + i - 1]]
  BY <1>1
<1>3. SubSeq(t, a, b) = [i \in 1 .. b - a + 1 |-> t[a + i - 1]]
  BY <1>1
<1>4. \A i \in 1 .. b - a + 1 : a + i - 1 \in 1 .. n
  OBVIOUS
<1>5. QED
  BY <1>2, <1>3, <1>4

\* A moving average has a value for each bar, the mean of all while it has too few.
SmaFrom(i, period) == IF i >= period THEN i - period + 1 ELSE 1
SmaAt(closes, i, period) ==
    Signal!Fraction(Signal!SumOf(SubSeq(closes, SmaFrom(i, period), i)), i - SmaFrom(i, period) + 1)

\* The code's average is the one of the last "period" closes.
LEMMA SmaIs ==
    ASSUME NEW n \in Nat \ {0}, NEW closes \in [1 .. n -> Int], NEW period \in Nat \ {0}
    PROVE  /\ \A i \in 1 .. n : SmaAt(closes, i, period) \in Rational
           /\ n < period =>
                 \E v \in Rational : Signal!CalculateSma(closes, period) = [i \in 1 .. n |-> v]
           /\ n >= period =>
                 Signal!CalculateSma(closes, period)
                   = [i \in 1 .. n |-> SmaAt(closes, i, period)]
<1>1. Len(closes) = n /\ DOMAIN closes = 1 .. n
  OBVIOUS
<1>2. ASSUME NEW i \in 1 .. n PROVE SmaAt(closes, i, period) \in Rational
  <2>1. PICK a : a = SmaFrom(i, period)
    OBVIOUS
  <2>2. a \in Nat \ {0} /\ a <= i /\ i - a + 1 \in Nat \ {0}
    BY <2>1 DEF SmaFrom
  <2>3. PICK s : s = SubSeq(closes, a, i)
    OBVIOUS
  <2>4. s \in [1 .. i - a + 1 -> Int]
    <3>1. n \in Nat /\ n <= n /\ i \in Nat /\ i <= n /\ \A j \in 1 .. n : closes[j] = closes[j]
      OBVIOUS
    <3>2. QED
      BY <2>2, <2>3, <3>1, SamePart
  <2>5. Signal!SumOf(s) \in Int
    <3>1. i - a + 1 \in Nat /\ DOMAIN s = 1 .. i - a + 1 /\ \A j \in 1 .. i - a + 1 : s[j] \in Int
      BY <2>2, <2>4
    <3>2. QED
      BY ONLY <3>1, SumOfType
  <2>6. Signal!Fraction(Signal!SumOf(s), i - a + 1) \in Rational
    BY <2>2, <2>5, FractionRational, SignalFractions
  <2>7. QED
    BY <2>1, <2>3, <2>6 DEF SmaAt
<1>3. CASE n < period
  <2>1. PICK v : v = Signal!Fraction(Signal!SumOf(closes), n)
    OBVIOUS
  <2>2. v \in Rational
    <3>1. Signal!SumOf(closes) \in Int
      BY <1>1, SumOfType
    <3>2. n \in Int \ {0}
      OBVIOUS
    <3>3. QED
      BY <2>1, <3>1, <3>2, FractionRational, SignalFractions
  <2>3. Signal!CalculateSma(closes, period) = <<>> \o [i \in 1 .. n |-> v]
    BY <1>1, <1>3, <2>1 DEF Signal!CalculateSma, Signal!Series
  <2>4. PICK f : f = [i \in 1 .. n |-> v]
    OBVIOUS
  <2>5. f \in [1 .. n -> Rational] /\ n \in Nat
    BY <2>2, <2>4
  <2>6. <<>> \o f = f
    BY <2>5, SeriesIs
  <2>7. QED
    BY <1>3, <2>2, <2>3, <2>4, <2>6, <1>2
<1>4. CASE n >= period
  <2>1. ASSUME NEW i \in 1 .. n PROVE Signal!Max({1, i - period + 1}) = SmaFrom(i, period)
    <3>1. PICK a, k : a = 1 /\ k = i - period + 1
      OBVIOUS
    <3>2. a \in Nat /\ k \in Int
      BY <3>1
    <3>3. Signal!Max({a, k}) = IF k >= a THEN k ELSE a
      BY ONLY <3>2, GreaterOf
    <3>4. QED
      BY <3>1, <3>3 DEF SmaFrom
  <2>2. Signal!CalculateSma(closes, period)
          = <<>> \o [i \in 1 .. n |->
               LET first == Signal!Max({1, i - period + 1})
               IN  Signal!Fraction(Signal!SumOf(SubSeq(closes, first, i)), i - first + 1)]
    BY <1>1, <1>4 DEF Signal!CalculateSma, Signal!Series
  <2>3. PICK f : f = [i \in 1 .. n |-> SmaAt(closes, i, period)]
    OBVIOUS
  <2>4. [i \in 1 .. n |->
               LET first == Signal!Max({1, i - period + 1})
               IN  Signal!Fraction(Signal!SumOf(SubSeq(closes, first, i)), i - first + 1)] = f
    BY <2>1, <2>3 DEF SmaAt
  <2>5. f \in [1 .. n -> Rational] /\ n \in Nat
    BY <1>2, <2>3
  <2>6. <<>> \o f = f
    BY <2>5, SeriesIs
  <2>7. QED
    BY <1>2, <1>4, <2>2, <2>3, <2>4, <2>6
<1>5. QED
  BY <1>3, <1>4

\* One more close leaves the earlier values of a moving average, unless it completes it.
LEMMA SmaKept ==
    ASSUME NEW n \in Nat \ {0}, NEW m, m = n + 1, NEW closes \in [1 .. n -> Int],
           NEW more \in [1 .. m -> Int], Begins(more, closes, n, Int),
           NEW period \in Nat \ {0}, n >= period
    PROVE  Begins(Signal!CalculateSma(more, period), Signal!CalculateSma(closes, period), n,
                  Rational)
<1>1. m \in Nat \ {0} /\ n < m /\ m >= period
  OBVIOUS
<1>2. \A i \in 1 .. n : SmaAt(more, i, period) = SmaAt(closes, i, period)
  <2>1. ASSUME NEW i \in 1 .. n
        PROVE  SubSeq(more, SmaFrom(i, period), i) = SubSeq(closes, SmaFrom(i, period), i)
    <3>1. PICK a : a = SmaFrom(i, period)
      OBVIOUS
    <3>2. a \in Nat \ {0} /\ n \in Nat /\ m \in Nat /\ n <= m /\ i \in Nat /\ i <= n
      BY <1>1, <3>1 DEF SmaFrom
    <3>3. SubSeq(closes, a, i) = SubSeq(more, a, i)
      <4>1. \A k \in 1 .. n : more[k] = closes[k]
        BY DEF Begins
      <4>2. QED
        BY <3>2, <4>1, SamePart
    <3>4. QED
      BY <3>1, <3>3
  <2>2. QED
    BY <2>1 DEF SmaAt
<1>3. Signal!CalculateSma(closes, period) = [i \in 1 .. n |-> SmaAt(closes, i, period)]
  BY SmaIs
<1>4. Signal!CalculateSma(more, period) = [i \in 1 .. m |-> SmaAt(more, i, period)]
  BY <1>1, SmaIs
<1>5. \A i \in 1 .. n : SmaAt(closes, i, period) \in Rational
  BY SmaIs
<1>6. QED
  BY <1>1, <1>2, <1>3, <1>4, <1>5 DEF Begins

-----------------------------------------------------------------------------
\* The average price by volume, of the bars so far.
VwapAt(data, i) ==
    IF Signal!SumOf([k \in 1 .. i |-> data[k].volume]) = 0 THEN Signal!Whole(0)
    ELSE Signal!Fraction(Signal!SumOf([k \in 1 .. i |-> data[k].close * data[k].volume]),
                         Signal!SumOf([k \in 1 .. i |-> data[k].volume]))

\* The code's average is that one.
LEMMA VwapIs ==
    ASSUME NEW n \in Nat, NEW data \in [1 .. n -> Bars]
    PROVE  /\ \A i \in 1 .. n : VwapAt(data, i) \in Rational
           /\ Signal!CalculateVwap(data) = [i \in 1 .. n |-> VwapAt(data, i)]
<1>1. Len(data) = n /\ DOMAIN data = 1 .. n
  OBVIOUS
<1>2. ASSUME NEW i \in 1 .. n PROVE VwapAt(data, i) \in Rational
  <2>1. PICK f, g : /\ f = [k \in 1 .. i |-> data[k].volume]
                    /\ g = [k \in 1 .. i |-> data[k].close * data[k].volume]
    OBVIOUS
  <2>2. \A k \in 1 .. i : data[k].volume \in Nat /\ data[k].close \in Nat
    <3>1. ASSUME NEW k \in 1 .. i PROVE data[k] \in Bars
      OBVIOUS
    <3>2. QED
      BY <3>1, Trading DEF Bars
  <2>3. /\ i \in Nat /\ DOMAIN f = 1 .. i /\ DOMAIN g = 1 .. i
        /\ \A k \in 1 .. i : f[k] \in Int
        /\ \A k \in 1 .. i : g[k] \in Int
    BY <2>1, <2>2
  <2>4. Signal!SumOf(f) \in Int /\ Signal!SumOf(g) \in Int
    BY ONLY <2>3, SumOfType
  <2>5. CASE Signal!SumOf(f) = 0
    BY <2>1, <2>5, FractionRational, SignalFractions DEF VwapAt
  <2>6. CASE Signal!SumOf(f) # 0
    <3>1. VwapAt(data, i) = Signal!Fraction(Signal!SumOf(g), Signal!SumOf(f))
      BY <2>1, <2>6 DEF VwapAt
    <3>2. QED
      BY <2>4, <2>6, <3>1, FractionRational, SignalFractions
  <2>7. QED
    BY <2>5, <2>6
<1>3. Signal!CalculateVwap(data) = <<>> \o [i \in 1 .. n |-> VwapAt(data, i)]
  BY <1>1 DEF Signal!CalculateVwap, Signal!Series, VwapAt
<1>4. PICK f : f = [i \in 1 .. n |-> VwapAt(data, i)]
  OBVIOUS
<1>5. f \in [1 .. n -> Rational]
  BY <1>2, <1>4
<1>6. <<>> \o f = f
  BY <1>5, SeriesIs
<1>7. QED
  BY <1>2, <1>3, <1>4, <1>6

\* One more bar leaves its earlier values.
LEMMA VwapKept ==
    ASSUME NEW n \in Nat, NEW m, m = n + 1, NEW data \in [1 .. n -> Bars],
           NEW more \in [1 .. m -> Bars], \A i \in 1 .. n : more[i] = data[i]
    PROVE  \A i \in 1 .. n : Signal!CalculateVwap(more)[i] = Signal!CalculateVwap(data)[i]
<1>1. m \in Nat /\ n < m
  OBVIOUS
<1>2. ASSUME NEW i \in 1 .. n PROVE VwapAt(more, i) = VwapAt(data, i)
  <2>1. \A k \in 1 .. i : more[k] = data[k]
    OBVIOUS
  <2>2. /\ [k \in 1 .. i |-> more[k].volume] = [k \in 1 .. i |-> data[k].volume]
        /\ [k \in 1 .. i |-> more[k].close * more[k].volume]
             = [k \in 1 .. i |-> data[k].close * data[k].volume]
    BY <2>1
  <2>3. QED
    BY <2>2 DEF VwapAt
<1>3. Signal!CalculateVwap(data) = [i \in 1 .. n |-> VwapAt(data, i)]
  BY VwapIs
<1>4. Signal!CalculateVwap(more) = [i \in 1 .. m |-> VwapAt(more, i)]
  BY <1>1, VwapIs
<1>5. QED
  BY <1>1, <1>2, <1>3, <1>4

-----------------------------------------------------------------------------
\* What is averaged: gains, or losses.
Quota == Nat \X (Nat \ {0})
PartOf(closes, i, up) ==
    Signal!Max({IF up THEN closes[i + 1] - closes[i] ELSE closes[i] - closes[i + 1], 0})

\* No part is less than 0.
LEMMA PartType ==
    ASSUME NEW n \in Nat, NEW closes \in [1 .. n -> Int], NEW i \in 1 .. n, i + 1 \in 1 .. n,
           NEW up \in BOOLEAN
    PROVE  PartOf(closes, i, up) \in Nat
<1>1. PICK k, z : /\ k = IF up THEN closes[i + 1] - closes[i] ELSE closes[i] - closes[i + 1]
                  /\ z = 0
  OBVIOUS
<1>2. k \in Int /\ z \in Nat
  BY <1>1
<1>3. Signal!Max({k, z}) = IF k >= z THEN k ELSE z
  BY ONLY <1>2, GreaterOf
<1>4. Signal!Max({k, z}) \in Nat
  BY <1>1, <1>2, <1>3
<1>5. PartOf(closes, i, up) = Signal!Max({k, z})
  BY <1>1 DEF PartOf
<1>6. QED
  BY <1>4, <1>5

\* What is divided of a number is one of these.
LEMMA FractionQuota ==
    ASSUME NEW n \in Nat, NEW d \in Nat \ {0}
    PROVE  Signal!Fraction(n, d) \in Quota
<1>1. PICK x \in Int, y \in Nat \ {0}, g \in Nat \ {0} :
         Fraction(n, d) = <<x, y>> /\ n = g * x /\ d = g * y
  <2>1. n \in Int
    OBVIOUS
  <2>2. QED
    BY ONLY <2>1, d \in Nat \ {0}, FractionParts
<1>2. x \in Nat
  BY <1>1
<1>3. QED
  BY <1>1, <1>2, SignalFractions DEF Quota

\* The first average, and a step from one to the next.
RsiBase(closes, period, up) ==
    Signal!Fraction(Signal!SumOf([k \in 1 .. period |-> PartOf(closes, k, up)]), period)
RsiStep(closes, period, n, up) ==
    [p \in (1 .. n) \X Quota |->
       IF p[1] = 1 THEN p[2]
       ELSE Signal!Fraction(p[2][1] * (period - 1) + PartOf(closes, p[1] - 1, up) * p[2][2],
                            period * p[2][2])]

\* Both are of their type.
LEMMA RsiStepType ==
    ASSUME NEW n \in Nat, NEW closes \in [1 .. n -> Int], NEW period \in Nat \ {0}, period + 1 <= n,
           NEW up \in BOOLEAN
    PROVE  /\ RsiBase(closes, period, up) \in Quota
           /\ RsiStep(closes, period, n, up) \in [(1 .. n) \X Quota -> Quota]
<1>1. RsiBase(closes, period, up) \in Quota
  <2>1. PICK f : f = [k \in 1 .. period |-> PartOf(closes, k, up)]
    OBVIOUS
  <2>2. ASSUME NEW k \in 1 .. period PROVE PartOf(closes, k, up) \in Nat
    <3>1. k \in 1 .. n /\ k + 1 \in 1 .. n
      OBVIOUS
    <3>2. QED
      BY <3>1, PartType
  <2>3. period \in Nat /\ DOMAIN f = 1 .. period /\ \A k \in 1 .. period : f[k] \in Nat
    BY <2>1, <2>2
  <2>4. Signal!SumOf(f) \in Nat
    BY ONLY <2>3, SumOfType
  <2>5. QED
    BY <2>1, <2>4, FractionQuota DEF RsiBase
<1>2. ASSUME NEW i \in 1 .. n, NEW v \in Quota, i # 1
      PROVE  Signal!Fraction(v[1] * (period - 1) + PartOf(closes, i - 1, up) * v[2],
                             period * v[2]) \in Quota
  <2>1. PICK a, b, c : a = v[1] /\ b = v[2] /\ c = PartOf(closes, i - 1, up)
    OBVIOUS
  <2>2. a \in Nat /\ b \in Nat \ {0}
    BY <2>1 DEF Quota
  <2>3. c \in Nat
    <3>1. PICK j : j = i - 1
      OBVIOUS
    <3>2. j \in 1 .. n /\ j + 1 \in 1 .. n
      BY <1>2, <3>1
    <3>3. QED
      BY <2>1, <3>1, <3>2, PartType
  <2>4. a * (period - 1) + c * b \in Nat /\ period * b \in Nat \ {0}
    <3>1. a * (period - 1) \in Nat /\ c * b \in Nat
      BY <2>2, <2>3
    <3>2. period * b \in Nat \ {0}
      BY <2>2
    <3>3. QED
      BY <3>1, <3>2
  <2>5. QED
    BY <2>1, <2>4, FractionQuota
<1>3. QED
  BY <1>1, <1>2 DEF RsiStep

\* The averages of gains and of losses.
AveragesOf(closes, period, n, f, up) ==
    Stepwise(f, n, period + 1, RsiBase(closes, period, up), RsiStep(closes, period, n, up))

\* There are such averages.
LEMMA AveragesExist ==
    ASSUME NEW n \in Nat, NEW closes \in [1 .. n -> Int], NEW period \in Nat \ {0}, period + 1 <= n,
           NEW up \in BOOLEAN
    PROVE  \E f \in [1 .. n -> Quota] : AveragesOf(closes, period, n, f, up)
<1>1. PICK k, V, base, step :
        /\ k = period + 1 /\ V = Quota /\ base = RsiBase(closes, period, up)
        /\ step = RsiStep(closes, period, n, up)
  OBVIOUS
<1>2. k \in Nat /\ k >= 2 /\ base \in V /\ step \in [(1 .. n) \X V -> V] /\ n \in Nat
  <2>1. k \in Nat /\ k >= 2
    BY <1>1
  <2>2. /\ RsiBase(closes, period, up) \in Quota
        /\ RsiStep(closes, period, n, up) \in [(1 .. n) \X Quota -> Quota]
    BY RsiStepType
  <2>3. QED
    BY <1>1, <2>1, <2>2
<1>3. \E f \in [1 .. n -> V] : Stepwise(f, n, k, base, step)
  BY ONLY <1>2, StepwiseExists
<1>4. QED
  BY <1>1, <1>3 DEF AveragesOf

\* What an average is of the one before.
LEMMA AveragesStep ==
    ASSUME NEW n \in Nat, NEW closes \in [1 .. n -> Int], NEW period \in Nat \ {0}, period + 1 <= n,
           NEW up \in BOOLEAN, NEW f \in [1 .. n -> Quota], AveragesOf(closes, period, n, f, up),
           NEW i \in 1 .. n
    PROVE  f[i] = IF i < period + 1 THEN RsiBase(closes, period, up)
                  ELSE Signal!Fraction(f[i - 1][1] * (period - 1)
                                         + PartOf(closes, i - 1, up) * f[i - 1][2],
                                       period * f[i - 1][2])
<1>1. f[i] = IF i < period + 1 THEN RsiBase(closes, period, up)
             ELSE RsiStep(closes, period, n, up)[<<i, f[i - 1]>>]
  BY DEF AveragesOf, Stepwise
<1>2. CASE i < period + 1
  BY <1>1, <1>2
<1>3. CASE ~(i < period + 1)
  <2>1. i # 1 /\ i - 1 \in 1 .. n
    BY <1>3
  <2>2. f[i - 1] \in Quota
    BY <2>1
  <2>3. RsiStep(closes, period, n, up)[<<i, f[i - 1]>>]
          = Signal!Fraction(f[i - 1][1] * (period - 1) + PartOf(closes, i - 1, up) * f[i - 1][2],
                            period * f[i - 1][2])
    BY <2>1, <2>2 DEF RsiStep
  <2>4. QED
    BY <1>1, <1>3, <2>3
<1>4. QED
  BY <1>2, <1>3

\* The code's averages are these.
LEMMA AveragesAre ==
    ASSUME NEW n \in Nat, NEW closes \in [1 .. n -> Int], NEW period \in Nat \ {0}, period + 1 <= n,
           NEW up \in BOOLEAN, NEW f \in [1 .. n -> Quota], AveragesOf(closes, period, n, f, up)
    PROVE  Signal!Averages(closes, period, up) = f
<1> DEFINE Is(avg) == avg = [i \in 1 .. n |->
              IF i < period + 1
              THEN Signal!Fraction(Signal!SumOf([k \in 1 .. period |-> PartOf(closes, k, up)]),
                                   period)
              ELSE Signal!Fraction(avg[i - 1][1] * (period - 1)
                                     + PartOf(closes, i - 1, up) * avg[i - 1][2],
                                   period * avg[i - 1][2])]
<1>1. Len(closes) = n
  OBVIOUS
<1>2. PICK A : A = CHOOSE avg : Is(avg)
  OBVIOUS
<1>3. ASSUME NEW i \in 1 .. n
      PROVE  f[i] = IF i < period + 1 THEN RsiBase(closes, period, up)
                    ELSE Signal!Fraction(f[i - 1][1] * (period - 1)
                                           + PartOf(closes, i - 1, up) * f[i - 1][2],
                                         period * f[i - 1][2])
  <2> HIDE DEF Is
  <2> QED
    BY AveragesStep
<1>4. Is(f)
  BY <1>3 DEF RsiBase
<1>5. Is(A)
  BY <1>2, <1>4
<1>6. ASSUME NEW i \in 1 .. n
      PROVE  A[i] = IF i < period + 1 THEN RsiBase(closes, period, up)
                    ELSE Signal!Fraction(A[i - 1][1] * (period - 1)
                                           + PartOf(closes, i - 1, up) * A[i - 1][2],
                                         period * A[i - 1][2])
  BY <1>5 DEF RsiBase
<1>7. Signal!Averages(closes, period, up) = A
  BY <1>1, <1>2 DEF Signal!Averages, PartOf
<1> HIDE DEF Is
<1> DEFINE G == {m \in Nat : m \in 1 .. n => A[m] = f[m]}
<1>8. 0 \in G
  OBVIOUS
<1>9. ASSUME NEW m \in Nat, m \in G PROVE m + 1 \in G
  <2>1. PICK i : i = m + 1
    OBVIOUS
  <2>2. SUFFICES ASSUME i \in 1 .. n PROVE A[i] = f[i]
    BY <2>1
  <2>3. i < period + 1 \/ (i - 1 = m /\ m \in 1 .. n)
    BY <2>1, <2>2
  <2>4. CASE i < period + 1
    BY <1>3, <1>6, <2>2, <2>4
  <2>5. CASE ~(i < period + 1)
    <3>1. A[i - 1] = f[i - 1]
      BY <1>9, <2>3, <2>5
    <3>2. QED
      BY <1>3, <1>6, <2>2, <2>5, <3>1
  <2>6. QED
    BY <2>4, <2>5
<1> HIDE DEF G
<1>10. \A m \in Nat : m \in G
  BY <1>8, <1>9, NumberInduction
<1>11. \A m \in 1 .. n : A[m] = f[m]
  BY <1>10 DEF G
<1>12. A = f
  BY <1>5, <1>11 DEF Is
<1>13. QED
  BY <1>7, <1>12

\* What the index is of the averages of gains and of losses.
RsiAt(gain, loss, i) ==
    IF i = 1 THEN Signal!Whole(50)
    ELSE IF loss[1] = 0 THEN Signal!Whole(100)
    ELSE Signal!Fraction(100 * gain[1] * loss[2], gain[1] * loss[2] + loss[1] * gain[2])

\* It is a value.
LEMMA RsiAtType ==
    ASSUME NEW gain \in Quota, NEW loss \in Quota, NEW i
    PROVE  RsiAt(gain, loss, i) \in Rational
<1>1. PICK a, b, c, d : a = gain[1] /\ b = gain[2] /\ c = loss[1] /\ d = loss[2]
  OBVIOUS
<1>2. a \in Nat /\ b \in Nat \ {0} /\ c \in Nat /\ d \in Nat \ {0}
  BY <1>1 DEF Quota
<1>3. Signal!Whole(50) \in Rational /\ Signal!Whole(100) \in Rational
  BY FractionRational, SignalFractions
<1>4. ASSUME c # 0 PROVE Signal!Fraction(100 * a * d, a * d + c * b) \in Rational
  <2>1. a * d \in Nat /\ c * b \in Nat \ {0}
    BY <1>2, <1>4
  <2>2. 100 * a * d \in Int /\ a * d + c * b \in Int \ {0}
    BY <1>2, <2>1
  <2>3. QED
    BY <2>2, FractionRational, SignalFractions
<1>5. QED
  BY <1>1, <1>3, <1>4 DEF RsiAt

\* The relative strength index is 50 while there are too few bars, and then of averages that
\* start with the first changes.
LEMMA RsiFew ==
    ASSUME NEW n \in Nat, NEW closes \in [1 .. n -> Int], NEW period \in Nat \ {0}, n < period + 1
    PROVE  Signal!CalculateRsi(closes, period) = [i \in 1 .. n |-> Signal!Whole(50)]
<1>1. Signal!CalculateRsi(closes, period) = <<>> \o [i \in 1 .. n |-> Signal!Whole(50)]
  <2>1. Len(closes) = n
    OBVIOUS
  <2>2. QED
    BY <2>1 DEF Signal!CalculateRsi, Signal!Series
<1>2. PICK f : f = [i \in 1 .. n |-> Signal!Whole(50)]
  OBVIOUS
<1>3. f \in [1 .. n -> Rational]
  BY <1>2, FractionRational, SignalFractions
<1>4. <<>> \o f = f
  BY <1>3, SeriesIs
<1>5. QED
  BY <1>1, <1>2, <1>4

RsiFrom(closes, period, n, gains, losses) ==
    /\ AveragesOf(closes, period, n, gains, TRUE)
    /\ AveragesOf(closes, period, n, losses, FALSE)
RsiValues(n, gains, losses) == [i \in 1 .. n |-> RsiAt(gains[i], losses[i], i)]

\* The code's index is made of these averages.
LEMMA RsiIs ==
    ASSUME NEW n \in Nat, NEW closes \in [1 .. n -> Int], NEW period \in Nat \ {0}, period + 1 <= n,
           NEW gains \in [1 .. n -> Quota], NEW losses \in [1 .. n -> Quota],
           RsiFrom(closes, period, n, gains, losses)
    PROVE  Signal!CalculateRsi(closes, period) = RsiValues(n, gains, losses)
<1>1. Len(closes) = n /\ ~(n < period + 1)
  OBVIOUS
<1>2. Signal!Averages(closes, period, TRUE) = gains
  BY AveragesAre DEF RsiFrom
<1>3. Signal!Averages(closes, period, FALSE) = losses
  BY AveragesAre DEF RsiFrom
<1>4. Signal!CalculateRsi(closes, period)
        = <<>> \o [i \in 1 .. n |-> RsiAt(gains[i], losses[i], i)]
  BY <1>1, <1>2, <1>3 DEF Signal!CalculateRsi, Signal!Series, RsiAt
<1>5. PICK f : f = [i \in 1 .. n |-> RsiAt(gains[i], losses[i], i)]
  OBVIOUS
<1>6. f \in [1 .. n -> Rational]
  BY <1>5, RsiAtType
<1>7. <<>> \o f = f
  BY <1>6, SeriesIs
<1>8. QED
  BY <1>4, <1>5, <1>7 DEF RsiValues

\* It has a value for each bar, and one more close leaves those after the first averages.
LEMMA RsiType ==
    ASSUME NEW n \in Nat, NEW closes \in [1 .. n -> Int], NEW period \in Nat \ {0}
    PROVE  Signal!CalculateRsi(closes, period) \in [1 .. n -> Rational]
<1>1. CASE n < period + 1
  BY <1>1, RsiFew, FractionRational, SignalFractions
<1>2. CASE period + 1 <= n
  <2>1. PICK gains \in [1 .. n -> Quota] : AveragesOf(closes, period, n, gains, TRUE)
    BY <1>2, AveragesExist
  <2>2. PICK losses \in [1 .. n -> Quota] : AveragesOf(closes, period, n, losses, FALSE)
    BY <1>2, AveragesExist
  <2>3. Signal!CalculateRsi(closes, period) = RsiValues(n, gains, losses)
    <3>1. RsiFrom(closes, period, n, gains, losses)
      BY <2>1, <2>2 DEF RsiFrom
    <3>2. QED
      BY <1>2, <3>1, RsiIs
  <2>4. QED
    BY <2>3, RsiAtType DEF RsiValues
<1>3. QED
  BY <1>1, <1>2

\* Averages of one more close start as they did.
LEMMA AveragesKept ==
    ASSUME NEW n \in Nat, NEW m, m = n + 1, NEW closes \in [1 .. n -> Int],
           NEW more \in [1 .. m -> Int], \A i \in 1 .. n : more[i] = closes[i],
           NEW period \in Nat \ {0}, period + 1 <= n, NEW up \in BOOLEAN,
           NEW f \in [1 .. n -> Quota], AveragesOf(closes, period, n, f, up),
           NEW g \in [1 .. m -> Quota], AveragesOf(more, period, m, g, up)
    PROVE  Begins(g, f, n, Quota)
<1>1. PICK k, V, base, step, longer :
        /\ k = period + 1 /\ V = Quota /\ base = RsiBase(closes, period, up)
        /\ step = RsiStep(closes, period, n, up) /\ longer = RsiStep(more, period, m, up)
  OBVIOUS
<1>2. k \in Nat /\ k >= 2 /\ n \in Nat /\ m \in Nat /\ n <= m
  BY <1>1
<1>3. base \in V /\ step \in [(1 .. n) \X V -> V]
  <2>1. /\ RsiBase(closes, period, up) \in Quota
        /\ RsiStep(closes, period, n, up) \in [(1 .. n) \X Quota -> Quota]
    BY RsiStepType
  <2>2. QED
    BY <1>1, <2>1
<1>4. \A i \in 1 .. n : i + 1 \in 1 .. n => PartOf(more, i, up) = PartOf(closes, i, up)
  BY DEF PartOf
<1>5. RsiBase(more, period, up) = base
  <2>1. \A i \in 1 .. period : PartOf(more, i, up) = PartOf(closes, i, up)
    BY <1>4
  <2>2. [i \in 1 .. period |-> PartOf(more, i, up)] = [i \in 1 .. period |-> PartOf(closes, i, up)]
    BY <2>1
  <2>3. QED
    BY <1>1, <2>2 DEF RsiBase
<1>6. StepsAs(longer, step, n, V)
  <2>1. ASSUME NEW i \in 1 .. n, NEW v \in V PROVE longer[<<i, v>>] = step[<<i, v>>]
    <3>1. i # 1 => PartOf(more, i - 1, up) = PartOf(closes, i - 1, up)
      <4>1. i # 1 => i - 1 \in 1 .. n /\ (i - 1) + 1 \in 1 .. n
        OBVIOUS
      <4>2. QED
        BY <1>4, <4>1
    <3>2. i \in 1 .. m
      BY <1>2
    <3>3. QED
      BY <1>1, <3>1, <3>2 DEF RsiStep
  <2>2. QED
    BY <2>1 DEF StepsAs
<1>7. Stepwise(f, n, k, base, step) /\ Stepwise(g, m, k, base, longer)
  BY <1>1, <1>5 DEF AveragesOf
<1>8. Begins(g, f, n, V)
  BY ONLY <1>2, <1>3, <1>6, <1>7, StepwiseAgrees
<1>9. QED
  BY <1>1, <1>8

\* One more close leaves the index of the earlier bars, when they were enough.
LEMMA RsiKept ==
    ASSUME NEW n \in Nat, NEW m, m = n + 1, NEW closes \in [1 .. n -> Int],
           NEW more \in [1 .. m -> Int], Begins(more, closes, n, Int),
           NEW period \in Nat \ {0}, period + 1 <= n
    PROVE  Begins(Signal!CalculateRsi(more, period), Signal!CalculateRsi(closes, period), n,
                  Rational)
<1>1. m \in Nat /\ period + 1 <= m /\ n < m
  OBVIOUS
<1>2. PICK f \in [1 .. n -> Quota] : AveragesOf(closes, period, n, f, TRUE)
  BY AveragesExist
<1>3. PICK f1 \in [1 .. n -> Quota] : AveragesOf(closes, period, n, f1, FALSE)
  BY AveragesExist
<1>4. PICK g \in [1 .. m -> Quota] : AveragesOf(more, period, m, g, TRUE)
  BY <1>1, AveragesExist
<1>5. PICK g1 \in [1 .. m -> Quota] : AveragesOf(more, period, m, g1, FALSE)
  BY <1>1, AveragesExist
<1>6. Signal!CalculateRsi(closes, period) = RsiValues(n, f, f1)
  <2>1. RsiFrom(closes, period, n, f, f1)
    BY <1>2, <1>3 DEF RsiFrom
  <2>2. /\ n \in Nat /\ closes \in [1 .. n -> Int] /\ period \in Nat \ {0} /\ period + 1 <= n
        /\ f \in [1 .. n -> Quota] /\ f1 \in [1 .. n -> Quota]
    OBVIOUS
  <2>3. QED
    BY ONLY <2>1, <2>2, RsiIs
<1>7. Signal!CalculateRsi(more, period) = RsiValues(m, g, g1)
  <2>1. RsiFrom(more, period, m, g, g1)
    BY <1>4, <1>5 DEF RsiFrom
  <2>2. /\ m \in Nat /\ more \in [1 .. m -> Int] /\ period \in Nat \ {0} /\ period + 1 <= m
        /\ g \in [1 .. m -> Quota] /\ g1 \in [1 .. m -> Quota]
    BY <1>1
  <2>3. QED
    BY ONLY <2>1, <2>2, RsiIs
<1>8. \A i \in 1 .. n : more[i] = closes[i]
  BY DEF Begins
<1>9. Begins(g, f, n, Quota)
  BY <1>2, <1>4, <1>8, AveragesKept
<1>10. Begins(g1, f1, n, Quota)
  BY <1>3, <1>5, <1>8, AveragesKept
<1>11. ASSUME NEW i \in 1 .. n
       PROVE  RsiValues(n, f, f1)[i] \in Rational /\ RsiValues(m, g, g1)[i] = RsiValues(n, f, f1)[i]
  <2>1. i \in 1 .. m /\ g[i] = f[i] /\ g1[i] = f1[i] /\ f[i] \in Quota /\ f1[i] \in Quota
    BY <1>1, <1>9, <1>10 DEF Begins
  <2>2. RsiValues(n, f, f1)[i] = RsiAt(f[i], f1[i], i)
    BY DEF RsiValues
  <2>3. RsiValues(m, g, g1)[i] = RsiAt(g[i], g1[i], i)
    BY <2>1 DEF RsiValues
  <2>4. RsiAt(f[i], f1[i], i) \in Rational
    BY <2>1, RsiAtType
  <2>5. QED
    BY <2>1, <2>2, <2>3, <2>4
<1>12. QED
  BY <1>6, <1>7, <1>11 DEF Begins

-----------------------------------------------------------------------------
\* A difference of values is one.
LEMMA MinusType == \A a \in Rational, b \in Rational : Signal!Minus(a, b) \in Rational
<1>1. SUFFICES ASSUME NEW a \in Rational, NEW b \in Rational PROVE Minus(a, b) \in Rational
  BY SignalFractions
<1>2. PICK x, y, u, v : x = a[1] /\ y = a[2] /\ u = b[1] /\ v = b[2]
  OBVIOUS
<1>3. x \in Int /\ y \in Nat \ {0} /\ u \in Int /\ v \in Nat \ {0}
  BY <1>2, RationalParts
<1>4. x * v - u * y \in Int /\ y * v \in Int \ {0}
  BY <1>3
<1>5. QED
  BY <1>2, <1>4, FractionRational DEF Minus

\* The difference of a quick and a late average, and its own average.
Macd(values) == Signal!CalculateMacd(values, Fast, Slow, Fast)
Line(values, n) ==
    [i \in 1 .. n |-> Signal!Minus(Signal!CalculateEma(values, Fast)[i],
                                   Signal!CalculateEma(values, Slow)[i])]

\* The code's lines are these.
LEMMA MacdIs ==
    ASSUME NEW n \in Nat \ {0}, NEW values \in [1 .. n -> Rational]
    PROVE  /\ Line(values, n) \in [1 .. n -> Rational]
           /\ Macd(values).line = Line(values, n)
           /\ Macd(values).signal = Signal!CalculateEma(Line(values, n), Fast)
<1>1. Len(values) = n /\ n \in Nat
  OBVIOUS
<1>2. /\ Signal!CalculateEma(values, Fast) \in [1 .. n -> Rational]
      /\ Signal!CalculateEma(values, Slow) \in [1 .. n -> Rational]
  BY Trading, EmaType
<1>3. PICK f : f = Line(values, n)
  OBVIOUS
<1>4. f \in [1 .. n -> Rational]
  BY <1>2, <1>3, MinusType DEF Line
<1>5. <<>> \o f = f
  BY <1>1, <1>4, SeriesIs
<1>6. Macd(values) = [line |-> <<>> \o Line(values, n),
                      signal |-> Signal!CalculateEma(<<>> \o Line(values, n), Fast)]
  BY <1>1 DEF Macd, Line, Signal!CalculateMacd, Signal!Series
<1>7. QED
  BY <1>3, <1>4, <1>5, <1>6

\* One more value leaves both, unless it completes one of the averages.
LEMMA MacdKept ==
    ASSUME NEW n \in Nat \ {0}, NEW m, m = n + 1, NEW values \in [1 .. n -> Rational],
           NEW more \in [1 .. m -> Rational], Begins(more, values, n, Rational),
           m # Fast, m # Slow
    PROVE  /\ Begins(Macd(more).line, Macd(values).line, n, Rational)
           /\ Begins(Macd(more).signal, Macd(values).signal, n, Rational)
<1>1. m \in Nat \ {0} /\ n < m
  OBVIOUS
<1>2. \A p \in {Fast, Slow} :
        Begins(Signal!CalculateEma(more, p), Signal!CalculateEma(values, p), n, Rational)
  BY Trading, EmaKept
<1>3. PICK f, g : f = Line(values, n) /\ g = Line(more, m)
  OBVIOUS
<1>4. f \in [1 .. n -> Rational] /\ g \in [1 .. m -> Rational]
  BY <1>1, <1>3, MacdIs
<1>5. Begins(g, f, n, Rational)
  BY <1>1, <1>2, <1>3, <1>4 DEF Line, Begins
<1>6. Begins(Signal!CalculateEma(g, Fast), Signal!CalculateEma(f, Fast), n, Rational)
  BY <1>4, <1>5, Trading, EmaKept
<1>7. /\ Macd(values).line = f /\ Macd(values).signal = Signal!CalculateEma(f, Fast)
      /\ Macd(more).line = g /\ Macd(more).signal = Signal!CalculateEma(g, Fast)
  BY <1>1, <1>3, MacdIs
<1>8. QED
  BY <1>5, <1>6, <1>7

\* While there are too few bars for both averages, the difference is one and the same.
LEMMA MacdStill ==
    ASSUME NEW n \in Nat \ {0}, NEW values \in [1 .. n -> Rational], n < Fast, n < Slow
    PROVE  \E v \in Rational : /\ Macd(values).line = [i \in 1 .. n |-> v]
                               /\ Macd(values).signal = [i \in 1 .. n |-> v]
<1>1. /\ Signal!CalculateEma(values, Fast) = [i \in 1 .. n |-> values[1]]
      /\ Signal!CalculateEma(values, Slow) = [i \in 1 .. n |-> values[1]]
  BY Trading, EmaType
<1>2. PICK v : v = Signal!Minus(values[1], values[1])
  OBVIOUS
<1>3. v \in Rational
  BY <1>2, MinusType
<1>4. Line(values, n) = [i \in 1 .. n |-> v]
  BY <1>1, <1>2 DEF Line
<1>5. PICK f : f = Line(values, n)
  OBVIOUS
<1>6. f \in [1 .. n -> Rational] /\ f[1] = v
  BY <1>3, <1>4, <1>5
<1>7. Signal!CalculateEma(f, Fast) = [i \in 1 .. n |-> v]
  BY <1>6, Trading, EmaType
<1>8. Macd(values).line = f /\ Macd(values).signal = Signal!CalculateEma(f, Fast)
  BY <1>5, MacdIs
<1>9. QED
  BY <1>3, <1>4, <1>5, <1>7, <1>8

-----------------------------------------------------------------------------
\* A sequence of values crosses the threshold.
CrossesThreshold(s, up) == Signal!CrossesLevel(s, Signal!Level(s, Threshold), up)

\* What is crossed is not crossed again by the next value, when the earlier ones stay.
LEMMA LevelOnce ==
    ASSUME NEW n \in Nat \ {0}, NEW m, m = n + 1, NEW s \in [1 .. n -> Rational],
           NEW t \in [1 .. m -> Rational], Begins(t, s, n, Rational), NEW up \in BOOLEAN,
           CrossesThreshold(s, up)
    PROVE  ~CrossesThreshold(t, up)
<1>1. /\ Len(s) = n /\ Len(t) = m /\ m - 1 = n /\ n \in 1 .. n /\ n \in 1 .. m
      /\ DOMAIN s = 1 .. n /\ DOMAIN t = 1 .. m
  OBVIOUS
<1>2. PICK v, w : v = s[n] /\ w = Whole(Threshold)
  OBVIOUS
<1>3. v \in Rational /\ t[n] = v
  BY <1>1, <1>2 DEF Begins
<1>4. Signal!Level(s, Threshold)[n] = w /\ Signal!Level(t, Threshold)[n] = w
  BY <1>1, <1>2, SignalFractions DEF Signal!Level
<1>5. Signal!Now(s) = v /\ Signal!Before(t) = v
  BY <1>1, <1>2, <1>3 DEF Signal!Now, Signal!Before
<1>6. Signal!Now(Signal!Level(s, Threshold)) = w /\ Signal!Before(Signal!Level(t, Threshold)) = w
  <2>1. Len(Signal!Level(s, Threshold)) = n /\ Len(Signal!Level(t, Threshold)) = m
    BY <1>1 DEF Signal!Level
  <2>2. QED
    BY <1>1, <1>4, <2>1 DEF Signal!Now, Signal!Before
<1>7. v[1] \in Int /\ v[2] \in Int /\ w[1] \in Int /\ w[2] \in Int
  BY <1>2, <1>3, RationalParts, Trading DEF Whole
<1>8. ~(AtMost(w, v) /\ Less(v, w)) /\ ~(AtMost(v, w) /\ Less(w, v))
  BY <1>7 DEF AtMost, Less
<1>9. CASE up = TRUE
  <2>1. AtMost(w, v)
    BY <1>5, <1>6, <1>9, SignalFractions DEF CrossesThreshold, Signal!CrossesLevel
  <2>2. ~Less(v, w)
    BY <1>8, <2>1
  <2>3. QED
    BY <1>5, <1>6, <1>9, <2>2, SignalFractions DEF CrossesThreshold, Signal!CrossesLevel
<1>10. CASE up = FALSE
  <2>1. AtMost(v, w)
    BY <1>5, <1>6, <1>10, SignalFractions DEF CrossesThreshold, Signal!CrossesLevel
  <2>2. ~Less(w, v)
    BY <1>8, <2>1
  <2>3. QED
    BY <1>5, <1>6, <1>10, <2>2, SignalFractions DEF CrossesThreshold, Signal!CrossesLevel
<1>11. QED
  BY <1>9, <1>10

\* Values that are all the same cross nothing.
LEMMA LevelStill ==
    ASSUME NEW n \in Nat, n >= 2, NEW v \in Rational, NEW s, s = [i \in 1 .. n |-> v],
           NEW up \in BOOLEAN
    PROVE  ~CrossesThreshold(s, up)
<1>1. /\ Len(s) = n /\ n \in 1 .. n /\ n - 1 \in 1 .. n /\ DOMAIN s = 1 .. n
  OBVIOUS
<1>2. PICK w : w = Whole(Threshold)
  OBVIOUS
<1>3. Signal!Now(s) = v /\ Signal!Before(s) = v
  BY <1>1 DEF Signal!Now, Signal!Before
<1>4. Signal!Now(Signal!Level(s, Threshold)) = w /\ Signal!Before(Signal!Level(s, Threshold)) = w
  BY <1>1, <1>2, SignalFractions DEF Signal!Now, Signal!Before, Signal!Level
<1>5. v[1] \in Int /\ v[2] \in Int /\ w[1] \in Int /\ w[2] \in Int
  BY <1>2, RationalParts, Trading DEF Whole
<1>6. ~(AtMost(w, v) /\ Less(v, w)) /\ ~(AtMost(v, w) /\ Less(w, v))
  BY <1>5 DEF AtMost, Less
<1>7. QED
  BY <1>3, <1>4, <1>6, SignalFractions DEF CrossesThreshold, Signal!CrossesLevel

\* So of two sequences of values.
LEMMA LineOnce ==
    ASSUME NEW n \in Nat \ {0}, NEW m, m = n + 1,
           NEW s \in [1 .. n -> Rational], NEW o \in [1 .. n -> Rational],
           NEW t \in [1 .. m -> Rational], NEW p \in [1 .. m -> Rational],
           Begins(t, s, n, Rational), Begins(p, o, n, Rational), NEW up \in BOOLEAN,
           Signal!CrossesLine(s, o, up)
    PROVE  ~Signal!CrossesLine(t, p, up)
<1>1. /\ Len(s) = n /\ Len(o) = n /\ Len(t) = m /\ Len(p) = m
      /\ m - 1 = n /\ n \in 1 .. n
  OBVIOUS
<1>2. PICK v, w : v = s[n] /\ w = o[n]
  OBVIOUS
<1>3. v \in Rational /\ w \in Rational /\ t[n] = v /\ p[n] = w
  BY <1>1, <1>2 DEF Begins
<1>4. /\ Signal!Now(s) = v /\ Signal!Before(t) = v /\ Signal!Now(o) = w /\ Signal!Before(p) = w
  BY <1>1, <1>2, <1>3 DEF Signal!Now, Signal!Before
<1>5. v[1] \in Int /\ v[2] \in Int /\ w[1] \in Int /\ w[2] \in Int
  BY <1>3, RationalParts
<1>6. ~(AtMost(w, v) /\ Less(v, w)) /\ ~(AtMost(v, w) /\ Less(w, v))
  BY <1>5 DEF AtMost, Less
<1>7. QED
  BY <1>4, <1>6, SignalFractions DEF Signal!CrossesLine

\* Two sequences that are all the same value do not cross.
LEMMA LineStill ==
    ASSUME NEW n \in Nat \ {0}, NEW v \in Rational,
           NEW s, s = [i \in 1 .. n |-> v], NEW o, o = [i \in 1 .. n |-> v], NEW up \in BOOLEAN
    PROVE  ~Signal!CrossesLine(s, o, up)
<1>1. Len(s) = n /\ Len(o) = n /\ n \in 1 .. n
  OBVIOUS
<1>2. Signal!Now(s) = v /\ Signal!Now(o) = v
  BY <1>1 DEF Signal!Now
<1>3. v[1] \in Int /\ v[2] \in Int
  BY RationalParts
<1>4. ~Less(v, v)
  BY <1>3 DEF Less
<1>5. QED
  BY <1>2, <1>4, SignalFractions DEF Signal!CrossesLine

-----------------------------------------------------------------------------
\* The bars of a behaviour, and what is computed from them.
ClosesOf(data, n) == [i \in 1 .. n |-> data[i].close]
ValuesOf(data, n) == [i \in 1 .. n |-> Signal!Whole(data[i].close)]
Indicators(data, n) ==
    [close |-> ValuesOf(data, n), rsi |-> Signal!CalculateRsi(ClosesOf(data, n), Period),
     ema |-> [p \in {Fast, Slow} |-> Signal!CalculateEma(ValuesOf(data, n), p)],
     sma |-> [p \in {Fast, Slow} |-> Signal!CalculateSma(ClosesOf(data, n), p)],
     vwap |-> Signal!CalculateVwap(data),
     macd |-> Macd(ValuesOf(data, n)).line, macd_signal |-> Macd(ValuesOf(data, n)).signal]

\* The code's indicators are these.
LEMMA IndicatorsAre ==
    ASSUME NEW n \in Nat, NEW data \in [1 .. n -> Bars]
    PROVE  /\ ClosesOf(data, n) \in [1 .. n -> Int]
           /\ ValuesOf(data, n) \in [1 .. n -> Rational]
           /\ Signal!CloseOf(data) = ClosesOf(data, n)
           /\ Signal!ValueOf(data) = ValuesOf(data, n)
           /\ Signal!CalculateAll(data) = Indicators(data, n)
<1>1. DOMAIN data = 1 .. n
  OBVIOUS
<1>2. \A i \in 1 .. n : data[i].close \in Int
  <2>1. ASSUME NEW i \in 1 .. n PROVE data[i].close \in Closes
    <3>1. data[i] \in Bars
      OBVIOUS
    <3>2. QED
      BY <3>1 DEF Bars
  <2>2. Closes \subseteq Int
    BY Trading
  <2>3. QED
    BY <2>1, <2>2
<1>3. ClosesOf(data, n) \in [1 .. n -> Int] /\ ValuesOf(data, n) \in [1 .. n -> Rational]
  BY <1>2, FractionRational, SignalFractions DEF ClosesOf, ValuesOf
<1>4. Signal!CloseOf(data) = ClosesOf(data, n) /\ Signal!ValueOf(data) = ValuesOf(data, n)
  BY <1>1 DEF Signal!CloseOf, Signal!ValueOf, ClosesOf, ValuesOf
<1>5. Signal!CalculateAll(data) = Indicators(data, n)
  BY <1>1 DEF Signal!CalculateAll, Indicators, ClosesOf, ValuesOf, Macd
<1>6. QED
  BY <1>3, <1>4, <1>5

\* Each has a value for each bar.
LEMMA IndicatorsType ==
    ASSUME NEW n \in Nat \ {0}, NEW data \in [1 .. n -> Bars], NEW ind, ind = Indicators(data, n)
    PROVE  /\ ind.close \in [1 .. n -> Rational] /\ ind.rsi \in [1 .. n -> Rational]
           /\ ind.ema[Fast] \in [1 .. n -> Rational] /\ ind.ema[Slow] \in [1 .. n -> Rational]
           /\ ind.sma[Fast] \in [1 .. n -> Rational] /\ ind.vwap \in [1 .. n -> Rational]
           /\ ind.macd \in [1 .. n -> Rational] /\ ind.macd_signal \in [1 .. n -> Rational]
<1>1. PICK closes, values : closes = ClosesOf(data, n) /\ values = ValuesOf(data, n)
  OBVIOUS
<1>2. closes \in [1 .. n -> Int] /\ values \in [1 .. n -> Rational] /\ n \in Nat
  BY <1>1, IndicatorsAre
<1>3. Signal!CalculateRsi(closes, Period) \in [1 .. n -> Rational]
  BY <1>2, Trading, RsiType
<1>4. \A p \in {Fast, Slow} : Signal!CalculateEma(values, p) \in [1 .. n -> Rational]
  BY <1>2, Trading, EmaType
<1>5. Signal!CalculateSma(closes, Fast) \in [1 .. n -> Rational]
  BY <1>2, Trading, SmaIs
<1>6. Signal!CalculateVwap(data) \in [1 .. n -> Rational]
  BY <1>2, VwapIs
<1>7. Macd(values).line \in [1 .. n -> Rational] /\ Macd(values).signal \in [1 .. n -> Rational]
  <2>1. PICK f : f = Line(values, n)
    OBVIOUS
  <2>2. f \in [1 .. n -> Rational]
    BY <1>2, <2>1, MacdIs
  <2>3. Signal!CalculateEma(f, Fast) \in [1 .. n -> Rational]
    BY <2>2, Trading, EmaType
  <2>4. Macd(values).line = f /\ Macd(values).signal = Signal!CalculateEma(f, Fast)
    BY <1>2, <2>1, MacdIs
  <2>5. QED
    BY <2>2, <2>3, <2>4
<1>8. QED
  BY <1>1, <1>2, <1>3, <1>4, <1>5, <1>6, <1>7 DEF Indicators

\* When the condition of a crossing is met, some values cross.
Crosses(c, ind) ==
    \/ c.indicator = "rsi" /\ CrossesThreshold(ind.rsi, c.up)
    \/ c.indicator = "sma" /\ CrossesThreshold(ind.sma[Fast], c.up)
    \/ c.indicator = "vwap" /\ CrossesThreshold(ind.vwap, c.up)
    \/ c.indicator = "macd" /\ CrossesThreshold(ind.macd, c.up) /\ c.dict = TRUE
    \/ /\ c.indicator = "macd" /\ Signal!CrossesLine(ind.macd, ind.macd_signal, c.up)
       /\ c.dict = FALSE
    \/ /\ c.indicator = "ema" /\ CrossesThreshold(ind.ema[Fast], c.up)
       /\ c.dict = TRUE /\ c.period2 = 0
    \/ /\ c.indicator = "ema" /\ Signal!CrossesLine(ind.close, ind.ema[Fast], c.up)
       /\ c.dict = FALSE /\ c.period2 = 0
    \/ /\ c.indicator = "ema" /\ Signal!CrossesLine(ind.ema[Fast], ind.ema[Slow], c.up)
       /\ c.period2 = Slow

\* What a condition evaluates to is one of them.
LEMMA EvaluateCrosses ==
    ASSUME NEW n \in Nat \ {0}, NEW data \in [1 .. n -> Bars], NEW ind, ind = Indicators(data, n),
           NEW c \in Signal!Crossings, Signal!Evaluate(c, ind)
    PROVE  Crosses(c, ind) /\ n >= 2 /\ c.up \in BOOLEAN /\ c.period = Fast
<1>1. /\ Len(ind.close) = n /\ Len(ind.rsi) = n /\ Len(ind.ema[Fast]) = n /\ Len(ind.ema[Slow]) = n
      /\ Len(ind.sma[Fast]) = n /\ Len(ind.vwap) = n /\ Len(ind.macd) = n
  BY IndicatorsType
<1>2. Slow # 0
  BY Trading
<1>3. /\ c.dict \in BOOLEAN /\ c.up \in BOOLEAN /\ c.crosses = TRUE /\ c.period = Fast
      /\ c.period2 \in {0, Slow}
      /\ \/ c.indicator \in {"rsi", "macd"} /\ c.period2 = 0
         \/ c.indicator \in {"sma", "vwap"} /\ c.period2 = 0 /\ c.dict = TRUE
         \/ c.indicator = "ema" /\ (c.period2 = 0 \/ c.dict = TRUE \/ c.up = FALSE)
  BY DEF Signal!Crossings
<1>4. CASE c.dict = TRUE
  <2>1. Signal!EvaluateDict(c, ind)
    BY <1>4 DEF Signal!Evaluate
  <2>2. CASE c.indicator = "rsi"
    BY <1>1, <1>3, <1>4, <2>1, <2>2 DEF Signal!EvaluateDict, Crosses, CrossesThreshold
  <2>3. CASE c.indicator = "sma"
    BY <1>1, <1>3, <1>4, <2>1, <2>3 DEF Signal!EvaluateDict, Crosses, CrossesThreshold
  <2>4. CASE c.indicator = "vwap"
    BY <1>1, <1>3, <1>4, <2>1, <2>4 DEF Signal!EvaluateDict, Crosses, CrossesThreshold
  <2>5. CASE c.indicator = "macd"
    BY <1>1, <1>3, <1>4, <2>1, <2>5 DEF Signal!EvaluateDict, Crosses, CrossesThreshold
  <2>6. CASE c.indicator = "ema" /\ c.period2 = 0
    BY <1>1, <1>3, <1>4, <2>1, <2>6 DEF Signal!EvaluateDict, Crosses, CrossesThreshold
  <2>7. CASE c.indicator = "ema" /\ c.period2 = Slow
    BY <1>1, <1>2, <1>3, <1>4, <2>1, <2>7 DEF Signal!EvaluateDict, Crosses, CrossesThreshold
  <2>8. QED
    BY <1>3, <2>2, <2>3, <2>4, <2>5, <2>6, <2>7
<1>5. CASE c.dict = FALSE
  <2>1. Signal!EvaluateString(c, ind)
    BY <1>5 DEF Signal!Evaluate
  <2>2. CASE c.indicator = "rsi"
    BY <1>1, <1>3, <1>5, <2>1, <2>2
       DEF Signal!EvaluateString, Signal!EvaluateRsi, Crosses, CrossesThreshold
  <2>3. CASE c.indicator = "macd"
    BY <1>1, <1>3, <1>5, <2>1, <2>3 DEF Signal!EvaluateString, Signal!EvaluateMacd, Crosses
  <2>4. CASE c.indicator = "ema" /\ c.period2 = 0
    BY <1>1, <1>3, <1>5, <2>1, <2>4 DEF Signal!EvaluateString, Signal!EvaluateEma, Crosses
  <2>5. CASE c.indicator = "ema" /\ c.period2 = Slow
    BY <1>1, <1>2, <1>3, <1>5, <2>1, <2>5 DEF Signal!EvaluateString, Signal!EvaluateEma,
       Crosses
  <2>6. QED
    BY <1>3, <1>5, <2>2, <2>3, <2>4, <2>5
<1>6. QED
  BY <1>3, <1>4, <1>5

-----------------------------------------------------------------------------
\* The earlier values stay, or were all the same; so of two sequences.
Steady(s, t, n) ==
    Begins(t, s, n, Rational) \/ \E v \in Rational : s = [i \in 1 .. n |-> v]
BothSteady(s, o, t, p, n) ==
    \/ Begins(t, s, n, Rational) /\ Begins(p, o, n, Rational)
    \/ \E v \in Rational : s = [i \in 1 .. n |-> v] /\ o = [i \in 1 .. n |-> v]

\* What is crossed by steady values is not crossed again.
LEMMA SteadyOnce ==
    ASSUME NEW n \in Nat, n >= 2, NEW m, m = n + 1, NEW s \in [1 .. n -> Rational],
           NEW t \in [1 .. m -> Rational], Steady(s, t, n), NEW up \in BOOLEAN,
           CrossesThreshold(s, up)
    PROVE  ~CrossesThreshold(t, up)
<1>1. n \in Nat \ {0}
  OBVIOUS
<1>2. CASE Begins(t, s, n, Rational)
  BY <1>1, <1>2, LevelOnce
<1>3. CASE \E v \in Rational : s = [i \in 1 .. n |-> v]
  <2>1. PICK v \in Rational : s = [i \in 1 .. n |-> v]
    BY <1>3
  <2>2. QED
    BY <2>1, LevelStill
<1>4. QED
  BY <1>2, <1>3 DEF Steady

\* Two steady sequences cross no second time either.
LEMMA BothSteadyOnce ==
    ASSUME NEW n \in Nat \ {0}, NEW m, m = n + 1,
           NEW s \in [1 .. n -> Rational], NEW o \in [1 .. n -> Rational],
           NEW t \in [1 .. m -> Rational], NEW p \in [1 .. m -> Rational],
           BothSteady(s, o, t, p, n), NEW up \in BOOLEAN, Signal!CrossesLine(s, o, up)
    PROVE  ~Signal!CrossesLine(t, p, up)
<1>1. CASE Begins(t, s, n, Rational) /\ Begins(p, o, n, Rational)
  BY <1>1, LineOnce
<1>2. CASE \E v \in Rational : s = [i \in 1 .. n |-> v] /\ o = [i \in 1 .. n |-> v]
  <2>1. PICK v \in Rational : s = [i \in 1 .. n |-> v] /\ o = [i \in 1 .. n |-> v]
    BY <1>2
  <2>2. QED
    BY <2>1, LineStill
<1>3. QED
  BY <1>1, <1>2 DEF BothSteady

\* One more bar.
LaterBars(data, more, n, m) ==
    /\ data \in [1 .. n -> Bars] /\ more \in [1 .. m -> Bars]
    /\ \A i \in 1 .. n : more[i] = data[i]

\* What the closes and the values of one more bar are.
LEMMA ClosesKept ==
    ASSUME NEW n \in Nat, NEW m, m = n + 1, NEW data, NEW more, LaterBars(data, more, n, m)
    PROVE  /\ ClosesOf(data, n) \in [1 .. n -> Int] /\ ValuesOf(data, n) \in [1 .. n -> Rational]
           /\ ClosesOf(more, m) \in [1 .. m -> Int] /\ ValuesOf(more, m) \in [1 .. m -> Rational]
           /\ Begins(ClosesOf(more, m), ClosesOf(data, n), n, Int)
           /\ Begins(ValuesOf(more, m), ValuesOf(data, n), n, Rational)
<1>1. data \in [1 .. n -> Bars] /\ more \in [1 .. m -> Bars] /\ m \in Nat
  BY DEF LaterBars
<1>2. ClosesOf(data, n) \in [1 .. n -> Int] /\ ValuesOf(data, n) \in [1 .. n -> Rational]
  BY <1>1, IndicatorsAre
<1>3. ClosesOf(more, m) \in [1 .. m -> Int] /\ ValuesOf(more, m) \in [1 .. m -> Rational]
  BY <1>1, IndicatorsAre
<1>4. ASSUME NEW i \in 1 .. n
      PROVE  /\ ClosesOf(more, m)[i] = ClosesOf(data, n)[i]
             /\ ValuesOf(more, m)[i] = ValuesOf(data, n)[i]
  <2>1. i \in 1 .. m /\ more[i] = data[i]
    BY DEF LaterBars
  <2>2. QED
    BY <2>1 DEF ClosesOf, ValuesOf
<1>5. /\ Begins(ClosesOf(more, m), ClosesOf(data, n), n, Int)
      /\ Begins(ValuesOf(more, m), ValuesOf(data, n), n, Rational)
  BY <1>2, <1>4 DEF Begins
<1>6. QED
  BY <1>2, <1>3, <1>4, <1>5

\* One more bar keeps the averages, or there were too few for them.
LEMMA AveragesSteady ==
    ASSUME NEW n \in Nat \ {0}, NEW m, m = n + 1, NEW data, NEW more, LaterBars(data, more, n, m),
           NEW old, old = Indicators(data, n), NEW new, new = Indicators(more, m)
    PROVE  /\ Steady(old.rsi, new.rsi, n) /\ Steady(old.sma[Fast], new.sma[Fast], n)
           /\ Begins(new.vwap, old.vwap, n, Rational) /\ Begins(new.close, old.close, n, Rational)
<1>1. PICK closes, values : closes = ClosesOf(data, n) /\ values = ValuesOf(data, n)
  OBVIOUS
<1>2. PICK later, worth : later = ClosesOf(more, m) /\ worth = ValuesOf(more, m)
  OBVIOUS
<1>3. /\ closes \in [1 .. n -> Int] /\ later \in [1 .. m -> Int]
      /\ Begins(later, closes, n, Int)
      /\ Begins(worth, values, n, Rational) /\ n \in Nat
  <2>1. /\ ClosesOf(data, n) \in [1 .. n -> Int] /\ ClosesOf(more, m) \in [1 .. m -> Int]
        /\ Begins(ClosesOf(more, m), ClosesOf(data, n), n, Int)
        /\ Begins(ValuesOf(more, m), ValuesOf(data, n), n, Rational)
    BY ClosesKept
  <2>2. QED
    BY ONLY n \in Nat \ {0}, <1>1, <1>2, <2>1
<1>4. data \in [1 .. n -> Bars] /\ more \in [1 .. m -> Bars] /\ m \in Nat \ {0}
      /\ \A i \in 1 .. n : more[i] = data[i]
  BY DEF LaterBars
<1>5. Period \in Nat \ {0} /\ Fast \in Nat \ {0}
  BY Trading
<1>6. /\ old.rsi \in [1 .. n -> Rational] /\ old.sma[Fast] \in [1 .. n -> Rational]
      /\ old.vwap \in [1 .. n -> Rational]
  BY <1>4, IndicatorsType
<1>7. /\ old.rsi = Signal!CalculateRsi(closes, Period)
      /\ new.rsi = Signal!CalculateRsi(later, Period)
      /\ old.sma[Fast] = Signal!CalculateSma(closes, Fast)
      /\ new.sma[Fast] = Signal!CalculateSma(later, Fast)
      /\ old.vwap = Signal!CalculateVwap(data) /\ new.vwap = Signal!CalculateVwap(more)
      /\ old.close = values /\ new.close = worth
  BY <1>1, <1>2 DEF Indicators
<1>8. Steady(old.rsi, new.rsi, n)
  <2>1. CASE n < Period + 1
    <3>1. Signal!CalculateRsi(closes, Period) = [i \in 1 .. n |-> Signal!Whole(50)]
      BY <1>3, <1>5, <2>1, RsiFew
    <3>2. PICK v : v = Signal!Whole(50)
      OBVIOUS
    <3>3. v \in Rational
      BY <3>2, FractionRational, SignalFractions
    <3>4. QED
      BY <1>7, <3>1, <3>2, <3>3 DEF Steady
  <2>2. CASE Period + 1 <= n
    <3>1. Begins(Signal!CalculateRsi(later, Period), Signal!CalculateRsi(closes, Period), n,
                 Rational)
      BY ONLY m = n + 1, <1>3, <1>5, <2>2, RsiKept
    <3>2. Begins(new.rsi, old.rsi, n, Rational)
      BY ONLY <1>7, <3>1
    <3>3. QED
      BY <3>2 DEF Steady
  <2>3. QED
    BY <1>5, <2>1, <2>2
<1>9. Steady(old.sma[Fast], new.sma[Fast], n)
  <2>1. CASE n < Fast
    <3>1. \E v \in Rational : Signal!CalculateSma(closes, Fast) = [i \in 1 .. n |-> v]
      BY <1>3, <1>5, <2>1, SmaIs
    <3>2. QED
      BY <1>7, <3>1 DEF Steady
  <2>2. CASE n >= Fast
    <3>1. Begins(Signal!CalculateSma(later, Fast), Signal!CalculateSma(closes, Fast), n,
                 Rational)
      BY ONLY n \in Nat \ {0}, m = n + 1, <1>3, <1>5, <2>2, SmaKept
    <3>2. Begins(new.sma[Fast], old.sma[Fast], n, Rational)
      BY ONLY <1>7, <3>1
    <3>3. QED
      BY <3>2 DEF Steady
  <2>3. QED
    BY <1>5, <2>1, <2>2
<1>10. Begins(new.vwap, old.vwap, n, Rational)
  <2>1. \A i \in 1 .. n : Signal!CalculateVwap(more)[i] = Signal!CalculateVwap(data)[i]
    <3>1. n \in Nat
      OBVIOUS
    <3>2. QED
      BY ONLY <3>1, m = n + 1, <1>4, VwapKept
  <2>2. QED
    BY <1>6, <1>7, <2>1 DEF Begins
<1>11. QED
  BY <1>3, <1>7, <1>8, <1>9, <1>10

\* So of the exponential ones, but for the bar that completes them.
LEMMA EmasSteady ==
    ASSUME NEW n \in Nat \ {0}, NEW m, m = n + 1, NEW data, NEW more, LaterBars(data, more, n, m),
           NEW old, old = Indicators(data, n), NEW new, new = Indicators(more, m),
           NEW longer, longer = IF Slow >= Fast THEN Slow ELSE Fast
    PROVE  /\ Steady(old.ema[Fast], new.ema[Fast], n)
           /\ m # Fast => BothSteady(old.close, old.ema[Fast], new.close, new.ema[Fast], n)
           /\ m # longer => /\ BothSteady(old.ema[Fast], old.ema[Slow],
                                          new.ema[Fast], new.ema[Slow], n)
                            /\ Steady(old.macd, new.macd, n)
                            /\ BothSteady(old.macd, old.macd_signal, new.macd, new.macd_signal, n)
<1>1. PICK values, worth : values = ValuesOf(data, n) /\ worth = ValuesOf(more, m)
  OBVIOUS
<1>2. /\ values \in [1 .. n -> Rational] /\ worth \in [1 .. m -> Rational]
      /\ Begins(worth, values, n, Rational)
  BY <1>1, ClosesKept
<1>3. Fast \in Nat \ {0} /\ Slow \in Nat \ {0}
  BY Trading
<1>4. /\ old.close = values /\ new.close = worth
      /\ old.ema[Fast] = Signal!CalculateEma(values, Fast)
      /\ new.ema[Fast] = Signal!CalculateEma(worth, Fast)
      /\ old.ema[Slow] = Signal!CalculateEma(values, Slow)
      /\ new.ema[Slow] = Signal!CalculateEma(worth, Slow)
      /\ old.macd = Macd(values).line /\ old.macd_signal = Macd(values).signal
      /\ new.macd = Macd(worth).line /\ new.macd_signal = Macd(worth).signal
  BY <1>1 DEF Indicators
<1>5. PICK v : v = values[1]
  OBVIOUS
<1>6. v \in Rational
  BY <1>2, <1>5
<1>7. m # Fast => Begins(new.ema[Fast], old.ema[Fast], n, Rational)
  BY <1>2, <1>3, <1>4, EmaKept
<1>8. m # Slow => Begins(new.ema[Slow], old.ema[Slow], n, Rational)
  BY <1>2, <1>3, <1>4, EmaKept
<1>9. n < Fast => old.ema[Fast] = [i \in 1 .. n |-> v]
  BY <1>2, <1>3, <1>4, <1>5, EmaType
<1>10. n < Slow => old.ema[Slow] = [i \in 1 .. n |-> v]
  BY <1>2, <1>3, <1>4, <1>5, EmaType
<1>11. Steady(old.ema[Fast], new.ema[Fast], n)
  <2>1. CASE m # Fast
    BY <1>7, <2>1 DEF Steady
  <2>2. CASE m = Fast
    <3>1. n < Fast
      BY <1>3, <2>2
    <3>2. QED
      BY <1>6, <1>9, <3>1 DEF Steady
  <2>3. QED
    BY <2>1, <2>2
<1>12. m # Fast => BothSteady(old.close, old.ema[Fast], new.close, new.ema[Fast], n)
  BY <1>2, <1>4, <1>7 DEF BothSteady
<1>13. ASSUME m # longer, ~(m # Fast /\ m # Slow) PROVE n < Fast /\ n < Slow
  BY <1>3, <1>13
<1>14. ASSUME m # longer
       PROVE  BothSteady(old.ema[Fast], old.ema[Slow], new.ema[Fast], new.ema[Slow], n)
  <2>1. CASE m # Fast /\ m # Slow
    BY <1>7, <1>8, <2>1 DEF BothSteady
  <2>2. CASE ~(m # Fast /\ m # Slow)
    BY <1>6, <1>9, <1>10, <1>13, <1>14, <2>2 DEF BothSteady
  <2>3. QED
    BY <2>1, <2>2
<1>15. ASSUME m # longer
       PROVE  /\ Steady(old.macd, new.macd, n)
              /\ BothSteady(old.macd, old.macd_signal, new.macd, new.macd_signal, n)
  <2>1. CASE m # Fast /\ m # Slow
    <3>1. /\ Begins(Macd(worth).line, Macd(values).line, n, Rational)
          /\ Begins(Macd(worth).signal, Macd(values).signal, n, Rational)
      BY <1>2, <2>1, MacdKept
    <3>2. QED
      BY <1>4, <3>1 DEF Steady, BothSteady
  <2>2. CASE ~(m # Fast /\ m # Slow)
    <3>1. \E w \in Rational : /\ Macd(values).line = [i \in 1 .. n |-> w]
                              /\ Macd(values).signal = [i \in 1 .. n |-> w]
      BY <1>2, <1>13, <1>15, <2>2, MacdStill
    <3>2. QED
      BY <1>4, <3>1 DEF Steady, BothSteady
  <2>3. QED
    BY <2>1, <2>2
<1>16. QED
  BY <1>11, <1>12, <1>14, <1>15

-----------------------------------------------------------------------------
\* A condition that crosses, and no average of it is completed, does not cross again.
LEMMA CrossesNoMore ==
    ASSUME NEW n \in Nat, n >= 2, NEW m, m = n + 1, NEW data, NEW more,
           LaterBars(data, more, n, m),
           NEW old, old = Indicators(data, n), NEW new, new = Indicators(more, m),
           NEW c \in Signal!Crossings, ~Signal!Completes(c, m), c.up \in BOOLEAN, c.period = Fast,
           Crosses(c, old)
    PROVE  ~Crosses(c, new)
<1>1. n \in Nat \ {0} /\ m \in Nat \ {0}
  OBVIOUS
<1>2. PICK longer : longer = IF Slow >= Fast THEN Slow ELSE Fast
  OBVIOUS
<1>3. Fast \in Nat \ {0} /\ Slow \in Nat \ {0}
  BY Trading
<1>4. Signal!Max({Fast, Slow}) = longer /\ Signal!Max({Fast, 0}) = Fast
  <2>1. Signal!Max({Fast, Slow}) = longer
    BY <1>2, <1>3, GreaterOf
  <2>2. PICK zero \in Int : zero = 0
    OBVIOUS
  <2>3. Signal!Max({Fast, zero}) = Fast
    BY <1>3, <2>2, GreaterOf
  <2>4. QED
    BY <2>1, <2>2, <2>3
<1>5. data \in [1 .. n -> Bars] /\ more \in [1 .. m -> Bars]
  BY DEF LaterBars
<1>6. /\ old.close \in [1 .. n -> Rational] /\ old.rsi \in [1 .. n -> Rational]
      /\ old.ema[Fast] \in [1 .. n -> Rational] /\ old.ema[Slow] \in [1 .. n -> Rational]
      /\ old.sma[Fast] \in [1 .. n -> Rational] /\ old.vwap \in [1 .. n -> Rational]
      /\ old.macd \in [1 .. n -> Rational] /\ old.macd_signal \in [1 .. n -> Rational]
  BY <1>1, <1>5, IndicatorsType
<1>7. /\ new.close \in [1 .. m -> Rational] /\ new.rsi \in [1 .. m -> Rational]
      /\ new.ema[Fast] \in [1 .. m -> Rational] /\ new.ema[Slow] \in [1 .. m -> Rational]
      /\ new.sma[Fast] \in [1 .. m -> Rational] /\ new.vwap \in [1 .. m -> Rational]
      /\ new.macd \in [1 .. m -> Rational] /\ new.macd_signal \in [1 .. m -> Rational]
  BY <1>1, <1>5, IndicatorsType
<1>8. /\ Steady(old.rsi, new.rsi, n) /\ Steady(old.sma[Fast], new.sma[Fast], n)
      /\ Begins(new.vwap, old.vwap, n, Rational)
  BY <1>1, AveragesSteady
<1>9. Steady(old.vwap, new.vwap, n)
  BY <1>8 DEF Steady
<1>10. /\ Steady(old.ema[Fast], new.ema[Fast], n)
       /\ m # Fast => BothSteady(old.close, old.ema[Fast], new.close, new.ema[Fast], n)
       /\ m # longer => /\ BothSteady(old.ema[Fast], old.ema[Slow],
                                      new.ema[Fast], new.ema[Slow], n)
                        /\ Steady(old.macd, new.macd, n)
                        /\ BothSteady(old.macd, old.macd_signal, new.macd, new.macd_signal, n)
  BY <1>1, <1>2, EmasSteady
<1>11. PICK up \in BOOLEAN : up = c.up
  OBVIOUS
<1>12. \A s \in [1 .. n -> Rational], t \in [1 .. m -> Rational] :
          Steady(s, t, n) /\ CrossesThreshold(s, up) => ~CrossesThreshold(t, up)
  BY <1>11, SteadyOnce
<1>13. \A s \in [1 .. n -> Rational], o \in [1 .. n -> Rational],
          t \in [1 .. m -> Rational], q \in [1 .. m -> Rational] :
          BothSteady(s, o, t, q, n) /\ Signal!CrossesLine(s, o, up)
            => ~Signal!CrossesLine(t, q, up)
  BY <1>1, <1>11, BothSteadyOnce
<1>14. CASE c.indicator = "rsi"
  <2>1. CrossesThreshold(old.rsi, up)
    BY <1>11, <1>14 DEF Crosses
  <2>2. ~CrossesThreshold(new.rsi, up)
    BY ONLY <1>12, <1>6, <1>7, <1>8, <2>1
  <2>3. QED
    BY <1>11, <1>14, <2>2 DEF Crosses
<1>15. CASE c.indicator = "sma"
  <2>1. CrossesThreshold(old.sma[Fast], up)
    BY <1>11, <1>15 DEF Crosses
  <2>2. ~CrossesThreshold(new.sma[Fast], up)
    BY ONLY <1>12, <1>6, <1>7, <1>8, <2>1
  <2>3. QED
    BY <1>11, <1>15, <2>2 DEF Crosses
<1>16. CASE c.indicator = "vwap"
  <2>1. CrossesThreshold(old.vwap, up)
    BY <1>11, <1>16 DEF Crosses
  <2>2. ~CrossesThreshold(new.vwap, up)
    BY ONLY <1>12, <1>6, <1>7, <1>9, <2>1
  <2>3. QED
    BY <1>11, <1>16, <2>2 DEF Crosses
<1>17. CASE c.indicator = "macd"
  <2>1. m # longer
    BY <1>4, <1>17 DEF Signal!Completes
  <2>2. CASE c.dict = TRUE
    <3>1. CrossesThreshold(old.macd, up)
      BY <1>11, <1>17, <2>2 DEF Crosses
    <3>2. ~CrossesThreshold(new.macd, up)
      BY ONLY <1>12, <1>6, <1>7, <1>10, <2>1, <3>1
    <3>3. QED
      BY <1>11, <1>17, <2>2, <3>2 DEF Crosses
  <2>3. CASE c.dict # TRUE
    <3>1. Signal!CrossesLine(old.macd, old.macd_signal, up)
      BY <1>11, <1>17, <2>3 DEF Crosses
    <3>2. ~Signal!CrossesLine(new.macd, new.macd_signal, up)
      BY ONLY <1>13, <1>6, <1>7, <1>10, <2>1, <3>1
    <3>3. QED
      BY <1>11, <1>17, <2>3, <3>2 DEF Crosses
  <2>4. QED
    BY <2>2, <2>3
<1>18. CASE c.indicator = "ema" /\ c.period2 = 0
  <2>1. Slow # 0
    BY <1>3
  <2>2. CASE c.dict = TRUE
    <3>1. CrossesThreshold(old.ema[Fast], up)
      BY <1>11, <1>18, <2>1, <2>2 DEF Crosses
    <3>2. ~CrossesThreshold(new.ema[Fast], up)
      BY ONLY <1>12, <1>6, <1>7, <1>10, <3>1
    <3>3. QED
      BY <1>11, <1>18, <2>1, <2>2, <3>2 DEF Crosses
  <2>3. CASE c.dict # TRUE
    <3>1. m # Fast
      BY <1>4, <1>18, <2>3 DEF Signal!Completes
    <3>2. Signal!CrossesLine(old.close, old.ema[Fast], up)
      BY <1>11, <1>18, <2>1, <2>3 DEF Crosses
    <3>3. ~Signal!CrossesLine(new.close, new.ema[Fast], up)
      BY ONLY <1>13, <1>6, <1>7, <1>10, <3>1, <3>2
    <3>4. QED
      BY <1>11, <1>18, <2>1, <2>3, <3>3 DEF Crosses
  <2>4. QED
    BY <2>2, <2>3
<1>19. CASE c.indicator = "ema" /\ c.period2 = Slow
  <2>1. m # longer /\ Slow # 0
    <3>1. Slow # 0 /\ c.indicator = "ema" /\ c.period2 = Slow
      BY <1>3, <1>19
    <3>2. m # Signal!Max({c.period, c.period2})
      BY <3>1 DEF Signal!Completes
    <3>3. QED
      BY <1>4, <3>1, <3>2
  <2>2. Signal!CrossesLine(old.ema[Fast], old.ema[Slow], up)
    BY <1>11, <1>19, <2>1 DEF Crosses
  <2>3. ~Signal!CrossesLine(new.ema[Fast], new.ema[Slow], up)
    BY ONLY <1>13, <1>6, <1>7, <1>10, <2>1, <2>2
  <2>4. QED
    BY <1>11, <1>19, <2>1, <2>3 DEF Crosses
<1>20. QED
  BY <1>14, <1>15, <1>16, <1>17, <1>18, <1>19 DEF Crosses

-----------------------------------------------------------------------------
\* A sequence that a longer one begins with is a prefix of it.
LEMMA PrefixIs ==
    ASSUME NEW n \in Nat, NEW m, m = n + 1, NEW s \in [1 .. n -> Rational],
           NEW t \in [1 .. m -> Rational], Begins(t, s, n, Rational)
    PROVE  Signal!IsPrefix(s, t)
<1>1. PICK one \in Nat \ {0} : one = 1
  OBVIOUS
<1>2. m \in Nat /\ n <= m
  OBVIOUS
<1>3. SubSeq(s, one, n) = SubSeq(t, one, n)
  <2>1. \A i \in 1 .. n : t[i] = s[i]
    BY DEF Begins
  <2>2. QED
    BY <1>2, <2>1, SamePart
<1>4. Len(s) = n /\ Len(t) = m
  BY <1>2
<1>5. QED
  BY <1>1, <1>2, <1>3, <1>4 DEF Signal!IsPrefix

\* One more bar leaves the values of all earlier ones, once there are enough.
LEMMA ValuesStay ==
    ASSUME NEW n \in Nat, NEW m, m = n + 1, NEW data, NEW more, LaterBars(data, more, n, m)
    PROVE  Signal!ValuesKept(data, more)
<1>1. /\ data \in [1 .. n -> Bars] /\ more \in [1 .. m -> Bars] /\ m \in Nat \ {0}
      /\ \A i \in 1 .. n : more[i] = data[i]
  BY DEF LaterBars
<1>2. PICK old, new : old = ClosesOf(data, n) /\ new = ClosesOf(more, m)
  OBVIOUS
<1>3. PICK values, worth : values = ValuesOf(data, n) /\ worth = ValuesOf(more, m)
  OBVIOUS
<1>4. /\ old \in [1 .. n -> Int] /\ new \in [1 .. m -> Int]
      /\ Begins(new, old, n, Int)
      /\ values \in [1 .. n -> Rational] /\ worth \in [1 .. m -> Rational]
      /\ Begins(worth, values, n, Rational)
  <2>1. /\ ClosesOf(data, n) \in [1 .. n -> Int] /\ ValuesOf(data, n) \in [1 .. n -> Rational]
        /\ ClosesOf(more, m) \in [1 .. m -> Int] /\ ValuesOf(more, m) \in [1 .. m -> Rational]
        /\ Begins(ClosesOf(more, m), ClosesOf(data, n), n, Int)
        /\ Begins(ValuesOf(more, m), ValuesOf(data, n), n, Rational)
    BY ClosesKept
  <2>2. QED
    BY ONLY <1>2, <1>3, <2>1
<1>5. /\ Signal!CloseOf(data) = old /\ Signal!CloseOf(more) = new
      /\ Signal!ValueOf(data) = values /\ Signal!ValueOf(more) = worth
  BY <1>1, <1>2, <1>3, IndicatorsAre
<1>6. Len(old) = n
  BY <1>4
<1>7. ASSUME NEW p \in Nat \ {0}, n >= p
      PROVE  /\ Signal!IsPrefix(Signal!CalculateSma(old, p), Signal!CalculateSma(new, p))
             /\ Signal!IsPrefix(Signal!CalculateEma(values, p), Signal!CalculateEma(worth, p))
  <2>1. n \in Nat \ {0} /\ m \in Nat \ {0} /\ m >= p /\ p # m
    BY <1>7
  <2>2. PICK s, t : s = Signal!CalculateSma(old, p) /\ t = Signal!CalculateSma(new, p)
    OBVIOUS
  <2>3. s \in [1 .. n -> Rational]
    <3>1. n \in Nat \ {0} /\ old \in [1 .. n -> Int] /\ n >= p /\ p \in Nat \ {0}
      BY <1>4, <1>7, <2>1
    <3>2. \A i \in 1 .. n : SmaAt(old, i, p) \in Rational
      BY ONLY <3>1, SmaIs
    <3>3. Signal!CalculateSma(old, p) = [i \in 1 .. n |-> SmaAt(old, i, p)]
      BY ONLY <3>1, SmaIs
    <3>4. QED
      BY ONLY <2>2, <3>2, <3>3
  <2>4. t \in [1 .. m -> Rational]
    <3>1. m \in Nat \ {0} /\ new \in [1 .. m -> Int] /\ m >= p /\ p \in Nat \ {0}
      BY <1>4, <1>7, <2>1
    <3>2. \A i \in 1 .. m : SmaAt(new, i, p) \in Rational
      BY ONLY <3>1, SmaIs
    <3>3. Signal!CalculateSma(new, p) = [i \in 1 .. m |-> SmaAt(new, i, p)]
      BY ONLY <3>1, SmaIs
    <3>4. QED
      BY ONLY <2>2, <3>2, <3>3
  <2>5. Begins(t, s, n, Rational)
    BY <1>4, <1>7, <2>1, <2>2, SmaKept
  <2>6. Signal!IsPrefix(s, t)
    BY ONLY <2>2, <2>3, <2>4, <2>5, n \in Nat, m = n + 1, PrefixIs
  <2>7. PICK e, f : e = Signal!CalculateEma(values, p) /\ f = Signal!CalculateEma(worth, p)
    OBVIOUS
  <2>8. e \in [1 .. n -> Rational]
    BY <1>4, <1>7, <2>1, <2>7, EmaType
  <2>9. f \in [1 .. m -> Rational]
    BY <1>4, <1>7, <2>1, <2>7, EmaType
  <2>10. Begins(f, e, n, Rational)
    BY ONLY <1>4, <1>7, <2>1, <2>7, n \in Nat, m = n + 1, EmaKept
  <2>11. Signal!IsPrefix(e, f)
    BY ONLY <2>8, <2>9, <2>10, n \in Nat, m = n + 1, PrefixIs
  <2>12. QED
    BY <2>2, <2>6, <2>7, <2>11
<1>8. ASSUME NEW i \in Period + 1 .. n
      PROVE  Signal!CalculateRsi(old, Period)[i] = Signal!CalculateRsi(new, Period)[i]
  <2>1. Period \in Nat \ {0}
    BY Trading
  <2>2. Period + 1 <= n /\ i \in 1 .. n
    BY <2>1
  <2>3. Begins(Signal!CalculateRsi(new, Period), Signal!CalculateRsi(old, Period), n, Rational)
    BY <1>4, <2>1, <2>2, RsiKept
  <2>4. QED
    BY <2>2, <2>3 DEF Begins
<1>9. Signal!IsPrefix(Signal!CalculateVwap(data), Signal!CalculateVwap(more))
  <2>1. PICK s, t : s = Signal!CalculateVwap(data) /\ t = Signal!CalculateVwap(more)
    OBVIOUS
  <2>2. s \in [1 .. n -> Rational]
    BY <1>1, <2>1, VwapIs
  <2>3. t \in [1 .. m -> Rational]
    BY <1>1, <2>1, VwapIs
  <2>4. Begins(t, s, n, Rational)
    <3>1. \A i \in 1 .. n : t[i] = s[i]
      BY ONLY <1>1, <2>1, n \in Nat, m = n + 1, VwapKept
    <3>2. QED
      BY <2>2, <3>1 DEF Begins
  <2>5. Signal!IsPrefix(s, t)
    BY ONLY <2>1, <2>2, <2>3, <2>4, n \in Nat, m = n + 1, PrefixIs
  <2>6. QED
    BY <2>1, <2>5
<1>10. \A p \in {Fast, Slow} : Len(old) >= p =>
         /\ Signal!IsPrefix(Signal!CalculateSma(old, p), Signal!CalculateSma(new, p))
         /\ Signal!IsPrefix(Signal!CalculateEma(values, p), Signal!CalculateEma(worth, p))
  BY <1>6, <1>7, Trading
<1>11. QED
  BY <1>5, <1>6, <1>8, <1>9, <1>10 DEF Signal!ValuesKept

\* With one more bar no crossing is told of again, but at the bar that completes its averages.
LEMMA CrossingsStay ==
    ASSUME NEW n \in Nat, NEW m, m = n + 1, NEW data, NEW more, LaterBars(data, more, n, m)
    PROVE  Signal!ToldOnce(data, more)
<1>1. data \in [1 .. n -> Bars] /\ more \in [1 .. m -> Bars] /\ m \in Nat \ {0}
  BY DEF LaterBars
<1>2. PICK old, new : old = Indicators(data, n) /\ new = Indicators(more, m)
  OBVIOUS
<1>3. Signal!CalculateAll(data) = old /\ Signal!CalculateAll(more) = new
  BY <1>1, <1>2, IndicatorsAre
<1>4. Len(more) = m
  BY <1>1
<1>5. ASSUME NEW c \in Signal!Crossings, data # <<>>, ~Signal!Completes(c, m),
             Signal!Evaluate(c, old), Signal!Evaluate(c, new)
      PROVE  FALSE
  <2>1. n \in Nat \ {0}
    BY <1>1, <1>5
  <2>2. Crosses(c, old) /\ n >= 2 /\ c.up \in BOOLEAN /\ c.period = Fast
    BY <1>1, <1>2, <1>5, <2>1, EvaluateCrosses
  <2>3. Crosses(c, new)
    BY <1>1, <1>2, <1>5, EvaluateCrosses
  <2>4. ~Crosses(c, new)
    BY <1>2, <1>5, <2>2, CrossesNoMore
  <2>5. QED
    BY <2>3, <2>4
<1>6. QED
  BY <1>3, <1>4, <1>5 DEF Signal!ToldOnce

\* A new bar is one more.
LEMMA SignalSettles ==
    ASSUME SignalInv, Signal!NewBar
    PROVE  Signal!ValuesKept(bars, bars') /\ Signal!ToldOnce(bars, bars')
<1>1. PICK close \in Closes, volume \in Volumes :
         bars' = Append(bars, [close |-> close, volume |-> volume])
  BY DEF Signal!NewBar
<1>2. PICK b, data, more, n, m : /\ b = [close |-> close, volume |-> volume] /\ data = bars
                                 /\ more = bars' /\ n = Len(bars) /\ m = n + 1
  OBVIOUS
<1>3. b \in Bars
  BY <1>2 DEF Bars
<1>4. data \in Seq(Bars) /\ more = Append(data, b) /\ n = Len(data)
  BY <1>1, <1>2 DEF SignalInv
<1>5. n \in Nat /\ LaterBars(data, more, n, m)
  <2>1. n \in Nat /\ data \in [1 .. n -> Bars]
    BY ONLY <1>4
  <2>2. more \in Seq(Bars) /\ Len(more) = m /\ \A i \in 1 .. n : more[i] = data[i]
    BY ONLY <1>2, <1>3, <1>4
  <2>3. more \in [1 .. m -> Bars]
    BY ONLY <2>2
  <2>4. QED
    BY <2>1, <2>2, <2>3 DEF LaterBars
<1>6. Signal!ValuesKept(data, more)
  BY <1>2, <1>5, ValuesStay
<1>7. Signal!ToldOnce(data, more)
  BY <1>2, <1>5, CrossingsStay
<1>8. QED
  BY ONLY <1>2, <1>6, <1>7

-----------------------------------------------------------------------------
\* Whatever bars come, no indicator changes what it said of earlier ones once it has enough, and
\* no crossing is told of at two bars in a row, but for the bar that completes an average.
THEOREM SignalsStaySettled == Spec => SignalsSettle
<1>1. Init => SignalInv
  BY DEF Init, Signal!SignalInit, SignalInv
<1>2. ASSUME SignalInv, [Next]_vars PROVE SignalInv'
  <2>1. CASE UNCHANGED bars
    BY <1>2, <2>1 DEF SignalInv
  <2>2. QED
    BY <1>2, <2>1, OneWorks, SignalKeeps
<1>3. SignalInv /\ [Next]_vars =>
        [Signal!ValuesKept(bars, bars')]_bars /\ [Signal!ToldOnce(bars, bars')]_bars
  BY OneWorks, SignalSettles
<1>4. QED
  BY <1>1, <1>2, <1>3, PTL DEF Spec, SignalsSettle, Signal!NoRepaint, Signal!CrossesOnce

-----------------------------------------------------------------------------
(* The cash of the paper engine. *)

\* What a user's books consist of.
Account == [cash : Int, realized_pnl : Int, total_commission : Int, total_trades : Int]
Position == [quantity : Nat \ {0}, cost : Int, realized_pnl : Int]
Holdings == [Symbols -> Position \cup {NoPosition}]
Books == [account : Account, held : Holdings, unmatched : Int]

\* What the cash of some books is tied up in, and that it is accounted for.
AllTied(h) == SumFunctionOnSet([s \in Symbols |-> Engine!Tied(h[s])], Symbols)
Balanced(b) ==
    b.account.cash + AllTied(b.held)
      = InitialBalance + b.account.realized_pnl - b.account.total_commission + b.unmatched
BalancedBooks == {b \in Books : Balanced(b)}

\* An order that can be executed, and a limit order.
Sensible(o) ==
    /\ o.symbol \in Symbols /\ o.quantity \in Nat \ {0} /\ o.price \in Int
    /\ o.side = "buy" \/ o.side = "sell"
LimitOrder == [symbol : Symbols, side : {"buy", "sell"}, quantity : Nat \ {0}, price : Int,
               status : {"PENDING", "FILLED"}]

CashInv ==
    /\ Engine!Book \in Books
    /\ orders \in Seq(LimitOrder)
    /\ Engine!Opened => Balanced(Engine!Book)

\* What a position ties up is a number.
LEMMA TiedNumber ==
    \A p \in Position \cup {NoPosition} : Engine!Tied(p) \in Int
BY Absences DEF Engine!Tied, Position

\* When one position changes, what is tied up changes by as much.
LEMMA TiedChange ==
    ASSUME NEW h \in Holdings, NEW s \in Symbols, NEW p \in Position \cup {NoPosition}
    PROVE  /\ [h EXCEPT ![s] = p] \in Holdings
           /\ AllTied(h) \in Int
           /\ AllTied([h EXCEPT ![s] = p]) = AllTied(h) + Engine!Tied(p) - Engine!Tied(h[s])
<1>1. PICK g : g = [h EXCEPT ![s] = p]
  OBVIOUS
<1>2. /\ g \in Holdings /\ g[s] = p
      /\ \A t \in Symbols : /\ h[t] \in Position \cup {NoPosition}
                           /\ g[t] \in Position \cup {NoPosition}
      /\ \A t \in Symbols \ {s} : g[t] = h[t]
  BY <1>1 DEF Holdings
<1>3. PICK F, G : /\ F = [t \in Symbols |-> Engine!Tied(h[t])]
                  /\ G = [t \in Symbols |-> Engine!Tied(g[t])]
  OBVIOUS
<1>4. /\ \A t \in Symbols : F[t] \in Int /\ G[t] \in Int
      /\ \A t \in Symbols \ {s} : F[t] = G[t]
      /\ F[s] = Engine!Tied(h[s]) /\ G[s] = Engine!Tied(p)
  BY <1>2, <1>3, TiedNumber
<1>5. IsFiniteSet(Symbols)
  BY Amounts
<1>6. SumFunctionOnSet(G, Symbols) = SumFunctionOnSet(F, Symbols) + G[s] - F[s]
  BY <1>4, <1>5, SumChange
<1>7. SumFunctionOnSet(F, Symbols) \in Int
  BY <1>4, <1>5, SumType
<1>8. QED
  BY <1>1, <1>2, <1>3, <1>4, <1>6, <1>7 DEF AllTied

\* The books when the account has traded.
TradedBooks(b, cash_, c) ==
    [b EXCEPT !.account.cash = cash_, !.account.total_commission = @ + c,
              !.account.total_trades = @ + 1]

\* What that leaves alone.
TradedWell(a, b, cash_, c) ==
    /\ a \in Books /\ a.held = b.held /\ a.unmatched = b.unmatched
    /\ a.account.cash = cash_
    /\ a.account.total_commission = b.account.total_commission + c
    /\ a.account.realized_pnl = b.account.realized_pnl

\* It leaves that alone.
LEMMA Traded ==
    ASSUME NEW b \in Books, NEW cash_ \in Int, NEW c \in Int
    PROVE  TradedWell(TradedBooks(b, cash_, c), b, cash_, c)
<1>0. PICK a : a = TradedBooks(b, cash_, c)
  OBVIOUS
<1>1. PICK old, h, u : old = b.account /\ h = b.held /\ u = b.unmatched
  OBVIOUS
<1>2. old \in Account /\ h \in Holdings /\ u \in Int
  BY <1>1 DEF Books
<1>3. b = [account |-> old, held |-> h, unmatched |-> u]
  BY <1>1 DEF Books
<1>4. PICK new : new = [cash |-> cash_, realized_pnl |-> old.realized_pnl,
                        total_commission |-> old.total_commission + c,
                        total_trades |-> old.total_trades + 1]
  OBVIOUS
<1>5. a = [account |-> new, held |-> h, unmatched |-> u]
  <2>1. PICK x, y, z, n : old = [cash |-> x, realized_pnl |-> y, total_commission |-> z,
                                 total_trades |-> n]
    BY <1>2 DEF Account
  <2>2. QED
    BY <1>0, <1>3, <1>4, <2>1 DEF TradedBooks
<1>6. new \in Account
  BY <1>2, <1>4 DEF Account
<1>7. /\ a.held = h /\ a.unmatched = u /\ a.account = new
  BY ONLY <1>5
<1>8. a \in Books
  BY <1>2, <1>5, <1>6 DEF Books
<1>9. /\ new.cash = cash_ /\ new.total_commission = old.total_commission + c
      /\ new.realized_pnl = old.realized_pnl
  BY <1>4
<1>10. TradedWell(a, b, cash_, c)
  BY <1>1, <1>7, <1>8, <1>9 DEF TradedWell
<1>11. QED
  BY <1>0, <1>10

\* What a sale leaves of a position that covers it: its price, less what it tied up.
LEMMA ReducedFits ==
    ASSUME NEW p \in Position, NEW n \in Nat \ {0}, n <= p.quantity, NEW price \in Int,
           NEW a, a = Engine!Reduced(p, n, price), NEW v, v = price * n
    PROVE  /\ a.quantity \in Nat /\ a.realized_pnl \in Int
           /\ a.quantity > 0 => a \in Position /\ Engine!Tied(a) = Engine!Tied(p) - v
           /\ ~(a.quantity > 0) => a.realized_pnl = v - Engine!Tied(p)
<1>1. PICK q, c, r : q = p.quantity /\ c = p.cost /\ r = p.realized_pnl
  OBVIOUS
<1>2. q \in Nat \ {0} /\ c \in Int /\ r \in Int /\ v \in Int
  BY <1>1 DEF Position
<1>3. PICK sold : sold = (c * n) \div q
  OBVIOUS
<1>4. sold \in Int
  <2>1. PICK m : m = c * n
    OBVIOUS
  <2>2. m \in Int
    BY <1>2, <2>1
  <2>3. QED
    BY <1>2, <1>3, <2>1, <2>2
<1>5. a = [quantity |-> q - n, cost |-> c - sold, realized_pnl |-> r + v - sold]
  BY <1>1, <1>3 DEF Engine!Reduced
<1>6. a.quantity = q - n /\ a.cost = c - sold /\ a.realized_pnl = r + v - sold
  BY <1>5
<1>7. Engine!Tied(p) = c - r
  BY <1>1, Absences DEF Engine!Tied, Position
<1>8. CASE a.quantity > 0
  <2>1. a \in Position
    BY <1>2, <1>4, <1>5, <1>8 DEF Position
  <2>2. Engine!Tied(a) = a.cost - a.realized_pnl
    BY <2>1, Absences DEF Engine!Tied, Position
  <2>3. QED
    BY <1>1, <1>2, <1>4, <1>6, <1>7, <1>8, <2>1, <2>2
<1>9. CASE ~(a.quantity > 0)
  <2>1. n = q
    BY <1>1, <1>2, <1>6, <1>9
  <2>2. sold = c
    BY ONLY <1>2, <1>3, <2>1
  <2>3. QED
    BY <1>2, <1>6, <1>7, <1>9, <2>1, <2>2
<1>10. QED
  BY <1>8, <1>9

\* What a purchase adds to a position.
LEMMA BoughtFits ==
    ASSUME NEW p \in Position \cup {NoPosition}, NEW n \in Nat \ {0}, NEW price \in Int,
           NEW a, a = Engine!Bought(p, n, price)
    PROVE  a \in Position /\ Engine!Tied(a) = Engine!Tied(p) + price * n
<1>0. PICK v : v = price * n
  OBVIOUS
<1>1. n * price = v /\ v \in Int
  BY <1>0
<1> DEFINE Fits == a \in Position /\ Engine!Tied(a) = Engine!Tied(p) + v
<1>2. ASSUME p = NoPosition PROVE Fits
  <2>1. a = [quantity |-> n, cost |-> v, realized_pnl |-> 0]
    BY <1>1, <1>2 DEF Engine!Bought
  <2>2. a \in Position
    BY <1>1, <2>1 DEF Position
  <2>3. a # NoPosition
    BY <2>2, Absences DEF Position
  <2>4. QED
    BY <1>1, <1>2, <2>1, <2>2, <2>3 DEF Engine!Tied
<1>3. ASSUME p # NoPosition PROVE Fits
  <2>1. PICK q, c, r : q = p.quantity /\ c = p.cost /\ r = p.realized_pnl
    OBVIOUS
  <2>2. p = [quantity |-> q, cost |-> c, realized_pnl |-> r] /\ q \in Nat \ {0}
        /\ c \in Int /\ r \in Int
    BY <1>3, <2>1 DEF Position
  <2>3. a = [quantity |-> q + n, cost |-> c + v, realized_pnl |-> r]
    BY <1>1, <1>3, <2>2 DEF Engine!Bought
  <2>4. a \in Position
    BY <1>1, <2>2, <2>3 DEF Position
  <2>5. a # NoPosition
    BY <2>4, Absences DEF Position
  <2>6. QED
    BY <1>1, <1>3, <2>2, <2>3, <2>4, <2>5 DEF Engine!Tied
<1>4. QED
  BY <1>0, <1>2, <1>3

\* Executing an order keeps the books balanced.
LEMMA ExecutesBalanced ==
    ASSUME NEW b \in BalancedBooks, NEW o, Sensible(o)
    PROVE  Engine!ExecuteOrder(b, o) \in BalancedBooks
<1>1. PICK s, n, price, v, c, h, p, r :
        /\ s = o.symbol /\ n = o.quantity /\ price = o.price
        /\ v = price * n /\ c = Engine!Commission(v)
        /\ h = b.held /\ p = h[s] /\ r = Engine!ExecuteOrder(b, o)
  OBVIOUS
<1>2. /\ s \in Symbols /\ n \in Nat \ {0} /\ price \in Int /\ v \in Int /\ c \in Int
      /\ h \in Holdings /\ p \in Position \cup {NoPosition}
      /\ b \in Books /\ Balanced(b)
  <2>1. price \in Int /\ n \in Int
    BY <1>1 DEF Sensible
  <2>2. v \in Int
    BY <1>1, <2>1
  <2>3. c \in Int
    BY <1>1, <2>2, Amounts DEF Engine!Commission
  <2>4. QED
    BY <1>1, <2>2, <2>3 DEF Sensible, BalancedBooks, Books, Holdings
<1>3. PICK cash_, comm, real, u : /\ cash_ = b.account.cash /\ comm = b.account.total_commission
                                  /\ real = b.account.realized_pnl /\ u = b.unmatched
  OBVIOUS
<1>4. cash_ \in Int /\ comm \in Int /\ real \in Int /\ u \in Int
  BY <1>2, <1>3 DEF Books, Account
<1>5. PICK T : T = AllTied(h)
  OBVIOUS
<1>6. /\ T \in Int /\ cash_ + T = InitialBalance + real - comm + u
      /\ Engine!Tied(p) \in Int /\ InitialBalance \in Int
  BY <1>1, <1>2, <1>3, <1>5, TiedChange, TiedNumber, Amounts DEF Balanced
<1>7. CASE o.side = "buy"
  <2>1. PICK k, a : /\ k = cash_ - v - c
                    /\ a = TradedBooks(b, k, c)
    OBVIOUS
  <2>2. PICK q : q = Engine!Bought(p, n, price)
    OBVIOUS
  <2>3. /\ a \in Books /\ a.held = h /\ a.unmatched = u
        /\ a.account.cash = cash_ - v - c
        /\ a.account.total_commission = comm + c
        /\ a.account.realized_pnl = real
    <3>1. k \in Int /\ c \in Int /\ b \in Books /\ a = TradedBooks(b, k, c)
      BY <1>2, <1>4, <2>1
    <3>2. TradedWell(TradedBooks(b, k, c), b, k, c)
      BY ONLY <3>1, Traded
    <3>3. QED
      BY <1>1, <1>3, <2>1, <3>1, <3>2 DEF TradedWell
  <2>4. r = [a EXCEPT !.held[s] = q]
    BY <1>1, <1>3, <1>7, <2>1, <2>2, <2>3 DEF Engine!ExecuteOrder, TradedBooks
  <2>5. q \in Position /\ Engine!Tied(q) = Engine!Tied(p) + v
    <3>1. /\ p \in Position \cup {NoPosition} /\ n \in Nat \ {0} /\ price \in Int
          /\ v = price * n
      BY <1>1, <1>2
    <3>2. QED
      BY ONLY <2>2, <3>1, BoughtFits
  <2>6. PICK g : g = [h EXCEPT ![s] = q]
    OBVIOUS
  <2>7. g \in Holdings /\ AllTied(g) = T + v
    BY <1>1, <1>2, <1>5, <1>6, <2>5, <2>6, TiedChange
  <2>8. /\ r \in Books /\ r.held = g /\ r.account = a.account /\ r.unmatched = u
    BY <2>3, <2>4, <2>6, <2>7 DEF Books
  <2>9. Balanced(r)
    BY <1>2, <1>4, <1>6, <2>3, <2>7, <2>8 DEF Balanced
  <2>10. QED
    BY <1>1, <2>8, <2>9 DEF BalancedBooks
<1>8. CASE o.side # "buy"
  <2>1. PICK k, a : /\ k = cash_ + v - c
                    /\ a = TradedBooks(b, k, c)
    OBVIOUS
  <2>2. PICK q : q = Engine!Reduced(p, n, price)
    OBVIOUS
  <2>3. /\ a \in Books /\ a.held = h /\ a.unmatched = u
        /\ a.account.cash = cash_ + v - c
        /\ a.account.total_commission = comm + c
        /\ a.account.realized_pnl = real
    <3>1. k \in Int /\ c \in Int /\ b \in Books /\ a = TradedBooks(b, k, c)
      BY <1>2, <1>4, <2>1
    <3>2. TradedWell(TradedBooks(b, k, c), b, k, c)
      BY ONLY <3>1, Traded
    <3>3. QED
      BY <1>1, <1>3, <2>1, <3>1, <3>2 DEF TradedWell
  <2>4. r = IF ~(p # NoPosition /\ p.quantity >= n) THEN [a EXCEPT !.unmatched = @ + v]
            ELSE IF q.quantity > 0 THEN [a EXCEPT !.held[s] = q]
            ELSE [a EXCEPT !.held[s] = NoPosition, !.account.realized_pnl = @ + q.realized_pnl]
    BY <1>1, <1>3, <1>8, <2>1, <2>2, <2>3 DEF Engine!ExecuteOrder, TradedBooks
  <2>5. CASE ~(p # NoPosition /\ p.quantity >= n)
    <3>1. r = [a EXCEPT !.unmatched = u + v]
      BY <2>3, <2>4, <2>5
    <3>2. r \in Books /\ r.held = h /\ r.account = a.account /\ r.unmatched = u + v
      BY <1>2, <1>4, <2>3, <3>1 DEF Books
    <3>3. Balanced(r)
      BY <1>2, <1>4, <1>5, <1>6, <2>3, <3>2 DEF Balanced
    <3>4. QED
      BY <1>1, <3>2, <3>3 DEF BalancedBooks
  <2>6. CASE p # NoPosition /\ p.quantity >= n
    <3>1. p \in Position /\ n <= p.quantity
      BY <1>2, <2>6 DEF Position
    <3>2. /\ q.quantity \in Nat /\ q.realized_pnl \in Int
          /\ q.quantity > 0 => q \in Position /\ Engine!Tied(q) = Engine!Tied(p) - v
          /\ ~(q.quantity > 0) => q.realized_pnl = v - Engine!Tied(p)
      BY <1>1, <1>2, <2>2, <3>1, ReducedFits
    <3>3. CASE q.quantity > 0
      <4>1. r = [a EXCEPT !.held[s] = q]
        BY <2>4, <2>6, <3>3
      <4>2. PICK g : g = [h EXCEPT ![s] = q]
        OBVIOUS
      <4>3. g \in Holdings /\ AllTied(g) = T - v
        BY <1>1, <1>2, <1>5, <1>6, <3>2, <3>3, <4>2, TiedChange
      <4>4. r \in Books /\ r.held = g /\ r.account = a.account /\ r.unmatched = u
        BY <2>3, <4>1, <4>2, <4>3 DEF Books
      <4>5. Balanced(r)
        BY <1>2, <1>4, <1>6, <2>3, <4>3, <4>4 DEF Balanced
      <4>6. QED
        BY <1>1, <4>4, <4>5 DEF BalancedBooks
    <3>4. CASE ~(q.quantity > 0)
      <4>1. r = [a EXCEPT !.held[s] = NoPosition, !.account.realized_pnl = @ + q.realized_pnl]
        BY <2>4, <2>6, <3>4
      <4>2. PICK g, acc : /\ g = [h EXCEPT ![s] = NoPosition]
                          /\ acc = [a.account EXCEPT !.realized_pnl = real + q.realized_pnl]
        OBVIOUS
      <4>3. g \in Holdings /\ AllTied(g) = T - Engine!Tied(p)
        <5>1. Engine!Tied(NoPosition) = 0
          BY DEF Engine!Tied
        <5>2. QED
          BY <1>1, <1>2, <1>5, <1>6, <4>2, <5>1, TiedChange
      <4>4. PICK old : old = a.account
        OBVIOUS
      <4>5. old \in Account /\ a = [account |-> old, held |-> h, unmatched |-> u]
        BY <2>3, <4>4 DEF Books
      <4>6. r = [account |-> acc, held |-> g, unmatched |-> u]
        BY <2>3, <4>1, <4>2, <4>4, <4>5
      <4>7. /\ acc \in Account /\ acc.cash = old.cash
            /\ acc.total_commission = old.total_commission
            /\ acc.realized_pnl = real + q.realized_pnl
        BY <1>4, <2>3, <3>2, <4>2, <4>4, <4>5 DEF Account
      <4>8. r \in Books /\ r.held = g /\ r.account = acc /\ r.unmatched = u
        BY <1>4, <4>3, <4>6, <4>7 DEF Books
      <4>9. Balanced(r)
        BY <1>2, <1>4, <1>6, <2>3, <3>2, <3>4, <4>3, <4>4, <4>7, <4>8 DEF Balanced
      <4>10. QED
        BY <1>1, <4>8, <4>9 DEF BalancedBooks
    <3>5. QED
      BY <3>3, <3>4
  <2>7. QED
    BY <2>5, <2>6
<1>9. QED
  BY <1>7, <1>8

\* An order that can be filled is.
FillOne(b, o, s, price) ==
    IF Engine!CanFill(o, s, price) THEN Engine!ExecuteOrder(b, o) ELSE b

\* The function that filling the pending orders is the recursion of.
FillsBooks(iter, b, list, s, price) ==
    iter = [D \in SUBSET DOMAIN list |->
              IF D = {} THEN b
              ELSE FillOne(iter[D \ {Max(D)}], list[Max(D)], s, price)]

FillingBooks(b, list, s, price) == CHOOSE iter : FillsBooks(iter, b, list, s, price)

\* Filling pending orders keeps the books balanced.
LEMMA FillsBalanced ==
    ASSUME NEW b \in BalancedBooks, NEW list \in Seq(LimitOrder), NEW s, NEW price
    PROVE  FillingBooks(b, list, s, price)[DOMAIN list] \in BalancedBooks
<1>1. PICK N, V, choice : N = DOMAIN list /\ V = BalancedBooks /\ choice = Final(N)
  OBVIOUS
<1>a. PICK step : step = [p \in N \X V |-> FillOne(p[2], list[p[1]], s, price)]
  OBVIOUS
<1>2. N \in SUBSET Nat /\ IsFiniteSet(N)
  <2>1. N = 1 .. Len(list) /\ Len(list) \in Nat
    BY <1>1
  <2>2. QED
    BY <2>1, FS_Interval
<1>3. Choice(choice, N)
  BY <1>1, <1>2, LastPosition, FS_Subset DEF Choice, Final
<1>4. step \in [N \X V -> V]
  <2>1. ASSUME NEW i \in N, NEW c \in V PROVE FillOne(c, list[i], s, price) \in V
    <3>1. Sensible(list[i])
      <4>1. list[i] \in LimitOrder
        BY <1>1
      <4>2. QED
        BY <4>1 DEF LimitOrder, Sensible
    <3>2. QED
      BY <1>1, <3>1, ExecutesBalanced DEF FillOne
  <2>2. QED
    BY ONLY <1>a, <2>1
<1>5. b \in V
  BY <1>1
<1>6. PICK F \in [SUBSET N -> V] : Recursive(F, N, b, choice, step)
  BY ONLY <1>2, <1>3, <1>4, <1>5, RecursionExists
<1>7. ASSUME NEW D \in SUBSET N, D # {}
      PROVE  F[D] = FillOne(F[D \ {Max(D)}], list[Max(D)], s, price)
  <2>1. PICK i, c : i = Max(D) /\ c = F[D \ {i}]
    OBVIOUS
  <2>2. i \in N /\ choice[D] = i
    BY <1>1, <1>2, <1>7, <2>1, LastPosition, FS_Subset DEF Final
  <2>3. c \in V
    BY <1>6, <2>1
  <2>4. F[D] = step[<<i, c>>]
    BY <1>6, <1>7, <2>1, <2>2 DEF Recursive
  <2>5. step[<<i, c>>] = FillOne(c, list[i], s, price)
    BY ONLY <1>a, <2>2, <2>3
  <2>6. QED
    BY <2>1, <2>4, <2>5
<1>8. F[{}] = b
  BY <1>6 DEF Recursive
<1>9. FillsBooks(F, b, list, s, price)
  BY <1>1, <1>6, <1>7, <1>8 DEF FillsBooks
<1>10. PICK A : A = FillingBooks(b, list, s, price)
  OBVIOUS
<1>11. FillsBooks(A, b, list, s, price)
  BY <1>9, <1>10 DEF FillingBooks
<1>12. Follows(F, N, b, choice, step, V)
  BY <1>6 DEF Follows, Recursive
<1>13. Follows(A, N, b, choice, step, V)
  <2>1. A[{}] = b
    BY <1>11 DEF FillsBooks
  <2>2. ASSUME NEW D \in SUBSET N, D # {}, A[D \ {choice[D]}] \in V
        PROVE  A[D] = step[<<choice[D], A[D \ {choice[D]}]>>]
    <3>1. PICK i, c : i = Max(D) /\ c = A[D \ {i}]
      OBVIOUS
    <3>2. i \in N /\ choice[D] = i
      BY <1>1, <1>2, <2>2, <3>1, LastPosition, FS_Subset DEF Final
    <3>3. A[D] = FillOne(c, list[i], s, price)
      BY <1>1, <1>11, <2>2, <3>1 DEF FillsBooks
    <3>4. c \in V
      BY <2>2, <3>1, <3>2
    <3>5. step[<<i, c>>] = FillOne(c, list[i], s, price)
      BY ONLY <1>a, <3>2, <3>4
    <3>6. QED
      BY <3>1, <3>2, <3>3, <3>5
  <2>3. QED
    BY <2>1, <2>2 DEF Follows
<1>14. \A D \in SUBSET N : F[D] \in V
  BY <1>6
<1>15. \A D \in SUBSET N : F[D] = A[D]
  <2>1. IsFiniteSet(N)
    BY <1>2
  <2>2. QED
    BY ONLY <1>3, <1>12, <1>13, <1>14, <2>1, RecursionAgrees
<1>16. QED
  BY <1>1, <1>10, <1>14, <1>15

\* What processing the pending orders makes of the books is that function's last value.
LEMMA ProcessFills ==
    ASSUME Engine!ProcessPendingOrders
    PROVE  \E s \in Symbols, price \in Prices :
             /\ Engine!Becomes(FillingBooks(Engine!Book, orders, s, price)[DOMAIN orders])
             /\ orders' = [i \in DOMAIN orders |->
                    IF Engine!CanFill(orders[i], s, price)
                    THEN [orders[i] EXCEPT !.status = "FILLED"] ELSE orders[i]]
BY DEF Engine!ProcessPendingOrders, Engine!FoldLeft, Engine!MapThenFoldSet, FillingBooks,
       FillsBooks, FillOne, Max, Engine!Max

\* The balance of the books is what the property says.
LEMMA BalancedExplained == CashInv => Engine!CashExplained
<1> SUFFICES ASSUME CashInv, Engine!Opened PROVE Engine!CashExplained
  BY DEF Engine!CashExplained
<1>1. PICK f : f = [s \in Symbols |-> Engine!Tied(held[s])]
  OBVIOUS
<1>2. Engine!SumFunction(f) = Adding(f, Symbols)[Symbols]
  <2>1. DOMAIN f = Symbols
    BY <1>1
  <2>2. Engine!SumFunction(f) = Adding(f, DOMAIN f)[DOMAIN f]
    BY DEF Engine!SumFunction, Engine!SumFunctionOnSet, Engine!FoldFunctionOnSet,
           Engine!MapThenFoldSet, Adding, Adds, Some
  <2>3. QED
    BY <2>1, <2>2
<1>3. Engine!SumFunction(f) = AllTied(held)
  BY <1>1, <1>2, SumIsAdding DEF AllTied
<1>4. account.cash + AllTied(held)
        = InitialBalance + account.realized_pnl - account.total_commission + unmatched
  BY DEF CashInv, Balanced, Engine!Book
<1>5. QED
  BY <1>1, <1>3, <1>4 DEF Engine!CashExplained

\* The first state.
LEMMA CashStarts == Engine!EngineInit => CashInv
<1> SUFFICES ASSUME Engine!EngineInit PROVE CashInv
  OBVIOUS
<1>1. account \in Account /\ held \in Holdings /\ unmatched \in Int
  BY DEF Engine!EngineInit, Engine!NoAccount, Account, Holdings
<1>2. orders \in Seq(LimitOrder)
  BY DEF Engine!EngineInit
<1>3. ~Engine!Opened
  BY DEF Engine!EngineInit, Engine!Opened
<1>4. QED
  BY <1>1, <1>2, <1>3 DEF CashInv, Engine!Book, Books

\* A fresh account balances.
LEMMA FreshBalances ==
    ASSUME account' = Engine!Fresh, held' = [s \in Symbols |-> NoPosition],
           orders' = <<>>, unmatched' = 0
    PROVE  CashInv'
<1>1. PICK h : h = [s \in Symbols |-> NoPosition]
  OBVIOUS
<1>2. h \in Holdings /\ \A s \in Symbols : Engine!Tied(h[s]) = 0
  BY <1>1 DEF Holdings, Engine!Tied
<1>3. AllTied(h) = 0
  <2>1. PICK f : f = [s \in Symbols |-> Engine!Tied(h[s])]
    OBVIOUS
  <2>2. \A s \in Symbols : f[s] \in Nat /\ f[s] = 0
    BY <1>2, <2>1
  <2>3. SumFunctionOnSet(f, Symbols) = 0
    BY <2>2, Amounts, SumNatural
  <2>4. QED
    BY <2>1, <2>3 DEF AllTied
<1>4. PICK b : b = [account |-> Engine!Fresh, held |-> h, unmatched |-> 0]
  OBVIOUS
<1>5. Engine!Fresh = [cash |-> InitialBalance, realized_pnl |-> 0, total_commission |-> 0,
                      total_trades |-> 0]
  BY DEF Engine!Fresh, Engine!NoAccount
<1>6. b \in Books
  BY <1>2, <1>4, <1>5, Amounts DEF Books, Account
<1>7. Balanced(b)
  BY <1>3, <1>4, <1>5, Amounts DEF Balanced
<1>8. Engine!Book' = b
  BY <1>1, <1>4 DEF Engine!Book
<1>9. orders' \in Seq(LimitOrder)
  OBVIOUS
<1>10. QED
  BY <1>6, <1>7, <1>8, <1>9 DEF CashInv, Balanced

\* Balanced books, with limit orders.
LEMMA BooksBecome ==
    ASSUME NEW b \in BalancedBooks, Engine!Becomes(b), orders' \in Seq(LimitOrder)
    PROVE  CashInv'
<1>1. Engine!Book' = b
  BY DEF Engine!Becomes, Engine!Book, BalancedBooks, Books
<1>2. QED
  BY <1>1 DEF CashInv, BalancedBooks, Balanced

\* Every step of the engine keeps its books.
LEMMA CashKeeps ==
    ASSUME CashInv, Engine!EngineStep
    PROVE  CashInv'
<1>1. PICK b, list : b = Engine!Book /\ list = orders
  OBVIOUS
<1>2. b \in Books /\ list \in Seq(LimitOrder) /\ (Engine!Opened => b \in BalancedBooks)
  BY <1>1 DEF CashInv, BalancedBooks
<1>3. CASE Engine!GetOrCreateAccount \/ Engine!Reset
  BY <1>3, FreshBalances DEF Engine!GetOrCreateAccount, Engine!Reset
<1>4. CASE Engine!DeleteAccount
  <2>1. account' \in Account /\ held' \in Holdings /\ unmatched' \in Int
    BY <1>4 DEF Engine!DeleteAccount, Engine!NoAccount, Account, Holdings
  <2>2. orders' \in Seq(LimitOrder)
    BY <1>4 DEF Engine!DeleteAccount
  <2>3. ~Engine!Opened'
    BY <1>4 DEF Engine!DeleteAccount, Engine!Opened
  <2>4. QED
    BY <2>1, <2>2, <2>3 DEF CashInv, Engine!Book, Books
<1>5. CASE Engine!PlaceMarketOrder
  <2>1. PICK s \in Symbols, side \in Engine!Sides, q \in Quantities, price \in Prices :
          Engine!Becomes(Engine!ExecuteOrder(b,
              [symbol |-> s, side |-> side, quantity |-> q,
               price |-> Engine!FillPrice(price, side)]))
    BY <1>1, <1>5 DEF Engine!PlaceMarketOrder
  <2>2. PICK o : o = [symbol |-> s, side |-> side, quantity |-> q,
                      price |-> Engine!FillPrice(price, side)]
    OBVIOUS
  <2>3. Engine!FillPrice(price, side) \in Int
    BY Amounts DEF Engine!FillPrice
  <2>4. Sensible(o)
    BY <2>2, <2>3, Amounts DEF Sensible, Engine!Sides
  <2>5. b \in BalancedBooks /\ orders' = list
    BY <1>1, <1>2, <1>5 DEF Engine!PlaceMarketOrder
  <2>6. QED
    BY <1>2, <2>1, <2>2, <2>4, <2>5, ExecutesBalanced, BooksBecome
<1>6. CASE Engine!PlaceLimitOrder
  <2>1. PICK s \in Symbols, side \in Engine!Sides, q \in Quantities, price \in Prices :
          orders' = Append(orders, [symbol |-> s, side |-> side, quantity |-> q,
                                    price |-> price, status |-> "PENDING"])
    BY <1>6 DEF Engine!PlaceLimitOrder
  <2>2. PICK o : o = [symbol |-> s, side |-> side, quantity |-> q, price |-> price,
                      status |-> "PENDING"]
    OBVIOUS
  <2>3. o \in LimitOrder
    BY <2>2, Amounts DEF LimitOrder, Engine!Sides
  <2>4. orders' \in Seq(LimitOrder)
    BY <1>1, <1>2, <2>1, <2>2, <2>3
  <2>5. Engine!Becomes(b) /\ b \in BalancedBooks
    BY <1>1, <1>2, <1>6 DEF Engine!PlaceLimitOrder, Engine!Becomes, Engine!Book
  <2>6. QED
    BY <2>4, <2>5, BooksBecome
<1>7. CASE Engine!ProcessPendingOrders
  <2>1. PICK s \in Symbols, price \in Prices :
             /\ Engine!Becomes(FillingBooks(Engine!Book, orders, s, price)[DOMAIN orders])
             /\ orders' = [i \in DOMAIN orders |->
                    IF Engine!CanFill(orders[i], s, price)
                    THEN [orders[i] EXCEPT !.status = "FILLED"] ELSE orders[i]]
    BY <1>7, ProcessFills
  <2>2. PICK c : c = FillingBooks(b, list, s, price)[DOMAIN list]
    OBVIOUS
  <2>3. b \in BalancedBooks
    BY <1>2, <1>7 DEF Engine!ProcessPendingOrders
  <2>4. c \in BalancedBooks
    BY <1>2, <2>2, <2>3, FillsBalanced
  <2>5. orders' \in Seq(LimitOrder)
    <3>1. PICK new : new = orders'
      OBVIOUS
    <3>2. \A o \in LimitOrder : [o EXCEPT !.status = "FILLED"] \in LimitOrder
      BY DEF LimitOrder
    <3>3. PICK n \in Nat : DOMAIN list = 1 .. n /\ \A i \in 1 .. n : list[i] \in LimitOrder
      <4>1. Len(list) \in Nat /\ DOMAIN list = 1 .. Len(list)
        BY <1>2
      <4>2. \A i \in DOMAIN list : list[i] \in LimitOrder
        BY <1>2
      <4>3. QED
        BY <4>1, <4>2
    <3>4. new \in [1 .. n -> LimitOrder]
      BY <1>1, <2>1, <3>1, <3>2, <3>3
    <3>5. new \in Seq(LimitOrder)
      BY ONLY <3>4
    <3>6. QED
      BY <3>1, <3>5
  <2>6. QED
    BY <1>1, <2>1, <2>2, <2>4, <2>5, BooksBecome
<1>8. QED
  BY <1>3, <1>4, <1>5, <1>6, <1>7 DEF Engine!EngineStep

-----------------------------------------------------------------------------
(* The cash of the mock broker. *)

\* The mock broker's fractions are the same as these.
LEMMA MockFractions ==
    /\ \A n, d : Mock!Fraction(n, d) = Fraction(n, d)
    /\ \A n : Mock!Whole(n) = Whole(n)
    /\ \A a, b : Mock!Plus(a, b) = Plus(a, b)
    /\ \A a, b : Mock!Minus(a, b) = Minus(a, b)
    /\ \A n, a : Mock!Times(n, a) = Times(n, a)
<1>1. Mock!Gcd = Gcd
  BY DEF Mock!Gcd, Gcd
<1>2. \A n, d : Mock!Fraction(n, d) = Fraction(n, d)
  <2>1. \A n : Mock!Size(n) = Size(n)
    BY DEF Mock!Size, Size
  <2>2. ASSUME NEW n, NEW d PROVE Mock!Fraction(n, d) = Fraction(n, d)
    <3>1. Mock!Gcd[<<Mock!Size(n), Mock!Size(d)>>] = Gcd[<<Size(n), Size(d)>>]
      BY ONLY <1>1, <2>1
    <3>2. PICK g : g = Gcd[<<Size(n), Size(d)>>]
      OBVIOUS
    <3>3. QED
      BY ONLY <3>1, <3>2 DEF Mock!Fraction, Fraction
  <2>3. QED
    BY <2>2
<1>3. QED
  BY <1>2 DEF Mock!Whole, Whole, Mock!Plus, Plus, Mock!Minus, Minus, Mock!Times, Times

\* The function that a sum of fractions is the recursion of.
Totals(iter, f) ==
    iter = [T \in SUBSET DOMAIN f |->
              IF T = {} THEN Mock!Whole(0)
              ELSE Mock!Plus(f[Some(T)], iter[T \ {Some(T)}])]

Totalling(f) == CHOOSE iter : Totals(iter, f)

\* The total is the value of that recursion.
LEMMA TotalIsTotalling == \A f : Mock!Total(f) = Totalling(f)[DOMAIN f]
BY DEF Mock!Total, Mock!FoldFunction, Mock!FoldFunctionOnSet, Mock!MapThenFoldSet, Totalling,
       Totals, Some

\* Over one denominator, the sum of fractions is that of their numerators.
LEMMA TotalFraction ==
    ASSUME NEW S, IsFiniteSet(S), NEW N, \A s \in S : N[s] \in Int, NEW D \in Nat \ {0}, NEW f,
           f = [s \in S |-> Fraction(N[s], D)]
    PROVE  Mock!Total(f) = Fraction(SumFunctionOnSet(N, S), D)
<1> DEFINE F == [T \in SUBSET S |-> Fraction(SumFunctionOnSet(N, T), D)]
<1>1. DOMAIN f = S /\ \A s \in S : f[s] = Fraction(N[s], D)
  OBVIOUS
<1>2. \A T \in SUBSET S : IsFiniteSet(T) /\ SumFunctionOnSet(N, T) \in Int
  <2>1. ASSUME NEW T \in SUBSET S PROVE IsFiniteSet(T) /\ SumFunctionOnSet(N, T) \in Int
    <3>1. IsFiniteSet(T) /\ \A s \in T : N[s] \in Int
      BY FS_Subset
    <3>2. QED
      BY <3>1, SumType
  <2>2. QED
    BY <2>1
<1>3. Fraction(SumFunctionOnSet(N, {}), D) = Mock!Whole(0)
  <2>1. Whole(0) = Fraction(0 * D, D) /\ 0 * D = 0
    BY WholeFraction
  <2>2. QED
    BY <2>1, SumEmpty, MockFractions
<1>4. ASSUME NEW T \in SUBSET S, T # {}, NEW s, s = Some(T), NEW U, U = T \ {s}
      PROVE  /\ s \in S /\ U \in SUBSET S
             /\ Fraction(SumFunctionOnSet(N, T), D)
                  = Mock!Plus(f[s], Fraction(SumFunctionOnSet(N, U), D))
  <2>1. s \in T
    BY <1>4, SomeIsElement
  <2>2. SumFunctionOnSet(N, T) = N[s] + SumFunctionOnSet(N, U)
    <3>1. IsFiniteSet(T) /\ \A t \in T : N[t] \in Int
      BY <1>2
    <3>2. QED
      BY <1>4, <2>1, <3>1, SumSplit
  <2>3. PICK a, b : a = N[s] /\ b = SumFunctionOnSet(N, U)
    OBVIOUS
  <2>4. a \in Int /\ b \in Int
    BY <1>2, <1>4, <2>1, <2>3
  <2>5. Plus(Fraction(a, D), Fraction(b, D)) = Fraction(a + b, D)
    BY <2>4, PlusFractions
  <2>6. QED
    BY <1>1, <1>4, <2>1, <2>2, <2>3, <2>5, MockFractions
<1>5. Totals(F, f)
  <2>1. ASSUME NEW T \in SUBSET S, T # {}
        PROVE  F[T] = Mock!Plus(f[Some(T)], F[T \ {Some(T)}])
    <3>1. PICK s, U : s = Some(T) /\ U = T \ {s}
      OBVIOUS
    <3>2. U \in SUBSET S /\ Fraction(SumFunctionOnSet(N, T), D)
                              = Mock!Plus(f[s], Fraction(SumFunctionOnSet(N, U), D))
      BY <1>4, <2>1, <3>1
    <3>3. F[T] = Mock!Plus(f[s], F[U])
      BY <3>2
    <3>4. QED
      BY <3>1, <3>3
  <2>2. F[{}] = Mock!Whole(0)
    BY <1>3
  <2> HIDE DEF F
  <2>3. F = [T \in SUBSET S |-> F[T]]
    BY DEF F
  <2>4. QED
    BY <1>1, <2>1, <2>2, <2>3 DEF Totals
<1>6. PICK A : A = Totalling(f)
  OBVIOUS
<1>7. Totals(A, f)
  BY <1>5, <1>6 DEF Totalling
<1>8. A[{}] = Mock!Whole(0)
  BY <1>1, <1>7 DEF Totals
<1>9. \A T \in SUBSET S : T # {} => A[T] = Mock!Plus(f[Some(T)], A[T \ {Some(T)}])
  BY <1>1, <1>7 DEF Totals
<1> DEFINE Same(T) == A[T] = Fraction(SumFunctionOnSet(N, T), D)
           Sizes_ == {n \in Nat : \A T \in SUBSET S : Cardinality(T) = n => Same(T)}
<1>10. \A T \in SUBSET S : Cardinality(T) \in Nat /\ (Cardinality(T) = 0 => T = {})
  BY <1>2, FS_CardinalityType, FS_EmptySet
<1>11. 0 \in Sizes_
  BY <1>3, <1>8, <1>10
<1>12. ASSUME NEW n \in Nat, n \in Sizes_ PROVE n + 1 \in Sizes_
  <2>1. SUFFICES ASSUME NEW T \in SUBSET S, Cardinality(T) = n + 1 PROVE Same(T)
    OBVIOUS
  <2>2. T # {}
    <3>1. n + 1 # 0
      OBVIOUS
    <3>2. QED
      BY <2>1, <3>1, FS_EmptySet
  <2>3. PICK s, U : s = Some(T) /\ U = T \ {s}
    OBVIOUS
  <2>4. s \in T /\ U \in SUBSET S /\ Cardinality(U) = Cardinality(T) - 1
    BY <1>2, <2>2, <2>3, SomeIsElement, FS_RemoveElement
  <2>5. Same(U)
    BY <1>12, <2>1, <2>4
  <2>6. A[T] = Mock!Plus(f[s], A[U])
    BY <1>9, <2>2, <2>3
  <2>7. Fraction(SumFunctionOnSet(N, T), D)
          = Mock!Plus(f[s], Fraction(SumFunctionOnSet(N, U), D))
    BY <1>4, <2>2, <2>3
  <2>8. QED
    BY <2>5, <2>6, <2>7
<1> HIDE DEF Sizes_, Same
<1>13. \A n \in Nat : n \in Sizes_
  BY <1>11, <1>12, NumberInduction
<1>14. Same(S)
  BY <1>10, <1>13 DEF Sizes_
<1>15. QED
  BY <1>1, <1>6, <1>14, TotalIsTotalling DEF Same

\* The averages and the profits, over one denominator D, are A and R: then the cash, with
\* what was paid for what is held, is what there was and the profits.
Entry == [quantity : Int, average : Int \X Int, realized : Int \X Int]

Numerators == [MockSymbols -> Int]

Paid(A) == [s \in MockSymbols |-> positions[s].quantity * A[s]]

PortfolioFits(D, A, R) ==
    /\ \A s \in MockSymbols : /\ positions[s].average = Fraction(A[s], D)
                              /\ positions[s].realized = Fraction(R[s], D)
    /\ D * cash + SumFunctionOnSet(Paid(A), MockSymbols)
         = D * (MockFunds - vanished) + SumFunctionOnSet(R, MockSymbols)

MockInv ==
    /\ cash \in Int /\ vanished \in Int
    /\ positions \in [MockSymbols -> Entry]
    /\ \E D \in Nat \ {0}, A \in Numerators, R \in Numerators : PortfolioFits(D, A, R)

\* A fraction consists of integers.
LEMMA FractionType ==
    ASSUME NEW n \in Int, NEW d \in Nat \ {0}
    PROVE  Fraction(n, d) \in Int \X Int
<1>1. PICK x \in Int, y \in Nat \ {0}, g \in Nat \ {0} :
         Fraction(n, d) = <<x, y>> /\ n = g * x /\ d = g * y
  BY FractionParts
<1>2. QED
  BY <1>1

\* A fresh portfolio.
FreshPortfolio ==
    cash = MockFunds /\ positions = [s \in MockSymbols |-> Mock!None] /\ vanished = 0

\* Nothing is paid for in it.
LEMMA FreshPortfolioFits == FreshPortfolio => MockInv
<1> SUFFICES ASSUME FreshPortfolio PROVE MockInv
  OBVIOUS
<1>0. cash = MockFunds /\ positions = [s \in MockSymbols |-> Mock!None] /\ vanished = 0
  BY DEF FreshPortfolio
<1>1. PICK Z : Z = [s \in MockSymbols |-> 0]
  OBVIOUS
<1>2. Whole(0) = Fraction(0, 1) /\ Whole(0) \in Int \X Int
  <2>1. 0 \in Int /\ 1 \in Nat \ {0} /\ 0 * 1 = 0
    OBVIOUS
  <2>2. Whole(0) = Fraction(0 * 1, 1)
    BY <2>1, WholeFraction
  <2>3. QED
    BY <2>1, <2>2 DEF Whole
<1>3. Mock!None = [quantity |-> 0, average |-> Whole(0), realized |-> Whole(0)]
  BY MockFractions DEF Mock!None
<1>4. positions \in [MockSymbols -> Entry]
  BY <1>0, <1>2, <1>3 DEF Entry
<1>5. \A s \in MockSymbols :
         /\ positions[s].quantity = 0
         /\ positions[s].average = Fraction(Z[s], 1) /\ positions[s].realized = Fraction(Z[s], 1)
  BY <1>0, <1>1, <1>2, <1>3
<1>6. SumFunctionOnSet(Z, MockSymbols) = 0 /\ SumFunctionOnSet(Paid(Z), MockSymbols) = 0
  <2>1. \A s \in MockSymbols : Z[s] \in Nat /\ Z[s] = 0 /\ Paid(Z)[s] \in Nat /\ Paid(Z)[s] = 0
    BY <1>1, <1>5 DEF Paid
  <2>2. PICK P : P = Paid(Z)
    OBVIOUS
  <2>3. QED
    BY <2>1, <2>2, PortfolioAmounts, SumNatural
<1>7. PortfolioFits(1, Z, Z)
  BY <1>0, <1>5, <1>6, PortfolioAmounts DEF PortfolioFits
<1>8. 1 \in Nat \ {0} /\ Z \in Numerators
  BY <1>1 DEF Numerators
<1>9. QED
  BY <1>0, <1>4, <1>7, <1>8, PortfolioAmounts DEF MockInv

\* The first state of the mock broker.
LEMMA MockStarts == Mock!MockInit => MockInv
BY FreshPortfolioFits DEF Mock!MockInit, FreshPortfolio

\* When the quantity or the average of one symbol changes, what was paid changes by it.
LEMMA PaidChange ==
    ASSUME NEW f \in Numerators, NEW g \in Numerators, NEW s \in MockSymbols, NEW k \in Int,
           \A t \in MockSymbols \ {s} : g[t] = k * f[t]
    PROVE  /\ SumFunctionOnSet(f, MockSymbols) \in Int
           /\ SumFunctionOnSet(g, MockSymbols)
                = k * SumFunctionOnSet(f, MockSymbols) + g[s] - k * f[s]
<1>1. PICK h : h = [t \in MockSymbols |-> k * f[t]]
  OBVIOUS
<1>2. \A t \in MockSymbols : f[t] \in Int /\ g[t] \in Int /\ h[t] \in Int /\ h[t] = k * f[t]
  BY <1>1 DEF Numerators
<1>3. \A t \in MockSymbols \ {s} : h[t] = g[t]
  BY <1>2
<1>4. SumFunctionOnSet(h, MockSymbols) = k * SumFunctionOnSet(f, MockSymbols)
  BY <1>2, PortfolioAmounts, SumTimes
<1>5. SumFunctionOnSet(g, MockSymbols) = SumFunctionOnSet(h, MockSymbols) + g[s] - h[s]
  BY <1>2, <1>3, PortfolioAmounts, SumChange
<1>6. SumFunctionOnSet(f, MockSymbols) \in Int
  BY <1>2, PortfolioAmounts, SumType
<1>7. QED
  BY <1>2, <1>4, <1>5, <1>6

\* What was paid is as many numbers, and so after a step.
LEMMA PaidNumbers ==
    ASSUME positions \in [MockSymbols -> Entry], NEW A \in Numerators
    PROVE  Paid(A) \in Numerators
<1>1. \A s \in MockSymbols : positions[s].quantity \in Int /\ A[s] \in Int
  BY DEF Entry, Numerators
<1>2. \A s \in MockSymbols : positions[s].quantity * A[s] \in Int
  BY <1>1
<1>3. QED
  BY <1>2 DEF Paid, Numerators

\* A sale.
LEMMA SellFits ==
    ASSUME MockInv, NEW s \in MockSymbols, NEW n \in Int, NEW price \in Int,
           Mock!Sell(s, n, price)
    PROVE  MockInv'
<1>1. PICK D \in Nat \ {0}, A \in Numerators, R \in Numerators : PortfolioFits(D, A, R)
  BY DEF MockInv
<1>2. PICK old, p, q, a, r, c, v : /\ old = positions /\ p = old[s] /\ q = p.quantity
                                   /\ a = A[s] /\ r = R[s] /\ c = cash /\ v = vanished
  OBVIOUS
<1>3. /\ old \in [MockSymbols -> Entry] /\ p \in Entry /\ q \in Int /\ a \in Int /\ r \in Int
      /\ c \in Int /\ v \in Int
      /\ p.average = Fraction(a, D) /\ p.realized = Fraction(r, D)
  BY <1>1, <1>2 DEF MockInv, PortfolioFits, Entry, Numerators
<1>4. PICK gain, r2 : gain = n * (price * D - a) /\ r2 = r + gain
  OBVIOUS
<1>5. gain \in Int /\ r2 \in Int /\ price * D \in Int /\ price * D - a \in Int
  BY <1>3, <1>4
<1>6. PICK x : x = Mock!Plus(p.realized, Mock!Times(n, Mock!Minus(Mock!Whole(price), p.average)))
  OBVIOUS
<1>7. x = Fraction(r2, D)
  <2>1. Whole(price) = Fraction(price * D, D)
    BY WholeFraction
  <2>2. Minus(Whole(price), Fraction(a, D)) = Fraction(price * D - a, D)
    BY <1>3, <1>5, <2>1, PlusFractions
  <2>3. Times(n, Fraction(price * D - a, D)) = Fraction(gain, D)
    BY <1>4, <1>5, TimesFraction
  <2>4. Plus(Fraction(r, D), Fraction(gain, D)) = Fraction(r2, D)
    BY <1>3, <1>4, <1>5, PlusFractions
  <2>5. QED
    BY <1>3, <1>6, <2>2, <2>3, <2>4, MockFractions
<1>8. PICK new : new = [quantity |-> q - n, average |-> p.average, realized |-> x]
  OBVIOUS
<1>9. new \in Entry
  BY <1>3, <1>5, <1>7, <1>8, FractionType DEF Entry
<1>10. positions' = [old EXCEPT ![s] = new]
  <2>1. PICK m, w : p = [quantity |-> q, average |-> m, realized |-> w]
    BY <1>2, <1>3 DEF Entry
  <2>2. positions' = [old EXCEPT ![s] = [[p EXCEPT !.quantity = q - n] EXCEPT !.realized = x]]
    BY <1>2, <1>3, <1>6 DEF Mock!Sell
  <2>3. [[p EXCEPT !.quantity = q - n] EXCEPT !.realized = x] = new
    <3>1. p.average = m
      BY ONLY <2>1
    <3>2. new = [quantity |-> q - n, average |-> m, realized |-> x]
      BY ONLY <1>8, <3>1
    <3>3. PICK mid : mid = [p EXCEPT !.quantity = q - n]
      OBVIOUS
    <3>4. mid = [quantity |-> q - n, average |-> m, realized |-> w]
      BY ONLY <2>1, <3>3
    <3>5. [mid EXCEPT !.realized = x] = new
      BY ONLY <3>2, <3>4
    <3>6. QED
      BY ONLY <3>3, <3>5
  <2>4. QED
    BY <2>2, <2>3
<1>11. /\ positions' \in [MockSymbols -> Entry] /\ positions'[s] = new
       /\ \A t \in MockSymbols \ {s} : positions'[t] = old[t]
  BY <1>3, <1>9, <1>10
<1>12. cash' = c + n * price /\ vanished' = v
  BY <1>2 DEF Mock!Sell
<1>13. PICK R2 : R2 = [R EXCEPT ![s] = r2]
  OBVIOUS
<1>14. R2 \in Numerators /\ R2[s] = r2 /\ \A t \in MockSymbols \ {s} : R2[t] = R[t]
  BY <1>5, <1>13 DEF Numerators
<1>15. PICK P, Q : P = Paid(A) /\ Q = [t \in MockSymbols |-> positions'[t].quantity * A[t]]
  OBVIOUS
<1>16. /\ P \in Numerators /\ Q \in Numerators /\ P[s] = q * a /\ Q[s] = (q - n) * a
       /\ \A t \in MockSymbols \ {s} : Q[t] = P[t]
  <2>1. P \in Numerators
    BY <1>15, PaidNumbers DEF MockInv
  <2>2. \A t \in MockSymbols : positions'[t].quantity \in Int /\ A[t] \in Int
    BY <1>11 DEF Entry, Numerators
  <2>3. \A t \in MockSymbols : positions'[t].quantity * A[t] \in Int
    BY <2>2
  <2>4. Q \in Numerators
    BY <1>15, <2>3 DEF Numerators
  <2>5. P[s] = q * a /\ Q[s] = (q - n) * a
    BY <1>2, <1>8, <1>11, <1>15 DEF Paid
  <2>6. \A t \in MockSymbols \ {s} : Q[t] = P[t]
    BY <1>2, <1>11, <1>15 DEF Paid
  <2>7. QED
    BY <2>1, <2>4, <2>5, <2>6
<1>17. PICK SP, SQ, SR, ST : /\ SP = SumFunctionOnSet(P, MockSymbols)
                             /\ SQ = SumFunctionOnSet(Q, MockSymbols)
                             /\ SR = SumFunctionOnSet(R, MockSymbols)
                             /\ ST = SumFunctionOnSet(R2, MockSymbols)
  OBVIOUS
<1>18. SP \in Int /\ SR \in Int /\ SQ = SP - n * a /\ ST = SR + gain
  <2>1. \A t \in MockSymbols \ {s} : Q[t] = 1 * P[t] /\ R2[t] = 1 * R[t]
    BY <1>14, <1>16 DEF Numerators
  <2>2. SP \in Int /\ SQ = 1 * SP + Q[s] - 1 * P[s]
    BY <1>16, <1>17, <2>1, PaidChange
  <2>3. SR \in Int /\ ST = 1 * SR + R2[s] - 1 * R[s]
    BY <1>14, <1>17, <2>1, PaidChange
  <2>4. (q - n) * a = q * a - n * a /\ q * a \in Int /\ n * a \in Int
    BY <1>3
  <2>5. QED
    BY <1>2, <1>3, <1>4, <1>5, <1>14, <1>16, <2>2, <2>3, <2>4
<1>19. D * c + SP = D * (MockFunds - v) + SR
  BY <1>1, <1>2, <1>15, <1>17 DEF PortfolioFits
<1>20. D * (c + n * price) + SQ = D * (MockFunds - v) + ST
  <2>1. PICK y1, y2, y3, y4, y5 : /\ y1 = D * (c + n * price) /\ y2 = D * c
                                  /\ y3 = n * (price * D) /\ y4 = n * a
                                  /\ y5 = D * (MockFunds - v)
    OBVIOUS
  <2>2. y1 = y2 + y3
    BY <1>3, <2>1
  <2>3. gain = y3 - y4
    BY <1>3, <1>4, <1>5, <2>1
  <2>4. y2 \in Int /\ y3 \in Int /\ y4 \in Int /\ y5 \in Int
    BY <1>3, <1>5, <2>1, PortfolioAmounts
  <2>5. SQ = SP - y4 /\ y2 + SP = y5 + SR
    BY <1>18, <1>19, <2>1
  <2>6. y1 + SQ = y5 + ST
    BY ONLY <1>18, <2>2, <2>3, <2>4, <2>5
  <2>7. QED
    BY <2>1, <2>6
<1>21. \A t \in MockSymbols : /\ positions'[t].average = Fraction(A[t], D)
                              /\ positions'[t].realized = Fraction(R2[t], D)
  <2>1. \A t \in MockSymbols : /\ old[t].average = Fraction(A[t], D)
                               /\ old[t].realized = Fraction(R[t], D)
    BY <1>1, <1>2 DEF PortfolioFits
  <2>2. new.average = Fraction(A[s], D) /\ new.realized = Fraction(R2[s], D)
    BY <1>2, <1>3, <1>7, <1>8, <1>14
  <2>3. QED
    BY <1>11, <1>14, <2>1, <2>2
<1>22. PortfolioFits(D, A, R2)'
  BY <1>12, <1>15, <1>17, <1>20, <1>21 DEF PortfolioFits, Paid
<1>23. cash' \in Int /\ vanished' \in Int
  BY <1>3, <1>12
<1>24. QED
  BY <1>11, <1>14, <1>22, <1>23 DEF MockInv

\* A fraction divided by h is i * n over k * D.
Divided(f, n, D, h) ==
    \E k \in Nat \ {0}, i \in Int :
       /\ Fraction(f[1], f[2] * h) = Fraction(i * n, k * D) /\ h * i = k
       /\ i * n \in Int /\ k * D \in Nat \ {0}

\* A fraction of a fraction; the divisor may be negative.
LEMMA FractionOf ==
    ASSUME NEW n \in Int, NEW D \in Nat \ {0}, NEW h \in Int, h # 0,
           NEW f, f = Fraction(n, D)
    PROVE  Divided(f, n, D, h)
<1>1. PICK x \in Int, y \in Nat \ {0}, g \in Nat \ {0} :
         Fraction(n, D) = <<x, y>> /\ n = g * x /\ D = g * y
  BY FractionParts
<1>2. f[1] = x /\ f[2] = y
  BY <1>1
<1>3. CASE h > 0
  <2>1. h \in Nat \ {0}
    BY <1>3
  <2>2. PICK u : u = y * h
    OBVIOUS
  <2>3. u \in Nat \ {0} /\ h * D \in Nat \ {0} /\ 1 * n = n /\ h * 1 = h
    BY <2>1, <2>2
  <2>4. x * (h * D) = n * u
    <3>1. x * (h * (g * y)) = (g * x) * (y * h)
      OBVIOUS
    <3>2. QED
      BY ONLY <1>1, <2>2, <3>1
  <2>5. Fraction(x, u) = Fraction(n, h * D)
    BY <2>3, <2>4, FractionSame
  <2>6. QED
    BY <1>2, <2>1, <2>2, <2>3, <2>5 DEF Divided
<1>4. CASE h < 0
  <2>1. PICK k : k = -h
    OBVIOUS
  <2>2. k \in Nat \ {0} /\ h = -k
    BY <1>4, <2>1
  <2>3. PICK u, m : u = y * k /\ m = (-1) * n
    OBVIOUS
  <2>4. u \in Nat \ {0} /\ k * D \in Nat \ {0} /\ h * (-1) = k /\ m = -n /\ -x \in Int /\ m \in Int
    BY <2>2, <2>3
  <2>5. y * h = -u
    BY <2>2, <2>3
  <2>6. Fraction(x, -u) = Fraction(-x, u)
    BY <2>4, FractionNegative
  <2>7. (-x) * (k * D) = m * u
    <3>1. (-x) * (k * (g * y)) = ((-1) * (g * x)) * (y * k)
      BY <2>2
    <3>2. QED
      BY ONLY <1>1, <2>3, <3>1
  <2>8. Fraction(-x, u) = Fraction(m, k * D)
    BY <2>4, <2>7, FractionSame
  <2>9. -1 \in Int /\ h * (-1) = k
    BY <2>4
  <2>10. QED
    BY <1>2, <2>2, <2>3, <2>4, <2>5, <2>6, <2>8, <2>9 DEF Divided
<1>5. QED
  BY <1>3, <1>4

\* A purchase that ends a short position takes the cash and fails.
LEMMA BuyFails ==
    ASSUME MockInv, NEW cost \in Int, cash' = cash - cost, vanished' = vanished + cost,
           UNCHANGED positions
    PROVE  MockInv'
<1>1. PICK D \in Nat \ {0}, A \in Numerators, R \in Numerators : PortfolioFits(D, A, R)
  BY DEF MockInv
<1>2. PICK c, v, SP, SR : /\ c = cash /\ v = vanished
                          /\ SP = SumFunctionOnSet(Paid(A), MockSymbols)
                          /\ SR = SumFunctionOnSet(R, MockSymbols)
  OBVIOUS
<1>3. c \in Int /\ v \in Int /\ SR \in Int /\ SP \in Int
  <2>1. Paid(A) \in Numerators
    BY PaidNumbers DEF MockInv
  <2>2. PICK P : P = Paid(A)
    OBVIOUS
  <2>3. \A s \in MockSymbols : P[s] \in Int /\ R[s] \in Int
    BY <2>1, <2>2 DEF Numerators
  <2>4. SR \in Int /\ SumFunctionOnSet(P, MockSymbols) \in Int
    BY <1>2, <2>3, PortfolioAmounts, SumType
  <2>5. QED
    BY <1>2, <2>2, <2>4 DEF MockInv
<1>4. D * c + SP = D * (MockFunds - v) + SR
  BY <1>1, <1>2 DEF PortfolioFits
<1>5. D * (c - cost) + SP = D * (MockFunds - (v + cost)) + SR
  <2>1. D * (c - cost) = D * c - D * cost /\ D * c \in Int /\ D * cost \in Int
    BY <1>3
  <2>2. /\ D * (MockFunds - (v + cost)) = D * (MockFunds - v) - D * cost
        /\ D * (MockFunds - v) \in Int
    BY <1>3, PortfolioAmounts
  <2>3. PICK y1, y2, y3 : y1 = D * c /\ y2 = D * cost /\ y3 = D * (MockFunds - v)
    OBVIOUS
  <2>4. QED
    BY <1>3, <1>4, <2>1, <2>2, <2>3
<1>6. PortfolioFits(D, A, R)'
  BY <1>1, <1>2, <1>5 DEF PortfolioFits, Paid
<1>7. cash' \in Int /\ vanished' \in Int
  BY <1>2, <1>3
<1>8. QED
  BY <1>6, <1>7 DEF MockInv

\* A purchase.
LEMMA BuyFits ==
    ASSUME MockInv, NEW s \in MockSymbols, NEW n \in Int, NEW price \in Int,
           Mock!Buy(s, n, price)
    PROVE  MockInv'
<1>1. PICK D \in Nat \ {0}, A \in Numerators, R \in Numerators : PortfolioFits(D, A, R)
  BY DEF MockInv
<1>2. PICK old, p, q, a, c, v, cost, h : /\ old = positions /\ p = old[s] /\ q = p.quantity
                                         /\ a = A[s] /\ c = cash /\ v = vanished
                                         /\ cost = n * price /\ h = q + n
  OBVIOUS
<1>3. /\ old \in [MockSymbols -> Entry] /\ p \in Entry /\ q \in Int /\ a \in Int
      /\ c \in Int /\ v \in Int /\ cost \in Int /\ h \in Int
      /\ p.average = Fraction(a, D)
  <2>1. cost \in Int
    BY <1>2
  <2>2. /\ old \in [MockSymbols -> Entry] /\ p \in Entry /\ q \in Int /\ a \in Int
        /\ c \in Int /\ v \in Int
        /\ p.average = Fraction(a, D)
    BY <1>1, <1>2 DEF MockInv, PortfolioFits, Entry, Numerators
  <2>3. QED
    BY <1>2, <2>1, <2>2
<1>4. CASE UNCHANGED <<cash, positions, vanished>>
  BY <1>4 DEF MockInv, PortfolioFits, Paid
<1>5. CASE h = 0 /\ cash' = c - cost /\ vanished' = v + cost /\ UNCHANGED positions
  BY <1>2, <1>3, <1>5, BuyFails
<1>6. PICK sum, x : /\ sum = Mock!Plus(Mock!Times(q, p.average), Mock!Whole(cost))
                    /\ x = Mock!Fraction(sum[1], sum[2] * h)
  OBVIOUS
<1>7. CASE /\ h # 0
           /\ cash' = c - cost /\ vanished' = v
           /\ positions' = [old EXCEPT ![s].quantity = h, ![s].average = x]
  <2>1. PICK m : m = q * a + cost * D
    OBVIOUS
  <2>2. m \in Int /\ q * a \in Int /\ cost * D \in Int
    BY <1>3, <2>1
  <2>3. sum = Fraction(m, D)
    <3>1. Times(q, Fraction(a, D)) = Fraction(q * a, D)
      BY <1>3, TimesFraction
    <3>2. Whole(cost) = Fraction(cost * D, D)
      BY <1>3, WholeFraction
    <3>3. Plus(Fraction(q * a, D), Fraction(cost * D, D)) = Fraction(m, D)
      BY <2>1, <2>2, PlusFractions
    <3>4. QED
      BY <1>3, <1>6, <3>1, <3>2, <3>3, MockFractions
  <2>4. PICK k \in Nat \ {0}, i \in Int :
          /\ Fraction(sum[1], sum[2] * h) = Fraction(i * m, k * D) /\ h * i = k
          /\ i * m \in Int /\ k * D \in Nat \ {0}
    <3>1. m \in Int /\ D \in Nat \ {0} /\ h \in Int /\ h # 0 /\ sum = Fraction(m, D)
      BY <1>3, <1>7, <2>2, <2>3
    <3>2. Divided(sum, m, D, h)
      BY ONLY <3>1, FractionOf
    <3>3. QED
      BY ONLY <3>2 DEF Divided
  <2>5. PICK E, b : E = k * D /\ b = i * m
    OBVIOUS
  <2>6. E \in Nat \ {0} /\ b \in Int /\ x = Fraction(b, E)
    BY <1>6, <2>4, <2>5, MockFractions
  <2>7. PICK new : new = [quantity |-> h, average |-> x, realized |-> p.realized]
    OBVIOUS
  <2>8. new \in Entry
    BY <1>3, <2>6, <2>7, FractionType DEF Entry
  <2>9. positions' = [old EXCEPT ![s] = new]
    <3>1. PICK u, w : p = [quantity |-> q, average |-> u, realized |-> w]
      BY <1>2, <1>3 DEF Entry
    <3>2. positions' = [old EXCEPT ![s] = [[p EXCEPT !.quantity = h] EXCEPT !.average = x]]
      BY <1>2, <1>3, <1>7
    <3>3. new = [quantity |-> h, average |-> x, realized |-> w]
      <4>1. p.realized = w
        BY ONLY <3>1
      <4>2. QED
        BY ONLY <2>7, <4>1
    <3>4. PICK mid : mid = [p EXCEPT !.quantity = h]
      OBVIOUS
    <3>5. mid = [quantity |-> h, average |-> u, realized |-> w]
      BY ONLY <3>1, <3>4
    <3>6. [mid EXCEPT !.average = x] = new
      BY ONLY <3>3, <3>5
    <3>7. QED
      BY ONLY <3>2, <3>4, <3>6
  <2>10. /\ positions' \in [MockSymbols -> Entry] /\ positions'[s] = new
         /\ \A t \in MockSymbols \ {s} : positions'[t] = old[t]
    BY <1>3, <2>8, <2>9
  <2>11. PICK B, S : /\ B = [t \in MockSymbols |-> IF t = s THEN b ELSE k * A[t]]
                     /\ S = [t \in MockSymbols |-> k * R[t]]
    OBVIOUS
  <2>12. \A t \in MockSymbols : A[t] \in Int /\ R[t] \in Int /\ k * A[t] \in Int /\ k * R[t] \in Int
    <3>1. \A t \in MockSymbols : A[t] \in Int /\ R[t] \in Int
      BY DEF Numerators
    <3>2. QED
      BY <3>1
  <2>13. /\ B \in Numerators /\ S \in Numerators /\ B[s] = b
         /\ \A t \in MockSymbols \ {s} : B[t] = k * A[t]
         /\ \A t \in MockSymbols : S[t] = k * R[t]
    BY <2>6, <2>11, <2>12 DEF Numerators
  <2>14. \A t \in MockSymbols : /\ Fraction(k * A[t], E) = Fraction(A[t], D)
                                /\ Fraction(k * R[t], E) = Fraction(R[t], D)
    BY <2>5, <2>12, FractionScales
  <2>15. \A t \in MockSymbols : /\ positions'[t].average = Fraction(B[t], E)
                                /\ positions'[t].realized = Fraction(S[t], E)
    <3>1. \A t \in MockSymbols : /\ old[t].average = Fraction(A[t], D)
                                 /\ old[t].realized = Fraction(R[t], D)
      BY <1>1, <1>2 DEF PortfolioFits
    <3>2. new.average = Fraction(B[s], E) /\ new.realized = Fraction(S[s], E)
      BY <1>2, <2>6, <2>7, <2>13, <2>14, <3>1
    <3>3. QED
      BY <2>10, <2>13, <2>14, <3>1, <3>2
  <2>16. PICK P, Q : P = Paid(A) /\ Q = [t \in MockSymbols |-> positions'[t].quantity * B[t]]
    OBVIOUS
  <2>17. /\ P \in Numerators /\ Q \in Numerators /\ P[s] = q * a /\ Q[s] = h * b
         /\ \A t \in MockSymbols \ {s} : Q[t] = k * P[t]
    <3>1. P \in Numerators
      BY <2>16, PaidNumbers DEF MockInv
    <3>2. \A t \in MockSymbols : positions'[t].quantity \in Int /\ B[t] \in Int
      BY <2>10, <2>13 DEF Entry, Numerators
    <3>3. \A t \in MockSymbols : positions'[t].quantity * B[t] \in Int
      BY <3>2
    <3>4. Q \in Numerators
      BY <2>16, <3>3 DEF Numerators
    <3>5. P[s] = q * a /\ Q[s] = h * b
      BY <1>2, <2>7, <2>10, <2>13, <2>16 DEF Paid
    <3>6. ASSUME NEW t \in MockSymbols \ {s} PROVE Q[t] = k * P[t]
      <4>1. PICK y, z : y = old[t].quantity /\ z = A[t]
        OBVIOUS
      <4>2. y \in Int /\ z \in Int
        BY <1>3, <2>12, <4>1 DEF Entry
      <4>3. P[t] = y * z /\ Q[t] = y * (k * z)
        BY <1>2, <2>10, <2>13, <2>16, <4>1 DEF Paid
      <4>4. y * (k * z) = k * (y * z)
        BY <4>2
      <4>5. QED
        BY ONLY <4>3, <4>4
    <3>7. QED
      BY <3>1, <3>4, <3>5, <3>6
  <2>18. PICK SP, SQ, SR, ST : /\ SP = SumFunctionOnSet(P, MockSymbols)
                               /\ SQ = SumFunctionOnSet(Q, MockSymbols)
                               /\ SR = SumFunctionOnSet(R, MockSymbols)
                               /\ ST = SumFunctionOnSet(S, MockSymbols)
    OBVIOUS
  <2>19. SP \in Int /\ SQ = k * SP + h * b - k * (q * a)
    <3>1. SP \in Int /\ SQ = k * SP + Q[s] - k * P[s]
      <4>1. k \in Int
        OBVIOUS
      <4>2. QED
        BY <2>17, <2>18, <4>1, PaidChange
    <3>2. QED
      BY <2>17, <3>1
  <2>20. SR \in Int /\ ST = k * SR
    <3>1. k \in Int /\ \A t \in MockSymbols : R[t] \in Int /\ S[t] = k * R[t]
      BY <2>12, <2>13
    <3>2. QED
      BY <2>18, <3>1, PortfolioAmounts, SumTimes, SumType
  <2>21. D * c + SP = D * (MockFunds - v) + SR
    BY <1>1, <1>2, <2>16, <2>18 DEF PortfolioFits
  <2>22. h * b = k * (q * a) + k * (cost * D)
    <3>1. h * (i * m) = (h * i) * m
      BY <1>3, <2>2
    <3>2. k * (q * a + cost * D) = k * (q * a) + k * (cost * D)
      BY <2>2
    <3>3. QED
      BY ONLY <2>1, <2>4, <2>5, <3>1, <3>2
  <2>23. E * (c - cost) + SQ = E * (MockFunds - v) + ST
    <3>1. PICK y1, y2, y3, y4, y5 : /\ y1 = k * (D * c) /\ y2 = k * (cost * D) /\ y3 = k * SP
                                    /\ y4 = k * (D * (MockFunds - v)) /\ y5 = k * (q * a)
      OBVIOUS
    <3>2. E * (c - cost) = y1 - y2
      <4>1. (k * D) * (c - cost) = k * (D * c) - k * (cost * D)
        BY <1>3
      <4>2. QED
        BY ONLY <2>5, <3>1, <4>1
    <3>3. E * (MockFunds - v) = y4
      <4>1. (k * D) * (MockFunds - v) = k * (D * (MockFunds - v))
        BY <1>3, PortfolioAmounts
      <4>2. QED
        BY ONLY <2>5, <3>1, <4>1
    <3>4. y1 + y3 = y4 + ST
      <4>1. PICK z1, z2 : z1 = D * c /\ z2 = D * (MockFunds - v)
        OBVIOUS
      <4>2. z1 \in Int /\ z2 \in Int
        BY <1>3, <4>1, PortfolioAmounts
      <4>3. z1 + SP = z2 + SR
        BY ONLY <2>21, <4>1
      <4>4. k * (z1 + SP) = k * z1 + k * SP /\ k * (z2 + SR) = k * z2 + k * SR
        BY <2>19, <2>20, <4>2
      <4>5. QED
        BY ONLY <2>20, <3>1, <4>1, <4>3, <4>4
    <3>5. SQ = y3 + y2
      <4>1. y5 \in Int /\ y3 \in Int /\ y2 \in Int
        BY <2>2, <2>19, <3>1
      <4>2. SQ = y3 + (y5 + y2) - y5
        BY ONLY <2>19, <2>22, <3>1
      <4>3. QED
        BY ONLY <4>1, <4>2
    <3>6. y1 \in Int /\ y2 \in Int /\ y3 \in Int /\ y4 \in Int /\ ST \in Int
      <4>1. D * c \in Int /\ D * (MockFunds - v) \in Int
        BY <1>3, PortfolioAmounts
      <4>2. QED
        BY <2>2, <2>19, <2>20, <3>1, <4>1
    <3>7. PICK w1, w2 : w1 = E * (c - cost) /\ w2 = E * (MockFunds - v)
      OBVIOUS
    <3>8. w1 = y1 - y2 /\ w2 = y4
      BY ONLY <3>2, <3>3, <3>7
    <3>9. w1 + SQ = w2 + ST
      BY ONLY <3>4, <3>5, <3>6, <3>8
    <3>10. QED
      BY ONLY <3>7, <3>9
  <2>24. PortfolioFits(E, B, S)'
    BY <1>7, <2>15, <2>16, <2>18, <2>23 DEF PortfolioFits, Paid
  <2>25. cash' \in Int /\ vanished' \in Int
    BY <1>3, <1>7
  <2>26. QED
    BY <2>6, <2>10, <2>13, <2>24, <2>25 DEF MockInv
<1>8. QED
  BY <1>2, <1>4, <1>5, <1>6, <1>7 DEF Mock!Buy

\* Every step of the mock broker keeps this.
LEMMA MockKeeps ==
    ASSUME MockInv, Mock!MockStep
    PROVE  MockInv'
<1>1. CASE Mock!ResetPortfolio
  <2>1. FreshPortfolio'
    BY <1>1 DEF Mock!ResetPortfolio, Mock!Fresh, FreshPortfolio
  <2>2. QED
    BY <2>1, FreshPortfolioFits, PTL
<1>2. CASE Mock!PlaceOrder
  <2>1. PICK s \in MockSymbols, n \in MockQuantities, price \in MockPrices :
           Mock!Buy(s, n, price) \/ Mock!Sell(s, n, price)
    BY <1>2 DEF Mock!PlaceOrder
  <2>2. n \in Int /\ price \in Int
    BY PortfolioAmounts
  <2>3. QED
    BY <2>1, <2>2, BuyFits, SellFits
<1>3. QED
  BY <1>1, <1>2 DEF Mock!MockStep

\* Then the value of a portfolio is what its profits explain.
LEMMA PortfolioIsExplained ==
    ASSUME MockInv
    PROVE  Mock!PortfolioExplained
<1>1. SUFFICES ASSUME \A s \in MockSymbols : positions[s].quantity >= 0,
                      NEW price \in [MockSymbols -> MockPrices]
               PROVE  Mock!GetPortfolio(price).total_value =
                        Mock!Plus(Mock!Whole(MockFunds - vanished),
                             Mock!Plus(Mock!GetPortfolio(price).total_pnl,
                                  Mock!Total([s \in MockSymbols \ Mock!Held |->
                                                positions[s].realized])))
  BY DEF Mock!PortfolioExplained
<1>2. PICK D \in Nat \ {0}, A \in Numerators, R \in Numerators : PortfolioFits(D, A, R)
  BY DEF MockInv
<1>3. PICK H, L, v : H = Mock!Held /\ L = MockSymbols \ H /\ v = MockFunds - vanished
  OBVIOUS
<1>4. /\ H \in SUBSET MockSymbols /\ L \in SUBSET MockSymbols /\ L = MockSymbols \ H
      /\ IsFiniteSet(H) /\ IsFiniteSet(L) /\ v \in Int /\ cash \in Int
  <2>1. H \in SUBSET MockSymbols
    BY <1>3 DEF Mock!Held
  <2>2. QED
    BY <1>3, <2>1, PortfolioAmounts, FS_Subset DEF MockInv
<1>5. \A s \in MockSymbols :
        /\ positions[s].quantity \in Int /\ A[s] \in Int /\ R[s] \in Int /\ price[s] \in Int
        /\ positions[s].average = Fraction(A[s], D) /\ positions[s].realized = Fraction(R[s], D)
  BY <1>2, PortfolioAmounts DEF MockInv, PortfolioFits, Entry, Numerators
<1>6. \A s \in L : positions[s].quantity = 0
  BY <1>1, <1>3, <1>5 DEF Mock!Held
<1>7. PICK P, U, G, X : /\ P = Paid(A)
                        /\ U = [s \in MockSymbols |-> (positions[s].quantity * price[s]) * D]
                        /\ G = [s \in MockSymbols |-> R[s] + (U[s] - P[s])]
                        /\ X = [s \in MockSymbols |-> R[s] + U[s]]
  <2>1. PICK P, U : /\ P = Paid(A)
                    /\ U = [s \in MockSymbols |-> (positions[s].quantity * price[s]) * D]
    OBVIOUS
  <2>2. PICK G, X : /\ G = [s \in MockSymbols |-> R[s] + (U[s] - P[s])]
                    /\ X = [s \in MockSymbols |-> R[s] + U[s]]
    OBVIOUS
  <2>3. QED
    BY <2>1, <2>2
<1>8. \A s \in MockSymbols : /\ P[s] \in Int /\ U[s] \in Int /\ R[s] \in Int
                             /\ P[s] = positions[s].quantity * A[s]
                             /\ U[s] = (positions[s].quantity * price[s]) * D
                             /\ positions[s].quantity * price[s] \in Int
  <2>1. ASSUME NEW q \in Int, NEW a \in Int, NEW b \in Int
        PROVE  q * a \in Int /\ q * b \in Int /\ (q * b) * D \in Int
    <3>1. PICK z : z = q * b
      OBVIOUS
    <3>2. QED
      BY <3>1
  <2>2. QED
    BY <1>5, <1>7, <2>1 DEF Paid
<1>9. \A s \in MockSymbols : G[s] \in Int /\ X[s] \in Int /\ G[s] = R[s] + (U[s] - P[s])
                             /\ X[s] = R[s] + U[s] /\ X[s] = G[s] + P[s]
  BY <1>7, <1>8
<1>10. PICK value, gain, lost :
          /\ value = [s \in H |-> Mock!Whole(positions[s].quantity * price[s])]
          /\ gain = [s \in H |-> Mock!Plus(positions[s].realized,
                       Mock!Minus(value[s],
                                  Mock!Times(positions[s].quantity, positions[s].average)))]
          /\ lost = [s \in L |-> positions[s].realized]
  <2>1. PICK value, lost : /\ value = [s \in H |-> Mock!Whole(positions[s].quantity * price[s])]
                           /\ lost = [s \in L |-> positions[s].realized]
    OBVIOUS
  <2>2. PICK gain : gain = [s \in H |-> Mock!Plus(positions[s].realized,
                       Mock!Minus(value[s],
                                  Mock!Times(positions[s].quantity, positions[s].average)))]
    OBVIOUS
  <2>3. QED
    BY <2>1, <2>2
<1>11. \A s \in H : Mock!Whole(positions[s].quantity * price[s]) = Fraction(U[s], D)
  <2>1. SUFFICES ASSUME NEW s \in H
                 PROVE  Mock!Whole(positions[s].quantity * price[s]) = Fraction(U[s], D)
    OBVIOUS
  <2>2. PICK n : n = positions[s].quantity * price[s]
    OBVIOUS
  <2>3. n \in Int /\ U[s] = n * D
    BY <1>4, <1>8, <2>2
  <2>4. Whole(n) = Fraction(n * D, D)
    BY <2>3, WholeFraction
  <2>5. QED
    BY <2>2, <2>3, <2>4, MockFractions
<1>12. \A s \in H : gain[s] = Fraction(G[s], D)
  <2>1. SUFFICES ASSUME NEW s \in H PROVE gain[s] = Fraction(G[s], D)
    OBVIOUS
  <2>2. PICK q, a, r, u, p : /\ q = positions[s].quantity /\ a = A[s] /\ r = R[s] /\ u = U[s]
                             /\ p = P[s]
    OBVIOUS
  <2>3. /\ q \in Int /\ a \in Int /\ r \in Int /\ u \in Int /\ p \in Int /\ p = q * a
        /\ u - p \in Int /\ r + (u - p) = G[s]
        /\ positions[s].average = Fraction(a, D) /\ positions[s].realized = Fraction(r, D)
    BY <1>4, <1>5, <1>8, <1>9, <2>2
  <2>4. value[s] = Fraction(u, D)
    BY <1>10, <1>11, <2>2
  <2>5. Times(q, Fraction(a, D)) = Fraction(p, D)
    BY <2>3, TimesFraction
  <2>6. Minus(Fraction(u, D), Fraction(p, D)) = Fraction(u - p, D)
    BY <2>3, PlusFractions
  <2>7. Plus(Fraction(r, D), Fraction(u - p, D)) = Fraction(r + (u - p), D)
    BY <2>3, PlusFractions
  <2>8. gain[s] = Plus(Fraction(r, D), Minus(Fraction(u, D), Times(q, Fraction(a, D))))
    BY <1>10, <2>2, <2>3, <2>4, MockFractions
  <2>9. QED
    BY <2>3, <2>5, <2>6, <2>7, <2>8
<1>13. /\ value = [s \in H |-> Fraction(U[s], D)]
       /\ gain = [s \in H |-> Fraction(G[s], D)]
       /\ lost = [s \in L |-> Fraction(R[s], D)]
  <2>1. value = [s \in H |-> Fraction(U[s], D)]
    BY <1>10, <1>11
  <2>2. gain = [s \in H |-> Fraction(G[s], D)]
    <3>1. gain = [s \in H |-> gain[s]]
      BY <1>10
    <3>2. QED
      BY <1>12, <3>1
  <2>3. lost = [s \in L |-> Fraction(R[s], D)]
    BY <1>4, <1>5, <1>10
  <2>4. QED
    BY <2>1, <2>2, <2>3
<1>14. PICK SU, SG, SX, SP, SH, SL, SR :
          /\ SU = SumFunctionOnSet(U, H) /\ SG = SumFunctionOnSet(G, H)
          /\ SX = SumFunctionOnSet(X, H) /\ SP = SumFunctionOnSet(P, H)
          /\ SH = SumFunctionOnSet(R, H) /\ SL = SumFunctionOnSet(R, L)
          /\ SR = SumFunctionOnSet(R, MockSymbols)
  OBVIOUS
<1>15. /\ Mock!Total(value) = Fraction(SU, D) /\ Mock!Total(gain) = Fraction(SG, D)
       /\ Mock!Total(lost) = Fraction(SL, D)
  <2>1. (\A s \in H : U[s] \in Int /\ G[s] \in Int) /\ \A s \in L : R[s] \in Int
    BY <1>4, <1>8, <1>9
  <2>2. QED
    BY <1>4, <1>13, <1>14, <2>1, TotalFraction
<1>16. /\ SU \in Int /\ SG \in Int /\ SP \in Int /\ SH \in Int /\ SL \in Int
       /\ SH + SU = SG + SP
  <2>1. /\ \A s \in H : /\ U[s] \in Int /\ G[s] \in Int /\ P[s] \in Int /\ R[s] \in Int
                        /\ X[s] = R[s] + U[s] /\ X[s] = G[s] + P[s]
        /\ \A s \in L : R[s] \in Int
    BY <1>4, <1>8, <1>9
  <2>2. SU \in Int /\ SG \in Int /\ SP \in Int /\ SH \in Int /\ SL \in Int
    BY <1>4, <1>14, <2>1, SumType
  <2>3. SX = SH + SU /\ SX = SG + SP
    BY <1>4, <1>14, <2>1, SumPlus
  <2>4. QED
    BY <2>2, <2>3
<1>17. SR = SH + SL
  BY <1>4, <1>8, <1>14, PortfolioAmounts, SumParts
<1>18. SumFunctionOnSet(P, MockSymbols) = SP
  <2>1. SumFunctionOnSet(P, MockSymbols) = SP + SumFunctionOnSet(P, L)
    BY <1>4, <1>8, <1>14, PortfolioAmounts, SumParts
  <2>2. \A s \in L : P[s] \in Nat /\ P[s] = 0
    BY <1>4, <1>5, <1>6, <1>8
  <2>3. SumFunctionOnSet(P, L) = 0
    BY <1>4, <2>2, SumNatural
  <2>4. QED
    BY <1>16, <2>1, <2>3
<1>19. cash * D + SU = v * D + (SG + SL)
  <2>1. D * cash + SP = D * v + SR
    BY <1>2, <1>3, <1>7, <1>14, <1>18 DEF PortfolioFits
  <2>2. D * cash = cash * D /\ D * v = v * D /\ cash * D \in Int /\ v * D \in Int
    BY <1>4
  <2>3. PICK y1, y2 : y1 = cash * D /\ y2 = v * D
    OBVIOUS
  <2>4. y1 + SP = y2 + (SH + SL) /\ y1 \in Int /\ y2 \in Int
    BY <1>17, <2>1, <2>2, <2>3
  <2>5. y1 + SU = y2 + (SG + SL)
    BY ONLY <1>16, <2>4
  <2>6. QED
    BY <2>3, <2>5
<1>20. Mock!GetPortfolio(price) = [total_value |-> Mock!Plus(Mock!Whole(cash), Mock!Total(value)),
                                   total_pnl |-> Mock!Total(gain)]
  BY <1>3, <1>10 DEF Mock!GetPortfolio
<1>21. Plus(Whole(cash), Fraction(SU, D)) = Fraction(cash * D + SU, D)
  <2>1. cash * D \in Int /\ Whole(cash) = Fraction(cash * D, D)
    BY <1>4, WholeFraction
  <2>2. QED
    BY <1>16, <2>1, PlusFractions
<1>22. Plus(Whole(v), Plus(Fraction(SG, D), Fraction(SL, D))) = Fraction(v * D + (SG + SL), D)
  <2>1. v * D \in Int /\ Whole(v) = Fraction(v * D, D)
    BY <1>4, WholeFraction
  <2>2. SG + SL \in Int /\ Plus(Fraction(SG, D), Fraction(SL, D)) = Fraction(SG + SL, D)
    BY <1>16, PlusFractions
  <2>3. QED
    BY <2>1, <2>2, PlusFractions
<1>23. QED
  <2>1. /\ Mock!GetPortfolio(price).total_value = Plus(Whole(cash), Fraction(SU, D))
        /\ Mock!GetPortfolio(price).total_pnl = Fraction(SG, D)
    BY <1>15, <1>20, MockFractions
  <2>2. Mock!Total([s \in MockSymbols \ Mock!Held |-> positions[s].realized]) = Fraction(SL, D)
    BY <1>3, <1>10, <1>15
  <2>3. QED
    BY <1>3, <1>19, <1>21, <1>22, <2>1, <2>2, MockFractions

-----------------------------------------------------------------------------
(* The capital and the drawdown of a back-test. *)

\* A trade that was closed, and what closing it brought.
ClosedTrade == [entry : Int, exit : Int, quantity : Int, commission : Int, pnl : Int]
Brought(trade) == trade.exit * trade.quantity - trade.commission
AllBrought(trades) ==
    SumFunctionOnSet([i \in DOMAIN trades |-> Brought(trades[i])], DOMAIN trades)

\* A book of the back-test: its capital is the first one, less the commissions of the positions
\* opened, and what its trades brought.
TestBook == [capital : Int, position : [quantity : Int, entry_price : Int],
             trades : Seq(ClosedTrade), fees : Int]
Settles(b) == b.capital = Funds - b.fees + AllBrought(b.trades)
SettledBooks == {b \in TestBook : Settles(b)}

\* The points of the curve, the first capital before them.
Point(i) == IF i = 0 THEN Funds ELSE curve[i]

\* The peak is the greatest of the points, the drawdown the deepest fall from one to a later.
Deepest ==
    /\ curve \in Seq(Int) /\ peak_capital \in Int /\ max_drawdown \in Int
    /\ \A i \in 0 .. Len(curve) : Point(i) <= peak_capital
    /\ \E i \in 0 .. Len(curve) : Point(i) = peak_capital
    /\ \A i \in 0 .. Len(curve) : \A k \in i .. Len(curve) : Point(i) - Point(k) <= max_drawdown
    /\ \E i \in 0 .. Len(curve) : \E k \in i .. Len(curve) : Point(i) - Point(k) = max_drawdown

\* A parsed strategy closes nothing before the last bar; one that sells never holds a position.
ParsedOnce ==
    executor # Test!AnyExecutor =>
        /\ executor \in Test!Parsed
        /\ phase \in {"load", "bars"} => done = <<>>
        /\ Len(done) <= 1
        /\ executor.position = "SELL" => done = <<>> /\ position = Test!Flat

TestInv ==
    /\ Test!Book \in SettledBooks
    /\ Deepest
    /\ ParsedOnce

\* One trade more.
LEMMA OneMoreTrade ==
    ASSUME NEW trades \in Seq(ClosedTrade), NEW trade \in ClosedTrade
    PROVE  /\ Append(trades, trade) \in Seq(ClosedTrade)
           /\ AllBrought(trades) \in Int /\ Brought(trade) \in Int
           /\ AllBrought(Append(trades, trade)) = AllBrought(trades) + Brought(trade)
<1>1. PICK n \in Nat : n = Len(trades) /\ DOMAIN trades = 1 .. n
  OBVIOUS
<1>2. PICK new : new = Append(trades, trade)
  OBVIOUS
<1>3. /\ new \in Seq(ClosedTrade) /\ DOMAIN new = 1 .. n + 1 /\ new[n + 1] = trade
      /\ \A i \in 1 .. n : new[i] = trades[i] /\ trades[i] \in ClosedTrade
  BY <1>1, <1>2
<1>4. \A t \in ClosedTrade : Brought(t) \in Int
  <2>1. ASSUME NEW x \in Int, NEW q \in Int, NEW c \in Int PROVE x * q - c \in Int
    OBVIOUS
  <2>2. QED
    BY <2>1 DEF ClosedTrade, Brought
<1>5. PICK f, g : /\ f = [i \in 1 .. n |-> Brought(trades[i])]
                  /\ g = [i \in 1 .. n + 1 |-> Brought(new[i])]
  OBVIOUS
<1>6. IsFiniteSet(1 .. n) /\ n + 1 \notin 1 .. n /\ 1 .. n + 1 = 1 .. n \cup {n + 1}
  <2>1. IsFiniteSet(1 .. n)
    BY FS_Interval
  <2>2. QED
    BY <1>1, <2>1
<1>7. \A i \in 1 .. n : f[i] \in Int /\ f[i] = g[i]
  BY <1>3, <1>4, <1>5, <1>6
<1>8. g[n + 1] = Brought(trade) /\ Brought(trade) \in Int
  BY <1>3, <1>4, <1>5, <1>6
<1>9. SumFunctionOnSet(g, 1 .. n \cup {n + 1}) = g[n + 1] + SumFunctionOnSet(g, 1 .. n)
  BY <1>6, <1>7, <1>8, SumAdd
<1>10. SumFunctionOnSet(f, 1 .. n) = SumFunctionOnSet(g, 1 .. n)
  BY <1>6, <1>7, SumAgrees
<1>11. SumFunctionOnSet(f, 1 .. n) \in Int
  BY <1>6, <1>7, SumType
<1>12. AllBrought(trades) = SumFunctionOnSet(f, 1 .. n)
  BY <1>1, <1>5 DEF AllBrought
<1>13. AllBrought(new) = SumFunctionOnSet(g, 1 .. n + 1)
  BY <1>3, <1>5 DEF AllBrought
<1>14. PICK m \in Int : m = AllBrought(trades)
  BY <1>11, <1>12
<1>15. PICK k \in Int : k = Brought(trade)
  BY <1>8
<1>16. AllBrought(new) = k + m
  BY <1>6, <1>8, <1>9, <1>10, <1>12, <1>13, <1>14, <1>15
<1>17. AllBrought(new) = m + k
  BY <1>16
<1>18. QED
  BY <1>2, <1>3, <1>14, <1>15, <1>17

\* Opening a position takes its commission only.
LEMMA OpensSettled ==
    ASSUME NEW b \in SettledBooks, NEW n \in Int, NEW price \in Int
    PROVE  /\ Test!OpenPosition(b, n, price) \in SettledBooks
           /\ Test!OpenPosition(b, n, price).trades = b.trades
<1>1. PICK v, fee, r : /\ v = price * n /\ fee = Test!Commission(v)
                       /\ r = Test!OpenPosition(b, n, price)
  OBVIOUS
<1>2. v \in Int /\ fee \in Int
  <2>1. v \in Int
    BY <1>1
  <2>2. QED
    BY <1>1, <2>1, TestAmounts DEF Test!Commission
<1>3. PICK c, p, t, f : b = [capital |-> c, position |-> p, trades |-> t, fees |-> f]
  BY DEF SettledBooks, TestBook
<1>4. /\ c \in Int /\ p \in [quantity : Int, entry_price : Int] /\ t \in Seq(ClosedTrade)
      /\ f \in Int
  BY <1>3 DEF SettledBooks, TestBook
<1>5. c = Funds - f + AllBrought(t) /\ AllBrought(t) \in Int /\ Funds \in Int
  <2>1. PICK trade : trade = [entry |-> 0, exit |-> 0, quantity |-> 0, commission |-> 0, pnl |-> 0]
    OBVIOUS
  <2>2. trade \in ClosedTrade
    BY <2>1 DEF ClosedTrade
  <2>3. QED
    BY <1>3, <1>4, <2>2, OneMoreTrade, TestAmounts DEF SettledBooks, Settles
<1>6. CASE v + fee > c
  <2>1. r = b
    BY <1>1, <1>3, <1>6 DEF Test!OpenPosition
  <2>2. QED
    BY <1>1, <2>1
<1>7. CASE ~(v + fee > c)
  <2>1. PICK q : q = [quantity |-> n, entry_price |-> price]
    OBVIOUS
  <2>2. r = [capital |-> c - fee, position |-> q, trades |-> t, fees |-> f + fee]
    BY <1>1, <1>3, <1>7, <2>1 DEF Test!OpenPosition
  <2>3. r \in TestBook
    BY <1>2, <1>4, <2>1, <2>2 DEF TestBook
  <2>4. Settles(r)
    BY <1>2, <1>4, <1>5, <2>2 DEF Settles
  <2>5. QED
    BY <1>1, <1>3, <2>2, <2>3, <2>4 DEF SettledBooks
<1>8. QED
  BY <1>6, <1>7

\* Closing a position adds the trade and what it brought.
LEMMA ClosesSettled ==
    ASSUME NEW b \in SettledBooks, NEW price \in Int
    PROVE  /\ Test!ClosePosition(b, price) \in SettledBooks
           /\ Test!ClosePosition(b, price).position.quantity = 0
           /\ b.position.quantity = 0 => Test!ClosePosition(b, price) = b
           /\ Len(Test!ClosePosition(b, price).trades) <= Len(b.trades) + 1
<1>1. PICK c, p, t, f : b = [capital |-> c, position |-> p, trades |-> t, fees |-> f]
  BY DEF SettledBooks, TestBook
<1>2. /\ c \in Int /\ p \in [quantity : Int, entry_price : Int] /\ t \in Seq(ClosedTrade)
      /\ f \in Int
  BY <1>1 DEF SettledBooks, TestBook
<1>3. PICK n, e, v, fee, r :
         /\ n = p.quantity /\ e = p.entry_price /\ v = price * n /\ fee = Test!Commission(v)
         /\ r = Test!ClosePosition(b, price)
  OBVIOUS
<1>4. n \in Int /\ e \in Int /\ v \in Int /\ fee \in Int
  <2>1. n \in Int /\ e \in Int
    BY <1>2, <1>3
  <2>2. v \in Int
    BY <1>3, <2>1
  <2>3. QED
    BY <1>3, <2>1, <2>2, TestAmounts DEF Test!Commission
<1>5. CASE n = 0
  <2>1. r = b
    BY <1>1, <1>3, <1>5 DEF Test!ClosePosition
  <2>2. b.trades = t /\ Len(t) \in Nat /\ b.position = p
    BY <1>1, <1>2
  <2>3. Len(b.trades) <= Len(b.trades) + 1
    BY <2>2
  <2>4. r \in SettledBooks /\ r.position.quantity = 0
    BY <1>3, <1>5, <2>1, <2>2
  <2>5. QED
    BY <1>3, <2>1, <2>3, <2>4
<1>6. CASE n # 0
  <2>1. PICK g : g = (price - e) * n - fee
    OBVIOUS
  <2>2. g \in Int
    BY <1>4, <2>1
  <2>3. PICK trade : trade = [entry |-> e, exit |-> price, quantity |-> n, commission |-> fee,
                              pnl |-> g]
    OBVIOUS
  <2>4. trade \in ClosedTrade /\ Brought(trade) = v - fee
    BY <1>3, <1>4, <2>2, <2>3 DEF ClosedTrade, Brought
  <2>5. r = [capital |-> c + v - fee, position |-> Test!Flat, trades |-> Append(t, trade),
             fees |-> f]
    BY <1>1, <1>3, <1>6, <2>1, <2>3 DEF Test!ClosePosition
  <2>6. /\ Append(t, trade) \in Seq(ClosedTrade) /\ AllBrought(t) \in Int
        /\ AllBrought(Append(t, trade)) = AllBrought(t) + (v - fee)
    BY <1>2, <2>4, OneMoreTrade
  <2>7. Test!Flat \in [quantity : Int, entry_price : Int] /\ Test!Flat.quantity = 0
    BY DEF Test!Flat
  <2>8. r \in TestBook
    BY <1>2, <1>4, <2>5, <2>6, <2>7 DEF TestBook
  <2>9. Settles(r)
    <3>1. c = Funds - f + AllBrought(t) /\ Funds \in Int
      BY <1>1, TestAmounts DEF SettledBooks, Settles
    <3>2. QED
      BY <1>2, <1>4, <2>5, <2>6, <3>1 DEF Settles
  <2>10. Len(Append(t, trade)) = Len(t) + 1 /\ Len(t) \in Nat
    BY <1>2
  <2>11. QED
    BY <1>1, <1>3, <1>6, <2>5, <2>7, <2>8, <2>9, <2>10 DEF SettledBooks
<1>7. QED
  BY <1>5, <1>6

\* What is done at a bar keeps the books settled.
LEMMA BarSettled ==
    ASSUME NEW b \in SettledBooks, NEW bar \in ClosePrices, NEW open,
           NEW signal \in Test!SignalsFor(bar, open)
    PROVE  Test!HandleSignal(b, signal) \in SettledBooks
<1>1. \/ signal = Test!NoSignal
      \/ signal.price = bar /\ signal.quantity \in Int
  <2>1. CASE executor = Test!AnyExecutor
    BY <2>1, TestAmounts DEF Test!SignalsFor
  <2>2. CASE executor # Test!AnyExecutor
    BY <2>2 DEF Test!SignalsFor, Test!EvaluateStrategy
  <2>3. QED
    BY <2>1, <2>2
<1>2. CASE signal = Test!NoSignal
  BY <1>2 DEF Test!HandleSignal, Test!NoSignal
<1>3. CASE signal.price = bar /\ signal.quantity \in Int
  <2>1. /\ Test!FillPrice(signal.price, "buy") \in Int
        /\ Test!FillPrice(signal.price, "sell") \in Int
    BY <1>3, TestAmounts DEF Test!FillPrice
  <2>2. CASE signal.type = "buy"
    BY <1>3, <2>1, <2>2, OpensSettled DEF Test!HandleSignal
  <2>3. CASE signal.type = "sell"
    BY <2>1, <2>3, ClosesSettled DEF Test!HandleSignal
  <2>4. CASE signal.type # "buy" /\ signal.type # "sell"
    BY <2>4 DEF Test!HandleSignal
  <2>5. QED
    BY <2>2, <2>3, <2>4
<1>4. QED
  BY <1>1, <1>2, <1>3

\* A bar of a parsed strategy: it opens a position at most, and one that sells has none to
\* close.
LEMMA ParsedBar ==
    ASSUME NEW b \in SettledBooks, NEW bar \in ClosePrices,
           executor \in Test!Parsed, executor # Test!AnyExecutor,
           NEW signal \in Test!SignalsFor(bar, b.position), b.trades = <<>>,
           executor.position = "SELL" => b.position = Test!Flat,
           NEW r, r = Test!HandleSignal(b, signal)
    PROVE  /\ r.trades = <<>>
           /\ executor.position = "SELL" => r = b
<1>1. \/ signal = Test!NoSignal
      \/ /\ signal = [type |-> IF executor.position = "BUY" THEN "buy" ELSE "sell",
                       price |-> bar, quantity |-> 1]
         /\ b.position.quantity = 0
  BY DEF Test!SignalsFor, Test!EvaluateStrategy
<1>2. CASE signal = Test!NoSignal
  BY <1>2 DEF Test!HandleSignal, Test!NoSignal
<1>3. CASE signal # Test!NoSignal
  <2>1. /\ Test!FillPrice(bar, "buy") \in Int
        /\ Test!FillPrice(bar, "sell") \in Int
    BY TestAmounts DEF Test!FillPrice
  <2>2. CASE executor.position = "BUY"
    <3>1. signal.type = "buy" /\ signal.price = bar /\ signal.quantity = 1
      BY <1>1, <1>3, <2>2
    <3>2. r = Test!OpenPosition(b, 1, Test!FillPrice(bar, "buy"))
      BY <3>1 DEF Test!HandleSignal
    <3>3. Test!OpenPosition(b, 1, Test!FillPrice(bar, "buy")).trades = b.trades
      <4>1. PICK price \in Int : price = Test!FillPrice(bar, "buy")
        BY <2>1
      <4>2. Test!OpenPosition(b, 1, price).trades = b.trades
        BY OpensSettled
      <4>3. QED
        BY <4>1, <4>2
    <3>4. r.trades = <<>>
      BY <3>2, <3>3
    <3>5. executor.position # "SELL"
      BY <2>2
    <3>6. QED
      BY <3>4, <3>5
  <2>3. CASE executor.position # "BUY"
    <3>1. /\ signal.type = "sell" /\ signal.price = bar /\ b.position.quantity = 0
      BY <1>1, <1>3, <2>3
    <3>2. r = Test!ClosePosition(b, Test!FillPrice(bar, "sell"))
      BY <3>1 DEF Test!HandleSignal
    <3>3. QED
      BY <2>1, <3>1, <3>2, ClosesSettled
  <2>4. QED
    BY <2>2, <2>3
<1>4. QED
  BY <1>2, <1>3

\* One point more of the curve.
LEMMA PointAdded ==
    ASSUME Deepest, NEW equity \in Int, Test!UpdateEquity(equity)
    PROVE  Deepest'
<1>1. PICK n \in Nat : n = Len(curve) /\ DOMAIN curve = 1 .. n
  BY DEF Deepest
<1>2. /\ curve' \in Seq(Int) /\ Len(curve') = n + 1 /\ curve'[n + 1] = equity
      /\ \A i \in 1 .. n : curve'[i] = curve[i]
  BY <1>1 DEF Deepest, Test!UpdateEquity
<1>3. PICK new : new = [i \in 0 .. n + 1 |-> IF i = 0 THEN Funds ELSE curve'[i]]
  OBVIOUS
<1>4. PICK old : old = [i \in 0 .. n |-> Point(i)]
  OBVIOUS
<1>5. /\ \A i \in 0 .. n : new[i] = old[i] /\ old[i] \in Int /\ new[i] = Point(i)
      /\ new[n + 1] = equity
  <2>1. Funds \in Int /\ \A i \in 1 .. n : curve[i] \in Int
    BY <1>1, TestAmounts DEF Deepest
  <2>2. n + 1 # 0 /\ n + 1 \in 0 .. n + 1
    OBVIOUS
  <2>3. new[n + 1] = equity
    BY <1>2, <1>3, <2>2
  <2>4. ASSUME NEW i \in 0 .. n
        PROVE  new[i] = old[i] /\ old[i] \in Int /\ new[i] = Point(i)
    <3>1. i \in 0 .. n + 1 /\ (i = 0 \/ i \in 1 .. n)
      OBVIOUS
    <3>2. old[i] = Point(i)
      BY <1>4
    <3>3. CASE i = 0
      BY <1>3, <2>1, <3>1, <3>2, <3>3 DEF Point
    <3>4. CASE i \in 1 .. n
      BY <1>2, <1>3, <2>1, <3>1, <3>2, <3>4 DEF Point
    <3>5. QED
      BY <3>1, <3>3, <3>4
  <2>5. QED
    BY <2>3, <2>4
<1>6. PICK p, d, q, e :
         /\ p = peak_capital /\ d = max_drawdown /\ q = peak_capital' /\ e = max_drawdown'
         /\ q = (IF equity > p THEN equity ELSE p)
         /\ e = (IF q - equity > d THEN q - equity ELSE d)
  BY DEF Test!UpdateEquity
<1>7. p \in Int /\ d \in Int /\ q \in Int /\ e \in Int
  BY <1>6 DEF Deepest
<1>8. /\ \A i \in 0 .. n : new[i] <= p
      /\ \E i \in 0 .. n : new[i] = p
      /\ \A i \in 0 .. n : \A k \in i .. n : new[i] - new[k] <= d
      /\ \E i \in 0 .. n : \E k \in i .. n : new[i] - new[k] = d
  <2>1. \A i \in 0 .. n : \A k \in i .. n : k \in 0 .. n
    OBVIOUS
  <2>2. QED
    BY <1>1, <1>5, <1>6, <2>1 DEF Deepest
<1>9. \A i \in 0 .. n + 1 : i \in 0 .. n \/ i = n + 1
  OBVIOUS
<1>10. \A i \in 0 .. n + 1 : new[i] <= q
  BY <1>5, <1>6, <1>7, <1>8, <1>9
<1>11. \E i \in 0 .. n + 1 : new[i] = q
  <2>1. CASE equity > p
    <3>1. n + 1 \in 0 .. n + 1
      OBVIOUS
    <3>2. QED
      BY <1>5, <1>6, <2>1, <3>1
  <2>2. CASE ~(equity > p)
    <3>1. PICK i \in 0 .. n : new[i] = p
      BY <1>8
    <3>2. i \in 0 .. n + 1
      OBVIOUS
    <3>3. QED
      BY <1>6, <2>2, <3>1, <3>2
  <2>3. QED
    BY <2>1, <2>2
<1>12. ASSUME NEW i \in 0 .. n + 1, NEW k \in i .. n + 1 PROVE new[i] - new[k] <= e
  <2>1. CASE k = n + 1
    BY <1>5, <1>6, <1>7, <1>9, <1>10, <2>1
  <2>2. CASE k # n + 1
    <3>1. i \in 0 .. n /\ k \in i .. n /\ k \in 0 .. n
      BY <2>2
    <3>2. new[i] - new[k] <= d /\ new[i] \in Int /\ new[k] \in Int
      BY <1>5, <1>8, <3>1
    <3>3. QED
      BY <1>6, <1>7, <3>2
  <2>3. QED
    BY <2>1, <2>2
<1>13. \E i \in 0 .. n + 1 : \E k \in i .. n + 1 : new[i] - new[k] = e
  <2>1. CASE q - equity > d
    <3>1. PICK i \in 0 .. n + 1 : new[i] = q
      BY <1>11
    <3>2. n + 1 \in i .. n + 1
      OBVIOUS
    <3>3. QED
      BY <1>5, <1>6, <2>1, <3>1, <3>2
  <2>2. CASE ~(q - equity > d)
    <3>1. PICK i \in 0 .. n : \E k \in i .. n : new[i] - new[k] = d
      BY <1>8
    <3>2. PICK k \in i .. n : new[i] - new[k] = d
      BY <3>1
    <3>3. i \in 0 .. n + 1 /\ k \in i .. n + 1
      OBVIOUS
    <3>4. QED
      BY <1>6, <2>2, <3>2, <3>3
  <2>3. QED
    BY <2>1, <2>2
<1>14. \A i \in 0 .. n + 1 : Point(i)' = new[i]
  BY <1>3 DEF Point
<1>15. \A i \in 0 .. n + 1 : \A k \in i .. n + 1 : k \in 0 .. n + 1
  OBVIOUS
<1>16. (\A i \in 0 .. Len(curve) : Point(i) <= peak_capital)'
  BY <1>2, <1>6, <1>10, <1>14
<1>17. (\E i \in 0 .. Len(curve) : Point(i) = peak_capital)'
  BY <1>2, <1>6, <1>11, <1>14
<1>18. (\A i \in 0 .. Len(curve) : \A k \in i .. Len(curve) :
          Point(i) - Point(k) <= max_drawdown)'
  BY <1>2, <1>6, <1>12, <1>14, <1>15
<1>19. (\E i \in 0 .. Len(curve) : \E k \in i .. Len(curve) :
          Point(i) - Point(k) = max_drawdown)'
  BY <1>2, <1>6, <1>13, <1>14, <1>15
<1>20. QED
  BY <1>2, <1>6, <1>7, <1>16, <1>17, <1>18, <1>19 DEF Deepest

\* The book becomes the one that is meant.
LEMMA BookBecomes ==
    ASSUME NEW b \in SettledBooks, Test!Becomes(b)
    PROVE  Test!Book' = b /\ (Test!Book \in SettledBooks)'
<1>1. Test!Book' = b
  BY DEF Test!Becomes, Test!Book, SettledBooks, TestBook
<1>2. QED
  BY <1>1 DEF SettledBooks, Settles

\* A bar.
LEMMA BarKeeps ==
    ASSUME TestInv, Test!ProcessBar
    PROVE  TestInv'
<1>0. PICK bar \in ClosePrices, last \in BOOLEAN :
         /\ Test!UpdateEquity(current_capital
                + (bar - position.entry_price) * position.quantity)
         /\ \E signal \in Test!SignalsFor(bar, position) :
              LET b == Test!HandleSignal(Test!Book, signal)
              IN  Test!Becomes(IF last THEN Test!ClosePosition(b, bar) ELSE b)
         /\ phase' = IF last THEN "done" ELSE "bars"
  BY DEF Test!ProcessBar
<1>1. PICK signal \in Test!SignalsFor(bar, position) :
         LET b == Test!HandleSignal(Test!Book, signal)
         IN  Test!Becomes(IF last THEN Test!ClosePosition(b, bar) ELSE b)
  BY <1>0
<1>a. phase = "bars" /\ UNCHANGED executor
  BY DEF Test!ProcessBar
<1>2. PICK a, b, c : /\ a = Test!Book /\ b = Test!HandleSignal(a, signal)
                     /\ c = (IF last THEN Test!ClosePosition(b, bar) ELSE b)
  OBVIOUS
<1>3. a \in SettledBooks /\ bar \in Int
  BY <1>2, TestAmounts DEF TestInv
<1>4. b \in SettledBooks
  BY <1>2, <1>3, BarSettled
<1>5. c \in SettledBooks
  BY <1>2, <1>3, <1>4, ClosesSettled
<1>6. Test!Becomes(c)
  BY <1>1, <1>2
<1>7. Test!Book' = c /\ (Test!Book \in SettledBooks)'
  BY <1>5, <1>6, BookBecomes
<1>8. Deepest'
  <2>1. PICK equity : equity = current_capital
                        + (bar - position.entry_price) * position.quantity
    OBVIOUS
  <2>2. equity \in Int
    <3>1. /\ current_capital \in Int /\ position.entry_price \in Int
          /\ position.quantity \in Int
      <4>1. Test!Book \in TestBook
        BY DEF TestInv, SettledBooks
      <4>2. QED
        BY <4>1 DEF Test!Book, TestBook
    <3>2. ASSUME NEW x \in Int, NEW y \in Int, NEW z \in Int PROVE z + (bar - x) * y \in Int
      BY <1>3
    <3>3. QED
      BY <2>1, <3>1, <3>2
  <2>3. QED
    BY <1>0, <2>1, <2>2, PointAdded DEF TestInv
<1>9. ParsedOnce'
  <2>1. SUFFICES ASSUME executor # Test!AnyExecutor PROVE ParsedOnce'
    BY <1>a DEF ParsedOnce
  <2>2. /\ executor \in Test!Parsed /\ done = <<>>
        /\ executor.position = "SELL" => position = Test!Flat
    BY <1>a, <2>1 DEF TestInv, ParsedOnce
  <2>3. a.trades = <<>> /\ a.position = position
    BY <1>2, <2>2 DEF Test!Book
  <2>4. b.trades = <<>> /\ (executor.position = "SELL" => b = a)
    BY <1>1, <1>2, <1>3, <2>1, <2>2, <2>3, ParsedBar
  <2>5. /\ Len(c.trades) <= 1 /\ (~last => c.trades = <<>>)
        /\ executor.position = "SELL" => c = a
    <3>1. CASE last
      <4>1. /\ Len(c.trades) <= Len(b.trades) + 1
            /\ b.position.quantity = 0 => c = b
        BY <1>2, <1>3, <1>4, <3>1, ClosesSettled
      <4>2. Len(b.trades) = 0
        BY <2>4
      <4>3. executor.position = "SELL" => b.position.quantity = 0 /\ b = a
        BY <2>2, <2>3, <2>4 DEF Test!Flat
      <4>4. QED
        BY <3>1, <4>1, <4>2, <4>3
    <3>2. CASE ~last
      <4>1. c.trades = <<>> /\ Len(c.trades) = 0 /\ c = b
        BY <1>2, <2>4, <3>2
      <4>2. QED
        BY <2>4, <4>1
    <3>3. QED
      BY <3>1, <3>2
  <2>6. done' = c.trades /\ position' = c.position /\ executor' = executor
    BY <1>a, <1>6 DEF Test!Becomes
  <2>7. phase' \in {"load", "bars"} => ~last
    BY <1>0
  <2>8. executor.position = "SELL" => done' = <<>> /\ position' = Test!Flat
    BY <2>2, <2>3, <2>5, <2>6
  <2>9. QED
    BY <2>2, <2>5, <2>6, <2>7, <2>8 DEF ParsedOnce
<1>10. QED
  BY <1>7, <1>8, <1>9 DEF TestInv

\* Every step of a back-test.
LEMMA TestKeeps ==
    ASSUME TestInv, Test!BacktestStep
    PROVE  TestInv'
<1>1. CASE Test!LoadData
  <2>1. /\ Test!Book' = Test!Book
        /\ UNCHANGED <<executor, position, curve, peak_capital, max_drawdown, done>>
    BY <1>1 DEF Test!LoadData, Test!Book
  <2>2. phase = "load" /\ (executor # Test!AnyExecutor => phase' = "bars")
    BY <1>1 DEF Test!LoadData, Test!RunBacktest
  <2>3. (Test!Book \in SettledBooks)'
    BY <2>1 DEF TestInv, SettledBooks, Settles
  <2>4. Deepest'
    BY <2>1 DEF TestInv, Deepest, Point
  <2>5. ParsedOnce'
    BY <2>1, <2>2 DEF TestInv, ParsedOnce
  <2>6. QED
    BY <2>3, <2>4, <2>5 DEF TestInv
<1>2. CASE Test!Stop
  <2>1. PICK bar \in ClosePrices : Test!Becomes(Test!ClosePosition(Test!Book, bar))
    BY <1>2 DEF Test!Stop
  <2>2. PICK c : c = Test!ClosePosition(Test!Book, bar)
    OBVIOUS
  <2>3. c \in SettledBooks
    <3>1. Test!Book \in SettledBooks /\ bar \in Int
      BY TestAmounts DEF TestInv
    <3>2. PICK a : a = Test!Book
      OBVIOUS
    <3>3. QED
      BY <2>2, <3>1, <3>2, ClosesSettled
  <2>4. (Test!Book \in SettledBooks)'
    BY <2>1, <2>2, <2>3, BookBecomes
  <2>5. /\ UNCHANGED <<executor, curve, peak_capital, max_drawdown>>
        /\ executor = Test!AnyExecutor
    BY <1>2 DEF Test!Stop
  <2>6. Deepest' /\ ParsedOnce'
    BY <2>5 DEF TestInv, Deepest, Point, ParsedOnce
  <2>7. QED
    BY <2>4, <2>6 DEF TestInv
<1>3. CASE Test!ProcessBar
  BY <1>3, BarKeeps
<1>4. QED
  BY <1>1, <1>2, <1>3 DEF Test!BacktestStep

\* The first state of a back-test.
LEMMA TestStarts ==
    ASSUME Test!BacktestInit
    PROVE  TestInv
<1>1. /\ phase = "load" /\ executor \in {Test!AnyExecutor} \cup Test!Parsed
      /\ position = Test!Flat /\ current_capital = Funds /\ peak_capital = Funds
      /\ curve = <<>> /\ max_drawdown = 0 /\ done = <<>> /\ entryFees = 0
  BY DEF Test!BacktestInit
<1>2. AllBrought(<<>>) = 0
  <2>1. DOMAIN <<>> = {}
    OBVIOUS
  <2>2. QED
    BY <2>1, SumEmpty DEF AllBrought
<1>3. Test!Book \in SettledBooks
  <2>1. Test!Book = [capital |-> Funds, position |-> Test!Flat, trades |-> <<>>, fees |-> 0]
    BY <1>1 DEF Test!Book
  <2>2. <<>> \in Seq(ClosedTrade) /\ Test!Flat \in [quantity : Int, entry_price : Int]
    BY DEF Test!Flat
  <2>3. Test!Book \in TestBook
    BY <2>1, <2>2, TestAmounts DEF TestBook
  <2>4. Settles(Test!Book)
    BY <1>2, <2>1, TestAmounts DEF Settles
  <2>5. QED
    BY <2>3, <2>4 DEF SettledBooks
<1>4. Deepest
  <2>1. Len(curve) = 0 /\ curve \in Seq(Int)
    BY <1>1
  <2>2. \A i \in 0 .. 0 : i = 0 /\ Point(i) = Funds
    BY DEF Point
  <2>3. 0 \in 0 .. 0
    OBVIOUS
  <2>4. QED
    BY <1>1, <2>1, <2>2, <2>3, TestAmounts DEF Deepest
<1>5. ParsedOnce
  BY <1>1 DEF ParsedOnce
<1>6. QED
  BY <1>3, <1>4, <1>5 DEF TestInv

\* The capital is the first one, less the commissions, plus the profits and the entry values.
LEMMA CapitalExplained ==
    ASSUME Test!Book \in SettledBooks
    PROVE  current_capital = Funds - entryFees + Test!Metrics.gross_profit
             - Test!Metrics.gross_loss - Test!Metrics.total_commission
             + Test!Total(LAMBDA t : t.entry * t.quantity)
<1>1. PICK N : /\ DOMAIN done = N /\ IsFiniteSet(N)
                /\ \A i \in N : done[i] \in ClosedTrade
  <2>1. done \in Seq(ClosedTrade)
    BY DEF SettledBooks, TestBook, Test!Book
  <2>2. PICK n \in Nat : DOMAIN done = 1 .. n /\ \A i \in 1 .. n : done[i] \in ClosedTrade
    BY <2>1
  <2>3. IsFiniteSet(1 .. n)
    BY FS_Interval
  <2>4. QED
    BY <2>2, <2>3
<1>2. IsFiniteSet(N)
  BY <1>1
<1>3. PICK G, L, C, V, B, P, Q :
         /\ G = [i \in N |-> IF Test!Gross(done[i]) > 0 THEN Test!Gross(done[i]) ELSE 0]
         /\ L = [i \in N |-> IF Test!Gross(done[i]) > 0 THEN 0 ELSE -Test!Gross(done[i])]
         /\ C = [i \in N |-> done[i].commission]
         /\ V = [i \in N |-> done[i].entry * done[i].quantity]
         /\ B = [i \in N |-> Brought(done[i])]
         /\ P = [i \in N |-> G[i] + V[i]]
         /\ Q = [i \in N |-> L[i] + C[i]]
  OBVIOUS
<1>4. ASSUME NEW i \in N
      PROVE  /\ G[i] \in Int /\ L[i] \in Int /\ C[i] \in Int /\ V[i] \in Int /\ B[i] \in Int
             /\ P[i] = G[i] + V[i] /\ Q[i] = L[i] + C[i] /\ P[i] = B[i] + Q[i]
             /\ P[i] \in Int /\ Q[i] \in Int
  <2>1. PICK t : t = done[i]
    OBVIOUS
  <2>2. PICK e \in Int, x \in Int, q \in Int, c \in Int :
           e = t.entry /\ x = t.exit /\ q = t.quantity /\ c = t.commission
    BY <1>1, <2>1 DEF ClosedTrade
  <2>3. PICK g \in Int : g = Test!Gross(t) /\ g = x * q - e * q
    <3>1. (x - e) * q = x * q - e * q /\ (x - e) * q \in Int
      OBVIOUS
    <3>2. Test!Gross(t) = (x - e) * q
      BY <2>2 DEF Test!Gross
    <3>3. QED
      BY <3>1, <3>2
  <2>4. PICK v \in Int : v = e * q
    OBVIOUS
  <2>5. PICK w \in Int : w = x * q
    OBVIOUS
  <2>6. /\ G[i] = (IF g > 0 THEN g ELSE 0) /\ L[i] = (IF g > 0 THEN 0 ELSE -g)
        /\ C[i] = c /\ V[i] = v /\ B[i] = w - c /\ P[i] = G[i] + V[i] /\ Q[i] = L[i] + C[i]
    BY <1>3, <2>1, <2>2, <2>3, <2>4, <2>5 DEF Brought
  <2>7. g = w - v
    BY <2>3, <2>4, <2>5
  <2>8. QED
    BY ONLY <2>6, <2>7
<1>5. /\ SumFunctionOnSet(P, N) = SumFunctionOnSet(G, N) + SumFunctionOnSet(V, N)
      /\ SumFunctionOnSet(Q, N) = SumFunctionOnSet(L, N) + SumFunctionOnSet(C, N)
      /\ SumFunctionOnSet(P, N) = SumFunctionOnSet(B, N) + SumFunctionOnSet(Q, N)
  <2>1. SumFunctionOnSet(P, N) = SumFunctionOnSet(G, N) + SumFunctionOnSet(V, N)
    BY <1>2, <1>4, SumPlus
  <2>2. SumFunctionOnSet(Q, N) = SumFunctionOnSet(L, N) + SumFunctionOnSet(C, N)
    BY <1>2, <1>4, SumPlus
  <2>3. SumFunctionOnSet(P, N) = SumFunctionOnSet(B, N) + SumFunctionOnSet(Q, N)
    BY <1>2, <1>4, SumPlus
  <2>4. QED
    BY <2>1, <2>2, <2>3
<1>6. PICK sg \in Int, sl \in Int, sc \in Int, sv \in Int, sb \in Int :
         /\ sg = SumFunctionOnSet(G, N) /\ sl = SumFunctionOnSet(L, N)
         /\ sc = SumFunctionOnSet(C, N) /\ sv = SumFunctionOnSet(V, N)
         /\ sb = SumFunctionOnSet(B, N)
  <2>1. SumFunctionOnSet(G, N) \in Int
    BY <1>2, <1>4, SumType
  <2>2. SumFunctionOnSet(L, N) \in Int
    BY <1>2, <1>4, SumType
  <2>3. SumFunctionOnSet(C, N) \in Int
    BY <1>2, <1>4, SumType
  <2>4. SumFunctionOnSet(V, N) \in Int
    BY <1>2, <1>4, SumType
  <2>5. SumFunctionOnSet(B, N) \in Int
    BY <1>2, <1>4, SumType
  <2>6. QED
    BY <2>1, <2>2, <2>3, <2>4, <2>5
<1>7. sg + sv = sb + (sl + sc)
  BY <1>5, <1>6
<1>8. \A f : Test!SumFunction(f) = SumFunctionOnSet(f, DOMAIN f)
  BY DEF Test!SumFunction, Test!SumFunctionOnSet, Test!FoldFunctionOnSet, Test!MapThenFoldSet,
         SumFunctionOnSet, FoldFunctionOnSet, MapThenFoldSet
<1>9. /\ Test!Metrics.gross_profit = sg /\ Test!Metrics.gross_loss = sl
      /\ Test!Metrics.total_commission = sc
      /\ Test!Total(LAMBDA t : t.entry * t.quantity) = sv
  <2>1. DOMAIN G = N /\ DOMAIN L = N /\ DOMAIN C = N /\ DOMAIN V = N
    BY <1>3
  <2>2. Test!Metrics.gross_profit = Test!SumFunction(G)
    BY <1>1, <1>3 DEF Test!Metrics, Test!Total
  <2>3. Test!Metrics.gross_loss = Test!SumFunction(L)
    BY <1>1, <1>3 DEF Test!Metrics, Test!Total
  <2>4. Test!Metrics.total_commission = Test!SumFunction(C)
    BY <1>1, <1>3 DEF Test!Metrics, Test!Total
  <2>5. Test!Total(LAMBDA t : t.entry * t.quantity) = Test!SumFunction(V)
    BY <1>1, <1>3 DEF Test!Total
  <2>6. QED
    BY <1>6, <1>8, <2>1, <2>2, <2>3, <2>4, <2>5
<1>10. current_capital = Funds - entryFees + sb /\ current_capital \in Int /\ entryFees \in Int
  <2>1. AllBrought(done) = sb
    BY <1>1, <1>3, <1>6 DEF AllBrought
  <2>2. QED
    BY <2>1 DEF SettledBooks, Settles, TestBook, Test!Book
<1>11. PICK k \in Int : k = Funds
  BY TestAmounts
<1>12. current_capital = k - entryFees + sg - sl - sc + sv
  BY <1>7, <1>10, <1>11
<1>13. QED
  BY <1>9, <1>11, <1>12

\* The invariant is what the property says.
LEMMA TestExplained == TestInv => Test!MetricsTrue
<1> SUFFICES ASSUME TestInv PROVE Test!MetricsTrue
  OBVIOUS
<1>1. /\ \A i \in 0 .. Len(curve) : \A k \in i .. Len(curve) : Point(i) - Point(k) <= max_drawdown
      /\ \E i \in 0 .. Len(curve) : \E k \in i .. Len(curve) : Point(i) - Point(k) = max_drawdown
  BY DEF TestInv, Deepest
<1>2. Test!Metrics.total_trades = Len(done)
  BY DEF Test!Metrics
<1>3. /\ executor # Test!AnyExecutor => Test!Metrics.total_trades <= 1
      /\ executor # Test!AnyExecutor /\ done # <<>> => executor.position = "BUY"
  BY <1>2 DEF TestInv, ParsedOnce, Test!Parsed
<1>4. current_capital = Funds - entryFees + Test!Metrics.gross_profit
             - Test!Metrics.gross_loss - Test!Metrics.total_commission
             + Test!Total(LAMBDA t : t.entry * t.quantity)
  BY CapitalExplained DEF TestInv
<1>5. QED
  BY <1>1, <1>3, <1>4 DEF Test!MetricsTrue, Point

-----------------------------------------------------------------------------
\* Whatever is bought and sold, short or failing half-way, the cash of the paper engine, that
\* of the mock broker and the capital of a back-test are what the trades explain.
THEOREM CashStaysAccounted == Spec => []CashAccounted
<1>1. Init => CashInv /\ MockInv /\ TestInv
  BY CashStarts, MockStarts, TestStarts DEF Init
<1>2. ASSUME CashInv, MockInv, TestInv, [Next]_vars PROVE CashInv' /\ MockInv' /\ TestInv'
  <2>1. CashInv'
    <3>1. CASE Engine!EngineStep
      BY <1>2, <3>1, CashKeeps
    <3>2. CASE UNCHANGED engineVars
      BY <1>2, <3>2 DEF engineVars, CashInv, Engine!Book, Engine!Opened, Balanced
    <3>3. QED
      BY <1>2, <3>1, <3>2, OneWorks
  <2>2. MockInv'
    <3>1. CASE Mock!MockStep
      BY <1>2, <3>1, MockKeeps
    <3>2. CASE UNCHANGED mockVars
      BY <1>2, <3>2 DEF mockVars, MockInv, PortfolioFits, Paid
    <3>3. QED
      BY <1>2, <3>1, <3>2, OneWorks
  <2>3. TestInv'
    <3>1. CASE Test!BacktestStep
      BY <1>2, <3>1, TestKeeps
    <3>2. CASE UNCHANGED backtestVars
      BY <1>2, <3>2
         DEF backtestVars, TestInv, Test!Book, SettledBooks, Settles, Deepest, Point,
            ParsedOnce
    <3>3. QED
      BY <1>2, <3>1, <3>2, OneWorks
  <2>4. QED
    BY <2>1, <2>2, <2>3
<1>3. CashInv /\ MockInv /\ TestInv => CashAccounted
  BY BalancedExplained, PortfolioIsExplained, TestExplained DEF CashAccounted
<1>4. QED
  BY <1>1, <1>2, <1>3, PTL DEF Spec
====
