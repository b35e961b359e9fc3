---- MODULE Market ----
(***************************************************************************)
(* Quotes: services/market_data_service.py and price_cache_service.py      *)
(* behind market_endpoints.  Each server process has a service and a cache *)
(* of its own.  Providers are called without suspending: the server does   *)
(* nothing else until the answer, but time goes by.  A quote is the time it*)
(* was put into the cache at.  The cache is never built on Redis, nor its  *)
(* clean-up started, nor anyone subscribed to it.                          *)
(***************************************************************************)
EXTENDS Integers, Functions

CONSTANTS
    Servers,           \* server processes
    Shares,            \* symbols of an exchange
    Ttl,               \* seconds a quote is kept for: 5 in the code
    MaxNow             \* bound on time, in the guard

NoQuote == -1

VARIABLES
    now,
    provider,          \* of each server: the kind its first request asked for
    cache,             \* server -> symbol -> time of the quote, or NoQuote
    asking,            \* server -> the request a provider is asked for, or Nobody
    reply              \* the last answer: [status, since, quotes], the quotes by symbol

mvars == <<now, provider, cache, asking, reply>>

Nobody == [since |-> NoQuote, hits |-> <<>>, keeps |-> {}, alone |-> FALSE]

\* What each provider may answer: nothing (it swallows its exceptions), a quote without
\* a price, or one with a price.
NSEPython == [quote |-> {"empty", "priceless", "quote"}, index |-> {"empty", "priceless", "quote"},
              history |-> {"empty", "bars"}, search |-> {"empty", "found"}]
YFinance == [quote |-> {"empty", "priceless", "quote"}, index |-> {"empty", "priceless", "quote"},
             history |-> {"empty", "bars"}, search |-> {"empty"}]
\* Between any two dates there may be week-ends only.
MockData == [quote |-> {"quote"}, index |-> {"quote"},
             history |-> {"empty", "bars"}, search |-> {"found"}]

\* A kind without a class of its own is mocked.
GetProvider(kind) ==
    CASE kind = "nsepython" -> NSEPython
      [] kind = "yfinance" -> YFinance
      [] kind \in {"alpha_vantage", "mock"} -> MockData

Kinds == {"nsepython", "yfinance", "alpha_vantage", "mock"}

MarketInit ==
    /\ now = 0
    /\ provider = [w \in Servers |-> "unset"]
    /\ cache = [w \in Servers |-> [s \in Shares |-> NoQuote]]
    /\ asking = [w \in Servers |-> Nobody]
    /\ reply = [status |-> 200, since |-> 0, quotes |-> <<>>]

\* The service of a server is made by the first request that depends on it, with the
\* kind it asks for; as no provider raises, the fallback is never asked.
Depends(w) ==
    IF provider[w] = "unset" THEN \E kind \in Kinds : provider' = [provider EXCEPT ![w] = kind]
    ELSE UNCHANGED provider

Asks(w, what, answers) == Depends(w) /\ GetProvider(provider'[w])[what] \cap answers # {}

Replies(status, since, quotes) ==
    reply' = [status |-> status, since |-> since, quotes |-> quotes]

\* Since when there is a request, which cached quotes it has read, which shares it would
\* put into the cache, and whether it is for one share alone.
Asked(w, hits, keeps, alone) ==
    /\ Depends(w)
    /\ asking' = [asking EXCEPT ![w] = [since |-> now, hits |-> hits, keeps |-> keeps,
                                       alone |-> alone]]

\* Mutant: what is in the cache is served.
NeverExpired(at) == FALSE
IsExpired(at) == now - at > Ttl

Cached(w, s) == cache[w][s] # NoQuote /\ ~IsExpired(cache[w][s])

----
\* (Where a quote is cached there is a provider.)
GetQuote(w) ==
    /\ asking[w] = Nobody
    /\ \E s \in Shares, use_cache \in BOOLEAN :
         \/ /\ use_cache /\ Cached(w, s)
            /\ Replies(200, now, Restrict(cache[w], {s}))
            /\ UNCHANGED <<provider, asking>>
         \/ /\ ~(use_cache /\ Cached(w, s))
            /\ Asked(w, <<>>, IF use_cache THEN {s} ELSE {}, TRUE)
            /\ UNCHANGED reply
    /\ UNCHANGED <<now, cache>>

\* Of several symbols those in the cache are read, and the others asked for one by one.
GetQuotes(w) ==
    /\ asking[w] = Nobody
    /\ \E wanted \in (SUBSET Shares) \ {{}} :
         LET hits == {s \in wanted : Cached(w, s)} IN
         \/ /\ hits = wanted
            /\ Replies(200, now, Restrict(cache[w], hits))
            /\ UNCHANGED <<provider, asking>>
         \/ /\ hits # wanted
            /\ Asked(w, Restrict(cache[w], hits), {}, FALSE)
            /\ UNCHANGED reply
    /\ UNCHANGED <<now, cache>>

\* The provider has nothing: the one share is not found, of several the others are answered,
\* as they were read before it was asked.
NotFetched(w) ==
    /\ asking[w] # Nobody
    /\ Asks(w, "quote", {"empty", "priceless"})
    /\ Replies(IF asking[w].alone THEN 404 ELSE 200, asking[w].since, asking[w].hits)
    /\ asking' = [asking EXCEPT ![w] = Nobody]
    /\ UNCHANGED <<now, cache>>

\* A quote just fetched holds a timestamp, and the answer is given a second one: it raises.
\* The one share is in the cache by then, for whoever tries again; the first of several is
\* not, and the rest are not asked for.
Fetched(w) ==
    /\ asking[w] # Nobody
    /\ Asks(w, "quote", {"quote"})
    /\ Replies(500, asking[w].since, <<>>)
    /\ cache' = [cache EXCEPT ![w] =
                   [s \in Shares |-> IF s \in asking[w].keeps THEN now ELSE @[s]]]
    /\ asking' = [asking EXCEPT ![w] = Nobody]
    /\ UNCHANGED now

\* Raises for the timestamp whenever there is an index.
GetIndex(w) ==
    /\ asking[w] = Nobody
    /\ \/ Asks(w, "index", {"empty", "priceless"}) /\ Replies(404, now, <<>>)
       \/ Asks(w, "index", {"quote"}) /\ Replies(500, now, <<>>)
    /\ UNCHANGED <<now, cache, asking>>

GetHistorical(w) ==
    /\ asking[w] = Nobody
    /\ \/ Asks(w, "history", {"empty"}) /\ Replies(404, now, <<>>)
       \/ Asks(w, "history", {"bars"}) /\ Replies(200, now, <<>>)
    /\ UNCHANGED <<now, cache, asking>>

SearchSymbols(w) ==
    /\ asking[w] = Nobody
    /\ Asks(w, "search", {"empty", "found"})
    /\ Replies(200, now, <<>>)
    /\ UNCHANGED <<now, cache, asking>>

\* "cleared", it says, and clears nothing.
ClearCache(w) ==
    /\ asking[w] = Nobody
    /\ Replies(200, now, <<>>)
    /\ UNCHANGED <<now, provider, cache, asking>>

Second == now < MaxNow /\ now' = now + 1 /\ UNCHANGED <<provider, cache, asking, reply>>

MarketStep ==
    \/ Second
    \/ \E w \in Servers : \/ GetQuote(w)
                          \/ GetQuotes(w)
                          \/ NotFetched(w)
                          \/ Fetched(w)
                          \/ GetIndex(w)
                          \/ GetHistorical(w)
                          \/ SearchSymbols(w)
                          \/ ClearCache(w)

MarketSpec == MarketInit /\ [][MarketStep]_mvars

----
(* Properties. *)

\* What is read from the cache before a provider is asked is handed out after it, however
\* long that took: no quote is older than the time to live when the request came (it may be
\* when the answer goes out), and none has been overtaken meanwhile by a newer one in the
\* cache of that server, which is never replaced by an older one.
QuotesFresh ==
    [][/\ reply' # reply => \A s \in DOMAIN reply'.quotes :
            reply'.since - reply'.quotes[s] \in 0..Ttl
       /\ \A w \in Servers :
            asking[w] # Nobody /\ asking'[w] = Nobody =>
              \A s \in DOMAIN reply'.quotes : reply'.quotes[s] = cache'[w][s]
       /\ \A w \in Servers, s \in Shares : cache[w][s] <= cache'[w][s]]_mvars
====
