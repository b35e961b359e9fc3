# TLA+ models of Easy Trading App

Specifications of the parts of this repository that decide who may trade, what is
traded and what is shown of it: TLA+ modules, TLC configurations that check them on
small instances, and TLAPS proofs for every value of the constants. Paths below are
under `src/backend/` unless they start with `docs/`, `tests/` or `mock-broker/`.

## 1. The system

A FastAPI back end with a React front end. Users describe strategies; the back
end evaluates them on market data and sends orders to brokers or to a simulated
engine. PostgreSQL, Redis, RabbitMQ and Celery stand around it. All Python code is
asyncio: a coroutine runs alone until it awaits something that suspends. The
Dockerfile starts four server processes over one database and one Redis.

| Component | State | Operations | Interacts with | Hard behaviour | Correct when |
|---|---|---|---|---|---|
| Order executor, `trading_engine/execution/order_executor.py` | orders, idempotency cache, a lock per order (memory) | place, cancel, modify, synchronise; handlers of broker messages | risk service, broker service, event bus | lost answers, late and reordered messages, handlers without the lock, look-up before the lock | no order twice, none forgotten, none shown filled that is not, or closed but by a refused cancellation |
| Order queue, same file, line 588 | a queue, the time of the last order | enqueue, paced dequeue | workers | sleeping inside a lock; time-outs and cancellations at each await | no order lost, none early |
| Circuit breaker, `core/circuit_breaker.py` | state, counters, time of the last failure | `call`, outcome handlers, `reset` | whatever it protects | outcomes that arrive in another state; cancelled calls | bounded probes, never stuck half-open |
| Risk manager, `risk_management/risk_manager.py` | limits, statistics of the day, order times, kill switches | `check_order_risk`, `check_daily_loss`, `record_trade`, switches, settings | executor, workflow | time between check and trade, midnight, changed limits | limits bound what is let through; a stop stops |
| Strategies, `api/v1/endpoints/strategy_endpoints.py`, `services/strategy_backtest_service.py` | rows of strategies and assignments | edit, activate, back-test, transition, approve, kill, assign | database | a commit over a row that has changed; several ways into a status | nothing is live that nobody approved |
| Strategy instances and live trading, `services/strategy_instance_service.py`, `services/live_trading_service.py` | rows of instances, positions, trades; broker sessions (memory) | life cycle, candle, trade, exit all, connect | brokers, database | status read before an await and used after; broker first, commit later; a restart | orders and rows agree; what was stopped stays so |
| Paper trading of instances, `services/paper_trading_service.py` | rows of an instance and its positions | start, tick, pause, resume, stop | database | overlapping ticks on stale copies | capital and trades agree with the rows |
| Paper trading engine, `trading_engine/paper_trading.py` | cash, positions, pending orders (memory) | place, fill pending, cancel, reset | order endpoints | orders filled later than checked, sales of nothing | every unit of cash is explained |
| Orders, risk rules, broker accounts, `api/v1/endpoints/` | rows | create, cancel, kill switch, rules, accounts | database | cancel against kill switch | a kill switch holds |
| Order repository, `services/order_repository.py` | rows of orders, positions, trades, breaches | create, update, upsert, resolve | database | look-up and insert in two steps | no more duplicates than races |
| Accounts and sessions, `services/auth_service.py`, `services/oauth_service.py`, `core/security.py`, `api/v1/endpoints/auth_endpoints.py`, `session_endpoints.py`, `admin_endpoints.py` | rows of users and sessions | register, log in, revoke a session, approve, reject, suspend, forgotten password | database, Google | an administrator's decision against a request in flight | a decision is undone by decisions only; a suspension ends the session rows it finds; a token told sets the password |
| Second factor, `services/totp_service.py` | secret, enabled | set up, enable, verify | database | two set-ups at once | the secret in use is one the user has |
| Notifications, `services/notification_service.py` | rows of notifications, preferences | create, send over five channels, read, prefer | database, channels | preferences that change while it sends | sent as preferred |
| Rate limiter, `core/rate_limiter.py` | a counter with an expiry (Redis) | check | Redis | three calls for one step, four processes | the limit holds, the window ends |
| Market data and price cache, `services/market_data_service.py`, `services/price_cache_service.py` | provider, cached quotes | quote, quotes, index, OHLC, cache endpoints | providers | part of an answer cached, part fetched, part failed; a provider that takes its time | a cached quote was within its time to live when the request came |
| Streaming, `services/streaming_service.py` | connection, subscriptions, reader tasks | connect, reconnect, subscribe, disconnect, remove | broker WebSocket | disconnect while reconnecting; two of three brokers that never connect | a Zerodha stream that the network broke comes back; what was taken back is gone from the current socket |
| Text parser, `strategy_engine/improved_parser.py` | none | text to conditions, position, limits | strategies, back-tests | patterns that overlap and run on | what follows a full sentence leaves its conditions as they were |
| Signals, `strategy_engine/executor.py` | none | indicators, conditions, signal, size | parser, market data | windows recomputed with each bar | no repainting, crossings are events, stops on the right side |
| Back-test, analytics, reports, `backtesting/engine.py`, `backtesting/analytics.py`, `services/report_service.py` | capital, position, trades, equity curve | run, analyse, report | signals | figures accumulated in separate passes | figures agree with the trades |
| Mock broker, `mock-broker/main.py` | cash, positions, orders | place, portfolio, reset | live trading | short positions, failures half-way | the portfolio is explained |

`OrderExecutor`, the `CircuitBreaker` of `core/` and `RiskManager` are exercised by
the unit and integration tests and are not wired to the endpoints of this commit;
they are the code that states what execution is to guarantee, so they come
first and are proved. `broker_service`, `risk_service` and `event_bus` are arguments
of `OrderExecutor`; the first has no implementation in the repository.

## 2. Modules

| Module | Models | Checked in |
|---|---|---|
| `OrderExecutor` | `OrderExecutor`, with the broker and its messages as environment | `MCOrderExecutor` |
| `OrderPromise` | what it promises its callers, abstractly | the refinement `KeepsPromise` |
| `OrderExecutorProofs` | its proofs, that of the refinement included | |
| `CircuitBreaker`, `CircuitBreakerProofs` | `core/circuit_breaker.py` | `MCCircuitBreaker` |
| `RiskManager`, `RiskManagerProofs` | `risk_management/risk_manager.py` and the coroutines that use it | `MCRiskManager` |
| `UnitOfWork` | what a commit writes of a row that changed since it was read | all modules below it |
| `StrategyDesk` | strategies, their life cycle and assignments | `MCDesks` |
| `InstanceDesk`, `InstanceDeskProofs` | strategy instances, live trades, exits, broker sessions, restart | `MCDesks` |
| `PaperDesk` | paper trading of one instance | `MCDesks` |
| `OrderDesk` | orders, kill switch, risk rules, broker accounts | `MCDesks` |
| `Accounts`, `Passwords`, `Mfa` | accounts and sessions, forgotten passwords, the second factor | `MCDesks` |
| `Notifications` | notifications and preferences | `MCDesks` |
| `Repository` | the order repository | `MCDesks` |
| `Desks` | the desks of the rows above, together | `MCDesks` |
| `DesksProofs` | the proofs about them | |
| `PaperEngine`, `MockBroker` | the virtual account and the broker stand-in | `MCServices` |
| `Signals`, `Backtest`, `Analytics`, `Reports`, `Fractions` | from bars to figures, over exact fractions | `MCServices` |
| `RateLimiter`, `OrderQueue`, `Market`, `Streaming` | the rest of what is kept in memory or Redis | `MCServices` |
| `Services` | the engines and helpers of the rows above but analytics and reports, together | `MCServices` |
| `ServicesProofs` | the proofs about them | |
| `Parser` | texts of strategies, with the sentences of `MCParser` | `MCServices` |
| `Figures` | `Analytics`, `Reports` and `Parser`, together | `MCServices` |
| `FiguresProofs` | the proofs about analytics and reports | |
| `Induction` | no code: induction over numbers, finite sets and sequences, and the lemmas about sums, fractions and lists the proofs cite | |

### OrderExecutor and OrderPromise

`orders`, `idempotencyCache` and `locks` are the dictionaries `_orders`,
`_idempotency_cache` and `_order_locks`. A task is a coroutine inside a method:
`call` holds its arguments, `pc` the await it is suspended at (`risk`,
`submit`, `publish`, `cancel`, `modify`, `published`, `sync`, or `wait` for a
lock), `reply` the answer waiting for it. One action is the code between two
suspending awaits: `PlaceOrder` is the start of `place_order` up to the risk
check, `RiskApproved` runs from there to the broker, `PlaceSubmitted` from the
answer to the publication, and so on. Leaving the method (`Return`) releases the
lock on every path, as `async with` does. `HandleOrderUpdate` and
`HandleTradeEvent` take no lock and run whenever a message is there.

The broker is external. `book` is its own record, `msgs` the set of messages on
their way, delivered in any order. A call is obeyed with its answer delivered or lost
(`BrokerObeys`), or fails with an exception, or never arrives (`BrokerRefuses`). A
cancellation the broker refuses comes back as `False` and no exception
(`BrokerDeclines`), and `CancelAnswered` does not look at it: `refused`, for the
properties only, remembers of which orders. `FilledWords`
are the words this broker has for a filled order: the mock broker answers
"complete", which `_map_broker_status` does not know.

`RiskSuspends` tells two deployments apart. The repository's `check_order_risk`
awaits only an uncontended `asyncio.Lock` and coroutines that never suspend, so
no other coroutine runs between the look-up of the key and its caching
(`RiskSuspends = FALSE`; `Free` keeps the others back). A risk service that does I/O
suspends, and what remains true then is `OncePerCaller`.

`OrderPromise` has two variables: where an order really is and what is shown of it. An order is
recorded before it is sent, one order of a key is sent, it ends once, and no end is shown but the
one it has come to ("rejected" is excepted: it is also what a lost answer leaves, finding 1; and
so is CANCELLED of an order whose cancellation the broker refused, finding 5, which the mapping
shows as nothing). The mapping at the end of `OrderExecutor` reads `stage` from the broker's
record (`StageOf`) and `shown` from `_orders` (`ShownOf`). Two things the code cannot promise are
left out of the mapping: the keys when the risk check suspends, and FILLED when the `trade`
stream is subscribed (finding 2).

Left out: prices, symbols and texts; that a broker repeats a message; a restart
(nothing is persisted, so a restarted executor knows nothing of its orders).

### CircuitBreaker

`Admit` is the locked half of `call` with `_check_state`; `OnSuccess` and
`OnFailure` are the handlers, run in whatever state the breaker has by then;
`Cancelled` is a call whose task is cancelled, which neither handler sees
because `CancelledError` is no `Exception`. `sinceFailure` is the time since
`last_failure_time`, capped at the timeout. `failureCount` saturates at the
threshold, beyond which the code only compares it. `inFlight` tells probes of
this half-open period from older calls, which the breaker itself cannot;
`leaked` counts its cancelled probes. Both serve the properties only.

### RiskManager

Every method body is atomic (no await in it suspends), so each is one action.
What interleaves is the time between `Approved` and `Traded`. `limits` is the
list of a user, walked in order as the code walks it: `Breached` is the
condition of each rule, `Rejects` what the code makes of it (only a breach of a
hard ALERT ends the check), `Raises` the rule whose code fails with a
`NameError`. `tracker` is the list of order times, as ages. `stats` keeps the
count and whether its date is today's; `Midnight` makes it another day's, and
the code replaces it when it next reads it (`DailyStats`), be it to check, to
record or to report (`GetRiskStatus`). `granted`, `ceiling` and `stopped` are
history variables. The positions and per-asset statistics the code reads are never
written by it, so these rules see 0. A kill switch of a strategy stops no order:
`place_order` (`order_executor.py:186`) passes no strategy to `check_order_risk`, nor does
any test, so the branch that would look at it is not taken, and `HaltsEventually` speaks
of the other two switches. `Conservative`, `Moderate` and `Aggressive` are
the presets of `RiskLimitConfig`, their thresholds left to the instance.

### UnitOfWork and the desks

A desk is what stands behind a group of endpoints: rows of tables and the requests
in flight. A SQLAlchemy session gives every handler the same form, and the modules
follow it. A request reads its rows in one step, keeps them with what it makes of
them in a record of its own (`request[r]`), and commits in a later step; between
the two any other request may do anything. `commit` writes the columns whose value
the handler has changed, over whatever the row has become: `Flush(row, read, new)`.
No handler takes a row lock and no table has a version column, so a lost update is a
behaviour of these models as it is of the code. A refused request changes nothing and is no
step. A handler with several awaits that matter (a live trade, a tick, a
notification over five channels) has a step for each.

* `StrategyDesk`: `Outcomes` gives, for each handler, what it makes of the row it
  read; `Transition` has the life-cycle manager's table and its requirements,
  `vouched` remembers whom an administrator approved or set live.
* `InstanceDesk`: a trade is at the broker (`ExecuteLiveTrade`) before its rows are
  committed (`TradeCommits`). `Accepted` says which keywords a broker's `place_order`
  takes: candles and the emergency exit pass others, and their orders end in a
  `TypeError` that is caught. `Restart` loses requests and broker sessions and keeps
  rows and orders.
* `PaperDesk`: a tick is a request that closes, opens and marks, and commits at each
  `commit` of the code; two ticks of an instance overlap.
* `OrderDesk`: the kill switch and a cancellation are each read and commit; rules and
  broker accounts are one step where one statement writes them.
* `Accounts`: several handlers share rows of users and sessions. Time moves in half hours.
  `get_current_user` looks at the token alone: that of a revoked session, or of a suspended
  user, is served until it expires, so the properties speak of session rows. A Google login
  (`api/v1/endpoints/auth_endpoints.py:90`) opens a session for whoever has an account, in
  whatever status. `AuthService.logout`, which fills the blacklist, has no endpoint.
* `Passwords`: the two endpoints for forgotten passwords. `told` are the tokens a user was
  told, in order; a reset carries the token and the new password it read the row with, and
  `spent` counts what each token has set.
* `Mfa`: a code stands for the secret it is computed from.
* `Notifications`: preferences are read once at the start of a sending; then one
  channel after the other; then the commit of the sender's copy. Of a user without a row
  of preferences `GetPreferences` tells what the endpoint tells him, that e-mail and push
  are on, and `SendNotification` sends nothing, as the service does.
* `Repository`: every method is a look-up and a commit; `raced` counts, for the
  property only, the pairs of look-ups that both found nothing.

`Desks` composes all of them, for any rows, requests and limits, and `MCDesks` gives it
the instance that TLC checks. No desk calls another or reads rows that another
writes in a way the properties see (each says in its header what it leaves out), so
interleaving them would multiply states and add no behaviour: a first state
chooses the desk that works, the others rest. Interleaving happens where the
program has it, between the requests of one desk.

`Desks` states what the proofs need of its constants, and TLC evaluates it in every run of
`MCDesks`. `Finite`: rows and requests are finitely many. `Numbers`: limits are numbers, an
order has a quantity (`create_order` refuses another, `api/v1/endpoints/order_endpoints.py:227`),
and the random walk of paper prices stays above 0: each price is the one before and a
normal deviate of 2 % of it, which the assumption takes to be above -100 %.
`Absences`: `None` and `NoRow` are not rows or values. `Contents`: which fields an update may
carry, `StrategyUpdate` none for the approval and an update of a position none for its
product, as its only caller has it.

### The services

`Services` does the same for what keeps its state in memory or in Redis, and `Figures` for what
is computed at once from what is given (analytics, reports, texts); `MCServices` gives both the
instance that TLC checks, one service or one figure at a time. What `Services` assumes of its
constants, and TLC evaluates: `Amounts`, `PortfolioAmounts`, `TestAmounts`: money is counted in
whole units, orders of the paper engine have a quantity, symbols are finitely many; `Trading`:
bars have prices above 0, a signal and an average need at least one bar, and volumes, percentages
and capital are no less than 0; `Limits`: processes are finitely many and somebody is admitted;
`Periods`, `Absences`: periods are numbers, absence is no value. `Figures` assumes
`ResultAmounts`: no trade ends before it begins, and money is counted in whole units; and
`Calendar`: a year has months, a month has days, and the years reported on are those of the
trades. None of it bounds a price, a quantity or the number of steps.

* `PaperEngine`, `MockBroker`: one action per method; prices are an
  input. `unmatched` and `vanished` name the two ways the code has of making money
  appear (a sale of nothing) and disappear (a purchase that ends a short position
  divides by zero after its cash is taken).
* `Signals`: the indicators are recursive functions over all bars, as the code
  recomputes them from all bars; each condition is the code's comparison of the last
  values (`Now`, `Before`), with its slips: an EMA that crosses above a second one is
  compared with itself (line 378), "crosses above" VWAP is only "above". A stop 100 % below
  the price is 0, which the size takes for none (line 665).
* `Backtest`: one bar per step, with an executor that does anything it may and with
  those `strategy_backtest_service` makes of parsed strategies. Opening takes only
  the commission out of the capital and closing puts the whole value back; the
  model does the same, and `MetricsTrue` says what that makes of the figures.
* `Analytics`, `Reports`: functions of the trades, and of the equity curve of the back-test,
  which has a value for each bar and is modelled as independent of them (the back-test's own is
  in `Backtest`); the state is both lists so far, so that TLC enumerates all short ones.
  `max_consecutive_wins` and `max_consecutive_losses` are both the longest run of any kind
  (`backtesting/analytics.py:342`), and that is what `AnalyticsAgree` says of them. Where the
  code filters a list into another, the model keeps the positions of what stays: sums, averages,
  extremes and medians are of positions, and the curves follow an order of them.
* `RateLimiter`: one key, each call to Redis one step, several server processes.
* `OrderQueue`: the lock has a first-in first-out queue, as `asyncio.Lock` has.
* `Market`: a quote is the time it was put into the cache at. A request reads the cache and
  then asks a provider, which blocks the server while time goes by (`asking`); one answer of
  the provider ends the request, as the code raises at the first quote it fetched.
* `Streaming`: a task per socket and the application; sockets that nobody reads are
  used again, so that the model is finite without a bound on reconnections. Only Zerodha
  connects: the other two pass `headers=` (lines 241 and 338), which `websockets` from 12.0
  on (`requirements.txt:18`) does not have. A message that is no text ends the reader with its
  socket open (`LoopRaises`).
* `Parser`: a text is a sequence of words, a regular expression a sequence of sets of
  words; the state is the text, which grows by a clause per step. A stop, a target, a ratio
  of risk and reward or a trailing stop each hide the stated conditions to leave.

## 3. Runs

| Run | Instance | What it shows |
|---|---|---|
| `executor` | 2 tasks, 1 order of 2 units, `order_update` stream, 2 words for filled | `TypeOK`, `LockDiscipline`, `ClosedIsClosed`, `FillsNotOverstated`: every race of place, cancel, modify, synchronise, fills, closings, lost answers |
| `executor_retry` | 2 tasks, 2 requests of one key and an invalid one, `trade` stream, a suspending risk check | `NothingUnrecorded`, `CacheNamesOrder`, `OncePerCaller` |
| `executor_keys` | 3 tasks, 3 requests of one key, a check that does not suspend | `AtMostOncePerKey`; `EveryCallReturns` with three tasks contending for locks; `KeepsPromise`, the refinement |
| `breaker` | 4 calls (2 cancellable), thresholds 2 and 2, 3 probes, timeout 2 | `TypeOK`, `CountsBelowThresholds`, `ProbesWithinLimit`, `NeverWedged`, `HalfOpenEnds` |
| `risk` | 1 user, 2 tasks, two presets scaled down and a list that rejects, a rate limit, at most 3 trades | `TypeOK`, `TradesBounded`, `RateHolds`, `LossStops`, `HaltsEventually` |
| `desks` | two requests in flight at each desk | orders at the broker accounted for, no orphans (`OrdersAccounted`); what was ended stays so (`EndedStaysEnded`); nothing unapproved is live (`LiveWasVouched`); paper figures (`BooksBalance`); `KillSwitchHolds`; `SessionsEnd`, `DecisionsStand`; `NotifiedAsPreferred`; secrets and reset tokens (`SecretSettles`); `DuplicatesRaced` |
| `services` | each service on a small instance | `CashAccounted`, `SignalsSettle`, `SignalsProtected`, `FiguresTrue`, `RatesBounded`, `QuotesFresh`, `SentencesStandAlone`, `TakenBackIsGone`, `StreamsAgain` |
| `executor_lost` | as `executor`, no stream | `NoOrderLost` fails (finding 1) |
| `executor_fills` | as `executor`, both streams | `FilledMeansFilled` fails (finding 2) |
| `risk_hard` | 1 task, a limit order and a market order | `HardLimitsHold` fails (finding 3) |
| `rate_retry` | 1 process | `LaterAdmitted` fails (finding 4) |
| `executor_refused` | as `executor`, no stream | `CancelledIsOver` fails (finding 5) |

Many of these properties say what remains true of code that does not lock: not "one
row" but "no more rows than requests that raced", not "a stopped instance stays
stopped" but "only a request that means it to run, be it one that read it before,
makes it run" (the docstring of `stop_instance`, `services/strategy_instance_service.py:144`, has
"permanently"). The
exceptions in a property are the races the code admits; TLC finds a violation when
one is taken out of it.

Deadlock is checked in `breaker`, `risk` and `risk_hard`. The executor's runs do not
check it: a request is placed once, and after every order is closed and every
message delivered the program really has nothing more to do. Nor do `desks`,
`services` and `rate_retry`: a back-test ends with its last bar, a
text with its last clause, a clock at its bound, and an account that was rejected may
have no request left that does anything.

### Bounds

* `QtyOf`, `MaxQty` = 2: an order has a partial fill and a full one, and a
  modify to 1 makes the partial fill complete. The proofs need no bound.
* two tasks on one order: each race in the executor is between one coroutine
  and another, or a handler; `executor_keys` has three because a third caller
  may retry while two race.
* `NewQtys` = {0, 1}: 0 is "not given".
* `FailureThreshold` = `SuccessThreshold` = 2, `HalfOpenMax` = 3: a breaker
  counts to its threshold, and can lose one probe and still decide. Four calls
  leave one late call beside a full set of probes.
* `Timeout` = 2, `Minute` = 2 ticks: before, at and after the boundary.
* `MaxTrades` = 3, in the guard of `Call`: above the cap of 1 by more than the two
  orders in flight can overrun. `DefaultRate` = 2 in place of 10: two orders
  of a minute reach it.
* Desks: two requests, because a race there is between one read and another's
  commit. One strategy, trader, instance and user, because handlers name one row;
  three positions, tokens and secrets, so that both requests may write a new one over
  the first. `Accounts`: two failed attempts lock (`Threshold`), a lock of one unit and
  sessions that time out after one (`Timeout`), over three (`MaxTime`). `PaperDesk`: a capital of 8
  pays for several entries of a half each. `InstanceDesk`: `MaxOrders` = 3, one more than
  requests. `Passwords`: `MaxHour` = 3, past the expiry of a token.
* Services: `RateLimiter` three processes against a limit of 2, so that they overrun it together;
  `OrderQueue` three orders, two workers, a time-out longer than the spacing; `Signals` four bars
  of three closes with periods 2 and 3, so that each average has values before and after a
  crossing, closes far enough apart (1, 6, 20) that the bar which completes the longer average
  tells of a crossing again, and stops nearer than, at and beyond the price itself (`Distances`);
  `Backtest` four bars; `Analytics` five trades, enough for a fall, a recovery, a second fall and
  equal prices; `Reports` three trades and times at the last half second of a day, a month and a
  year; `Parser` three clauses, one that states and two that disturb; `Streaming` two sockets, an
  old one and its successor; `Market` two shares cached at different times, a time to live of one
  and a clock to three, so that what was read is past it when the answer goes out.
* `desks` permutes the two requests and the first two row identities, which nothing
  orders; all of its properties are safety properties.

### Fairness

`EveryCallReturns` assumes that the event loop runs a coroutine that can run. Strong fairness of
a task's steps stands for two queues of asyncio that are first-in first-out: the ready queue, and
the waiters of a lock, which the model wakes in any order. Broker calls end because the adapters'
HTTP clients have time-outs (`broker_integrations/angel_one.py:118`; httpx sets one by default).
`HalfOpenEnds` assumes time, that calls keep coming, and that each call ends. `HaltsEventually`
assumes weak fairness of check and send. `StreamsAgain` assumes that the event loop runs the
readers and that a broker asked again and again hands out a token and opens a socket in the end
(strong fairness of `Answers` and of `ConnectOpens`, which only Zerodha has); a broker that has
no token ends the attempts, and the property says so. `LaterAdmitted` fails although time passes
and the client tries again. Nothing assumes that messages arrive or that the broker fills
anything.

## 4. Proofs

All theorems hold for any sets of tasks, requests, keys, users and limits that the
named assumptions admit (`ConstantsOK`, `ConfigOK`; those of `Desks` and of `Services` as
described above).

**Executor.** `TypeOK` is not inductive: `sync_order_status` writes what the broker
answers, which is a status only of an order the broker has. `IInv` adds
`LabelsFit` (a task at an await is in the method that has it), `PlacesFit` (one
`place_order` per request, stored before it is submitted) and `OrdersFit` (only
stored orders are at the broker, only those have a `broker_order_id`). From it:

* `Recorded`: `NothingUnrecorded`, a conjunct of `OrdersFit`.
* `ClosedStaysClosed`, `FillsCorrect`: the broker's book only advances
  (`BookAdvances`: fills grow, a final word is final), so what a message or an
  answer says can become old but never overstates (`NewsTrue`), and what is
  written from it is a claim that stays true (`OrdersMirror`).
* `LocksCorrect`: `LocksFit`, the discipline told of tasks.
* `CacheCorrect`: only `RiskApproved` writes the cache, and it stores the order in
  the same step.
* `RetriesAreSafe`: whoever has an order out under a key finds the key cached
  (`KeysFit`), so a later call of the same coroutine is answered from the cache.
* `OneOrderPerKey`: without a suspension at most one task is between look-up and
  cache, so whatever is stored under a key is what the cache has (`OnceFit`).
* `Implements`: `Spec => KeepsPromise`, the refinement for every value of the constants.
  A step writes either the broker's record of one order or our record of one, never
  both (`OrdersEffect`, `RecordsEffect`), so that only one side of one order moves
  (`OneMoves`): if ours, the step is `Record` or `Show` (`OrderWritten`), and what is
  shown is true by `OrdersMirror` (`MirrorShows`); if the broker's, it is `Send` or
  `End` (`RecordWritten`), and the guard of `Send` on the other orders of the key
  comes from `AtMostOncePerKey` after the step.

**Breaker.** `TypeCorrect`; `CountsCorrect` and `ProbesLimited`, inductive with the
types; `WedgeFree` from `SlotsAccounted`: while half-open, the places taken are no
more than the probes in flight, the counted successes and the cancelled probes. The
assumption that there are at least as many probes as the success threshold
demands is one the defaults (3 and 2) respect and the code does not enforce.

**Risk manager.** `LossStopsTrading`: `stopped` implies the user's kill switch
(`StopsFit`), and an approval needs the switch off. `Types`: `TypeOK` is inductive, once
something is known of the lists of limits and times that comprehensions filter (`KeepType`,
`KeepAppend`). `RateIsHeld`: `RateHolds` compares the orders let through with the limit at
each approval. `RateFit` ties the two lists together: what of `granted` is of the last minute
is what of `tracker` is, however often the code throws old times away. `TradesAreBounded`:
`TradesFit` counts the orders of a user in flight: the trades of the day and those let through
are together fewer than the loosest cap an order was let through under and the user's callers;
midnight and a replaced list of limits only lower one side.

**Desks.** Each property is a theorem of `Desks`' specification; `DesksInv` is the conjunction of
one inductive invariant per desk, and a step of the desks is a step of one of them and none of
the others (`DesksStep`). None of the properties is inductive, because a request may commit what
it read long ago; each invariant says what the copies in flight have in common with the rows.

* Instances (`Accounted`, `StoppedStays` in `InstanceDeskProofs`; `EveryOrderAccounted`): a
  life-cycle request holds a row and one of the outcomes of its handler for it (`Fits`), so what
  it commits over a changed row is a row again (`FlushFits`). `InFlightMoves` counts the
  trades in flight when one request moves. `Commit` is the only step that changes the row of an
  instance that is there (`CommitWakes`), and of the handlers only three mean it to run
  (`WhoMeansRunning`).
* Orders (`KillSwitchIsObeyed`): the copies are of rows that were pending and whole, of orders
  that still exist, and in a kill switch of every order it found open (`CallersHold`).
  `FlushOfCancel` and `FlushOfKill` give what a commit makes of a
  row that another request has cancelled in between.
* Strategies (`OnlyVouchedGoLive`): whatever in a copy says approved or live was vouched for when
  it was read, and `vouched` only grows. A commit writes the columns it changed: that a row can be
  live with neither vouched is excluded for the row and for every copy in flight together.
* Assignments and positions (`NoMoreThanRaced`): the assignments written and the requests about
  to write one are together no more than requests (`AssignInv`); the active positions of a
  product are no more than one and the races that `raced` counts (`SavedInv`).
* Notifications (`PreferencesAreFollowed`): what a sender has left to try was preferred at some
  time (`ever`), and what was preferred throughout (`always`) is attempted or still left, unless
  there was no row of preferences, and then the notification never shows as sent.
* Paper trading (`BooksAreBalanced`): a copy of the row, however old, claims no more capital lost
  than has been spent by now and no more trades than there are by now (`Fair`); both sums only
  grow, so a copy that is committed late is still fair. A position has been closed at most as
  often as requests exist less those about to close it, and open positions and requests about
  to open one together are no more than requests: who opens found none open.
* What was ended (`EndsAreKept`): the three conjuncts of `EndedStaysEnded`, each from its desk.
* Accounts (`EndedSessionsStayEnded`, `NoDecisionIsUndone`): a suspension in flight holds every
  open session of its user that is not a late one (`Closes`); a decision in flight writes the
  status it stands for and nothing else (`Decides`), and a log-in the columns it counts in
  (`Counts`), so that no other copy of a row reaches its status.
* Second factor and passwords (`SecretsAreTheOnesTold`): a set-up in flight has read a row that
  was not enabled; tokens are told once, and the one in the row is the last that was told. What
  a token has set and the resets in flight that hold it are together no more than requests.

`InstanceDeskProofs` states its assumption (`Distinct`: the absence of a row is not a row, and
requests are finitely many) as a hypothesis, as no run extends it; `DesksProofs` proves it from
the assumptions of `Desks` and takes its theorems over.

**Services.** Each property is a theorem of `Services`' specification, from one inductive
invariant per service; a step is a step of one of them and none of the others (`OneWorks`).

* Quotes (`QuotesStayFresh`): what is cached was taken in the past (`QuotesTaken`), and what a
  request has read of it is still what its server has cached, for the server does nothing else
  until the provider answers (`RequestsHeld`); a quote is only ever replaced by a later one
  (`QuoteSteps`).
* Streams (`TakenBackStaysGone`): `TakenBackIsGone` needs beside it that no symbol is both
  subscribed and taken back (`StreamInv`), as a connection that was asleep sends what is
  subscribed when it wakes.
* Rates (`RatesStayBounded`). Of the queue (`QueueInv`): only the first of those in the queue
  for the lock is past it (`Locked`); whoever waits for an order has let the spacing since the
  last one pass (`Spaced`); the last order was taken when it is noted (`Apart`); and those taken
  and those waiting are numbered without a gap (`Numbered`). Of the limiter (`RateInv`): those
  admitted, with those that may still be before the counter is written anew (`StillAdmitted`),
  are no more than `Explained(m)` = `m * Limit + m * (m - 1) / 2`, `m` being the workers that do
  not hold a first count in their hands. A worker that writes its first count starts the counter
  anew and is one more of them, which explains a round of the limit and one request of each of
  the others (`OneMore`).
* Signals (`SignalsStayProtected`): an invariant of the bars alone, and arithmetic. `Gcd` is a
  recursive function over pairs; that it divides both and grows with a common factor is by
  `NumberInduction` (in `Induction`), and makes equal quotients equal fractions. Stop and target
  of a percentage lie on their sides of the price at one distance (`StopDistance`), and the size
  is a quotient rounded down, so what it risks is no more than what may be risked.
* Indicators (`SignalsStaySettled`): the two action properties of `SignalsSettle`, for bars of
  any number. A recursion over the bars is a base and a step (`Stepwise`); there is one for
  every type that the step stays in, and one over more bars begins as one over fewer when their
  steps agree (`StepwiseAgrees`), which makes `Ema` and `Averages` functions of the past alone
  (`EmaKept`, `AveragesKept`, `RsiKept`); windows and sums are the same parts of the same bars
  (`SmaKept`, `VwapKept`). So what a condition compares is steady (`Steady`, `BothSteady`): its
  earlier values stay, or there were too few and they are all the same, which cross nothing.
  What crossed was on the far side before; with its earlier values it is on the near side now.
  The exception of `Completes` is needed: there the values before are neither.
* Cash (`CashStaysAccounted`). Of the paper engine (`CashInv`): books stay balanced by whatever
  order fills, pending ones at a price nobody has looked at the balance for included
  (`Balanced`). Of the mock broker (`MockInv`): averages are fractions, so what balances is
  their numerators over one common denominator, which a purchase may replace by another; that
  sum is the portfolio's, whatever element it is summed from first. Of a back-test (`TestInv`):
  the capital is what the closed trades brought, less the commissions of all positions opened
  (`SettledBooks`); the peak is the greatest point of the curve and the drawdown the deepest
  fall (`Deepest`); a parsed strategy closes nothing before the last bar, and one that sells
  never holds a position (`ParsedOnce`).
* Figures (`FiguresStayTrue`, of `Figures`' specification): the invariant is only that the lists
  are of trades (`FiguresKnown`); what there is to prove is that two ways to compute a figure
  agree for any list. The drawdown is a recursion along the curve of which an invariant is kept
  (`DrawdownKnown`: after i values the peak is the greatest of them, the depth the greatest fall
  among them, the periods end at new peaks), so that it is the greatest fall in the end
  (`DrawdownIs`), its percentage no more than that of the risk figures (`PercentBelow`), and no run
  of one kind is longer than what is counted (`RunsAre`). Sorting lists the elements of a finite
  set in an order (`OrderExists`), and a list without repetition that is as long as the set has all
  of it (`OrderReaches`): no more than half are on either side of a median (`MedianHalves`), and
  the curve of the reports, which follows the entries, is the sum of what is before each trade
  (`OrderOfEntries`). Sums by kind are together the sum of those that have a kind
  (`SumByKind`), so days, months and years each divide the trades by the quotient of their dates
  (`WithinPeriod`: but for the last tick of a period; `PeriodSums`), and what the symbols and hours
  of the history count is all there is (`CountsAll`).

**Induction.** The library's induction theorems take an operator as a parameter. `Induction` states
them of sets instead: `SetInduction`, `NumberInduction` and `SequenceInduction` say that a set
that has the first thing and with each the next has them all, and are proved from the
well-foundedness of the strict subset ordering. `RecursionExists` and `RecursionAgrees` give from it
the function that a fold of the community modules chooses, whichever element it takes first;
the rest are the facts the other proofs need of `SumFunctionOnSet` (`SumAdd`, `SumChange`,
`SumNatural`, `SumPlus`, `SumTimes`) and of lists that are filtered (`KeepType`, `KeepAppend`,
`KeepTwice`).

Only model-checked: the liveness properties (out of the prover's reach: `EveryCallReturns`,
`HalfOpenEnds`, `HaltsEventually`, `StreamsAgain`), and `SentencesStandAlone`, a comparison of two
parses of words by regular expressions that TLC evaluates.

## 5. Findings

1. `executor_lost`: when the answer to a submission is lost, the except clause
   (`order_executor.py:242-246`) marks the order REJECTED and leaves it without a
   `broker_order_id`, although it is live at the broker. `sync_order_status`
   returns at once for it, and a retry of the key is answered from the cache with
   the REJECTED order. `docs/PRD.md:411`: "shall not lose orders during network
   failures (retry with idempotency)".
2. `executor_fills`: with both streams one fill is counted twice (468 sets the cumulative
   quantity, 499 adds to it): an order half filled shows FILLED.
   `wait_for_fill` (665): "Wait for order to be fully filled."
3. `risk_hard`: `approved=limit.action != RiskAction.ALERT`
   (`risk_manager.py:300`) approves what a REJECT_ORDER limit should stop.
   Line 56: "Hard limits cannot be bypassed"; the integration test
   `tests/integration/test_trading_workflows.py:268` asserts the rejection.
4. `rate_retry`: a counter that expires between `get` and `incr`
   (`core/rate_limiter.py:65` and `:164`) comes back without an expiry, counts to the limit and
   stays there. Line 87: "Rate limit exceeded. Try again later."; later is refused
   as well.
5. `executor_refused`: `cancel_order` does not look at the `bool` its broker answers
   (`order_executor.py:264`) and writes CANCELLED (269). `broker_integrations/base.py:210`
   declares it, and `zerodha.py:279-285` returns `False` for a refusal: the order lives on at
   the broker, and here it can be cancelled no more (259). Line 249: "Cancel an existing order."

Met on the way, and without a run of their own:

* `exit_all_positions` lists the open positions and then closes them one by one; its
  endpoint's docstring says "Close all open positions immediately"
  (`api/v1/endpoints/live_trading_endpoints.py:322`). A position opened meanwhile stays open; and
  as the closing order passes `product_type`, which no broker takes, none is closed.
* Conditions of back-tests, figures of analytics and reports: the longest winning
  streak is the longest streak of any kind (`backtesting/analytics.py:342`); without a
  win, or without a loss, `generate` raises; each drawdown period has the start of the
  first; a report's month loses its last fraction of a second.
* "EMA p crosses above EMA q" compares a value with itself (`strategy_engine/executor.py:378`)
  and is met at every bar above.
* While there are fewer bars than a period, `calculate_ema` gives the first close throughout
  (`strategy_engine/executor.py:123`), and with the bar that completes the period it gives other
  values for all of them. Signals are generated from 20 bars on, before MACD's 26: a crossing of
  MACD, of two averages or of price and average may be told of at the bar before and again at
  that bar (`Completes`).
* `PaperTradingService.stop_instance` says it closes all positions
  (`services/paper_trading_service.py:444`) and closes none.
* `_extract_position` (`strategy_engine/improved_parser.py:728`) makes a sale of a text that says
  "sell" anywhere and "buy" nowhere, also in "sell sl 2 %", of which line 863 says "Handle "SELL
  SL" as stoploss, NOT position change".
* A sentence that gives a ratio of risk and reward (`docs/strategy-builder.md:184`), as one that
  gives a stop, replaces the stated conditions to leave in what `parse_strategy` returns.
* A user without a row of preferences is told that e-mail and push are on
  (`api/v1/endpoints/notification_endpoints.py:146`), and nothing is sent to him
  (`services/notification_service.py:72`).
* A quote from the cache may be past its time to live when the answer goes out, by as long as
  the providers of the other symbols take (`api/v1/endpoints/market_endpoints.py:111`).
* An instance that was stopped "permanently" (`services/strategy_instance_service.py:144`) can be
  started again.
* A reset password neither ends sessions nor lifts a lock, and a reset in flight with an earlier
  token still sets its password.

## 6. Not modelled

* **Execution engine** (`trading_engine/execution/engine.py`): data classes put fields
  without a default after fields with one; the module cannot be imported, and
  nothing imports it. There is no behaviour to be faithful to.
* **Celery tasks, trade reconciliation**: `worker/celery.py` includes
  `worker.tasks.trading`, which imports a module that does not exist, so the worker
  never starts; `services/trade_reconciliation.py` cannot be imported.
  `cleanup_expired_sessions` is modelled in `Accounts`, as any process may call it.
* **WebSocket endpoint**: it imports a name that does not exist before it accepts, and nobody
  broadcasts.
* **Broker adapters**: HTTP clients. Three of four leave abstract methods open and
  cannot be instantiated. What a broker may answer is the environment of `OrderExecutor`
  and `InstanceDesk`.
* **Live trading, in part**: `execute_bracket_order` and `check_trailing_stoploss` have no
  callers; `_execute_live_trade` fails at its entry order, so the stop and target legs
  behind it never run; `start_live_trading` reads an attribute that does not exist;
  `sync_positions` and `update_position` write prices only.
* **Strategy versions, parameters, logs**: the endpoints raise at every call.
* **Accounts, in part**: `AuthService.logout`, `refresh_access_token`, `change_password` and
  its own password reset have no endpoint; `AuthRateLimiter` has no user.
* **Market data, in part**: the cache's Redis mode, cleaner and subscribers are never used.
* **Older parser, strategies and indicators, margin calculator, report generator**: nothing in
  the running system imports them; formulas and text.
* **Exports, metrics, options**: formatting, counters for monitoring, closed formulas.
* **Sandbox**: user code in a subprocess.
* **Front end, configuration, logging, cryptography, deployment**: no protocol of their own.
* In every module: prices where no property needs them, names, texts, read-only
  endpoints; ratios with square roots and percentiles.

## 7. Plan

Done: the executor with its promise and the refinement, breaker and risk manager, all
desks and services; the proofs of the core, of every property of the desks and of the
services' and figures' but what only TLC can check. Left:

1. Executor and risk manager composed, with the strategy that `place_order` does not pass to
   `check_order_risk`.
