---- MODULE OrderExecutor ----
(***************************************************************************)
(* OrderExecutor of backend/trading_engine/execution/order_executor.py:    *)
(* asyncio coroutines that place, cancel, modify and synchronise orders    *)
(* against a broker reached over a network, and the handlers of the        *)
(* messages the broker sends back.  A coroutine runs alone until it awaits *)
(* something that suspends; one action is what runs between two such       *)
(* awaits.  The broker and its network are external: a call may fail, be   *)
(* obeyed, or be obeyed and its answer lost, and a cancellation may be     *)
(* refused, of which broker_integrations/base.py tells by a bool.          *)
(***************************************************************************)
EXTENDS Naturals, FiniteSets

CONSTANTS
    Tasks,        \* the coroutines that call the executor
    OpsOf,        \* task -> the methods it calls
    Requests,     \* OrderRequest objects, each with an id of its own (uuid4)
    Keys,         \* client_order_id values
    KeyOf,        \* request -> its client_order_id, or None
    QtyOf,        \* request -> its quantity; 0 is any request that is not valid
    Streams,      \* the kinds of broker message the deployment subscribes to
    FilledWords,  \* the words this broker uses for an order filled in full
    NewQtys,      \* the new_quantity arguments of modify_order; 0: not given
    MaxQty,       \* bound on the quantity of an order
    RiskSuspends, \* does the check of risk_service suspend?  RiskManager's does not
    None

ASSUME ConstantsOK ==
    /\ OpsOf \in [Tasks -> SUBSET {"place", "cancel", "modify", "sync"}]
    /\ KeyOf \in [Requests -> Keys \cup {None}]
    /\ MaxQty \in Nat
    /\ RiskSuspends \in BOOLEAN
    /\ NewQtys \subseteq 0 .. MaxQty
    /\ QtyOf \in [Requests -> 0 .. MaxQty]
    /\ Streams \subseteq {"order_update", "trade"}
    /\ FilledWords \subseteq {"filled", "completed", "complete"}
    /\ None \notin Tasks \cup Keys \cup Requests

VARIABLES
    orders,            \* _orders: request id -> OrderResponse
    idempotencyCache,  \* _idempotency_cache: client_order_id -> the order cached
    locks,             \* _order_locks: request id -> the task inside
    pc,                \* the await each task is suspended at
    call,              \* the arguments of the call a task is in
    reply,             \* the answer waiting for a suspended task
    book,              \* the broker's own record of each request (external)
    msgs,              \* broker messages in flight (external)
    refused            \* history: requests of which a cancellation was refused

vars == <<orders, idempotencyCache, locks, pc, call, reply, book, msgs, refused>>

OrderStatus == {"PENDING", "SUBMITTED", "PARTIALLY_FILLED", "FILLED",
                "CANCELLED", "REJECTED", "EXPIRED"}

\* The words brokers use.  "complete", the mock broker's word, is one that
\* _map_broker_status does not know.
LiveWords == {"open", "partially_filled"}
DeadWords == {"cancelled", "rejected", "expired"}
BrokerWords == LiveWords \cup {"filled", "completed", "complete"} \cup DeadWords

\* status ABSENT: the id is no key of _orders.  known: broker_order_id is set.
\* trigger: the object has the attribute trigger_price.
Order == [status : OrderStatus \cup {"ABSENT"}, known : BOOLEAN,
          quantity : Nat, filled : Nat, trigger : BOOLEAN]
Call  == [op : {"none", "place", "cancel", "modify", "sync"},
          req : Requests \cup {None}, mine : BOOLEAN, quantity : Nat,
          trigger : BOOLEAN]
Reply == [word : BrokerWords \cup {"none", "ok", "error", "refused"}, filled : Nat]
Entry == [word : BrokerWords \cup {"absent"}, quantity : Nat, filled : Nat,
          by : Tasks \cup {None}]
Message == [kind : {"order_update", "trade"}, req : Requests,
            word : BrokerWords, filled : Nat]

NoOrder == [status |-> "ABSENT", known |-> FALSE, quantity |-> 0, filled |-> 0,
            trigger |-> FALSE]
NoCall  == [op |-> "none", req |-> None, mine |-> FALSE, quantity |-> 0,
            trigger |-> FALSE]
NoReply == [word |-> "none", filled |-> 0]
NoEntry == [word |-> "absent", quantity |-> 0, filled |-> 0, by |-> None]

Init ==
    /\ orders = [r \in Requests |-> NoOrder]
    /\ idempotencyCache = [k \in Keys |-> None]
    /\ locks = [r \in Requests |-> None]
    /\ pc = [t \in Tasks |-> "idle"]
    /\ call = [t \in Tasks |-> NoCall]
    /\ reply = [t \in Tasks |-> NoReply]
    /\ book = [r \in Requests |-> NoEntry]
    /\ msgs = {}
    /\ refused = {}

-----------------------------------------------------------------------------
(* Conversions and the per-order lock.                                      *)

\* Mutant: an unknown word is kept as it came.
RawBrokerStatus(w) ==
    CASE w = "open" -> "SUBMITTED"
      [] w \in {"filled", "completed"} -> "FILLED"
      [] w = "cancelled" -> "CANCELLED"
      [] OTHER -> w

\* A word the table does not have becomes PENDING.
MapBrokerStatus(w) ==
    CASE w = "open" -> "SUBMITTED"
      [] w = "partially_filled" -> "PARTIALLY_FILLED"
      [] w \in {"filled", "completed"} -> "FILLED"
      [] w = "cancelled" -> "CANCELLED"
      [] w = "rejected" -> "REJECTED"
      [] w = "expired" -> "EXPIRED"
      [] OTHER -> "PENDING"

Stored(r) == orders[r].status # "ABSENT"

\* What cancel_order and modify_order check first; failing it they raise.
MayChange(c) ==
    /\ Stored(c.req)
    /\ c.mine
    /\ orders[c.req].status \notin {"FILLED", "CANCELLED"}

\* The checks a coroutine makes between taking the lock and its first await.
\* modify_order reads order.trigger_price, an attribute OrderResponse does not
\* declare, unless a new trigger price is given.
MayProceed(c) ==
    CASE c.op = "place"  -> QtyOf[c.req] > 0
      [] c.op = "cancel" -> MayChange(c)
      [] c.op = "modify" -> MayChange(c) /\ (c.trigger \/ orders[c.req].trigger)

FirstAwait(op) == IF op = "place" THEN "risk" ELSE op

\* The lock of c.req is free: take it and run to the first await, or answer
\* (a validation error, an exception) and let it go again.
Enter(t, c) ==
    IF MayProceed(c)
    THEN /\ locks' = [locks EXCEPT ![c.req] = t]
         /\ pc' = [pc EXCEPT ![t] = FirstAwait(c.op)]
         /\ call' = [call EXCEPT ![t] = c]
    ELSE /\ pc' = [pc EXCEPT ![t] = "idle"]
         /\ call' = [call EXCEPT ![t] = NoCall]
         /\ UNCHANGED locks

\* Mutant: no "async with".
AcquireNoLock(t, c) == Enter(t, c)

\* "async with self._get_order_lock(id)": an uncontended lock does not suspend.
AcquireLock(t, c) ==
    IF locks[c.req] = None
    THEN Enter(t, c)
    ELSE /\ pc' = [pc EXCEPT ![t] = "wait"]
         /\ call' = [call EXCEPT ![t] = c]
         /\ UNCHANGED locks

\* The lock of a waiting task has come free (asyncio wakes waiters in order;
\* here in any order).
Wake(t) ==
    /\ pc[t] = "wait"
    /\ locks[call[t].req] = None
    /\ Enter(t, call[t])
    /\ UNCHANGED <<orders, idempotencyCache, reply, book, msgs>>

\* Mutant: the lock is acquired and released by hand, not on this path.
ReturnLocked(t) ==
    /\ pc' = [pc EXCEPT ![t] = "idle"]
    /\ call' = [call EXCEPT ![t] = NoCall]
    /\ reply' = [reply EXCEPT ![t] = NoReply]
    /\ UNCHANGED locks

\* The call of t returns or raises; leaving the block releases the lock.
Return(t) ==
    /\ pc' = [pc EXCEPT ![t] = "idle"]
    /\ call' = [call EXCEPT ![t] = NoCall]
    /\ reply' = [reply EXCEPT ![t] = NoReply]
    /\ locks' = [locks EXCEPT ![call[t].req] = None]

Goto(t, label) ==
    /\ pc' = [pc EXCEPT ![t] = label]
    /\ reply' = [reply EXCEPT ![t] = NoReply]
    /\ UNCHANGED <<call, locks>>

-----------------------------------------------------------------------------
(* place_order                                                              *)

Cached(r) == KeyOf[r] # None /\ idempotencyCache[KeyOf[r]] # None

\* The idempotency key is looked up before the lock is taken; a hit returns the
\* cached order.  A request object is submitted again only while it has not
\* been stored (its call raised, or it was refused) and no call has it.
PlaceOrder(t, r) ==
    /\ "place" \in OpsOf[t]
    /\ pc[t] = "idle"
    /\ ~Stored(r)
    /\ \A u \in Tasks : call[u].op = "place" => call[u].req # r
    /\ IF Cached(r)
       THEN UNCHANGED <<locks, pc, call>>
       ELSE AcquireLock(t, [NoCall EXCEPT !.op = "place", !.req = r])
    /\ UNCHANGED <<orders, idempotencyCache, reply, book, msgs>>

\* Mutant: the refusal is cached as the answer to the key.
RefusalCached(t) ==
    LET r == call[t].req IN
    /\ pc[t] = "risk"
    /\ idempotencyCache' = IF KeyOf[r] = None THEN idempotencyCache
                           ELSE [idempotencyCache EXCEPT ![KeyOf[r]] = r]
    /\ Return(t)
    /\ UNCHANGED <<orders, book, msgs>>

\* check_order_risk raised or did not approve: nothing is stored.
RiskRefused(t) ==
    /\ pc[t] = "risk"
    /\ Return(t)
    /\ UNCHANGED <<orders, idempotencyCache, book, msgs>>

\* Mutant: the order is stored only when the broker has answered.
ApprovedUnstored(t) ==
    /\ pc[t] = "risk"
    /\ Goto(t, "submit")
    /\ UNCHANGED <<orders, idempotencyCache, book, msgs>>

\* Mutant: the order is stored but its key is not cached.
ApprovedUncached(t) ==
    LET r == call[t].req IN
    /\ pc[t] = "risk"
    /\ orders' = [orders EXCEPT ![r] =
                    [NoOrder EXCEPT !.status = "PENDING", !.quantity = QtyOf[r]]]
    /\ Goto(t, "submit")
    /\ UNCHANGED <<idempotencyCache, book, msgs>>

\* Approved: the pending order is stored and cached, then submitted.
RiskApproved(t) ==
    LET r == call[t].req IN
    /\ pc[t] = "risk"
    /\ orders' = [orders EXCEPT ![r] =
                    [NoOrder EXCEPT !.status = "PENDING", !.quantity = QtyOf[r]]]
    /\ idempotencyCache' = IF KeyOf[r] = None THEN idempotencyCache
                           ELSE [idempotencyCache EXCEPT ![KeyOf[r]] = r]
    /\ Goto(t, "submit")
    /\ UNCHANGED <<book, msgs>>

\* The broker's answer has come: SUBMITTED whatever the handlers of broker
\* messages have written meanwhile; then the event is published.
PlaceSubmitted(t) ==
    /\ pc[t] = "submit"
    /\ reply[t].word = "ok"
    /\ orders' = [orders EXCEPT ![call[t].req].known = TRUE,
                                ![call[t].req].status = "SUBMITTED"]
    /\ Goto(t, "publish")
    /\ UNCHANGED <<idempotencyCache, book, msgs>>

\* One except clause for a failing submission and a failing publication.
PlaceFailed(t) ==
    /\ \/ pc[t] = "submit" /\ reply[t].word = "error"
       \/ pc[t] = "publish"
    /\ orders' = [orders EXCEPT ![call[t].req].status = "REJECTED"]
    /\ Return(t)
    /\ UNCHANGED <<idempotencyCache, book, msgs>>

\* The event is out (or, after a cancel or modify, failed, which only sets
\* error_message).
Published(t) ==
    /\ pc[t] \in {"publish", "published"}
    /\ Return(t)
    /\ UNCHANGED <<orders, idempotencyCache, book, msgs>>

-----------------------------------------------------------------------------
(* cancel_order, modify_order and sync_order_status                         *)

CancelOrder(t, r, mine) ==
    /\ "cancel" \in OpsOf[t]
    /\ pc[t] = "idle"
    /\ AcquireLock(t, [NoCall EXCEPT !.op = "cancel", !.req = r, !.mine = mine])
    /\ UNCHANGED <<orders, idempotencyCache, reply, book, msgs>>

\* The bool of the answer is not looked at: also a cancellation that the broker refused
\* makes the order CANCELLED.
CancelAnswered(t) ==
    /\ pc[t] = "cancel"
    /\ reply[t].word \in {"ok", "refused"}
    /\ orders' = [orders EXCEPT ![call[t].req].status = "CANCELLED"]
    /\ Goto(t, "published")
    /\ UNCHANGED <<idempotencyCache, book, msgs>>

\* new_quantity 0 stands for "not given": the code tests its truth.
ModifyOrder(t, r, mine, newQuantity, newTrigger) ==
    /\ "modify" \in OpsOf[t]
    /\ pc[t] = "idle"
    /\ AcquireLock(t, [op |-> "modify", req |-> r, mine |-> mine,
                       quantity |-> newQuantity, trigger |-> newTrigger])
    /\ UNCHANGED <<orders, idempotencyCache, reply, book, msgs>>

ModifyConfirmed(t) ==
    LET c == call[t] IN
    /\ pc[t] = "modify"
    /\ reply[t].word = "ok"
    /\ orders' = [orders EXCEPT
                    ![c.req].quantity = IF c.quantity # 0 THEN c.quantity ELSE @,
                    ![c.req].trigger = c.trigger \/ @]
    /\ Goto(t, "published")
    /\ UNCHANGED <<idempotencyCache, book, msgs>>

\* Mutant: an order whose cancellation failed is CANCELLED too.
CancelledAnyway(t) ==
    /\ pc[t] \in {"cancel", "modify"}
    /\ reply[t].word = "error"
    /\ orders' = IF pc[t] = "cancel"
                 THEN [orders EXCEPT ![call[t].req].status = "CANCELLED"] ELSE orders
    /\ Return(t)
    /\ UNCHANGED <<idempotencyCache, book, msgs>>

\* A broker error in a cancel or a modify only sets error_message.
ChangeFailed(t) ==
    /\ pc[t] \in {"cancel", "modify"}
    /\ reply[t].word = "error"
    /\ Return(t)
    /\ UNCHANGED <<orders, idempotencyCache, book, msgs>>

\* sync_order_status takes no lock; without a broker_order_id it returns.
SyncOrderStatus(t, r) ==
    /\ "sync" \in OpsOf[t]
    /\ pc[t] = "idle"
    /\ Stored(r) /\ orders[r].known
    /\ pc' = [pc EXCEPT ![t] = "sync"]
    /\ call' = [call EXCEPT ![t] = [NoCall EXCEPT !.op = "sync", !.req = r]]
    /\ UNCHANGED <<orders, idempotencyCache, locks, reply, book, msgs>>

\* The broker's answer overwrites the order as it is now.
SyncAnswered(t) ==
    /\ pc[t] = "sync"
    /\ reply[t].word # "none"
    /\ orders' = IF reply[t].word = "error" THEN orders
                 ELSE [orders EXCEPT
                         ![call[t].req].status = MapBrokerStatus(reply[t].word),
                         ![call[t].req].filled = reply[t].filled]
    /\ pc' = [pc EXCEPT ![t] = "idle"]
    /\ call' = [call EXCEPT ![t] = NoCall]
    /\ reply' = [reply EXCEPT ![t] = NoReply]
    /\ UNCHANGED <<idempotencyCache, locks, book, msgs>>

-----------------------------------------------------------------------------
(* _handle_order_event: broker messages, handled without the lock.          *)

\* Mutant: the cumulative quantity of the message is added.
UpdateAdds(m) ==
    /\ m \in msgs
    /\ m.kind = "order_update"
    /\ orders' = IF ~orders[m.req].known THEN orders
                 ELSE [orders EXCEPT ![m.req].status = MapBrokerStatus(m.word),
                                     ![m.req].filled = @ + m.filled]
    /\ msgs' = msgs \ {m}
    /\ UNCHANGED <<idempotencyCache, locks, pc, call, reply, book>>

\* The order is found by broker_order_id, so a message that overtakes the
\* answer to place_order finds none and is dropped.
HandleOrderUpdate(m) ==
    /\ m \in msgs
    /\ m.kind = "order_update"
    /\ orders' = IF ~orders[m.req].known THEN orders
                 ELSE [orders EXCEPT ![m.req].status = MapBrokerStatus(m.word),
                                     ![m.req].filled = m.filled]
    /\ msgs' = msgs \ {m}
    /\ UNCHANGED <<idempotencyCache, locks, pc, call, reply, book>>

\* A trade of one unit: found by order id, added to filled_quantity.
HandleTradeEvent(m) ==
    /\ m \in msgs
    /\ m.kind = "trade"
    /\ LET f == orders[m.req].filled + 1 IN
       orders' = IF ~Stored(m.req) THEN orders
                 ELSE [orders EXCEPT ![m.req].filled = f,
                         ![m.req].status = IF f >= orders[m.req].quantity
                                           THEN "FILLED" ELSE @]
    /\ msgs' = msgs \ {m}
    /\ UNCHANGED <<idempotencyCache, locks, pc, call, reply, book>>

-----------------------------------------------------------------------------
(* The broker (external): broker_service and the publisher of "orders".     *)

Live(r) == book[r].word \in LiveWords

Answer(t, word, n) == reply' = [reply EXCEPT ![t] = [word |-> word, filled |-> n]]

Notices(r, e, kinds) ==
    {[kind |-> k, req |-> r, word |-> e.word, filled |-> e.filled] :
        k \in kinds \cap Streams}

\* A call reaches the broker.  It is obeyed if the broker can, and the answer
\* may be lost; or it is refused with an exception, or never arrives.
BrokerObeys(t) ==
    LET r == call[t].req
        e == book[r] IN
    /\ reply[t] = NoReply
    /\ \/ /\ pc[t] = "submit"
          /\ book' = [book EXCEPT ![r] = [word |-> "open", quantity |-> QtyOf[r],
                                          filled |-> 0, by |-> t]]
       \/ /\ pc[t] = "cancel"
          /\ orders[r].known /\ Live(r)
          /\ book' = [book EXCEPT ![r].word = "cancelled"]
       \/ /\ pc[t] = "modify"
          /\ orders[r].known /\ Live(r)
          /\ LET q == IF call[t].quantity # 0 THEN call[t].quantity
                      ELSE orders[r].quantity
             IN  q > e.filled /\ book' = [book EXCEPT ![r].quantity = q]
    /\ \E word \in {"ok", "error"} : Answer(t, word, 0)
    /\ UNCHANGED <<orders, idempotencyCache, locks, pc, call, msgs>>

BrokerRefuses(t) ==
    /\ reply[t] = NoReply
    /\ pc[t] \in {"submit", "cancel", "modify", "sync"}
    /\ Answer(t, "error", 0)
    /\ UNCHANGED <<orders, idempotencyCache, locks, pc, call, book, msgs>>

\* A cancellation the broker refuses, of an order it does not know or that has come to its
\* end for instance, is answered with False and no exception.
BrokerDeclines(t) ==
    /\ reply[t] = NoReply
    /\ pc[t] = "cancel"
    /\ Answer(t, "refused", 0)
    /\ refused' = refused \cup {call[t].req}
    /\ UNCHANGED <<orders, idempotencyCache, locks, pc, call, book, msgs>>

BrokerReports(t) ==
    /\ reply[t] = NoReply
    /\ pc[t] = "sync"
    /\ Answer(t, book[call[t].req].word, book[call[t].req].filled)
    /\ UNCHANGED <<orders, idempotencyCache, locks, pc, call, book, msgs>>

\* One unit is traded; the subscribed streams carry the news.
BrokerFills(r) ==
    LET n == book[r].filled + 1 IN
    /\ Live(r)
    /\ \E word \in IF n >= book[r].quantity THEN FilledWords
                   ELSE {"partially_filled"} :
         LET e == [book[r] EXCEPT !.word = word, !.filled = n] IN
         /\ book' = [book EXCEPT ![r] = e]
         /\ msgs' = msgs \cup Notices(r, e, {"order_update", "trade"})
    /\ UNCHANGED <<orders, idempotencyCache, locks, pc, call, reply>>

\* The exchange expires, rejects or cancels a live order.
BrokerCloses(r) ==
    /\ Live(r)
    /\ \E word \in DeadWords :
         LET e == [book[r] EXCEPT !.word = word] IN
         /\ book' = [book EXCEPT ![r] = e]
         /\ msgs' = msgs \cup Notices(r, e, {"order_update"})
    /\ UNCHANGED <<orders, idempotencyCache, locks, pc, call, reply>>

-----------------------------------------------------------------------------
\* The event loop is free to run t: a check that does not suspend is done, and
\* its coroutine is at its next await, before any other coroutine runs.
Free(t) == RiskSuspends \/ \A u \in Tasks \ {t} : pc[u] # "risk"

\* What a suspended task does next, and what the broker answers it.
Step(t) ==
    \/ Wake(t)
    \/ RiskRefused(t)
    \/ RiskApproved(t)
    \/ PlaceSubmitted(t)
    \/ PlaceFailed(t)
    \/ Published(t)
    \/ CancelAnswered(t)
    \/ ModifyConfirmed(t)
    \/ ChangeFailed(t)
    \/ SyncAnswered(t)

BrokerAnswers(t) ==
    \/ (BrokerObeys(t) \/ BrokerRefuses(t) \/ BrokerReports(t)) /\ UNCHANGED refused
    \/ BrokerDeclines(t)

NewCall(t) ==
    \E r \in Requests :
       \/ PlaceOrder(t, r)
       \/ SyncOrderStatus(t, r)
       \/ \E mine \in BOOLEAN :
             \/ CancelOrder(t, r, mine)
             \/ \E q \in NewQtys, trigger \in BOOLEAN :
                   ModifyOrder(t, r, mine, q, trigger)

BrokerMoves(r) == BrokerFills(r) \/ BrokerCloses(r)
Deliver == \E m \in msgs : HandleOrderUpdate(m) \/ HandleTradeEvent(m)

Next ==
    \/ \E t \in Tasks :
          \/ Free(t) /\ NewCall(t) /\ UNCHANGED refused
          \/ Free(t) /\ Step(t) /\ UNCHANGED refused
          \/ BrokerAnswers(t)
    \/ \E r \in Requests : BrokerMoves(r) /\ UNCHANGED refused
    \/ Free(None) /\ Deliver /\ UNCHANGED refused

Spec == Init /\ [][Next]_vars

\* The event loop runs every coroutine that can run, in order, as asyncio hands a
\* lock to its waiters; and a broker call ends (an answer or a time-out).
Fairness ==
    \A t \in Tasks : /\ SF_vars(Free(t) /\ Step(t) /\ UNCHANGED refused)
                      /\ WF_vars(BrokerAnswers(t))

FairSpec == Spec /\ Fairness

-----------------------------------------------------------------------------
(* What the executor promises.                                              *)

\* Every variable keeps its shape (OrderResponse, the caches, the frames).
TypeOK ==
    /\ orders \in [Requests -> Order]
    /\ idempotencyCache \in [Keys -> Requests \cup {None}]
    /\ locks \in [Requests -> Tasks \cup {None}]
    /\ pc \in [Tasks -> {"idle", "wait", "risk", "submit", "publish", "cancel",
                         "modify", "published", "sync"}]
    /\ call \in [Tasks -> Call]
    /\ reply \in [Tasks -> Reply]
    /\ book \in [Requests -> Entry]
    /\ msgs \subseteq Message
    /\ refused \subseteq Requests

Inside(t) == pc[t] \in {"risk", "submit", "publish", "cancel", "modify", "published"}

\* A coroutine inside place, cancel or modify holds the lock of its order, and a
\* held lock has its coroutine inside: no two changes of one order overlap,
\* and no early return, exception or failed broker call leaks a lock.
LockDiscipline ==
    /\ \A t \in Tasks : Inside(t) => locks[call[t].req] = t
    /\ \A r \in Requests : locks[r] # None =>
           Inside(locks[r]) /\ call[locks[r]].req = r

\* Whatever has reached the broker has an entry in _orders, which place_order
\* writes before it submits: no failure makes the executor forget a request.
NothingUnrecorded ==
    \A r \in Requests : book[r].word # "absent" => Stored(r)

\* The cache leads from a client_order_id to a stored order of that key.
CacheNamesOrder ==
    \A k \in Keys : idempotencyCache[k] # None =>
        Stored(idempotencyCache[k]) /\ KeyOf[idempotencyCache[k]] = k

SameKey(r, s) == KeyOf[r] # None /\ KeyOf[r] = KeyOf[s]

\* One order per client_order_id reaches the broker, whoever retries it and whatever
\* answers are lost.  place_order looks the key up before it locks, and the
\* lock is of the request, not of the key: what keeps concurrent callers apart
\* is only that RiskManager's check does not suspend.
AtMostOncePerKey ==
    ~RiskSuspends =>
        \A r, s \in Requests :
            r # s /\ SameKey(r, s) => book[r].by = None \/ book[s].by = None

\* With a check that suspends, one caller still never gets two orders of one
\* client_order_id to the broker, however often it retries.
OncePerCaller ==
    \A r, s \in Requests :
        r # s /\ SameKey(r, s) /\ book[r].by # None => book[r].by # book[s].by

\* An order shown CANCELLED or EXPIRED is so at the broker, through every race of
\* cancel_order, the unlocked sync_order_status and late messages: the one thing that shows
\* an order CANCELLED that is not is a cancellation of it that the broker refused.
ClosedIsClosed ==
    \A r \in Requests :
        /\ orders[r].status = "CANCELLED" => book[r].word = "cancelled" \/ r \in refused
        /\ orders[r].status = "EXPIRED" => book[r].word = "expired"

\* Without the trade stream the local filled_quantity never runs ahead of the
\* broker's, and FILLED is true: late and reordered snapshots only understate.
FillsNotOverstated ==
    "trade" \notin Streams =>
        \A r \in Requests :
            /\ orders[r].filled <= book[r].filled
            /\ orders[r].status = "FILLED" => book[r].word \in {"filled", "completed"}

\* Every call returns: no lock is waited for for ever, whatever fails.
EveryCallReturns ==
    \A t \in Tasks : pc[t] # "idle" ~> pc[t] = "idle"

-----------------------------------------------------------------------------
(* The executor implements OrderPromise.                                    *)

\* Where r is: the broker's record of it, or whether it is stored.
StageOf(r) ==
    CASE book[r].word = "absent" -> IF Stored(r) THEN "recorded" ELSE "unseen"
      [] book[r].word \in LiveWords -> "live"
      [] book[r].word \in DeadWords -> book[r].word
      [] OTHER -> "filled"

\* What a reader of r is told.  FILLED is no promise where a fill may be counted
\* by both streams, nor is CANCELLED after the broker refused to cancel the order.
ShownOf(r) ==
    CASE orders[r].status = "ABSENT" -> "nothing"
      [] orders[r].status = "CANCELLED" /\ r \notin refused -> "cancelled"
      [] orders[r].status = "EXPIRED" -> "expired"
      [] orders[r].status = "FILLED" /\ "trade" \notin Streams -> "filled"
      [] OTHER -> "working"

Promise == INSTANCE OrderPromise WITH
    Orders <- Requests,
    KeyOf <- [r \in Requests |-> IF RiskSuspends THEN None ELSE KeyOf[r]],
    stage <- [r \in Requests |-> StageOf(r)],
    shown <- [r \in Requests |-> ShownOf(r)]

\* Every step of coroutines, broker and messages is a step of OrderPromise, or
\* none: recorded before it is sent, one order of a key, one end of an order,
\* and no end shown that the order has not come to (a refused cancellation apart).
KeepsPromise == Promise!Spec

-----------------------------------------------------------------------------
(* What the documents say of it and the code does not do.                   *)

\* "shall not lose orders during network failures": an order live at the broker
\* that no call is placing has its broker_order_id here, without which it can
\* be neither synchronised nor cancelled.
NoOrderLost ==
    \A r \in Requests :
        Live(r) => orders[r].known \/ \E t \in Tasks : call[t].op = "place" /\ call[t].req = r

\* cancel_order "Cancel an existing order." and tells "Order cancelled": an order it shows as
\* CANCELLED is not still traded at the broker.
CancelledIsOver ==
    \A r \in Requests : orders[r].status = "CANCELLED" => ~Live(r)

\* "Wait for order to be fully filled": FILLED is what wait_for_fill reports.
FilledMeansFilled ==
    \A r \in Requests :
        orders[r].status = "FILLED" => book[r].word \in FilledWords
====
