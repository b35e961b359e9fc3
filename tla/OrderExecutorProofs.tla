---- MODULE OrderExecutorProofs ----
(***************************************************************************)
(* Proofs about OrderExecutor, for any set of tasks, requests and keys, any*)
(* subscription and any broker vocabulary that ConstantsOK allows.         *)
(***************************************************************************)
EXTENDS OrderExecutor, TLAPS

Labels == {"idle", "wait", "risk", "submit", "publish", "cancel", "modify",
           "published", "sync"}

-----------------------------------------------------------------------------
(* Types.  sync_order_status asks about orders the broker knows, so what it *)
(* is told is a broker's word: the types rest on how frames and orders are  *)
(* related.                                                                 *)

\* A suspended task is at an await of the method it called.
LabelsFit ==
    \A t \in Tasks :
        /\ pc[t] # "idle" => call[t].req \in Requests
        /\ pc[t] = "idle" => call[t] = NoCall
        /\ pc[t] = "wait" => call[t].op \in {"place", "cancel", "modify"}
        /\ pc[t] \in {"risk", "submit", "publish"} => call[t].op = "place"
        /\ pc[t] \in {"cancel", "modify", "sync"} => call[t].op = pc[t]
        /\ pc[t] = "published" => call[t].op \in {"cancel", "modify"}
        /\ pc[t] \in {"idle", "wait", "risk", "publish", "published"} => reply[t] = NoReply

\* place_order stores its request once, before it submits it, and no other call
\* has the same request.
PlacesFit ==
    /\ \A t, u \in Tasks :
          call[t].op = "place" /\ call[u].op = "place" /\ call[t].req = call[u].req => t = u
    /\ \A t \in Tasks : call[t].op = "place" =>
          /\ pc[t] \in {"wait", "risk"} => ~Stored(call[t].req)
          /\ pc[t] \in {"submit", "publish"} => Stored(call[t].req)
          /\ pc[t] = "submit" /\ reply[t] = NoReply => book[call[t].req] = NoEntry
          /\ pc[t] = "submit" /\ reply[t].word = "ok" =>
                book[call[t].req].word # "absent"

\* Only stored orders are at the broker, and only those have a broker_order_id.
OrdersFit ==
    /\ \A r \in Requests :
          /\ book[r].word # "absent" => Stored(r)
          /\ book[r].word = "absent" => book[r] = NoEntry
          /\ orders[r].known => book[r].word # "absent"
    /\ \A t \in Tasks :
          /\ pc[t] = "sync" => orders[call[t].req].known
          /\ pc[t] \in {"cancel", "modify"} => Stored(call[t].req)

\* What TypeOK says of all but the history.
Shapes ==
    /\ orders \in [Requests -> Order]
    /\ idempotencyCache \in [Keys -> Requests \cup {None}]
    /\ locks \in [Requests -> Tasks \cup {None}]
    /\ pc \in [Tasks -> Labels]
    /\ call \in [Tasks -> Call]
    /\ reply \in [Tasks -> Reply]
    /\ book \in [Requests -> Entry]
    /\ msgs \subseteq Message

IInv == Shapes /\ LabelsFit /\ PlacesFit /\ OrdersFit

\* The empty records have their types, and a mapped status is a status.
LEMMA Records ==
    /\ NoOrder \in Order
    /\ NoCall \in Call
    /\ NoReply \in Reply
    /\ NoEntry \in Entry
    /\ \A w : MapBrokerStatus(w) \in OrderStatus
BY DEF NoOrder, Order, NoCall, Call, NoReply, Reply, NoEntry, Entry,
       MapBrokerStatus, OrderStatus

\* The invariant holds at first.
LEMMA IInit == Init => IInv
<1> SUFFICES ASSUME Init PROVE IInv
  OBVIOUS
<1>1. Shapes
  BY Records DEF Init, Shapes, Labels
<1>2. LabelsFit /\ PlacesFit /\ OrdersFit
  BY DEF Init, LabelsFit, PlacesFit, OrdersFit, NoCall, NoEntry, NoOrder, Stored
<1>3. QED
  BY <1>1, <1>2 DEF IInv

-----------------------------------------------------------------------------
(* One lemma per shape of step.                                             *)

\* A task that asks for a lock waits, enters, or has returned already.
LEMMA AcquireEffect ==
    ASSUME IInv, NEW t \in Tasks, NEW c \in Call,
           c.req \in Requests, c.op \in {"place", "cancel", "modify"},
           AcquireLock(t, c) \/ (locks[c.req] = None /\ Enter(t, c))
    PROVE  \/ /\ pc' = [pc EXCEPT ![t] = "wait"]
              /\ call' = [call EXCEPT ![t] = c]
              /\ locks' = locks
           \/ /\ pc' = [pc EXCEPT ![t] = FirstAwait(c.op)]
              /\ call' = [call EXCEPT ![t] = c]
              /\ locks[c.req] = None
              /\ locks' = [locks EXCEPT ![c.req] = t]
              /\ c.op # "place" => Stored(c.req)
           \/ /\ pc' = [pc EXCEPT ![t] = "idle"]
              /\ call' = [call EXCEPT ![t] = NoCall]
              /\ locks' = locks
BY DEF AcquireLock, Enter, MayProceed, MayChange

\* OrdersFit survives a step that forgets no order and no broker_order_id and
\* leaves alone the frames it speaks of.
LEMMA FitKept ==
    ASSUME IInv,
           \A r \in Requests :
              /\ Stored(r) => Stored(r)'
              /\ orders[r].known => orders'[r].known
              /\ orders'[r].known => book'[r].word # "absent"
              /\ book'[r].word # "absent" => Stored(r)'
              /\ book'[r].word = "absent" => book'[r] = NoEntry,
           \A u \in Tasks : pc'[u] \in {"sync", "cancel", "modify"} =>
              pc'[u] = pc[u] /\ call'[u] = call[u]
    PROVE  OrdersFit'
<1>1. ASSUME NEW u \in Tasks, pc'[u] \in {"sync", "cancel", "modify"}
      PROVE  pc'[u] = pc[u] /\ call'[u] = call[u] /\ call[u].req \in Requests
  BY <1>1 DEF IInv, LabelsFit
<1>2. \A u \in Tasks : pc'[u] = "sync" => orders'[call'[u].req].known
  BY <1>1 DEF IInv, OrdersFit
<1>3. ASSUME NEW u \in Tasks, pc'[u] \in {"cancel", "modify"}
      PROVE  Stored(call[u].req)'
  <2>1. call'[u] = call[u] /\ call[u].req \in Requests /\ Stored(call[u].req)
    BY <1>1, <1>3 DEF IInv, OrdersFit
  <2>2. orders'[call[u].req].status # "ABSENT"
    BY <2>1 DEF Stored
  <2>3. QED
    BY <2>1, <2>2 DEF Stored
<1>4. QED
  BY <1>2, <1>3 DEF OrdersFit

\* Asking for a lock keeps the invariant.
LEMMA AcquireStep ==
    ASSUME IInv, NEW t \in Tasks, NEW c \in Call,
           c.req \in Requests, c.op \in {"place", "cancel", "modify"},
           AcquireLock(t, c) \/ (locks[c.req] = None /\ Enter(t, c)),
           c.op = "place" =>
             /\ ~Stored(c.req)
             /\ \A u \in Tasks \ {t} : call[u].op = "place" => call[u].req # c.req,
           pc[t] \in {"idle", "wait"},
           UNCHANGED <<orders, idempotencyCache, reply, book, msgs>>
    PROVE  IInv'
<1>1. Shapes'
  <2>1. pc' \in [Tasks -> Labels] /\ call' \in [Tasks -> Call]
    BY AcquireEffect, Records DEF IInv, Shapes, FirstAwait, Labels
  <2>2. locks' \in [Requests -> Tasks \cup {None}]
    BY AcquireEffect DEF IInv, Shapes
  <2>3. QED
    BY <2>1, <2>2 DEF IInv, Shapes, Labels
<1>2. LabelsFit'
  <2>1. \A u \in Tasks \ {t} : pc'[u] = pc[u] /\ call'[u] = call[u]
    BY AcquireEffect DEF IInv, Shapes
  <2>2. \/ pc'[t] = "wait" /\ call'[t] = c
        \/ pc'[t] = FirstAwait(c.op) /\ call'[t] = c
        \/ pc'[t] = "idle" /\ call'[t] = NoCall
    BY AcquireEffect DEF IInv, Shapes
  <2>3. QED
    BY <2>1, <2>2 DEF IInv, LabelsFit, FirstAwait
<1>3. PlacesFit'
  <2> DEFINE Kept(u) == call'[u].op = "place" => call[u].op = "place" /\ call'[u] = call[u]
                                               /\ pc'[u] = pc[u]
  <2>1. \A u \in Tasks \ {t} : Kept(u)
    BY AcquireEffect DEF IInv, Shapes
  <2>2. call'[t].op = "place" =>
          call'[t] = c /\ c.op = "place" /\ pc'[t] \in {"wait", "risk"}
    BY AcquireEffect DEF IInv, Shapes, FirstAwait, NoCall
  <2>3. \A r \in Requests : Stored(r)' <=> Stored(r)
    BY DEF Stored
  <2>4. \A u, v \in Tasks : call'[u].op = "place" /\ call'[v].op = "place"
                              /\ call'[u].req = call'[v].req => u = v
    BY <2>1, <2>2 DEF IInv, PlacesFit
  <2>5. \A u \in Tasks : call'[u].op = "place" =>
          /\ pc'[u] \in {"wait", "risk"} => ~Stored(call[u].req)'
          /\ pc'[u] \in {"submit", "publish"} => Stored(call[u].req)'
    BY <2>1, <2>2, <2>3 DEF IInv, PlacesFit, LabelsFit, Shapes, Stored
  <2>6. \A u \in Tasks : call'[u].op = "place" =>
          /\ pc'[u] = "submit" /\ reply[u] = NoReply => book[call'[u].req] = NoEntry
          /\ pc'[u] = "submit" /\ reply[u].word = "ok" =>
                book[call'[u].req].word # "absent"
    BY <2>1, <2>2 DEF IInv, PlacesFit
  <2>7. QED
    BY <2>4, <2>5, <2>6 DEF PlacesFit
<1>4. OrdersFit'
  BY AcquireEffect DEF IInv, Shapes, OrdersFit, FirstAwait, NoCall, Stored
<1>5. QED
  BY <1>1, <1>2, <1>3, <1>4 DEF IInv

\* A task that leaves its call frees its frame and its lock.
LEMMA ReturnStep ==
    ASSUME IInv, NEW t \in Tasks, pc[t] # "idle", Return(t),
           orders' \in [Requests -> Order],
           \A r \in Requests : Stored(r)' = Stored(r) /\ orders'[r].known = orders[r].known,
           UNCHANGED <<idempotencyCache, book, msgs>>
    PROVE  IInv'
<1>1. \A u \in Tasks \ {t} : pc'[u] = pc[u] /\ call'[u] = call[u] /\ reply'[u] = reply[u]
  BY DEF Return, IInv, Shapes
<1>2. pc'[t] = "idle" /\ call'[t] = NoCall /\ reply'[t] = NoReply
  BY DEF Return, IInv, Shapes
<1>3. Shapes'
  BY Records DEF Return, IInv, Shapes, Labels
<1>4. LabelsFit'
  BY <1>1, <1>2 DEF IInv, LabelsFit
<1>5. PlacesFit'
  <2>1. \A u \in Tasks : call'[u].op = "place" => u # t
    BY <1>2 DEF NoCall
  <2>2. \A u \in Tasks : call'[u].op = "place" => call[u].req \in Requests
    BY <1>1, <2>1 DEF IInv, LabelsFit, NoCall
  <2>3. \A u, v \in Tasks : call'[u].op = "place" /\ call'[v].op = "place"
                              /\ call'[u].req = call'[v].req => u = v
    BY <1>1, <2>1 DEF IInv, PlacesFit
  <2>4. \A u \in Tasks : call'[u].op = "place" =>
          /\ pc'[u] \in {"wait", "risk"} => ~Stored(call[u].req)'
          /\ pc'[u] \in {"submit", "publish"} => Stored(call[u].req)'
          /\ pc'[u] = "submit" /\ reply'[u] = NoReply => book[call'[u].req] = NoEntry
          /\ pc'[u] = "submit" /\ reply'[u].word = "ok" =>
                book[call'[u].req].word # "absent"
    BY <1>1, <2>1, <2>2 DEF IInv, PlacesFit, Stored
  <2>5. QED
    BY <2>3, <2>4 DEF PlacesFit
<1>6. OrdersFit'
  <2>1. \A r \in Requests :
          /\ Stored(r) => Stored(r)'
          /\ orders[r].known => orders'[r].known
          /\ orders'[r].known => book'[r].word # "absent"
          /\ book'[r].word # "absent" => Stored(r)'
          /\ book'[r].word = "absent" => book'[r] = NoEntry
    BY DEF IInv, OrdersFit
  <2>2. \A u \in Tasks : pc'[u] \in {"sync", "cancel", "modify"} =>
          pc'[u] = pc[u] /\ call'[u] = call[u]
    BY <1>1, <1>2
  <2>3. QED
    BY <2>1, <2>2, FitKept
<1>7. QED
  BY <1>3, <1>4, <1>5, <1>6 DEF IInv

\* A task that goes on to its next await keeps its call and its lock.
LEMMA GotoStep ==
    ASSUME IInv, NEW t \in Tasks, NEW label, Goto(t, label),
           \/ pc[t] = "risk" /\ label = "submit" /\ book[call[t].req] = NoEntry
           \/ pc[t] = "submit" /\ label = "publish"
           \/ pc[t] \in {"cancel", "modify"} /\ label = "published",
           orders' \in [Requests -> Order],
           idempotencyCache' \in [Keys -> Requests \cup {None}],
           \A r \in Requests : Stored(r) => Stored(r)',
           \A r \in Requests : Stored(r)' => Stored(r) \/ (pc[t] = "risk" /\ r = call[t].req),
           pc[t] = "risk" => Stored(call[t].req)',
           \A r \in Requests : orders[r].known => orders'[r].known,
           \A r \in Requests : orders'[r].known => book[r].word # "absent",
           UNCHANGED <<book, msgs>>
    PROVE  IInv'
<1>1. \A u \in Tasks \ {t} : pc'[u] = pc[u] /\ call'[u] = call[u] /\ reply'[u] = reply[u]
  BY DEF Goto, IInv, Shapes
<1>2. pc'[t] = label /\ call' = call /\ locks' = locks /\ reply'[t] = NoReply
  BY DEF Goto, IInv, Shapes
<1>3. Shapes'
  <2>1. pc' \in [Tasks -> Labels] /\ reply' \in [Tasks -> Reply]
    BY Records DEF Goto, IInv, Shapes, Labels
  <2>2. QED
    BY <1>2, <2>1 DEF IInv, Shapes, Labels
<1>4. LabelsFit'
  BY <1>1, <1>2 DEF IInv, LabelsFit
<1>5. PlacesFit'
  <2>1. \A u \in Tasks : call[u].op = "place" => call[u].req \in Requests
    BY DEF IInv, LabelsFit, NoCall
  <2>2. \A u \in Tasks \ {t} : call[u].op = "place" =>
          /\ pc[u] \in {"wait", "risk"} => ~Stored(call[u].req)'
          /\ pc[u] \in {"submit", "publish"} => Stored(call[u].req)'
    <3>1. ASSUME NEW u \in Tasks \ {t}, call[u].op = "place", pc[t] = "risk"
          PROVE  call[u].req # call[t].req
      BY <3>1 DEF IInv, PlacesFit, LabelsFit
    <3>2. QED
      BY <1>2, <2>1, <3>1 DEF IInv, PlacesFit
  <2>3. call[t].op = "place" =>
          /\ label \in {"submit", "publish"} /\ Stored(call[t].req)'
          /\ label = "submit" => book[call[t].req] = NoEntry
    BY <1>2, <2>1 DEF IInv, PlacesFit, LabelsFit
  <2>4. \A u \in Tasks : call'[u].op = "place" =>
          /\ pc'[u] \in {"wait", "risk"} => ~Stored(call[u].req)'
          /\ pc'[u] \in {"submit", "publish"} => Stored(call[u].req)'
          /\ pc'[u] = "submit" /\ reply'[u] = NoReply => book[call'[u].req] = NoEntry
          /\ pc'[u] = "submit" /\ reply'[u].word = "ok" =>
                book[call'[u].req].word # "absent"
    BY <1>1, <1>2, <2>2, <2>3 DEF IInv, PlacesFit, NoReply
  <2>5. QED
    BY <1>2, <2>4 DEF IInv, PlacesFit, Stored
<1>6. OrdersFit'
  <2>1. \A r \in Requests :
          /\ Stored(r) => Stored(r)'
          /\ orders[r].known => orders'[r].known
          /\ orders'[r].known => book'[r].word # "absent"
          /\ book'[r].word # "absent" => Stored(r)'
          /\ book'[r].word = "absent" => book'[r] = NoEntry
    BY DEF IInv, OrdersFit
  <2>2. \A u \in Tasks : pc'[u] \in {"sync", "cancel", "modify"} =>
          pc'[u] = pc[u] /\ call'[u] = call[u]
    BY <1>1, <1>2
  <2>3. QED
    BY <2>1, <2>2, FitKept
<1>7. QED
  BY <1>3, <1>4, <1>5, <1>6 DEF IInv

\* sync_order_status asks about an order that has a broker_order_id.
LEMMA SyncStep ==
    ASSUME IInv, NEW t \in Tasks,
           SyncAnswered(t) \/ \E r \in Requests : SyncOrderStatus(t, r)
    PROVE  IInv'
<1>1. ASSUME NEW r \in Requests, SyncOrderStatus(t, r)
      PROVE  IInv'
  <2> DEFINE c == [NoCall EXCEPT !.op = "sync", !.req = r]
  <2>1. c \in Call /\ c.op = "sync" /\ c.req = r
    BY DEF NoCall, Call
  <2>2. /\ \A u \in Tasks \ {t} : pc'[u] = pc[u] /\ call'[u] = call[u]
        /\ pc'[t] = "sync" /\ call'[t] = c /\ pc[t] = "idle"
    BY <1>1 DEF SyncOrderStatus, IInv, Shapes
  <2>3. UNCHANGED <<orders, idempotencyCache, locks, reply, book, msgs>>
    BY <1>1 DEF SyncOrderStatus
  <2> HIDE DEF c
  <2>4. pc' \in [Tasks -> Labels] /\ call' \in [Tasks -> Call]
    BY <1>1, <2>1 DEF SyncOrderStatus, IInv, Shapes, Labels, c
  <2>5. Shapes'
    BY <2>3, <2>4 DEF IInv, Shapes, Labels
  <2>6. LabelsFit'
    BY <2>1, <2>2, <2>3 DEF IInv, LabelsFit
  <2>7. PlacesFit'
    <3>1. \A u \in Tasks : call'[u].op = "place" =>
            u # t /\ call'[u] = call[u] /\ pc'[u] = pc[u]
      BY <2>1, <2>2
    <3>2. \A q : Stored(q)' = Stored(q)
      BY <2>3 DEF Stored
    <3>3. QED
      BY <2>3, <3>1, <3>2 DEF IInv, PlacesFit, Stored
  <2>8. OrdersFit'
    <3>1. orders[r].known
      BY <1>1 DEF SyncOrderStatus
    <3>2. \A u \in Tasks : pc'[u] = "sync" => orders[call'[u].req].known
      BY <2>1, <2>2, <3>1 DEF IInv, OrdersFit
    <3>3. ASSUME NEW u \in Tasks, pc'[u] \in {"cancel", "modify"}
          PROVE  Stored(call[u].req)'
      <4>1. u # t /\ call'[u] = call[u] /\ pc'[u] = pc[u]
        BY <2>2, <3>3
      <4>2. Stored(call[u].req)
        BY <3>3, <4>1 DEF IInv, OrdersFit
      <4>3. QED
        BY <2>3, <4>1, <4>2 DEF Stored
    <3>4. \A q \in Requests : /\ book[q].word # "absent" => Stored(q)'
                              /\ book[q].word = "absent" => book[q] = NoEntry
                              /\ orders[q].known => book[q].word # "absent"
      BY <2>3 DEF IInv, OrdersFit, Stored
    <3>5. QED
      BY <2>3, <3>2, <3>3, <3>4 DEF OrdersFit
  <2>9. QED
    BY <2>5, <2>6, <2>7, <2>8 DEF IInv
<1>2. CASE SyncAnswered(t)
  <2>1. /\ \A u \in Tasks \ {t} : pc'[u] = pc[u] /\ call'[u] = call[u] /\ reply'[u] = reply[u]
        /\ pc'[t] = "idle" /\ call'[t] = NoCall /\ reply'[t] = NoReply /\ pc[t] = "sync"
        /\ call[t].req \in Requests /\ orders[call[t].req].known
    BY <1>2 DEF SyncAnswered, IInv, Shapes, LabelsFit, OrdersFit
  <2>2. UNCHANGED <<idempotencyCache, locks, book, msgs>>
    BY <1>2 DEF SyncAnswered
  <2>3. /\ orders' \in [Requests -> Order]
        /\ \A r \in Requests : orders'[r].known = orders[r].known
        /\ \A r \in Requests : Stored(r)' = Stored(r)
    <3>1. Stored(call[t].req)
      BY <2>1 DEF IInv, OrdersFit
    <3>2. /\ MapBrokerStatus(reply[t].word) \in OrderStatus
          /\ MapBrokerStatus(reply[t].word) # "ABSENT"
          /\ reply[t].filled \in Nat
      BY Records DEF OrderStatus, IInv, Shapes, Reply
    <3>3. QED
      BY <1>2, <2>1, <3>1, <3>2 DEF SyncAnswered, IInv, Shapes, Order, Stored
  <2>4. pc' \in [Tasks -> Labels] /\ call' \in [Tasks -> Call] /\ reply' \in [Tasks -> Reply]
    BY <1>2, Records DEF SyncAnswered, IInv, Shapes, Labels
  <2>5. Shapes'
    BY <2>2, <2>3, <2>4 DEF IInv, Shapes, Labels
  <2>6. LabelsFit'
    BY <2>1 DEF IInv, LabelsFit
  <2>7. PlacesFit'
    <3>1. \A u \in Tasks : call'[u].op = "place" => u # t /\ call[u].req \in Requests
      BY <2>1 DEF NoCall, IInv, LabelsFit
    <3>2. \A u \in Tasks : call'[u].op = "place" =>
            (pc'[u] \in {"wait", "risk"} => ~Stored(call[u].req)')
      BY <2>1, <2>3, <3>1 DEF IInv, PlacesFit, Stored
    <3>3. \A u \in Tasks : call'[u].op = "place" =>
            (pc'[u] \in {"submit", "publish"} => Stored(call[u].req)')
      BY <2>1, <2>3, <3>1 DEF IInv, PlacesFit, Stored
    <3>4. \A u \in Tasks : call'[u].op = "place" =>
            /\ pc'[u] = "submit" /\ reply'[u] = NoReply => book[call'[u].req] = NoEntry
            /\ pc'[u] = "submit" /\ reply'[u].word = "ok" =>
                  book[call'[u].req].word # "absent"
      BY <2>1, <3>1 DEF IInv, PlacesFit
    <3>5. \A u, v \in Tasks : call'[u].op = "place" /\ call'[v].op = "place"
                                /\ call'[u].req = call'[v].req => u = v
      BY <2>1, <3>1 DEF IInv, PlacesFit
    <3>6. QED
      BY <2>2, <3>2, <3>3, <3>4, <3>5 DEF PlacesFit
  <2>8. OrdersFit'
    <3>1. \A r \in Requests :
            /\ Stored(r) => Stored(r)'
            /\ orders[r].known => orders'[r].known
            /\ orders'[r].known => book'[r].word # "absent"
            /\ book'[r].word # "absent" => Stored(r)'
            /\ book'[r].word = "absent" => book'[r] = NoEntry
      BY <2>2, <2>3 DEF IInv, OrdersFit
    <3>2. \A u \in Tasks : pc'[u] \in {"sync", "cancel", "modify"} =>
            pc'[u] = pc[u] /\ call'[u] = call[u]
      BY <2>1
    <3>3. QED
      BY <3>1, <3>2, FitKept
  <2>9. QED
    BY <2>5, <2>6, <2>7, <2>8 DEF IInv
<1>3. QED
  BY <1>1, <1>2

\* Handlers of broker messages write orders that exist, whatever they write.
LEMMA DeliverStep ==
    ASSUME IInv, NEW m \in msgs, HandleOrderUpdate(m) \/ HandleTradeEvent(m)
    PROVE  IInv'
<1>1. m \in Message /\ m.req \in Requests /\ m.filled \in Nat
  BY DEF IInv, Shapes, Message
<1>2. UNCHANGED <<idempotencyCache, locks, pc, call, reply, book>> /\ msgs' \subseteq msgs
  BY DEF HandleOrderUpdate, HandleTradeEvent
<1>3. /\ orders' \in [Requests -> Order]
      /\ \A r \in Requests : orders'[r].known = orders[r].known
      /\ \A r \in Requests : Stored(r)' = Stored(r)
  <2>1. CASE HandleOrderUpdate(m)
    <3>1. orders[m.req].known => Stored(m.req)
      BY <1>1 DEF IInv, OrdersFit
    <3>2. MapBrokerStatus(m.word) \in OrderStatus /\ MapBrokerStatus(m.word) # "ABSENT"
      BY Records DEF OrderStatus
    <3>3. CASE ~orders[m.req].known
      BY <2>1, <3>3 DEF HandleOrderUpdate, IInv, Shapes, Stored
    <3>4. CASE orders[m.req].known
      <4>1. orders' = [orders EXCEPT ![m.req].status = MapBrokerStatus(m.word),
                                     ![m.req].filled = m.filled]
        BY <2>1, <3>4 DEF HandleOrderUpdate
      <4>2. QED
        BY <1>1, <3>1, <3>2, <3>4, <4>1 DEF IInv, Shapes, Order, Stored
    <3>5. QED
      BY <3>3, <3>4
  <2>2. CASE HandleTradeEvent(m)
    <3>1. orders[m.req].filled + 1 \in Nat
      BY <1>1 DEF IInv, Shapes, Order
    <3>2. CASE ~Stored(m.req)
      BY <2>2, <3>2 DEF HandleTradeEvent, IInv, Shapes, Stored
    <3>3. CASE Stored(m.req)
      BY <1>1, <2>2, <3>1, <3>3 DEF HandleTradeEvent, IInv, Shapes, Order, OrderStatus, Stored
    <3>4. QED
      BY <3>2, <3>3
  <2>3. QED
    BY <2>1, <2>2
<1>4. Shapes' /\ LabelsFit'
  BY <1>2, <1>3 DEF IInv, Shapes, LabelsFit
<1>5. \A u \in Tasks : call[u].op = "place" \/ pc[u] = "sync" => call[u].req \in Requests
  BY DEF IInv, LabelsFit, NoCall
<1>6. PlacesFit'
  <2>1. \A u \in Tasks : call[u].op = "place" => Stored(call[u].req)' = Stored(call[u].req)
    BY <1>2, <1>3, <1>5 DEF Stored
  <2>2. QED
    BY <1>2, <2>1 DEF IInv, PlacesFit
<1>7. OrdersFit'
  <2>1. \A r \in Requests :
          /\ Stored(r) => Stored(r)'
          /\ orders[r].known => orders'[r].known
          /\ orders'[r].known => book'[r].word # "absent"
          /\ book'[r].word # "absent" => Stored(r)'
          /\ book'[r].word = "absent" => book'[r] = NoEntry
    BY <1>2, <1>3 DEF IInv, OrdersFit
  <2>2. QED
    BY <1>2, <2>1, FitKept
<1>8. QED
  BY <1>4, <1>6, <1>7 DEF IInv

\* What the broker's record of an order never does: forget an order, take back a
\* fill, or leave a final state.
BookAdvances ==
    \A r \in Requests :
        /\ book[r].word # "absent" => book'[r].word # "absent"
        /\ book[r].filled <= book'[r].filled
        /\ book[r].word \notin LiveWords \cup {"absent"} => book'[r].word = book[r].word

\* What a call that the broker obeys does to its record and to the caller.
LEMMA ObeysEffect ==
    ASSUME IInv, NEW t \in Tasks, BrokerObeys(t)
    PROVE  /\ BookAdvances
           /\ book' \in [Requests -> Entry]
           /\ \A r \in Requests \ {call[t].req} : book'[r] = book[r]
           /\ call[t].req \in Requests /\ book'[call[t].req].word # "absent"
           /\ pc[t] = "submit" \/ orders[call[t].req].known
           /\ pc[t] = "cancel" => book'[call[t].req].word = "cancelled"
           /\ pc[t] = "submit" => book'[call[t].req].by = t
           /\ pc[t] # "submit" => book'[call[t].req].by = book[call[t].req].by
           /\ pc[t] \in {"submit", "cancel", "modify"}
           /\ reply[t] = NoReply
           /\ reply' \in [Tasks -> Reply]
           /\ \A u \in Tasks \ {t} : reply'[u] = reply[u]
           /\ reply'[t].word \in {"ok", "error"} /\ reply'[t].filled = 0
<1> DEFINE r == call[t].req
<1>1. pc[t] \in {"submit", "cancel", "modify"} /\ r \in Requests /\ reply[t] = NoReply
  BY DEF BrokerObeys, IInv, LabelsFit
<1>2. /\ reply' \in [Tasks -> Reply]
      /\ \A u \in Tasks \ {t} : reply'[u] = reply[u]
      /\ reply'[t].word \in {"ok", "error"} /\ reply'[t].filled = 0
  BY DEF BrokerObeys, Answer, IInv, Shapes, Reply
<1>3. CASE pc[t] = "submit"
  <2>1. book[r] = NoEntry
    BY <1>1, <1>3 DEF IInv, LabelsFit, PlacesFit
  <2>2. book' = [book EXCEPT ![r] = [word |-> "open", quantity |-> QtyOf[r],
                                     filled |-> 0, by |-> t]]
    BY <1>3 DEF BrokerObeys
  <2>3. QtyOf[r] \in Nat
    BY ConstantsOK, <1>1
  <2>4. QED
    BY <1>1, <1>2, <1>3, <2>1, <2>2, <2>3
       DEF IInv, Shapes, Entry, BrokerWords, LiveWords, BookAdvances, NoEntry
<1>4. CASE pc[t] = "cancel"
  <2>1. orders[r].known /\ Live(r) /\ book' = [book EXCEPT ![r].word = "cancelled"]
    BY <1>4 DEF BrokerObeys
  <2>2. QED
    BY <1>1, <1>2, <1>4, <2>1
       DEF IInv, Shapes, Entry, BrokerWords, DeadWords, LiveWords, BookAdvances, Live
<1>5. CASE pc[t] = "modify"
  <2>1. PICK q \in Nat : orders[r].known /\ Live(r) /\ book' = [book EXCEPT ![r].quantity = q]
    BY <1>1, <1>5 DEF BrokerObeys, IInv, Shapes, Call, Order
  <2>2. QED
    BY <1>1, <1>2, <1>5, <2>1 DEF IInv, Shapes, Entry, LiveWords, BookAdvances, Live
<1>6. QED
  BY <1>1, <1>3, <1>4, <1>5

\* An answer of the broker, obeyed or not, keeps the invariant.
LEMMA AnswerStep ==
    ASSUME IInv, NEW t \in Tasks, BrokerAnswers(t)
    PROVE  IInv'
<1>1. UNCHANGED <<orders, idempotencyCache, locks, pc, call, msgs>>
  BY DEF BrokerAnswers, BrokerObeys, BrokerRefuses, BrokerReports, BrokerDeclines
<1>2. CASE BrokerObeys(t)
  <2>1. Shapes' /\ LabelsFit'
    BY <1>1, <1>2, ObeysEffect DEF IInv, Shapes, LabelsFit
  <2>2. \A u \in Tasks : call[u].op = "place" => call[u].req \in Requests
    BY DEF IInv, LabelsFit, NoCall
  <2>3. \A u \in Tasks \ {t} : call[u].op = "place" /\ pc[u] = "submit" /\ reply[u] = NoReply
                              => call[u].req # call[t].req
    <3>1. ASSUME NEW u \in Tasks \ {t}, call[u].op = "place", pc[u] = "submit",
                 reply[u] = NoReply, call[u].req = call[t].req
          PROVE  FALSE
      <4>1. pc[t] = "submit" => call[t].op = "place"
        BY DEF IInv, LabelsFit
      <4>2. book[call[u].req] = NoEntry
        BY <3>1 DEF IInv, PlacesFit
      <4>3. pc[t] # "submit" => book[call[t].req].word # "absent"
        BY <1>2, ObeysEffect DEF IInv, OrdersFit
      <4>4. QED
        BY <3>1, <4>1, <4>2, <4>3 DEF IInv, PlacesFit, NoEntry
    <3>2. QED
      BY <3>1
  <2>4. \A u \in Tasks : call[u].op = "place" =>
          /\ pc[u] = "submit" /\ reply'[u] = NoReply => book'[call[u].req] = NoEntry
          /\ pc[u] = "submit" /\ reply'[u].word = "ok" => book'[call[u].req].word # "absent"
    BY <1>2, <2>2, <2>3, ObeysEffect DEF IInv, PlacesFit, NoReply, BookAdvances
  <2>5. PlacesFit'
    BY <1>1, <2>4 DEF IInv, PlacesFit, Stored
  <2>6. OrdersFit'
    <3>1. pc[t] = "submit" => Stored(call[t].req)
      BY DEF IInv, PlacesFit, LabelsFit
    <3>2. Stored(call[t].req)
      BY <1>2, <3>1, ObeysEffect DEF IInv, OrdersFit
    <3>3. \A q \in Requests : /\ book'[q].word # "absent" => Stored(q)
                              /\ book'[q].word = "absent" => book'[q] = NoEntry
                              /\ orders[q].known => book'[q].word # "absent"
      BY <1>2, <3>2, ObeysEffect DEF IInv, OrdersFit, BookAdvances
    <3>4. QED
      BY <1>1, <3>3 DEF IInv, OrdersFit, Stored
  <2>7. QED
    BY <2>1, <2>5, <2>6 DEF IInv
<1>3. CASE BrokerRefuses(t) \/ BrokerReports(t) \/ BrokerDeclines(t)
  <2>1. /\ book' = book
        /\ \A u \in Tasks \ {t} : reply'[u] = reply[u]
        /\ pc[t] \in {"sync", "cancel"} \/ reply'[t].word = "error"
    BY <1>3 DEF BrokerRefuses, BrokerReports, BrokerDeclines, Answer, IInv, Shapes
  <2>2. reply' \in [Tasks -> Reply]
    <3>1. CASE BrokerRefuses(t) \/ BrokerDeclines(t)
      BY <3>1 DEF BrokerRefuses, BrokerDeclines, Answer, IInv, Shapes, Reply
    <3>2. CASE BrokerReports(t)
      <4>1. call[t].req \in Requests /\ book[call[t].req].word \in BrokerWords
            /\ book[call[t].req].filled \in Nat
        BY <3>2 DEF BrokerReports, IInv, Shapes, Entry, LabelsFit, OrdersFit
      <4>2. QED
        BY <3>2, <4>1 DEF BrokerReports, Answer, IInv, Shapes, Reply
    <3>3. QED
      BY <1>3, <3>1, <3>2
  <2>3. Shapes' /\ OrdersFit'
    BY <1>1, <2>1, <2>2 DEF IInv, Shapes, OrdersFit, Stored
  <2>4. LabelsFit'
    <3>1. pc[t] \in {"submit", "cancel", "modify", "sync"}
      BY <1>3 DEF BrokerRefuses, BrokerReports, BrokerDeclines
    <3>2. QED
      BY <1>1, <2>1, <3>1 DEF IInv, LabelsFit
  <2>5. \A u \in Tasks : call[u].op = "place" =>
          /\ pc[u] = "submit" /\ reply'[u] = NoReply => book[call[u].req] = NoEntry
          /\ pc[u] = "submit" /\ reply'[u].word = "ok" => book[call[u].req].word # "absent"
    BY <2>1 DEF IInv, PlacesFit, NoReply
  <2>6. PlacesFit'
    BY <1>1, <2>1, <2>5 DEF IInv, PlacesFit, Stored
  <2>7. QED
    BY <2>3, <2>6, <2>4 DEF IInv
<1>4. QED
  BY <1>2, <1>3 DEF BrokerAnswers

\* What a fill or a close at the exchange does: its record, and the news of it.
LEMMA MovesEffect ==
    ASSUME IInv, NEW r \in Requests, BrokerMoves(r)
    PROVE  /\ BookAdvances
           /\ book' \in [Requests -> Entry]
           /\ \A q \in Requests \ {r} : book'[q] = book[q]
           /\ book[r].word \in LiveWords /\ book'[r].word # "absent"
           /\ book'[r].by = book[r].by
           /\ \A m \in msgs' \ msgs :
                 /\ m.kind \in {"order_update", "trade"} \cap Streams
                 /\ m.req = r /\ m.word = book'[r].word /\ m.filled = book'[r].filled
           /\ msgs' \subseteq Message
           /\ UNCHANGED <<orders, idempotencyCache, locks, pc, call, reply>>
<1>1. CASE BrokerFills(r)
  <2>1. PICK word \in FilledWords \cup {"partially_filled"} :
          /\ book' = [book EXCEPT ![r] = [book[r] EXCEPT !.word = word,
                                                         !.filled = book[r].filled + 1]]
          /\ msgs' = msgs \cup Notices(r, [book[r] EXCEPT !.word = word,
                            !.filled = book[r].filled + 1], {"order_update", "trade"})
    BY <1>1 DEF BrokerFills
  <2>2. word \in BrokerWords
    BY ConstantsOK DEF BrokerWords, LiveWords
  <2>3. book[r].word \in LiveWords /\ book[r] \in Entry
    BY <1>1 DEF BrokerFills, Live, IInv, Shapes
  <2>4. UNCHANGED <<orders, idempotencyCache, locks, pc, call, reply>>
    BY <1>1 DEF BrokerFills
  <2>5. [book[r] EXCEPT !.word = word, !.filled = book[r].filled + 1] \in Entry
    <3>1. book[r].filled \in Nat /\ book[r].filled + 1 \in Nat
      BY <2>3 DEF Entry
    <3>2. ASSUME NEW n \in Nat
          PROVE  [book[r] EXCEPT !.word = word, !.filled = n] \in Entry
      BY <2>2, <2>3 DEF Entry
    <3>3. QED
      BY <3>1, <3>2
  <2>6. /\ book' \in [Requests -> Entry]
        /\ book'[r] = [book[r] EXCEPT !.word = word, !.filled = book[r].filled + 1]
        /\ \A q \in Requests \ {r} : book'[q] = book[q]
    BY <2>1, <2>5 DEF IInv, Shapes
  <2>7. /\ book'[r].word = word /\ book'[r].filled = book[r].filled + 1
        /\ book'[r].by = book[r].by
    BY <2>3, <2>6 DEF Entry
  <2>8. BookAdvances
    <3>1. word # "absent" /\ book[r].filled \in Nat
      BY <2>2, <2>3 DEF BrokerWords, LiveWords, DeadWords, Entry
    <3>2. book[r].filled <= book'[r].filled
      BY <2>7, <3>1
    <3>3. ASSUME NEW q \in Requests
          PROVE  /\ book[q].word # "absent" => book'[q].word # "absent"
                 /\ book[q].filled <= book'[q].filled
                 /\ book[q].word \notin LiveWords \cup {"absent"} => book'[q].word = book[q].word
      <4>1. CASE q = r
        BY <2>3, <2>7, <3>1, <3>2, <4>1
      <4>2. CASE q # r
        <5>1. book'[q] = book[q] /\ book[q].filled \in Nat
          BY <2>6, <4>2 DEF IInv, Shapes, Entry
        <5>2. QED
          BY <5>1
      <4>3. QED
        BY <4>1, <4>2
    <3>4. QED
      BY <3>3 DEF BookAdvances
  <2>9. /\ msgs' \subseteq Message
        /\ \A m \in msgs' \ msgs :
              /\ m.kind \in {"order_update", "trade"} \cap Streams
              /\ m.req = r /\ m.word = book'[r].word /\ m.filled = book'[r].filled
    BY <2>1, <2>2, <2>3, <2>6, <2>7 DEF Notices, Message, IInv, Shapes, Entry
  <2>10. QED
    BY <2>2, <2>3, <2>4, <2>6, <2>7, <2>8, <2>9 DEF BrokerWords, LiveWords, DeadWords
<1>2. CASE BrokerCloses(r)
  <2>1. PICK word \in DeadWords :
          /\ book' = [book EXCEPT ![r] = [book[r] EXCEPT !.word = word]]
          /\ msgs' = msgs \cup Notices(r, [book[r] EXCEPT !.word = word], {"order_update"})
    BY <1>2 DEF BrokerCloses
  <2>2. word \in BrokerWords /\ word # "absent"
    BY DEF BrokerWords, DeadWords
  <2>3. book[r].word \in LiveWords /\ book[r] \in Entry
    BY <1>2 DEF BrokerCloses, Live, IInv, Shapes
  <2>4. UNCHANGED <<orders, idempotencyCache, locks, pc, call, reply>>
    BY <1>2 DEF BrokerCloses
  <2>5. [book[r] EXCEPT !.word = word] \in Entry
    BY <2>2, <2>3 DEF Entry
  <2>6. /\ book' \in [Requests -> Entry]
        /\ book'[r] = [book[r] EXCEPT !.word = word]
        /\ \A q \in Requests \ {r} : book'[q] = book[q]
    BY <2>1, <2>5 DEF IInv, Shapes
  <2>7. book'[r].word = word /\ book'[r].filled = book[r].filled /\ book'[r].by = book[r].by
    BY <2>3, <2>6 DEF Entry
  <2>8. BookAdvances
    BY <2>2, <2>3, <2>6, <2>7 DEF BookAdvances, Entry, IInv, Shapes
  <2>9. /\ msgs' \subseteq Message
        /\ \A m \in msgs' \ msgs :
              /\ m.kind \in {"order_update", "trade"} \cap Streams
              /\ m.req = r /\ m.word = book'[r].word /\ m.filled = book'[r].filled
    BY <2>1, <2>2, <2>3, <2>6, <2>7 DEF Notices, Message, IInv, Shapes, Entry
  <2>10. QED
    BY <2>2, <2>3, <2>4, <2>6, <2>7, <2>8, <2>9
<1>3. QED
  BY <1>1, <1>2 DEF BrokerMoves

\* A fill or a close at the exchange keeps the invariant.
LEMMA MovesStep ==
    ASSUME IInv, NEW r \in Requests, BrokerMoves(r)
    PROVE  IInv'
<1>1. Shapes' /\ LabelsFit'
  BY MovesEffect DEF IInv, Shapes, LabelsFit
<1>2. Stored(r) /\ book[r].word # "absent"
  BY MovesEffect DEF IInv, OrdersFit, LiveWords
<1>3. \A u \in Tasks : call[u].op = "place" => call[u].req \in Requests
  BY DEF IInv, LabelsFit, NoCall
<1>4. \A u \in Tasks : call[u].op = "place" =>
        /\ pc[u] = "submit" /\ reply[u] = NoReply => book'[call[u].req] = NoEntry
        /\ pc[u] = "submit" /\ reply[u].word = "ok" => book'[call[u].req].word # "absent"
  BY <1>2, <1>3, MovesEffect DEF IInv, PlacesFit, NoEntry, BookAdvances
<1>5. PlacesFit'
  BY <1>4, MovesEffect DEF IInv, PlacesFit, Stored
<1>6. OrdersFit'
  <2>1. \A q \in Requests : /\ book'[q].word # "absent" => Stored(q)
                            /\ book'[q].word = "absent" => book'[q] = NoEntry
                            /\ orders[q].known => book'[q].word # "absent"
    BY <1>2, MovesEffect DEF IInv, OrdersFit, BookAdvances
  <2>2. QED
    BY <2>1, MovesEffect DEF IInv, OrdersFit, Stored
<1>7. QED
  BY <1>1, <1>5, <1>6 DEF IInv

-----------------------------------------------------------------------------
(* Every step.                                                              *)

\* A new call of place, cancel, modify or sync keeps the invariant.
LEMMA NewCallStep ==
    ASSUME IInv, NEW t \in Tasks, NewCall(t)
    PROVE  IInv'
<1>1. PICK r \in Requests :
        \/ PlaceOrder(t, r)
        \/ SyncOrderStatus(t, r)
        \/ \E mine \in BOOLEAN :
              \/ CancelOrder(t, r, mine)
              \/ \E q \in NewQtys, trigger \in BOOLEAN : ModifyOrder(t, r, mine, q, trigger)
  BY DEF NewCall
<1>2. CASE PlaceOrder(t, r)
  <2> DEFINE c == [NoCall EXCEPT !.op = "place", !.req = r]
  <2>1. c \in Call /\ c.req = r /\ c.op = "place"
    BY DEF NoCall, Call
  <2>2. /\ ~Stored(r) /\ pc[t] = "idle"
        /\ \A u \in Tasks : call[u].op = "place" => call[u].req # r
        /\ UNCHANGED <<orders, idempotencyCache, reply, book, msgs>>
        /\ AcquireLock(t, c) \/ UNCHANGED <<locks, pc, call>>
    BY <1>2 DEF PlaceOrder
  <2>3. CASE AcquireLock(t, c)
    <3> HIDE DEF c
    <3>1. QED
      BY <2>1, <2>2, <2>3, AcquireStep
  <2>4. CASE UNCHANGED <<locks, pc, call>>
    BY <2>2, <2>4 DEF IInv, Shapes, LabelsFit, PlacesFit, OrdersFit, Stored
  <2>5. QED
    BY <2>2, <2>3, <2>4
<1>3. CASE SyncOrderStatus(t, r)
  BY <1>3, SyncStep
<1>4. ASSUME NEW mine \in BOOLEAN, CancelOrder(t, r, mine)
      PROVE  IInv'
  <2> DEFINE c == [NoCall EXCEPT !.op = "cancel", !.req = r, !.mine = mine]
  <2>1. c \in Call /\ c.req = r /\ c.op = "cancel"
    BY DEF NoCall, Call
  <2>2. /\ AcquireLock(t, c) /\ pc[t] = "idle"
        /\ UNCHANGED <<orders, idempotencyCache, reply, book, msgs>>
    BY <1>4 DEF CancelOrder
  <2> HIDE DEF c
  <2>3. QED
    BY <2>1, <2>2, AcquireStep
<1>5. ASSUME NEW mine \in BOOLEAN, NEW q \in NewQtys, NEW trigger \in BOOLEAN,
             ModifyOrder(t, r, mine, q, trigger)
      PROVE  IInv'
  <2> DEFINE c == [op |-> "modify", req |-> r, mine |-> mine, quantity |-> q,
                   trigger |-> trigger]
  <2>1. c \in Call /\ c.req = r /\ c.op = "modify"
    BY ConstantsOK DEF Call
  <2>2. /\ AcquireLock(t, c) /\ pc[t] = "idle"
        /\ UNCHANGED <<orders, idempotencyCache, reply, book, msgs>>
    BY <1>5 DEF ModifyOrder
  <2> HIDE DEF c
  <2>3. QED
    BY <2>1, <2>2, AcquireStep
<1>6. QED
  BY <1>1, <1>2, <1>3, <1>4, <1>5

\* A suspended task that goes on keeps the invariant.
LEMMA TaskStep ==
    ASSUME IInv, NEW t \in Tasks, Step(t)
    PROVE  IInv'
<1> USE DEF IInv
<1>1. call[t].req \in Requests \/ pc[t] = "idle"
  BY DEF LabelsFit
<1>2. CASE Wake(t)
  <2>1. /\ call[t] \in Call /\ call[t].req \in Requests
        /\ call[t].op \in {"place", "cancel", "modify"} /\ pc[t] = "wait"
    BY <1>2 DEF Wake, Shapes, LabelsFit
  <2>2. call[t].op = "place" =>
          /\ ~Stored(call[t].req)
          /\ \A u \in Tasks \ {t} : call[u].op = "place" => call[u].req # call[t].req
    BY <2>1 DEF PlacesFit
  <2>3. QED
    BY <1>2, <2>1, <2>2, AcquireStep DEF Wake
<1>3. CASE RiskRefused(t) \/ Published(t) \/ ChangeFailed(t)
  <2>1. /\ Return(t) /\ pc[t] # "idle"
        /\ UNCHANGED <<orders, idempotencyCache, book, msgs>>
    BY <1>3 DEF RiskRefused, Published, ChangeFailed
  <2>2. /\ orders' \in [Requests -> Order]
        /\ \A r \in Requests : Stored(r)' = Stored(r) /\ orders'[r].known = orders[r].known
    BY <2>1 DEF Shapes, Stored
  <2>3. UNCHANGED <<idempotencyCache, book, msgs>>
    BY <2>1
  <2>4. Return(t) /\ pc[t] # "idle"
    BY <2>1
  <2>5. QED
    BY <2>2, <2>3, <2>4, ReturnStep
<1>4. CASE PlaceFailed(t)
  <2>1. /\ Return(t) /\ pc[t] \in {"submit", "publish"}
        /\ orders' = [orders EXCEPT ![call[t].req].status = "REJECTED"]
        /\ UNCHANGED <<idempotencyCache, book, msgs>>
    BY <1>4 DEF PlaceFailed
  <2>2. call[t].req \in Requests /\ Stored(call[t].req)
    BY <2>1 DEF LabelsFit, PlacesFit
  <2>3. /\ orders' \in [Requests -> Order]
        /\ \A r \in Requests : Stored(r)' = Stored(r) /\ orders'[r].known = orders[r].known
    <3>1. orders' \in [Requests -> Order]
      <4>1. PICK q \in Requests : q = call[t].req
        BY <2>2
      <4>2. orders \in [Requests -> Order] /\ orders[q] \in Order
        BY DEF Shapes
      <4>3. [orders[q] EXCEPT !.status = "REJECTED"] \in Order
        BY <4>2 DEF Order, OrderStatus
      <4>4. orders' = [orders EXCEPT ![q] = [orders[q] EXCEPT !.status = "REJECTED"]]
        BY <2>1, <4>1, <4>2
      <4>5. QED
        BY <4>2, <4>3, <4>4
    <3>2. /\ \A r \in Requests \ {call[t].req} : orders'[r] = orders[r]
          /\ orders'[call[t].req].status = "REJECTED"
          /\ orders'[call[t].req].known = orders[call[t].req].known
      BY <2>1, <2>2 DEF Shapes, Order
    <3>3. QED
      BY <2>2, <3>1, <3>2 DEF Stored
  <2>4. QED
    BY <2>1, <2>3, ReturnStep
<1>5. CASE RiskApproved(t)
  <2> DEFINE r == call[t].req
             o == [NoOrder EXCEPT !.status = "PENDING", !.quantity = QtyOf[r]]
  <2>1. /\ pc[t] = "risk" /\ Goto(t, "submit") /\ UNCHANGED <<book, msgs>>
        /\ orders' = [orders EXCEPT ![r] = o]
    BY <1>5 DEF RiskApproved
  <2>2. r \in Requests /\ ~Stored(r)
    BY <2>1 DEF LabelsFit, PlacesFit
  <2>3. book[r] = NoEntry /\ ~orders[r].known
    BY <2>2 DEF OrdersFit
  <2>4. o \in Order /\ o.status = "PENDING" /\ ~o.known
    <3>1. QtyOf[r] \in Nat
      BY <2>2, ConstantsOK
    <3>2. QED
      BY <3>1 DEF NoOrder, Order, OrderStatus
  <2>5. idempotencyCache' \in [Keys -> Requests \cup {None}]
    BY <1>5, <2>2 DEF RiskApproved, Shapes
  <2> HIDE DEF o
  <2>6. /\ orders' \in [Requests -> Order]
        /\ \A q \in Requests \ {r} : orders'[q] = orders[q]
        /\ orders'[r] = o
    BY <2>1, <2>2, <2>4 DEF Shapes
  <2>7. /\ \A q \in Requests : Stored(q) => Stored(q)'
        /\ \A q \in Requests : Stored(q)' => Stored(q) \/ q = r
        /\ orders'[r].status # "ABSENT"
    BY <2>2, <2>4, <2>6 DEF Stored
  <2>8. \A q \in Requests : /\ orders[q].known => orders'[q].known
                            /\ orders'[q].known => book[q].word # "absent"
    BY <2>3, <2>4, <2>6 DEF OrdersFit
  <2>9. Stored(call[t].req)'
    BY <2>1, <2>7 DEF Stored, Goto
  <2>10. QED
    BY <2>1, <2>3, <2>5, <2>6, <2>7, <2>8, <2>9, GotoStep
<1>6. CASE PlaceSubmitted(t)
  <2>1. /\ pc[t] = "submit" /\ Goto(t, "publish") /\ UNCHANGED <<idempotencyCache, book, msgs>>
        /\ orders' = [orders EXCEPT ![call[t].req].known = TRUE,
                                    ![call[t].req].status = "SUBMITTED"]
        /\ reply[t].word = "ok"
    BY <1>6 DEF PlaceSubmitted
  <2>2. /\ call[t].req \in Requests /\ Stored(call[t].req)
        /\ book[call[t].req].word # "absent"
    BY <2>1 DEF LabelsFit, PlacesFit
  <2>3. /\ orders' \in [Requests -> Order]
        /\ \A r \in Requests : Stored(r)' = Stored(r)
        /\ \A r \in Requests : orders[r].known => orders'[r].known
        /\ \A r \in Requests : orders'[r].known => orders[r].known \/ r = call[t].req
    <3> DEFINE o == [orders[call[t].req] EXCEPT !.known = TRUE, !.status = "SUBMITTED"]
    <3>1. orders' = [orders EXCEPT ![call[t].req] = o]
      BY <2>1, <2>2 DEF Shapes
    <3>2. o \in Order /\ o.status = "SUBMITTED" /\ o.known
      <4>1. orders[call[t].req] \in Order /\ "SUBMITTED" \in OrderStatus
        BY <2>2 DEF Shapes, OrderStatus
      <4>2. ASSUME NEW x \in Order, NEW w \in OrderStatus
            PROVE  LET y == [x EXCEPT !.known = TRUE, !.status = w]
                   IN  y \in Order /\ y.status = w /\ y.known
        BY DEF Order
      <4>3. QED
        BY <4>1, <4>2
    <3> HIDE DEF o
    <3>3. orders' \in [Requests -> Order]
      BY <2>2, <3>1, <3>2 DEF Shapes
    <3>4. /\ \A r \in Requests \ {call[t].req} : orders'[r] = orders[r]
          /\ orders'[call[t].req].status = "SUBMITTED"
          /\ orders'[call[t].req].known
      BY <2>2, <3>1, <3>2 DEF Shapes
    <3>5. QED
      BY <2>2, <3>3, <3>4 DEF Stored
  <2>4. \A r \in Requests : orders'[r].known => book[r].word # "absent"
    BY <2>2, <2>3 DEF OrdersFit
  <2>5. idempotencyCache' \in [Keys -> Requests \cup {None}]
    BY <2>1 DEF Shapes
  <2>6. QED
    BY <2>1, <2>3, <2>4, <2>5, GotoStep
<1>7. CASE CancelAnswered(t) \/ ModifyConfirmed(t)
  <2>1. /\ pc[t] \in {"cancel", "modify"} /\ Goto(t, "published")
        /\ UNCHANGED <<idempotencyCache, book, msgs>>
        /\ reply[t].word \in {"ok", "refused"}
    BY <1>7 DEF CancelAnswered, ModifyConfirmed
  <2>2. call[t].req \in Requests
    BY <2>1 DEF LabelsFit
  <2>3. /\ orders' \in [Requests -> Order]
        /\ \A r \in Requests : orders'[r].known = orders[r].known
        /\ \A r \in Requests : Stored(r) => Stored(r)'
        /\ \A r \in Requests : Stored(r)' => Stored(r)
    <3>1. Stored(call[t].req)
      BY <2>1 DEF OrdersFit
    <3>2. CASE CancelAnswered(t)
      <4>1. orders' = [orders EXCEPT ![call[t].req].status = "CANCELLED"]
        BY <3>2 DEF CancelAnswered
      <4>2. orders' \in [Requests -> Order]
        BY <2>2, <4>1 DEF Shapes, Order, OrderStatus
      <4>3. /\ \A r \in Requests \ {call[t].req} : orders'[r] = orders[r]
            /\ orders'[call[t].req].status = "CANCELLED"
            /\ orders'[call[t].req].known = orders[call[t].req].known
        BY <2>2, <4>1 DEF Shapes, Order
      <4>4. QED
        BY <2>2, <3>1, <4>2, <4>3 DEF Stored
    <3>3. CASE ModifyConfirmed(t)
      <4>1. PICK n \in Nat, b \in BOOLEAN :
              orders' = [orders EXCEPT ![call[t].req].quantity = n,
                                       ![call[t].req].trigger = b]
        BY <2>2, <3>3 DEF ModifyConfirmed, Shapes, Order, Call
      <4>2. orders' \in [Requests -> Order]
        BY <2>2, <4>1 DEF Shapes, Order
      <4>3. /\ \A r \in Requests \ {call[t].req} : orders'[r] = orders[r]
            /\ orders'[call[t].req].status = orders[call[t].req].status
            /\ orders'[call[t].req].known = orders[call[t].req].known
        BY <2>2, <4>1 DEF Shapes, Order
      <4>4. QED
        BY <2>2, <3>1, <4>2, <4>3 DEF Stored
    <3>4. QED
      BY <1>7, <3>2, <3>3
  <2>4. \A r \in Requests : orders'[r].known => book[r].word # "absent"
    BY <2>3 DEF OrdersFit
  <2>5. idempotencyCache' \in [Keys -> Requests \cup {None}]
    BY <2>1 DEF Shapes
  <2>6. QED
    BY <2>1, <2>3, <2>4, <2>5, GotoStep
<1>8. CASE SyncAnswered(t)
  BY <1>8, SyncStep
<1>9. QED
  BY <1>2, <1>3, <1>4, <1>5, <1>6, <1>7, <1>8 DEF Step

\* The invariant is inductive.
LEMMA IStep == IInv /\ [Next]_vars => IInv'
<1> SUFFICES ASSUME IInv, [Next]_vars PROVE IInv'
  OBVIOUS
<1>1. ASSUME NEW t \in Tasks, NewCall(t) \/ Step(t) \/ BrokerAnswers(t)
      PROVE  IInv'
  BY <1>1, NewCallStep, TaskStep, AnswerStep
<1>2. ASSUME NEW r \in Requests, BrokerMoves(r)
      PROVE  IInv'
  BY <1>2, MovesStep
<1>3. CASE Deliver
  BY <1>3, DeliverStep DEF Deliver
<1>4. CASE UNCHANGED vars
  BY <1>4 DEF vars, IInv, Shapes, LabelsFit, PlacesFit, OrdersFit, Stored
<1>5. QED
  BY <1>1, <1>2, <1>3, <1>4 DEF Next

\* The invariant holds in every reachable state.
LEMMA Inductive == Spec => []IInv
BY IInit, IStep, PTL DEF Spec

\* Every variable keeps its shape: sync_order_status only ever hears a broker's
\* word, because it asks about orders the broker has.
THEOREM TypeCorrect == Spec => []TypeOK
<1> DEFINE Named == refused \subseteq Requests
<1>1. Init => Named
  BY DEF Init
<1>2. IInv /\ Named /\ [Next]_vars => Named'
  BY DEF IInv, LabelsFit, Next, vars, BrokerAnswers, BrokerDeclines
<1>3. IInv /\ Named => TypeOK
  BY DEF IInv, Shapes, TypeOK, Labels
<1>4. QED
  BY <1>1, <1>2, <1>3, Inductive, PTL DEF Spec

\* place_order records a request before it submits it, and nothing removes it.
THEOREM Recorded == Spec => []NothingUnrecorded
<1>1. IInv => NothingUnrecorded
  BY DEF IInv, OrdersFit, NothingUnrecorded
<1>2. QED
  BY <1>1, Inductive, PTL

-----------------------------------------------------------------------------
(* What the executor promises, from the inductive invariant IInv: locks, the *)
(* idempotency cache, what the local orders may claim of the broker's, one   *)
(* order of a key, and the refinement of OrderPromise.                       *)


\* A step of a call: NewCall, or Step, of one task.  It touches only the frame
\* of that task, whose reply is consumed or was not there.
LEMMA CallFrame ==
    ASSUME IInv, NEW t \in Tasks, NewCall(t) \/ Step(t)
    PROVE  /\ \A u \in Tasks \ {t} :
                 pc'[u] = pc[u] /\ call'[u] = call[u] /\ reply'[u] = reply[u]
           /\ reply'[t] = NoReply
           /\ UNCHANGED book /\ msgs' = msgs
<1>1. CASE NewCall(t)
  <2>1. PICK r \in Requests :
          \/ PlaceOrder(t, r)
          \/ SyncOrderStatus(t, r)
          \/ \E mine \in BOOLEAN :
                \/ CancelOrder(t, r, mine)
                \/ \E q \in NewQtys, trigger \in BOOLEAN : ModifyOrder(t, r, mine, q, trigger)
    BY <1>1 DEF NewCall
  <2>2. pc[t] = "idle" /\ UNCHANGED <<reply, book, msgs>>
    BY <2>1 DEF PlaceOrder, SyncOrderStatus, CancelOrder, ModifyOrder
  <2>3. reply[t] = NoReply
    BY <2>2 DEF IInv, LabelsFit
  <2>4. \A u \in Tasks \ {t} : pc'[u] = pc[u] /\ call'[u] = call[u]
    <3>1. /\ pc' = pc \/ \E p : pc' = [pc EXCEPT ![t] = p]
          /\ call' = call \/ \E c : call' = [call EXCEPT ![t] = c]
      BY <2>1 DEF PlaceOrder, SyncOrderStatus, CancelOrder, ModifyOrder, AcquireLock, Enter
    <3>2. DOMAIN pc = Tasks /\ DOMAIN call = Tasks
      BY DEF IInv, Shapes
    <3>3. QED
      BY <3>1, <3>2
  <2>5. QED
    BY <2>2, <2>3, <2>4
<1>2. CASE Wake(t)
  <2>1. reply[t] = NoReply
    BY <1>2 DEF Wake, IInv, LabelsFit
  <2>2. QED
    BY <1>2, <2>1 DEF Wake, Enter, IInv, Shapes
<1>3. CASE SyncAnswered(t)
  BY <1>3 DEF SyncAnswered, IInv, Shapes
<1>4. CASE Step(t) /\ ~Wake(t) /\ ~SyncAnswered(t)
  <2>1. Return(t) \/ \E label \in Labels : Goto(t, label)
    BY <1>4 DEF Step, RiskRefused, RiskApproved, PlaceSubmitted, PlaceFailed, Published,
                CancelAnswered, ModifyConfirmed, ChangeFailed, Labels
  <2>2. UNCHANGED <<book, msgs>>
    BY <1>4 DEF Step, RiskRefused, RiskApproved, PlaceSubmitted, PlaceFailed, Published,
                CancelAnswered, ModifyConfirmed, ChangeFailed
  <2>3. QED
    BY <2>1, <2>2 DEF Return, Goto, IInv, Shapes
<1>5. QED
  BY <1>1, <1>2, <1>3, <1>4

\* No step takes back what the broker has recorded.
LEMMA BookStep == IInv /\ [Next]_vars => BookAdvances
<1> SUFFICES ASSUME IInv, [Next]_vars PROVE BookAdvances
  OBVIOUS
<1>1. CASE UNCHANGED book
  <2>1. \A r \in Requests : book[r].filled \in Nat
    BY DEF IInv, Shapes, Entry
  <2>2. QED
    BY <1>1, <2>1 DEF BookAdvances
<1>2. ASSUME NEW t \in Tasks, NewCall(t) \/ Step(t)
      PROVE  UNCHANGED book
  BY <1>2, CallFrame
<1>3. ASSUME NEW t \in Tasks, BrokerAnswers(t)
      PROVE  BookAdvances
  BY <1>1, <1>3, ObeysEffect DEF BrokerAnswers, BrokerRefuses, BrokerReports, BrokerDeclines
<1>4. ASSUME NEW r \in Requests, BrokerMoves(r)
      PROVE  BookAdvances
  BY <1>4, MovesEffect
<1>5. CASE Deliver
  BY <1>1, <1>5 DEF Deliver, HandleOrderUpdate, HandleTradeEvent
<1>6. QED
  BY <1>1, <1>2, <1>3, <1>4, <1>5 DEF Next, vars

-----------------------------------------------------------------------------
(* What the broker says stays true: a final word is final, a fill is not    *)
(* taken back, so a late message or answer can understate but not overstate.*)

\* word and n, said of the order that the broker's entry e records, still hold.
StillTrue(word, n, e) ==
    /\ n <= e.filled
    /\ word \notin LiveWords => e.word = word

NewsTrue ==
    /\ \A m \in msgs : m.kind \in Streams /\ StillTrue(m.word, m.filled, book[m.req])
    /\ \A t \in Tasks :
          /\ pc[t] = "sync" /\ reply[t].word \notin {"none", "error"} =>
                StillTrue(reply[t].word, reply[t].filled, book[call[t].req])
          /\ pc[t] = "cancel" /\ reply[t].word = "ok" =>
                book[call[t].req].word = "cancelled"
          /\ pc[t] = "cancel" /\ reply[t].word = "refused" => call[t].req \in refused

\* At first there is no news.
LEMMA NewsInit == Init => NewsTrue
BY DEF Init, NewsTrue

\* What held of an entry holds of a later one.
LEMMA StaysTrue ==
    ASSUME IInv, BookAdvances, NEW r \in Requests, book'[r] \in Entry,
           NEW word, NEW n \in Nat, StillTrue(word, n, book[r]), word # "absent"
    PROVE  StillTrue(word, n, book'[r])
<1>1. book[r].filled \in Nat /\ book'[r].filled \in Nat
  BY DEF IInv, Shapes, Entry
<1>2. n <= book'[r].filled
  BY <1>1 DEF BookAdvances, StillTrue
<1>3. word \notin LiveWords => book'[r].word = word
  BY DEF BookAdvances, StillTrue
<1>4. QED
  BY <1>2, <1>3 DEF StillTrue

\* What the broker declined stays declined.
LEMMA RefusedStay == ASSUME [Next]_vars PROVE refused \subseteq refused'
BY DEF Next, vars, BrokerAnswers, BrokerDeclines

\* News stays true as the book advances, and new news is the book itself.
LEMMA NewsStep == IInv /\ NewsTrue /\ [Next]_vars => NewsTrue'
<1> SUFFICES ASSUME IInv, NewsTrue, [Next]_vars PROVE NewsTrue'
  OBVIOUS
<1>1. BookAdvances /\ IInv'
  BY BookStep, IStep
<1>2. \A r \in Requests : book'[r] \in Entry
  BY <1>1 DEF IInv, Shapes
<1>3. ASSUME \A u \in Tasks : \/ reply'[u] = NoReply
                              \/ pc'[u] = pc[u] /\ call'[u] = call[u] /\ reply'[u] = reply[u]
                              \/ /\ pc'[u] = pc[u] /\ call'[u] = call[u]
                                 /\ pc[u] = "sync" /\ reply'[u].word \notin {"none", "error"}
                                    => StillTrue(reply'[u].word, reply'[u].filled,
                                                 book'[call[u].req])
                                 /\ pc[u] = "cancel" /\ reply'[u].word = "ok" =>
                                       book'[call[u].req].word = "cancelled"
                                 /\ pc[u] = "cancel" /\ reply'[u].word = "refused" =>
                                       call[u].req \in refused',
             \A m \in msgs' \ msgs : /\ m.kind \in Streams
                                      /\ StillTrue(m.word, m.filled, book'[m.req])
      PROVE  NewsTrue'
  <2>1. \A m \in msgs' : m.kind \in Streams /\ StillTrue(m.word, m.filled, book'[m.req])
    <3>1. ASSUME NEW m \in msgs
          PROVE  m.kind \in Streams /\ StillTrue(m.word, m.filled, book'[m.req])
      <4>1. m.req \in Requests /\ m.word # "absent" /\ m.filled \in Nat
        BY DEF IInv, Shapes, Message, BrokerWords, LiveWords, DeadWords
      <4>2. QED
        BY <1>1, <1>2, <4>1, StaysTrue DEF NewsTrue
    <3>2. QED
      BY <1>3, <3>1
  <2>2. ASSUME NEW u \in Tasks, pc'[u] = "sync", reply'[u].word \notin {"none", "error"}
        PROVE  StillTrue(reply'[u].word, reply'[u].filled, book'[call'[u].req])
    <3>1. CASE pc'[u] = pc[u] /\ call'[u] = call[u] /\ reply'[u] = reply[u]
      <4>1. /\ call[u].req \in Requests /\ reply[u].word # "absent"
            /\ reply[u].filled \in Nat
        BY <2>2, <3>1 DEF IInv, Shapes, LabelsFit, Reply, BrokerWords, LiveWords, DeadWords
      <4>2. StillTrue(reply[u].word, reply[u].filled, book[call[u].req])
        BY <2>2, <3>1 DEF NewsTrue
      <4>3. QED
        BY <1>1, <1>2, <3>1, <4>1, <4>2, StaysTrue
    <3>2. QED
      BY <1>3, <2>2, <3>1 DEF NoReply
  <2>3. ASSUME NEW u \in Tasks, pc'[u] = "cancel", reply'[u].word = "ok"
        PROVE  book'[call'[u].req].word = "cancelled"
    <3>1. CASE pc'[u] = pc[u] /\ call'[u] = call[u] /\ reply'[u] = reply[u]
      <4>1. call[u].req \in Requests
        BY <2>3, <3>1 DEF IInv, LabelsFit
      <4>2. QED
        BY <1>1, <2>3, <3>1, <4>1 DEF NewsTrue, BookAdvances, LiveWords
    <3>2. QED
      BY <1>3, <2>3, <3>1 DEF NoReply
  <2>4. ASSUME NEW u \in Tasks, pc'[u] = "cancel", reply'[u].word = "refused"
        PROVE  call'[u].req \in refused'
    BY <1>3, <2>4, RefusedStay DEF NewsTrue, NoReply
  <2>5. QED
    BY <2>1, <2>2, <2>3, <2>4 DEF NewsTrue
<1>4. ASSUME NEW t \in Tasks, NewCall(t) \/ Step(t)
      PROVE  NewsTrue'
  BY <1>3, <1>4, CallFrame
<1>5. ASSUME NEW t \in Tasks, BrokerObeys(t)
      PROVE  NewsTrue'
  <2>1. UNCHANGED <<pc, call, msgs>>
    BY <1>5 DEF BrokerObeys
  <2>2. QED
    BY <1>3, <1>5, <2>1, ObeysEffect
<1>6. ASSUME NEW t \in Tasks, BrokerRefuses(t) \/ BrokerReports(t) \/ BrokerDeclines(t)
      PROVE  NewsTrue'
  <2>1. /\ UNCHANGED <<pc, call, msgs, book>>
        /\ \A u \in Tasks \ {t} : reply'[u] = reply[u]
        /\ \/ reply'[t].word = "error"
           \/ BrokerDeclines(t) /\ reply'[t].word = "refused" /\ call[t].req \in refused'
           \/ BrokerReports(t)
        /\ BrokerReports(t) => pc[t] = "sync"
        /\ BrokerDeclines(t) => pc[t] = "cancel"
    BY <1>6 DEF BrokerRefuses, BrokerReports, BrokerDeclines, Answer, IInv, Shapes
  <2>2. BrokerReports(t) => StillTrue(reply'[t].word, reply'[t].filled, book[call[t].req])
    <3>1. ASSUME BrokerReports(t)
          PROVE  /\ reply'[t].word = book[call[t].req].word
                 /\ reply'[t].filled = book[call[t].req].filled
                 /\ book[call[t].req].filled \in Nat
      BY <3>1 DEF BrokerReports, Answer, IInv, Shapes, LabelsFit, Entry
    <3>2. QED
      BY <3>1 DEF StillTrue
  <2>3. QED
    BY <1>3, <2>1, <2>2
<1>7. ASSUME NEW r \in Requests, BrokerMoves(r)
      PROVE  NewsTrue'
  <2>1. book'[r].filled \in Nat
    BY <1>2 DEF Entry
  <2>2. \A m \in msgs' \ msgs : m.kind \in Streams /\ StillTrue(m.word, m.filled, book'[m.req])
    BY <1>7, <2>1, MovesEffect DEF StillTrue
  <2>3. QED
    BY <1>3, <1>7, <2>2, MovesEffect
<1>8. CASE Deliver
  BY <1>3, <1>8 DEF Deliver, HandleOrderUpdate, HandleTradeEvent
<1>9. CASE UNCHANGED vars
  BY <1>3, <1>9 DEF vars
<1>10. QED
  BY <1>4, <1>5, <1>6, <1>7, <1>8, <1>9 DEF Next, BrokerAnswers

\* What the local order of r may claim of the broker's, which declined to cancel some.
Mirrors(r, o, e, declined) ==
    /\ o.status = "CANCELLED" => e.word = "cancelled" \/ r \in declined
    /\ o.status = "EXPIRED" => e.word = "expired"
    /\ "trade" \notin Streams =>
          /\ o.filled <= e.filled
          /\ o.status = "FILLED" => e.word \in {"filled", "completed"}

OrdersMirror == \A r \in Requests : Mirrors(r, orders[r], book[r], refused)

\* A claim that held of an entry holds of a later one.
LEMMA StillMirrors ==
    ASSUME IInv, BookAdvances, NEW r \in Requests, book'[r] \in Entry,
           NEW o \in Order, Mirrors(r, o, book[r], refused)
    PROVE  Mirrors(r, o, book'[r], refused)
<1>1. /\ book[r].filled \in Nat /\ book'[r].filled \in Nat /\ o.filled \in Nat
      /\ book[r].filled <= book'[r].filled
  BY DEF IInv, Shapes, Entry, Order, BookAdvances
<1>2. book[r].word \in {"cancelled", "expired", "filled", "completed"} =>
        book'[r].word = book[r].word
  BY DEF BookAdvances, LiveWords
<1>3. QED
  BY <1>1, <1>2 DEF Mirrors

\* The status _map_broker_status gives to what still holds is such a claim.
LEMMA NewsMirrors ==
    ASSUME NEW r, NEW o, NEW e, NEW word, NEW n, NEW declined,
           StillTrue(word, n, e), o.status = MapBrokerStatus(word), o.filled = n
    PROVE  Mirrors(r, o, e, declined)
BY DEF StillTrue, MapBrokerStatus, Mirrors, LiveWords

\* Every write to an order is a claim that the news, or the executor itself,
\* justifies; every other step leaves the claims standing.
LEMMA MirrorStep == IInv /\ NewsTrue /\ OrdersMirror /\ [Next]_vars => OrdersMirror'
<1> SUFFICES ASSUME IInv, NewsTrue, OrdersMirror, [Next]_vars PROVE OrdersMirror'
  OBVIOUS
<1>1. BookAdvances /\ IInv'
  BY BookStep, IStep
<1>2. \A r \in Requests : /\ book[r] \in Entry /\ book'[r] \in Entry
                          /\ orders[r] \in Order /\ orders'[r] \in Order
  BY <1>1 DEF IInv, Shapes
<1>3. \A r \in Requests : orders'[r] = orders[r] => Mirrors(r, orders'[r], book'[r], refused)
  BY <1>1, <1>2, StillMirrors DEF OrdersMirror
<1> USE RefusedStay
<1>4. CASE UNCHANGED orders
  BY <1>3, <1>4 DEF OrdersMirror, Mirrors
<1>5. ASSUME NEW r \in Requests, \A q \in Requests \ {r} : orders'[q] = orders[q],
             Mirrors(r, orders'[r], book'[r], refused)
      PROVE  OrdersMirror'
  BY <1>3, <1>5 DEF OrdersMirror, Mirrors
<1>6. ASSUME NEW t \in Tasks, Step(t)
      PROVE  OrdersMirror'
  <2> DEFINE r == call[t].req
  <2>1. UNCHANGED book /\ pc[t] # "idle" => r \in Requests
    BY <1>6, CallFrame DEF IInv, LabelsFit
  <2>2. CASE RiskApproved(t)
    <3>1. r \in Requests /\ orders' = [orders EXCEPT ![r] =
              [NoOrder EXCEPT !.status = "PENDING", !.quantity = QtyOf[r]]]
      BY <2>2 DEF RiskApproved, IInv, LabelsFit
    <3>2. orders'[r].status = "PENDING" /\ orders'[r].filled = 0
      BY <3>1 DEF NoOrder, IInv, Shapes
    <3>3. book'[r].filled \in Nat
      BY <1>2, <3>1 DEF Entry
    <3>4. Mirrors(r, orders'[r], book'[r], refused)
      BY <3>2, <3>3 DEF Mirrors
    <3>5. QED
      BY <1>5, <3>1, <3>4 DEF IInv, Shapes
  <2>3. CASE PlaceSubmitted(t) \/ PlaceFailed(t)
    <3>1. /\ r \in Requests
          /\ \A q \in Requests \ {r} : orders'[q] = orders[q]
          /\ orders'[r].status \in {"SUBMITTED", "REJECTED"}
          /\ orders'[r].filled = orders[r].filled
      BY <1>2, <2>3 DEF PlaceSubmitted, PlaceFailed, IInv, LabelsFit, Shapes, Order
    <3>2. Mirrors(r, orders'[r], book[r], refused)
      BY <3>1 DEF OrdersMirror, Mirrors
    <3>3. book'[r] = book[r]
      BY <1>6, CallFrame
    <3>4. QED
      BY <1>5, <3>1, <3>2, <3>3
  <2>4. CASE CancelAnswered(t)
    <3>1. /\ r \in Requests /\ pc[t] = "cancel" /\ reply[t].word \in {"ok", "refused"}
          /\ \A q \in Requests \ {r} : orders'[q] = orders[q]
          /\ orders'[r].status = "CANCELLED"
          /\ orders'[r].filled = orders[r].filled
      BY <1>2, <2>4 DEF CancelAnswered, IInv, LabelsFit, Shapes, Order
    <3>2. book[r].word = "cancelled" \/ r \in refused
      BY <3>1 DEF NewsTrue
    <3>3. Mirrors(r, orders'[r], book[r], refused)
      BY <3>1, <3>2 DEF OrdersMirror, Mirrors
    <3>4. book'[r] = book[r]
      BY <1>6, CallFrame
    <3>5. QED
      BY <1>5, <3>1, <3>3, <3>4
  <2>5. CASE ModifyConfirmed(t)
    <3>1. r \in Requests
      BY <2>5 DEF ModifyConfirmed, IInv, LabelsFit
    <3>2. PICK n, b : orders' = [orders EXCEPT ![r].quantity = n, ![r].trigger = b]
      BY <2>5 DEF ModifyConfirmed
    <3>3. /\ \A q \in Requests \ {r} : orders'[q] = orders[q]
          /\ orders'[r].status = orders[r].status
          /\ orders'[r].filled = orders[r].filled
      BY <1>2, <3>1, <3>2 DEF IInv, Shapes, Order
    <3>4. Mirrors(r, orders'[r], book[r], refused)
      BY <3>1, <3>3 DEF OrdersMirror, Mirrors
    <3>5. book'[r] = book[r]
      BY <1>6, CallFrame
    <3>6. QED
      BY <1>5, <3>1, <3>3, <3>4, <3>5
  <2>6. CASE SyncAnswered(t)
    <3>1. r \in Requests /\ pc[t] = "sync" /\ reply[t].word # "none"
      BY <2>6 DEF SyncAnswered, IInv, LabelsFit
    <3>2. CASE reply[t].word = "error"
      BY <1>4, <2>6, <3>2 DEF SyncAnswered
    <3>3. CASE reply[t].word # "error"
      <4>1. orders' = [orders EXCEPT ![r].status = MapBrokerStatus(reply[t].word),
                                     ![r].filled = reply[t].filled]
        BY <2>6, <3>3 DEF SyncAnswered
      <4>2. /\ \A q \in Requests \ {r} : orders'[q] = orders[q]
            /\ orders'[r].status = MapBrokerStatus(reply[t].word)
            /\ orders'[r].filled = reply[t].filled
        BY <1>2, <3>1, <4>1 DEF IInv, Shapes, Order
      <4>3. Mirrors(r, orders'[r], book[r], refused)
        BY <3>1, <3>3, <4>2, NewsMirrors DEF NewsTrue
      <4>4. book'[r] = book[r]
        BY <1>6, CallFrame
      <4>5. QED
        BY <1>5, <3>1, <4>2, <4>3, <4>4
    <3>4. QED
      BY <3>2, <3>3
  <2>7. QED
    BY <1>4, <1>6, <2>2, <2>3, <2>4, <2>5, <2>6
       DEF Step, Wake, RiskRefused, Published, ChangeFailed
<1>7. ASSUME NEW t \in Tasks, NewCall(t) \/ BrokerAnswers(t)
      PROVE  UNCHANGED orders
  BY <1>7 DEF NewCall, PlaceOrder, SyncOrderStatus, CancelOrder, ModifyOrder,
              BrokerAnswers, BrokerObeys, BrokerRefuses, BrokerReports, BrokerDeclines
<1>8. ASSUME NEW r \in Requests, BrokerMoves(r)
      PROVE  UNCHANGED orders
  BY <1>8, MovesEffect
<1>9. ASSUME NEW m \in msgs, HandleOrderUpdate(m) \/ HandleTradeEvent(m)
      PROVE  OrdersMirror'
  <2>1. m.req \in Requests /\ m.kind \in Streams
    BY DEF IInv, Shapes, Message, NewsTrue
  <2>2. UNCHANGED book
    BY <1>9 DEF HandleOrderUpdate, HandleTradeEvent
  <2>3. CASE HandleOrderUpdate(m)
    <3>1. CASE ~orders[m.req].known
      BY <1>4, <2>3, <3>1 DEF HandleOrderUpdate
    <3>2. CASE orders[m.req].known
      <4>1. orders' = [orders EXCEPT ![m.req].status = MapBrokerStatus(m.word),
                                     ![m.req].filled = m.filled]
        BY <2>3, <3>2 DEF HandleOrderUpdate
      <4>2. /\ \A q \in Requests \ {m.req} : orders'[q] = orders[q]
            /\ orders'[m.req].status = MapBrokerStatus(m.word)
            /\ orders'[m.req].filled = m.filled
        BY <1>2, <2>1, <4>1 DEF IInv, Shapes, Order
      <4>3. Mirrors(m.req, orders'[m.req], book'[m.req], refused)
        BY <2>2, <4>2, NewsMirrors DEF NewsTrue
      <4>4. QED
        BY <1>5, <2>1, <4>2, <4>3
    <3>3. QED
      BY <3>1, <3>2
  <2>4. CASE HandleTradeEvent(m)
    <3>1. CASE ~Stored(m.req)
      BY <1>4, <2>4, <3>1 DEF HandleTradeEvent
    <3>2. CASE Stored(m.req)
      <4> DEFINE n == orders[m.req].filled + 1
                 v == IF n >= orders[m.req].quantity THEN "FILLED" ELSE orders[m.req].status
      <4>1. orders' = [orders EXCEPT ![m.req].filled = n, ![m.req].status = v]
        BY <1>2, <2>1, <2>4, <3>2 DEF HandleTradeEvent, IInv, Shapes, Order
      <4>2. v \in {"FILLED", orders[m.req].status}
        OBVIOUS
      <4> HIDE DEF n, v
      <4>3. PICK f, w : /\ w \in {"FILLED", orders[m.req].status}
                        /\ orders' = [orders EXCEPT ![m.req].filled = f, ![m.req].status = w]
        BY <4>1, <4>2
      <4>4. /\ \A q \in Requests \ {m.req} : orders'[q] = orders[q]
            /\ orders'[m.req].status \in {"FILLED", orders[m.req].status}
        BY <1>2, <2>1, <4>3 DEF IInv, Shapes, Order
      <4>5. "trade" \in Streams
        BY <2>1, <2>4 DEF HandleTradeEvent
      <4>6. Mirrors(m.req, orders'[m.req], book'[m.req], refused)
        BY <2>1, <2>2, <4>4, <4>5 DEF OrdersMirror, Mirrors
      <4>7. QED
        BY <1>5, <2>1, <4>4, <4>6
    <3>3. QED
      BY <3>1, <3>2
  <2>5. QED
    BY <1>9, <2>3, <2>4
<1>10. QED
  BY <1>4, <1>6, <1>7, <1>8, <1>9 DEF Next, Deliver, vars

\* News is true and orders mirror the book in every reachable state.
LEMMA MirrorInductive == Spec => [](NewsTrue /\ OrdersMirror)
<1>1. Init => NewsTrue /\ OrdersMirror
  BY NewsInit DEF Init, OrdersMirror, Mirrors, NoOrder, NoEntry
<1>2. QED
  BY <1>1, Inductive, NewsStep, MirrorStep, PTL DEF Spec

\* CANCELLED and EXPIRED are never shown of an order that is still open, however
\* cancel_order, sync_order_status and late messages race, but for a cancellation that
\* the broker refused.
THEOREM ClosedStaysClosed == Spec => []ClosedIsClosed
<1>1. OrdersMirror => ClosedIsClosed
  BY DEF OrdersMirror, Mirrors, ClosedIsClosed
<1>2. QED
  BY <1>1, MirrorInductive, PTL

\* With snapshots alone the executor never counts a fill the broker has not made.
THEOREM FillsCorrect == Spec => []FillsNotOverstated
<1>1. OrdersMirror => FillsNotOverstated
  BY DEF OrdersMirror, Mirrors, FillsNotOverstated
<1>2. QED
  BY <1>1, MirrorInductive, PTL

-----------------------------------------------------------------------------
(* The lock of an order.                                                    *)

\* LockDiscipline, told of tasks and requests rather than of held locks.
LocksFit ==
    /\ \A u \in Tasks : Inside(u) => locks[call[u].req] = u
    /\ \A r \in Requests, u \in Tasks : locks[r] = u => Inside(u) /\ call[u].req = r

\* A task other than t keeps its place and, inside, its call.
OthersStay(t) ==
    \A u \in Tasks \ {t} : (Inside(u)' <=> Inside(u)) /\ (Inside(u) => call'[u] = call[u])

\* t stays outside, or stays inside, and no lock changes hands.
LEMMA LocksKept ==
    ASSUME LocksFit, NEW t, OthersStay(t), UNCHANGED locks,
           t \in Tasks => (Inside(t)' <=> Inside(t)) /\ (Inside(t) => call'[t] = call[t])
    PROVE  LocksFit'
<1>1. \A u \in Tasks : (Inside(u)' <=> Inside(u)) /\ (Inside(u) => call'[u] = call[u])
  BY DEF OthersStay
<1>2. QED
  BY <1>1 DEF LocksFit

\* t takes the free lock of r.
LEMMA LockTaken ==
    ASSUME IInv, LocksFit, NEW t \in Tasks, OthersStay(t), ~Inside(t), Inside(t)',
           NEW r \in Requests, locks[r] = None, locks' = [locks EXCEPT ![r] = t],
           call'[t].req = r
    PROVE  LocksFit'
<1>1. locks'[r] = t /\ \A q \in Requests \ {r} : locks'[q] = locks[q]
  BY DEF IInv, Shapes
<1>2. ASSUME NEW u \in Tasks, Inside(u)'
      PROVE  locks'[call'[u].req] = u
  <2>1. CASE u = t
    BY <1>1, <2>1
  <2>2. CASE u # t
    <3>1. Inside(u) /\ call'[u] = call[u] /\ locks[call[u].req] = u
      BY <1>2, <2>2 DEF OthersStay, LocksFit
    <3>2. call[u].req \in Requests /\ u # None
      BY <3>1, ConstantsOK DEF Inside, IInv, LabelsFit
    <3>3. QED
      BY <1>1, <3>1, <3>2
  <2>3. QED
    BY <2>1, <2>2
<1>3. ASSUME NEW q \in Requests, NEW u \in Tasks, locks'[q] = u
      PROVE  Inside(u)' /\ call'[u].req = q
  BY <1>1, <1>3 DEF LocksFit, OthersStay
<1>4. QED
  BY <1>2, <1>3 DEF LocksFit

\* t leaves, and with it the lock of its request.
LEMMA LockFreed ==
    ASSUME IInv, LocksFit, NEW t \in Tasks, OthersStay(t), Inside(t), ~Inside(t)',
           locks' = [locks EXCEPT ![call[t].req] = None]
    PROVE  LocksFit'
<1>1. /\ call[t].req \in Requests /\ locks[call[t].req] = t
      /\ locks'[call[t].req] = None
      /\ \A q \in Requests \ {call[t].req} : locks'[q] = locks[q]
  BY DEF Inside, IInv, Shapes, LabelsFit, LocksFit
<1>2. ASSUME NEW u \in Tasks, Inside(u)'
      PROVE  locks'[call'[u].req] = u
  <2>1. u # t /\ Inside(u) /\ call'[u] = call[u] /\ locks[call[u].req] = u
    BY <1>2 DEF OthersStay, LocksFit
  <2>2. call[u].req \in Requests
    BY <2>1 DEF Inside, IInv, LabelsFit
  <2>3. QED
    BY <1>1, <2>1, <2>2
<1>3. ASSUME NEW q \in Requests, NEW u \in Tasks, locks'[q] = u
      PROVE  Inside(u)' /\ call'[u].req = q
  <2>1. q # call[t].req /\ locks[q] = u /\ Inside(u) /\ call[u].req = q
    BY <1>1, <1>3, ConstantsOK DEF LocksFit
  <2>2. u # t
    BY <2>1
  <2>3. QED
    BY <2>1, <2>2 DEF OthersStay
<1>4. QED
  BY <1>2, <1>3 DEF LocksFit

\* Every step takes a free lock, frees its own, or leaves the locks alone.
LEMMA LocksStep == IInv /\ LocksFit /\ [Next]_vars => LocksFit'
<1> SUFFICES ASSUME IInv, LocksFit, [Next]_vars PROVE LocksFit'
  OBVIOUS
<1>1. CASE UNCHANGED <<locks, pc, call>>
  BY <1>1, LocksKept DEF OthersStay, Inside
<1>2. ASSUME NEW t \in Tasks, NewCall(t) \/ Step(t)
      PROVE  OthersStay(t)
  BY <1>2, CallFrame DEF OthersStay, Inside
<1>3. ASSUME NEW t \in Tasks, NEW c \in Call, c.req \in Requests,
             c.op \in {"place", "cancel", "modify"}, pc[t] \in {"idle", "wait"},
             AcquireLock(t, c) \/ (locks[c.req] = None /\ Enter(t, c)),
             OthersStay(t)
      PROVE  LocksFit'
  <2>1. ~Inside(t)
    BY <1>3 DEF Inside
  <2>2. CASE pc' = [pc EXCEPT ![t] = FirstAwait(c.op)] /\ call' = [call EXCEPT ![t] = c]
             /\ locks[c.req] = None /\ locks' = [locks EXCEPT ![c.req] = t]
    <3>1. Inside(t)' /\ call'[t].req = c.req
      BY <1>3, <2>2 DEF Inside, FirstAwait, IInv, Shapes
    <3>2. QED
      BY <1>3, <2>1, <2>2, <3>1, LockTaken
  <2>3. CASE pc'[t] \in {"idle", "wait"} /\ locks' = locks
    BY <1>3, <2>1, <2>3, LocksKept DEF Inside
  <2>4. \/ /\ pc' = [pc EXCEPT ![t] = FirstAwait(c.op)] /\ call' = [call EXCEPT ![t] = c]
           /\ locks[c.req] = None /\ locks' = [locks EXCEPT ![c.req] = t]
        \/ pc'[t] \in {"idle", "wait"} /\ locks' = locks
    BY <1>3, AcquireEffect DEF IInv, Shapes
  <2>5. QED
    BY <2>2, <2>3, <2>4
<1>4. ASSUME NEW t \in Tasks, NewCall(t)
      PROVE  LocksFit'
  <2>1. PICK r \in Requests :
          \/ PlaceOrder(t, r)
          \/ SyncOrderStatus(t, r)
          \/ \E mine \in BOOLEAN :
                \/ CancelOrder(t, r, mine)
                \/ \E q \in NewQtys, trigger \in BOOLEAN : ModifyOrder(t, r, mine, q, trigger)
    BY <1>4 DEF NewCall
  <2>2. CASE SyncOrderStatus(t, r)
    <3>1. ~Inside(t) /\ ~Inside(t)' /\ UNCHANGED locks
      BY <2>2 DEF SyncOrderStatus, Inside, IInv, Shapes
    <3>2. QED
      BY <1>2, <1>4, <3>1, LocksKept
  <2>3. CASE UNCHANGED <<locks, pc, call>>
    BY <1>1, <2>3
  <2>4. ASSUME NEW c \in Call, AcquireLock(t, c), pc[t] = "idle", c.req \in Requests,
               c.op \in {"place", "cancel", "modify"}
        PROVE  LocksFit'
    BY <1>2, <1>3, <1>4, <2>4
  <2>5. CASE PlaceOrder(t, r)
    <3> DEFINE c == [NoCall EXCEPT !.op = "place", !.req = r]
    <3>1. c \in Call /\ c.req = r /\ c.op = "place"
      BY DEF NoCall, Call
    <3>2. pc[t] = "idle" /\ (AcquireLock(t, c) \/ UNCHANGED <<locks, pc, call>>)
      BY <2>5 DEF PlaceOrder
    <3> HIDE DEF c
    <3>3. QED
      BY <2>3, <2>4, <3>1, <3>2
  <2>6. ASSUME NEW mine \in BOOLEAN, CancelOrder(t, r, mine)
        PROVE  LocksFit'
    <3> DEFINE c == [NoCall EXCEPT !.op = "cancel", !.req = r, !.mine = mine]
    <3>1. c \in Call /\ c.req = r /\ c.op = "cancel"
      BY DEF NoCall, Call
    <3>2. pc[t] = "idle" /\ AcquireLock(t, c)
      BY <2>6 DEF CancelOrder
    <3> HIDE DEF c
    <3>3. QED
      BY <2>4, <3>1, <3>2
  <2>7. ASSUME NEW mine \in BOOLEAN, NEW q \in NewQtys, NEW trigger \in BOOLEAN,
               ModifyOrder(t, r, mine, q, trigger)
        PROVE  LocksFit'
    <3> DEFINE c == [op |-> "modify", req |-> r, mine |-> mine, quantity |-> q,
                     trigger |-> trigger]
    <3>1. c \in Call /\ c.req = r /\ c.op = "modify"
      BY ConstantsOK DEF Call
    <3>2. pc[t] = "idle" /\ AcquireLock(t, c)
      BY <2>7 DEF ModifyOrder
    <3> HIDE DEF c
    <3>3. QED
      BY <2>4, <3>1, <3>2
  <2>8. QED
    BY <2>1, <2>2, <2>5, <2>6, <2>7
<1>5. ASSUME NEW t \in Tasks, Step(t)
      PROVE  LocksFit'
  <2>1. CASE Wake(t)
    <3>1. /\ call[t] \in Call /\ call[t].req \in Requests /\ pc[t] = "wait"
          /\ call[t].op \in {"place", "cancel", "modify"}
          /\ locks[call[t].req] = None /\ Enter(t, call[t])
      BY <2>1 DEF Wake, IInv, Shapes, LabelsFit
    <3>2. QED
      BY <1>2, <1>3, <1>5, <3>1
  <2>2. CASE SyncAnswered(t)
    <3>1. ~Inside(t) /\ ~Inside(t)' /\ UNCHANGED locks
      BY <2>2 DEF SyncAnswered, Inside, IInv, Shapes
    <3>2. QED
      BY <1>2, <1>5, <3>1, LocksKept
  <2>3. CASE Inside(t) /\ Return(t)
    <3>1. ~Inside(t)' /\ locks' = [locks EXCEPT ![call[t].req] = None]
      BY <2>3 DEF Return, Inside, IInv, Shapes
    <3>2. QED
      BY <1>2, <1>5, <2>3, <3>1, LockFreed
  <2>4. CASE Inside(t) /\ \E label \in {"submit", "publish", "published"} : Goto(t, label)
    <3>1. Inside(t)' /\ UNCHANGED <<locks, call>>
      BY <2>4 DEF Goto, Inside, IInv, Shapes
    <3>2. QED
      BY <1>2, <1>5, <2>4, <3>1, LocksKept
  <2>5. QED
    BY <1>5, <2>1, <2>2, <2>3, <2>4
       DEF Step, Inside, RiskRefused, RiskApproved, PlaceSubmitted, PlaceFailed, Published,
           CancelAnswered, ModifyConfirmed, ChangeFailed
<1>6. ASSUME NEW t \in Tasks, BrokerAnswers(t)
      PROVE  UNCHANGED <<locks, pc, call>>
  BY <1>6 DEF BrokerAnswers, BrokerObeys, BrokerRefuses, BrokerReports, BrokerDeclines
<1>7. ASSUME NEW r \in Requests, BrokerMoves(r)
      PROVE  UNCHANGED <<locks, pc, call>>
  BY <1>7, MovesEffect
<1>8. CASE Deliver
  BY <1>1, <1>8 DEF Deliver, HandleOrderUpdate, HandleTradeEvent
<1>9. QED
  BY <1>1, <1>4, <1>5, <1>6, <1>7, <1>8 DEF Next, vars

\* A coroutine inside a call holds the lock of its order and nothing else does:
\* no early return, exception or failed broker call leaks a lock.
THEOREM LocksCorrect == Spec => []LockDiscipline
<1>1. Init => LocksFit
  BY ConstantsOK DEF Init, LocksFit, Inside
<1>2. IInv /\ LocksFit => LockDiscipline
  BY DEF IInv, Shapes, LocksFit, LockDiscipline
<1>3. QED
  BY <1>1, <1>2, Inductive, LocksStep, PTL DEF Spec

-----------------------------------------------------------------------------
(* The idempotency cache.                                                   *)

\* What a step may do to the cache: only RiskApproved writes it, the key of the
\* request it stores.
LEMMA CacheEffect ==
    ASSUME IInv, [Next]_vars
    PROVE  \/ idempotencyCache' = idempotencyCache
           \/ \E t \in Tasks : /\ RiskApproved(t) /\ call[t].req \in Requests
                              /\ KeyOf[call[t].req] \in Keys
                              /\ idempotencyCache' =
                                   [idempotencyCache EXCEPT ![KeyOf[call[t].req]] = call[t].req]
<1>1. ASSUME NEW t \in Tasks, RiskApproved(t), idempotencyCache' # idempotencyCache
      PROVE  /\ call[t].req \in Requests
             /\ KeyOf[call[t].req] \in Keys
             /\ idempotencyCache' =
                  [idempotencyCache EXCEPT ![KeyOf[call[t].req]] = call[t].req]
  BY <1>1, ConstantsOK DEF RiskApproved, IInv, LabelsFit
<1>2. ASSUME NEW t \in Tasks, NewCall(t) \/ BrokerAnswers(t) \/ (Step(t) /\ ~RiskApproved(t))
      PROVE  UNCHANGED idempotencyCache
  BY <1>2 DEF NewCall, PlaceOrder, SyncOrderStatus, CancelOrder, ModifyOrder, BrokerAnswers,
       BrokerObeys, BrokerRefuses, BrokerReports, BrokerDeclines, Step, Wake, RiskRefused, PlaceSubmitted,
       PlaceFailed, Published, CancelAnswered, ModifyConfirmed, ChangeFailed, SyncAnswered
<1>3. ASSUME NEW r \in Requests, BrokerMoves(r)
      PROVE  UNCHANGED idempotencyCache
  BY <1>3, MovesEffect
<1>4. CASE Deliver
  BY <1>4 DEF Deliver, HandleOrderUpdate, HandleTradeEvent
<1>5. QED
  BY <1>1, <1>2, <1>3, <1>4 DEF Next, vars

\* No step removes an order from _orders.
LEMMA OrdersStay == IInv /\ [Next]_vars => \A r \in Requests : Stored(r) => Stored(r)'
<1> SUFFICES ASSUME IInv, [Next]_vars, NEW r \in Requests, Stored(r) PROVE Stored(r)'
  OBVIOUS
<1>1. orders[r] \in Order /\ orders[r].status # "ABSENT"
  BY DEF IInv, Shapes, Stored
<1>2. orders' = orders => Stored(r)'
  BY DEF Stored
<1>3. ASSUME NEW t \in Tasks, Step(t)
      PROVE  Stored(r)'
  <2>1. CASE RiskApproved(t)
    BY <1>1, <2>1 DEF RiskApproved, IInv, Shapes, NoOrder, Stored
  <2>2. CASE PlaceSubmitted(t) \/ PlaceFailed(t) \/ CancelAnswered(t) \/ ModifyConfirmed(t)
    <3>1. DOMAIN orders = Requests
      BY DEF IInv, Shapes
    <3>2. CASE PlaceSubmitted(t) \/ PlaceFailed(t)
      BY <1>1, <3>1, <3>2 DEF PlaceSubmitted, PlaceFailed, Order, Stored
    <3>3. CASE CancelAnswered(t) \/ ModifyConfirmed(t)
      BY <1>1, <3>1, <3>3 DEF CancelAnswered, ModifyConfirmed, Order, Stored
    <3>4. QED
      BY <2>2, <3>2, <3>3
  <2>3. CASE SyncAnswered(t)
    <3>1. MapBrokerStatus(reply[t].word) # "ABSENT"
      BY Records DEF OrderStatus
    <3>2. QED
      BY <1>1, <2>3, <3>1 DEF SyncAnswered, IInv, Shapes, Order, Stored
  <2>4. QED
    BY <1>2, <1>3, <2>1, <2>2, <2>3 DEF Step, Wake, RiskRefused, Published, ChangeFailed
<1>4. ASSUME NEW t \in Tasks, NewCall(t) \/ BrokerAnswers(t)
      PROVE  UNCHANGED orders
  BY <1>4 DEF NewCall, PlaceOrder, SyncOrderStatus, CancelOrder, ModifyOrder,
              BrokerAnswers, BrokerObeys, BrokerRefuses, BrokerReports, BrokerDeclines
<1>5. ASSUME NEW q \in Requests, BrokerMoves(q)
      PROVE  UNCHANGED orders
  BY <1>5, MovesEffect
<1>6. ASSUME NEW m \in msgs, HandleOrderUpdate(m) \/ HandleTradeEvent(m)
      PROVE  Stored(r)'
  <2>1. CASE HandleOrderUpdate(m)
    <3>1. MapBrokerStatus(m.word) # "ABSENT"
      BY Records DEF OrderStatus
    <3>2. CASE ~orders[m.req].known
      BY <1>2, <2>1, <3>2 DEF HandleOrderUpdate
    <3>3. CASE orders[m.req].known
      BY <1>1, <2>1, <3>1, <3>3 DEF HandleOrderUpdate, IInv, Shapes, Order, Stored
    <3>4. QED
      BY <3>2, <3>3
  <2>2. CASE HandleTradeEvent(m)
    BY <1>1, <2>2 DEF HandleTradeEvent, IInv, Shapes, Order, Stored
  <2>3. QED
    BY <1>6, <2>1, <2>2
<1>7. QED
  BY <1>2, <1>3, <1>4, <1>5, <1>6 DEF Next, Deliver, vars

\* A cached order was stored in the step that cached it.
THEOREM CacheCorrect == Spec => []CacheNamesOrder
<1>1. Init => CacheNamesOrder
  BY DEF Init, CacheNamesOrder
<1>2. IInv /\ CacheNamesOrder /\ [Next]_vars => CacheNamesOrder'
  <2> SUFFICES ASSUME IInv, CacheNamesOrder, [Next]_vars, NEW k \in Keys,
                      idempotencyCache'[k] # None
               PROVE  /\ orders'[idempotencyCache'[k]].status # "ABSENT"
                      /\ KeyOf[idempotencyCache'[k]] = k
    BY DEF CacheNamesOrder, Stored
  <2>1. CASE idempotencyCache'[k] = idempotencyCache[k]
    <3>1. PICK r \in Requests : idempotencyCache[k] = r /\ Stored(r) /\ KeyOf[r] = k
      BY <2>1 DEF CacheNamesOrder, IInv, Shapes
    <3>2. orders'[r].status # "ABSENT"
      BY <3>1, OrdersStay DEF Stored
    <3>3. QED
      BY <2>1, <3>1, <3>2
  <2>2. CASE idempotencyCache'[k] # idempotencyCache[k]
    <3>1. PICK t \in Tasks : /\ RiskApproved(t) /\ call[t].req \in Requests
                            /\ KeyOf[call[t].req] \in Keys
                            /\ idempotencyCache' =
                                 [idempotencyCache EXCEPT ![KeyOf[call[t].req]] = call[t].req]
      BY <2>2, CacheEffect
    <3>2. KeyOf[call[t].req] = k /\ idempotencyCache'[k] = call[t].req
      BY <2>2, <3>1 DEF IInv, Shapes
    <3>3. orders'[call[t].req].status = "PENDING"
      BY <3>1 DEF RiskApproved, IInv, Shapes, NoOrder
    <3>4. QED
      BY <3>2, <3>3
  <2>3. QED
    BY <2>1, <2>2
<1>3. QED
  BY <1>1, <1>2, Inductive, PTL DEF Spec

\* By whom an order is at the broker, and what the cache has of it.
KeysFit ==
    /\ \A r \in Requests : book[r].by # None => book[r].word # "absent"
    /\ \A r \in Requests : book[r].by # None /\ KeyOf[r] # None => Cached(r)
    /\ \A t \in Tasks : pc[t] = "submit" /\ KeyOf[call[t].req] # None => Cached(call[t].req)
    /\ \A t \in Tasks : call[t].op = "place" =>
          \A s \in Requests \ {call[t].req} :
             SameKey(call[t].req, s) => book[s].by # t

\* No step takes a key out of the cache.
LEMMA CachedStays == IInv /\ [Next]_vars =>
    \A r \in Requests : Cached(r) => Cached(r)'
<1> SUFFICES ASSUME IInv, [Next]_vars, NEW r \in Requests, Cached(r) PROVE Cached(r)'
  OBVIOUS
<1>1. KeyOf[r] \in Keys /\ idempotencyCache[KeyOf[r]] # None
  BY ConstantsOK DEF Cached
<1>2. idempotencyCache'[KeyOf[r]] # None
  <2>1. ASSUME NEW t \in Tasks, call[t].req \in Requests, KeyOf[call[t].req] \in Keys,
               idempotencyCache' =
                 [idempotencyCache EXCEPT ![KeyOf[call[t].req]] = call[t].req]
        PROVE  idempotencyCache'[KeyOf[r]] # None
    BY <1>1, <2>1, ConstantsOK DEF IInv, Shapes
  <2>2. QED
    BY <1>1, <2>1, CacheEffect
<1>3. QED
  BY <1>1, <1>2 DEF Cached

\* Only an obeyed submission says by whom an order is at the broker.
LEMMA ByEffect ==
    ASSUME IInv, [Next]_vars
    PROVE  \/ \A r \in Requests : book'[r].by = book[r].by
           \/ \E t \in Tasks :
                 /\ pc[t] = "submit" /\ call[t].op = "place" /\ call[t].req \in Requests
                 /\ book'[call[t].req].by = t
                 /\ \A q \in Requests \ {call[t].req} : book'[q].by = book[q].by
                 /\ book'[call[t].req].word # "absent"
                 /\ UNCHANGED <<pc, call>>
<1>1. CASE UNCHANGED book
  BY <1>1
<1>2. ASSUME NEW t \in Tasks, NewCall(t) \/ Step(t)
      PROVE  UNCHANGED book
  BY <1>2, CallFrame
<1>3. ASSUME NEW t \in Tasks, BrokerObeys(t), pc[t] = "submit"
      PROVE  /\ call[t].op = "place" /\ call[t].req \in Requests
             /\ book'[call[t].req].by = t
             /\ \A q \in Requests \ {call[t].req} : book'[q].by = book[q].by
             /\ book'[call[t].req].word # "absent"
             /\ UNCHANGED <<pc, call>>
  <2>1. call[t].op = "place" /\ UNCHANGED <<pc, call>>
    BY <1>3 DEF IInv, LabelsFit, BrokerObeys
  <2>2. QED
    BY <1>3, <2>1, ObeysEffect
<1>4. ASSUME NEW t \in Tasks, BrokerObeys(t), pc[t] # "submit"
      PROVE  \A r \in Requests : book'[r].by = book[r].by
  BY <1>4, ObeysEffect
<1>5. ASSUME NEW t \in Tasks, BrokerRefuses(t) \/ BrokerReports(t) \/ BrokerDeclines(t)
      PROVE  UNCHANGED book
  BY <1>5 DEF BrokerRefuses, BrokerReports, BrokerDeclines
<1>6. ASSUME NEW q \in Requests, BrokerMoves(q)
      PROVE  \A r \in Requests : book'[r].by = book[r].by
  BY <1>6, MovesEffect
<1>7. CASE Deliver
  BY <1>1, <1>7 DEF Deliver, HandleOrderUpdate, HandleTradeEvent
<1>8. QED
  BY <1>1, <1>2, <1>3, <1>4, <1>5, <1>6, <1>7 DEF Next, BrokerAnswers, vars

\* A task that asks for a lock has its new call or none, and is not submitting.
LEMMA AcquireCall ==
    ASSUME IInv, NEW t \in Tasks, NEW c, AcquireLock(t, c),
           c.op \in {"place", "cancel", "modify"}
    PROVE  /\ call'[t] \in {c, NoCall}
           /\ pc'[t] # "submit"
BY DEF AcquireLock, Enter, FirstAwait, IInv, Shapes

\* A place_order a task is in after a step it was in before, or it has just found
\* its key not cached.
LEMMA PlaceEffect ==
    ASSUME IInv, [Next]_vars, NEW u \in Tasks, call'[u].op = "place"
    PROVE  \/ call'[u] = call[u]
           \/ ~Cached(call'[u].req) /\ call'[u].req \in Requests /\ UNCHANGED book
<1>1. CASE UNCHANGED call
  BY <1>1
<1>2. ASSUME NEW t \in Tasks, NewCall(t) \/ Step(t), t # u
      PROVE  call'[u] = call[u]
  BY <1>2, CallFrame
<1>3. CASE NewCall(u)
  <2>1. PICK r \in Requests :
          \/ PlaceOrder(u, r)
          \/ SyncOrderStatus(u, r)
          \/ \E mine \in BOOLEAN :
                \/ CancelOrder(u, r, mine)
                \/ \E q \in NewQtys, trigger \in BOOLEAN : ModifyOrder(u, r, mine, q, trigger)
    BY <1>3 DEF NewCall
  <2>2. CASE PlaceOrder(u, r)
    <3>1. CASE Cached(r)
      BY <2>2, <3>1 DEF PlaceOrder
    <3>2. CASE ~Cached(r)
      <4> DEFINE c == [NoCall EXCEPT !.op = "place", !.req = r]
      <4>1. c.op = "place" /\ c.req = r /\ NoCall.op = "none"
        BY DEF NoCall
      <4>2. AcquireLock(u, c)
        BY <2>2, <3>2 DEF PlaceOrder
      <4> HIDE DEF c
      <4>3. call'[u] = c
        BY <4>1, <4>2, AcquireCall
      <4>4. UNCHANGED <<idempotencyCache, book>>
        BY <2>2 DEF PlaceOrder
      <4>5. QED
        BY <3>2, <4>1, <4>3, <4>4
    <3>3. QED
      BY <3>1, <3>2
  <2>3. CASE SyncOrderStatus(u, r)
    BY <2>3 DEF SyncOrderStatus, NoCall, IInv, Shapes
  <2>4. ASSUME NEW mine \in BOOLEAN, CancelOrder(u, r, mine)
        PROVE  FALSE
    <3> DEFINE c == [NoCall EXCEPT !.op = "cancel", !.req = r, !.mine = mine]
    <3>1. c.op = "cancel" /\ NoCall.op = "none"
      BY DEF NoCall
    <3>2. AcquireLock(u, c)
      BY <2>4 DEF CancelOrder
    <3> HIDE DEF c
    <3>3. QED
      BY <3>1, <3>2, AcquireCall
  <2>5. ASSUME NEW mine \in BOOLEAN, NEW q \in NewQtys, NEW trigger \in BOOLEAN,
               ModifyOrder(u, r, mine, q, trigger)
        PROVE  FALSE
    <3> DEFINE c == [op |-> "modify", req |-> r, mine |-> mine, quantity |-> q,
                     trigger |-> trigger]
    <3>1. c.op = "modify" /\ NoCall.op = "none"
      BY DEF NoCall
    <3>2. AcquireLock(u, c)
      BY <2>5 DEF ModifyOrder
    <3> HIDE DEF c
    <3>3. QED
      BY <3>1, <3>2, AcquireCall
  <2>6. QED
    BY <2>1, <2>2, <2>3, <2>4, <2>5
<1>4. CASE Step(u)
  <2>1. call' = call \/ call'[u] = call[u] \/ call'[u] = NoCall
    BY <1>4 DEF Step, Wake, Enter, Return, Goto, RiskRefused, RiskApproved, PlaceSubmitted,
                PlaceFailed, Published, CancelAnswered, ModifyConfirmed, ChangeFailed,
                SyncAnswered, IInv, Shapes
  <2>2. QED
    BY <2>1 DEF NoCall
<1>5. ASSUME NEW t \in Tasks, BrokerAnswers(t)
      PROVE  UNCHANGED call
  BY <1>5 DEF BrokerAnswers, BrokerObeys, BrokerRefuses, BrokerReports, BrokerDeclines
<1>6. ASSUME NEW r \in Requests, BrokerMoves(r)
      PROVE  UNCHANGED call
  BY <1>6, MovesEffect
<1>7. CASE Deliver
  BY <1>1, <1>7 DEF Deliver, HandleOrderUpdate, HandleTradeEvent
<1>8. QED
  BY <1>1, <1>2, <1>3, <1>4, <1>5, <1>6, <1>7 DEF Next, vars

\* A task is at the broker's answer after a step if it was before, or if the step
\* stored and cached its request.
LEMMA SubmitEffect ==
    ASSUME IInv, [Next]_vars, NEW u \in Tasks, pc'[u] = "submit"
    PROVE  call'[u] = call[u] /\ (pc[u] = "submit" \/ RiskApproved(u))
<1>1. CASE UNCHANGED <<pc, call>>
  BY <1>1
<1>2. ASSUME NEW t \in Tasks, NewCall(t) \/ Step(t), t # u
      PROVE  call'[u] = call[u] /\ pc'[u] = pc[u]
  BY <1>2, CallFrame
<1>3. CASE NewCall(u)
  <2>1. pc[u] = "idle"
    BY <1>3 DEF NewCall, PlaceOrder, SyncOrderStatus, CancelOrder, ModifyOrder
  <2>2. ASSUME NEW r \in Requests, PlaceOrder(u, r)
        PROVE  FALSE
    <3>1. AcquireLock(u, [NoCall EXCEPT !.op = "place", !.req = r])
      BY <2>1, <2>2 DEF PlaceOrder
    <3>2. QED
      BY <3>1, AcquireCall DEF NoCall
  <2>3. ASSUME NEW r \in Requests, SyncOrderStatus(u, r)
        PROVE  FALSE
    BY <2>3 DEF SyncOrderStatus, IInv, Shapes
  <2>4. ASSUME NEW r \in Requests, NEW mine \in BOOLEAN, CancelOrder(u, r, mine)
        PROVE  FALSE
    <3>1. AcquireLock(u, [NoCall EXCEPT !.op = "cancel", !.req = r, !.mine = mine])
      BY <2>4 DEF CancelOrder
    <3>2. QED
      BY <3>1, AcquireCall DEF NoCall
  <2>5. ASSUME NEW r \in Requests, NEW mine \in BOOLEAN, NEW q \in NewQtys,
               NEW trigger \in BOOLEAN, ModifyOrder(u, r, mine, q, trigger)
        PROVE  FALSE
    <3>1. AcquireLock(u, [op |-> "modify", req |-> r, mine |-> mine, quantity |-> q,
                          trigger |-> trigger])
      BY <2>5 DEF ModifyOrder
    <3>2. QED
      BY <3>1, AcquireCall
  <2>6. QED
    BY <1>3, <2>2, <2>3, <2>4, <2>5 DEF NewCall
<1>4. CASE Step(u)
  BY <1>4 DEF Step, Wake, Enter, FirstAwait, Return, Goto, RiskRefused, RiskApproved,
              PlaceSubmitted, PlaceFailed, Published, CancelAnswered, ModifyConfirmed,
              ChangeFailed, SyncAnswered, IInv, Shapes, LabelsFit
<1>5. ASSUME NEW t \in Tasks, BrokerAnswers(t)
      PROVE  UNCHANGED <<pc, call>>
  BY <1>5 DEF BrokerAnswers, BrokerObeys, BrokerRefuses, BrokerReports, BrokerDeclines
<1>6. ASSUME NEW r \in Requests, BrokerMoves(r)
      PROVE  UNCHANGED <<pc, call>>
  BY <1>6, MovesEffect
<1>7. CASE Deliver
  BY <1>1, <1>7 DEF Deliver, HandleOrderUpdate, HandleTradeEvent
<1>8. QED
  BY <1>1, <1>2, <1>3, <1>4, <1>5, <1>6, <1>7 DEF Next, vars

\* What KeysFit says survives every step.
LEMMA KeysStep == IInv /\ KeysFit /\ [Next]_vars => KeysFit'
<1> SUFFICES ASSUME IInv, KeysFit, [Next]_vars PROVE KeysFit'
  OBVIOUS
<1>1. \A r \in Requests : Cached(r) => Cached(r)'
  BY CachedStays
<1>2. BookAdvances
  BY BookStep
<1>3. ASSUME NEW r \in Requests, book'[r].by # None
      PROVE  /\ book'[r].word # "absent"
             /\ KeyOf[r] # None => Cached(r)'
  <2>1. CASE book'[r].by = book[r].by
    BY <1>1, <1>2, <1>3, <2>1 DEF KeysFit, BookAdvances
  <2>2. CASE \E t \in Tasks : pc[t] = "submit" /\ call[t].req = r /\ book'[r].word # "absent"
    BY <1>1, <2>2 DEF KeysFit
  <2>3. QED
    BY <2>1, <2>2, ByEffect
<1>4. ASSUME NEW t \in Tasks, pc'[t] = "submit", KeyOf[call'[t].req] # None
      PROVE  KeyOf[call'[t].req] # None /\ idempotencyCache'[KeyOf[call'[t].req]] # None
  <2>1. PICK r \in Requests : r = call[t].req /\ call'[t] = call[t]
    BY <1>4, SubmitEffect, IStep DEF IInv, LabelsFit
  <2>2. CASE pc[t] = "submit"
    <3>1. Cached(r)
      BY <1>4, <2>1, <2>2 DEF KeysFit
    <3>2. Cached(r)'
      BY <1>1, <3>1
    <3>3. KeyOf[r] # None /\ idempotencyCache'[KeyOf[r]] # None
      BY <3>2 DEF Cached
    <3>4. QED
      BY <2>1, <3>3
  <2>3. CASE RiskApproved(t)
    <3>1. KeyOf[r] \in Keys /\ KeyOf[r] # None /\ r # None
      BY <1>4, <2>1, ConstantsOK
    <3>2. idempotencyCache'[KeyOf[r]] = r
      BY <2>1, <2>3, <3>1 DEF RiskApproved, IInv, Shapes
    <3>3. QED
      BY <2>1, <3>1, <3>2, ConstantsOK
  <2>4. QED
    BY <1>4, <2>2, <2>3, SubmitEffect
<1>5. ASSUME NEW t \in Tasks, call'[t].op = "place",
             NEW q \in Requests \ {call'[t].req}, SameKey(call'[t].req, q)
      PROVE  book'[q].by # t
  <2>1. CASE call'[t] = call[t]
    <3>1. book[q].by # t
      BY <1>5, <2>1 DEF KeysFit
    <3>2. QED
      BY <1>5, <2>1, <3>1, ByEffect
  <2>2. CASE ~Cached(call'[t].req) /\ call'[t].req \in Requests /\ UNCHANGED book
    <3>1. ~Cached(q) /\ KeyOf[q] # None
      BY <1>5, <2>2 DEF SameKey, Cached
    <3>2. book[q].by = None
      BY <3>1 DEF KeysFit
    <3>3. QED
      BY <2>2, <3>2, ConstantsOK
  <2>3. QED
    BY <1>5, <2>1, <2>2, PlaceEffect
<1>6. QED
  BY <1>3, <1>4, <1>5 DEF KeysFit, SameKey, Cached

\* place_order caches a key before it submits and looks it up before it locks, so
\* whoever retries a client_order_id after an order of his went out is answered
\* from the cache.
THEOREM RetriesAreSafe == Spec => []OncePerCaller
<1>1. Init => KeysFit /\ OncePerCaller
  BY DEF Init, KeysFit, OncePerCaller, NoEntry, NoCall
<1>2. IInv /\ KeysFit /\ OncePerCaller /\ [Next]_vars => OncePerCaller'
  <2> SUFFICES ASSUME IInv, KeysFit, OncePerCaller, [Next]_vars,
                      NEW r \in Requests, NEW q \in Requests, r # q, SameKey(r, q),
                      book'[r].by # None
               PROVE  book'[r].by # book'[q].by
    BY DEF OncePerCaller, SameKey
  <2>1. CASE \A x \in Requests : book'[x].by = book[x].by
    BY <2>1 DEF OncePerCaller
  <2>2. ASSUME NEW t \in Tasks, pc[t] = "submit", call[t].op = "place",
               call[t].req \in Requests, book'[call[t].req].by = t,
               \A x \in Requests \ {call[t].req} : book'[x].by = book[x].by
        PROVE  book'[r].by # book'[q].by
    <3>1. CASE call[t].req = r
      BY <2>2, <3>1 DEF KeysFit
    <3>2. CASE call[t].req = q
      <4>1. SameKey(q, r)
        BY DEF SameKey
      <4>2. QED
        BY <2>2, <3>2, <4>1 DEF KeysFit
    <3>3. CASE call[t].req \notin {r, q}
      BY <2>2, <3>3 DEF OncePerCaller
    <3>4. QED
      BY <3>1, <3>2, <3>3
  <2>3. QED
    BY <2>1, <2>2, ByEffect
<1>3. QED
  BY <1>1, <1>2, Inductive, KeysStep, PTL DEF Spec

-----------------------------------------------------------------------------
(* One order per client_order_id reaches the broker as long as the risk     *)
(* check does not suspend: between the look-up of the key and the write to  *)
(* the cache no other coroutine runs.                                       *)

\* A place_order never waits for its lock and is the only one between look-up and
\* cache; whatever is stored under a key is what the cache has.
OnceFit ==
    /\ \A t \in Tasks : pc[t] = "published" => Stored(call[t].req)
    /\ \A t \in Tasks : pc[t] = "wait" => call[t].op # "place"
    /\ \A t, u \in Tasks : pc[t] = "risk" /\ pc[u] = "risk" => t = u
    /\ \A t \in Tasks : pc[t] = "risk" => ~Cached(call[t].req)
    /\ \A r \in Requests :
          Stored(r) /\ KeyOf[r] # None => idempotencyCache[KeyOf[r]] = r

\* A task stays where it is, or the event loop is free to run it and does.
LEMMA FrameEffect ==
    ASSUME IInv, [Next]_vars, NEW u \in Tasks
    PROVE  \/ pc'[u] = pc[u] /\ call'[u] = call[u]
           \/ Free(u) /\ (NewCall(u) \/ Step(u))
<1>1. CASE UNCHANGED <<pc, call>>
  BY <1>1
<1>2. ASSUME NEW t \in Tasks, Free(t), NewCall(t) \/ Step(t)
      PROVE  t # u => pc'[u] = pc[u] /\ call'[u] = call[u]
  BY <1>2, CallFrame
<1>3. ASSUME NEW t \in Tasks, BrokerAnswers(t)
      PROVE  UNCHANGED <<pc, call>>
  BY <1>3 DEF BrokerAnswers, BrokerObeys, BrokerRefuses, BrokerReports, BrokerDeclines
<1>4. ASSUME NEW r \in Requests, BrokerMoves(r)
      PROVE  UNCHANGED <<pc, call>>
  BY <1>4, MovesEffect
<1>5. CASE Deliver
  BY <1>1, <1>5 DEF Deliver, HandleOrderUpdate, HandleTradeEvent
<1>6. QED
  BY <1>1, <1>2, <1>3, <1>4, <1>5 DEF Next, vars

\* Only RiskApproved stores a request that was not stored.
LEMMA StoredEffect ==
    ASSUME IInv, [Next]_vars, NEW r \in Requests, ~Stored(r), Stored(r)'
    PROVE  \E t \in Tasks : RiskApproved(t) /\ call[t].req = r /\ Free(t)
<1>1. orders'[r] # orders[r]
  BY DEF Stored
<1>2. ~orders[r].known
  BY DEF IInv, OrdersFit
<1>3. ASSUME NEW t \in Tasks, Free(t), Step(t)
      PROVE  RiskApproved(t) /\ call[t].req = r
  <2>1. CASE RiskApproved(t)
    BY <1>1, <2>1 DEF RiskApproved, IInv, Shapes
  <2>2. CASE PlaceSubmitted(t) \/ PlaceFailed(t)
    <3>1. Stored(call[t].req)
      BY <2>2 DEF PlaceSubmitted, PlaceFailed, IInv, LabelsFit, PlacesFit
    <3>2. QED
      BY <1>1, <2>2, <3>1 DEF PlaceSubmitted, PlaceFailed, IInv, Shapes
  <2>3. CASE CancelAnswered(t) \/ ModifyConfirmed(t)
    <3>1. Stored(call[t].req)
      BY <2>3 DEF CancelAnswered, ModifyConfirmed, IInv, OrdersFit
    <3>2. QED
      BY <1>1, <2>3, <3>1 DEF CancelAnswered, ModifyConfirmed, IInv, Shapes
  <2>4. CASE SyncAnswered(t)
    <3>1. orders[call[t].req].known
      BY <2>4 DEF SyncAnswered, IInv, OrdersFit
    <3>2. QED
      BY <1>1, <1>2, <2>4, <3>1 DEF SyncAnswered, IInv, Shapes
  <2>5. QED
    BY <1>1, <1>3, <2>1, <2>2, <2>3, <2>4
       DEF Step, Wake, RiskRefused, Published, ChangeFailed
<1>4. ASSUME NEW t \in Tasks, NewCall(t) \/ BrokerAnswers(t)
      PROVE  FALSE
  BY <1>1, <1>4 DEF NewCall, PlaceOrder, SyncOrderStatus, CancelOrder, ModifyOrder,
              BrokerAnswers, BrokerObeys, BrokerRefuses, BrokerReports, BrokerDeclines
<1>5. ASSUME NEW q \in Requests, BrokerMoves(q)
      PROVE  FALSE
  BY <1>1, <1>5, MovesEffect
<1>6. ASSUME NEW m \in msgs, HandleOrderUpdate(m) \/ HandleTradeEvent(m)
      PROVE  FALSE
  BY <1>1, <1>2, <1>6 DEF HandleOrderUpdate, HandleTradeEvent, IInv, Shapes
<1>7. QED
  BY <1>1, <1>3, <1>4, <1>5, <1>6 DEF Next, Deliver, vars

\* A place_order finds the lock of its request free: no other call has the
\* request, and a cancel or modify has a stored one.
LEMMA LockIsFree ==
    ASSUME IInv, LocksFit, OnceFit, NEW u \in Tasks, NEW r \in Requests, PlaceOrder(u, r)
    PROVE  locks[r] = None
<1> SUFFICES ASSUME locks[r] # None PROVE FALSE
  OBVIOUS
<1>1. PICK v \in Tasks : Inside(v) /\ call[v].req = r
  BY DEF IInv, Shapes, LocksFit
<1>2. ~Stored(r) /\ call[v].op # "place"
  BY <1>1 DEF PlaceOrder
<1>3. QED
  BY <1>1, <1>2 DEF Inside, IInv, LabelsFit, OrdersFit, OnceFit

\* What NewCall makes of the frame of its task.
LEMMA CallEffect ==
    ASSUME IInv, LocksFit, OnceFit, NEW u \in Tasks, NewCall(u)
    PROVE  /\ pc'[u] # "published"
           /\ pc'[u] = "wait" => call'[u].op # "place"
           /\ pc'[u] = "risk" => ~Cached(call'[u].req)
<1>1. pc[u] = "idle"
  BY DEF NewCall, PlaceOrder, SyncOrderStatus, CancelOrder, ModifyOrder
<1>2. ASSUME NEW r \in Requests, PlaceOrder(u, r)
      PROVE  /\ pc'[u] \notin {"wait", "published"}
             /\ pc'[u] = "risk" => ~Cached(call'[u].req)
  <2>1. CASE Cached(r)
    BY <1>1, <1>2, <2>1 DEF PlaceOrder
  <2>2. CASE ~Cached(r)
    <3> DEFINE c == [NoCall EXCEPT !.op = "place", !.req = r]
    <3>1. c.op = "place" /\ c.req = r
      BY DEF NoCall
    <3>2. AcquireLock(u, c)
      BY <1>2, <2>2 DEF PlaceOrder
    <3>3. locks[r] = None
      BY <1>2, LockIsFree
    <3> HIDE DEF c
    <3>4. pc'[u] = "idle" \/ (pc'[u] = "risk" /\ call'[u] = c)
      BY <3>1, <3>2, <3>3 DEF AcquireLock, Enter, FirstAwait, IInv, Shapes
    <3>5. QED
      BY <2>2, <3>1, <3>4
  <2>3. QED
    BY <2>1, <2>2
<1>3. ASSUME NEW c, c.op \in {"cancel", "modify"}, AcquireLock(u, c)
      PROVE  pc'[u] \notin {"risk", "published"} /\ (pc'[u] = "wait" => call'[u].op # "place")
  BY <1>3 DEF AcquireLock, Enter, FirstAwait, IInv, Shapes
<1>4. ASSUME NEW r \in Requests, NEW mine \in BOOLEAN, CancelOrder(u, r, mine)
      PROVE  pc'[u] \notin {"risk", "published"} /\ (pc'[u] = "wait" => call'[u].op # "place")
  <2> DEFINE c == [NoCall EXCEPT !.op = "cancel", !.req = r, !.mine = mine]
  <2>1. c.op = "cancel"
    BY DEF NoCall
  <2>2. AcquireLock(u, c)
    BY <1>4 DEF CancelOrder
  <2> HIDE DEF c
  <2>3. QED
    BY <1>3, <2>1, <2>2
<1>5. ASSUME NEW r \in Requests, NEW mine \in BOOLEAN, NEW q \in NewQtys,
             NEW trigger \in BOOLEAN, ModifyOrder(u, r, mine, q, trigger)
      PROVE  pc'[u] \notin {"risk", "published"} /\ (pc'[u] = "wait" => call'[u].op # "place")
  BY <1>3, <1>5 DEF ModifyOrder
<1>6. ASSUME NEW r \in Requests, SyncOrderStatus(u, r)
      PROVE  pc'[u] = "sync"
  BY <1>6 DEF SyncOrderStatus, IInv, Shapes
<1>7. QED
  BY <1>2, <1>4, <1>5, <1>6 DEF NewCall

\* What a step makes of the frame of its task.
LEMMA StepEffect ==
    ASSUME IInv, OnceFit, NEW u \in Tasks, Step(u)
    PROVE  /\ pc'[u] \notin {"wait", "risk"}
           /\ pc'[u] = "published" => call'[u] = call[u] /\ Stored(call[u].req)
<1>1. CASE Wake(u)
  <2>1. call[u].op \in {"cancel", "modify"} /\ call[u].req \in Requests
    BY <1>1 DEF Wake, IInv, LabelsFit, OnceFit
  <2>2. pc'[u] \in {"cancel", "modify", "idle"}
    BY <1>1, <2>1 DEF Wake, Enter, FirstAwait, IInv, Shapes
  <2>3. QED
    BY <2>2
<1>2. CASE CancelAnswered(u) \/ ModifyConfirmed(u)
  BY <1>2 DEF CancelAnswered, ModifyConfirmed, Goto, IInv, Shapes, OrdersFit
<1>3. CASE RiskApproved(u) \/ PlaceSubmitted(u)
  BY <1>3 DEF RiskApproved, PlaceSubmitted, Goto, IInv, Shapes
<1>4. CASE RiskRefused(u) \/ PlaceFailed(u) \/ Published(u) \/ ChangeFailed(u)
  BY <1>4 DEF RiskRefused, PlaceFailed, Published, ChangeFailed, Return, IInv, Shapes
<1>5. CASE SyncAnswered(u)
  BY <1>5 DEF SyncAnswered, IInv, Shapes
<1>6. QED
  BY <1>1, <1>2, <1>3, <1>4, <1>5 DEF Step

\* OnceFit survives every step when the risk check does not suspend.
LEMMA OnceStep == ~RiskSuspends /\ IInv /\ LocksFit /\ OnceFit /\ [Next]_vars => OnceFit'
<1> SUFFICES ASSUME ~RiskSuspends, IInv, LocksFit, OnceFit, [Next]_vars PROVE OnceFit'
  OBVIOUS
<1>1. ASSUME NEW t \in Tasks, pc'[t] = "published"
      PROVE  orders'[call'[t].req].status # "ABSENT"
  <2>1. call'[t] = call[t] /\ Stored(call[t].req) /\ call[t].req \in Requests
    <3>1. CASE pc'[t] = pc[t] /\ call'[t] = call[t]
      BY <1>1, <3>1 DEF OnceFit, IInv, LabelsFit
    <3>2. CASE NewCall(t)
      BY <1>1, <3>2, CallEffect
    <3>3. CASE Step(t)
      BY <1>1, <3>3, StepEffect, IStep DEF IInv, LabelsFit
    <3>4. QED
      BY <3>1, <3>2, <3>3, FrameEffect
  <2>2. orders'[call[t].req].status # "ABSENT"
    BY <2>1, OrdersStay DEF Stored
  <2>3. QED
    BY <2>1, <2>2
<1>2. ASSUME NEW t \in Tasks, pc'[t] = "wait"
      PROVE  call'[t].op # "place"
  BY <1>2, FrameEffect, CallEffect, StepEffect DEF OnceFit
<1>3. ASSUME NEW t \in Tasks, pc'[t] = "risk"
      PROVE  \/ pc[t] = "risk" /\ call'[t] = call[t]
             \/ Free(t) /\ NewCall(t) /\ ~Cached(call'[t].req)
  BY <1>3, FrameEffect, CallEffect, StepEffect
<1>4. ASSUME NEW t \in Tasks, NEW u \in Tasks, pc'[t] = "risk", pc'[u] = "risk", t # u
      PROVE  FALSE
  <2>1. CASE pc[t] = "risk" /\ pc[u] = "risk"
    BY <1>4, <2>1 DEF OnceFit
  <2>2. ASSUME NEW v \in Tasks, NEW w \in Tasks, v # w, pc'[w] = "risk", Free(v), NewCall(v)
        PROVE  FALSE
    <3>1. pc'[w] = pc[w]
      BY <2>2, CallFrame
    <3>2. QED
      BY <2>2, <3>1 DEF Free
  <2>3. QED
    BY <1>3, <1>4, <2>1, <2>2
<1>5. ASSUME NEW t \in Tasks, pc[t] = "risk", pc'[t] = "risk"
      PROVE  UNCHANGED idempotencyCache
  <2>1. ASSUME NEW v \in Tasks, RiskApproved(v)
        PROVE  FALSE
    <3>1. v = t
      BY <1>5, <2>1 DEF RiskApproved, OnceFit
    <3>2. QED
      BY <1>5, <2>1, <3>1 DEF RiskApproved, Goto, IInv, Shapes
  <2>2. QED
    BY <2>1, CacheEffect
<1>6. ASSUME NEW t \in Tasks, pc'[t] = "risk"
      PROVE  ~(KeyOf[call'[t].req] # None /\ idempotencyCache'[KeyOf[call'[t].req]] # None)
  <2>1. CASE pc[t] = "risk" /\ call'[t] = call[t]
    BY <1>5, <1>6, <2>1 DEF OnceFit, Cached
  <2>2. CASE NewCall(t) /\ ~Cached(call'[t].req)
    <3>1. UNCHANGED idempotencyCache
      BY <2>2 DEF NewCall, PlaceOrder, SyncOrderStatus, CancelOrder, ModifyOrder
    <3>2. QED
      BY <2>2, <3>1 DEF Cached
  <2>3. QED
    BY <1>3, <1>6, <2>1, <2>2
<1>7. ASSUME NEW r \in Requests, Stored(r)', KeyOf[r] # None
      PROVE  idempotencyCache'[KeyOf[r]] = r
  <2>1. KeyOf[r] \in Keys /\ r # None
    BY <1>7, ConstantsOK
  <2>2. CASE Stored(r)
    <3>1. idempotencyCache[KeyOf[r]] = r
      BY <1>7, <2>2 DEF OnceFit
    <3>2. ASSUME NEW v \in Tasks, RiskApproved(v), KeyOf[call[v].req] = KeyOf[r]
          PROVE  FALSE
      BY <1>7, <2>1, <3>1, <3>2 DEF RiskApproved, OnceFit, Cached
    <3>3. QED
      BY <2>1, <3>1, <3>2, CacheEffect DEF IInv, Shapes
  <2>3. CASE ~Stored(r)
    <3>1. PICK v \in Tasks : RiskApproved(v) /\ call[v].req = r
      BY <1>7, <2>3, StoredEffect
    <3>2. QED
      BY <1>7, <2>1, <3>1 DEF RiskApproved, IInv, Shapes
  <2>4. QED
    BY <2>2, <2>3
<1>8. QED
  BY <1>1, <1>2, <1>4, <1>6, <1>7 DEF OnceFit, Cached, Stored

\* With RiskManager's check, which does not suspend, one order per client_order_id
\* reaches the broker, whoever places it and however often.
THEOREM OneOrderPerKey == Spec => []AtMostOncePerKey
<1> DEFINE Fit == ~RiskSuspends => OnceFit
<1>1. Init => LocksFit /\ KeysFit /\ Fit
  BY ConstantsOK DEF Init, LocksFit, Inside, KeysFit, OnceFit, NoEntry, NoCall, NoOrder, Stored
<1>2. IInv /\ LocksFit /\ Fit /\ [Next]_vars => Fit'
  BY OnceStep
<1>3. IInv /\ KeysFit /\ Fit => AtMostOncePerKey
  <2> SUFFICES ASSUME IInv, KeysFit, OnceFit, NEW r \in Requests, NEW s \in Requests,
                      SameKey(r, s), book[r].by # None, book[s].by # None
               PROVE  r = s
    BY DEF AtMostOncePerKey, SameKey
  <2>1. Stored(r) /\ Stored(s)
    BY DEF KeysFit, IInv, OrdersFit
  <2>2. QED
    BY <2>1 DEF OnceFit, SameKey
<1>4. QED
  BY <1>1, <1>2, <1>3, Inductive, LocksStep, KeysStep, PTL DEF Spec

-----------------------------------------------------------------------------
(* OrderExecutor implements OrderPromise: its first states map to first     *)
(* states, and each of its steps maps to a step of the promise or to none.  *)
(* Only one side of an order moves in a step: what is stored of it here, or *)
(* the broker's record of it.                                               *)

\* Whatever the broker has a record of was sent by a task.
SentBy == \A r \in Requests : book[r].word # "absent" => book[r].by # None

\* What a step may do to the stored orders: one of them changes, and then the
\* broker's records do not.
LEMMA OrdersEffect ==
    ASSUME IInv, [Next]_vars
    PROVE  \/ UNCHANGED orders
           \/ /\ UNCHANGED book
              /\ \E r \in Requests : \A q \in Requests \ {r} : orders'[q] = orders[q]
<1>1. ASSUME NEW t \in Tasks, NewCall(t)
      PROVE  UNCHANGED orders
  BY <1>1 DEF NewCall, PlaceOrder, SyncOrderStatus, CancelOrder, ModifyOrder
<1>2. ASSUME NEW t \in Tasks, BrokerAnswers(t)
      PROVE  UNCHANGED orders
  BY <1>2 DEF BrokerAnswers, BrokerObeys, BrokerRefuses, BrokerReports, BrokerDeclines
<1>3. ASSUME NEW r \in Requests, BrokerMoves(r)
      PROVE  UNCHANGED orders
  BY <1>3, MovesEffect
<1>4. ASSUME NEW t \in Tasks, Step(t)
      PROVE  \/ UNCHANGED orders
             \/ /\ UNCHANGED book /\ call[t].req \in Requests
                /\ \A q \in Requests \ {call[t].req} : orders'[q] = orders[q]
  <2>1. UNCHANGED book
    BY <1>4, CallFrame
  <2>2. CASE RiskApproved(t) \/ PlaceSubmitted(t) \/ PlaceFailed(t)
    BY <2>1, <2>2 DEF RiskApproved, PlaceSubmitted, PlaceFailed, IInv, Shapes, LabelsFit
  <2>3. CASE CancelAnswered(t) \/ ModifyConfirmed(t) \/ SyncAnswered(t)
    BY <2>1, <2>3 DEF CancelAnswered, ModifyConfirmed, SyncAnswered, IInv, Shapes, LabelsFit
  <2>4. CASE Wake(t) \/ RiskRefused(t) \/ Published(t) \/ ChangeFailed(t)
    BY <2>4 DEF Wake, RiskRefused, Published, ChangeFailed
  <2>5. QED
    BY <1>4, <2>2, <2>3, <2>4 DEF Step
<1>5. ASSUME NEW m \in msgs, HandleOrderUpdate(m) \/ HandleTradeEvent(m)
      PROVE  /\ UNCHANGED book /\ m.req \in Requests
             /\ \A q \in Requests \ {m.req} : orders'[q] = orders[q]
  <2>1. m.req \in Requests
    BY DEF IInv, Shapes, Message
  <2>2. QED
    BY <1>5, <2>1 DEF HandleOrderUpdate, HandleTradeEvent, IInv, Shapes
<1>6. QED
  BY <1>1, <1>2, <1>3, <1>4, <1>5 DEF Next, Deliver, vars

\* What a step may do to the broker's records: a recorded order is sent, or a live
\* one moves on; then nothing stored here changes.
LEMMA RecordsEffect ==
    ASSUME IInv, [Next]_vars
    PROVE  \/ UNCHANGED book
           \/ /\ UNCHANGED orders
              /\ \E r \in Requests :
                    /\ \A q \in Requests \ {r} : book'[q] = book[q]
                    /\ book'[r].word \in BrokerWords
                    /\ \/ /\ book[r].word = "absent" /\ Stored(r)
                          /\ book'[r].word = "open" /\ book'[r].by # None
                       \/ Live(r) /\ book'[r].by = book[r].by
<1>1. ASSUME NEW t \in Tasks, NewCall(t) \/ Step(t)
      PROVE  UNCHANGED book
  BY <1>1, CallFrame
<1>2. ASSUME NEW t \in Tasks, BrokerRefuses(t) \/ BrokerReports(t) \/ BrokerDeclines(t)
      PROVE  UNCHANGED book
  BY <1>2 DEF BrokerRefuses, BrokerReports, BrokerDeclines
<1>3. ASSUME NEW t \in Tasks, BrokerObeys(t)
      PROVE  /\ UNCHANGED orders /\ call[t].req \in Requests
             /\ \A q \in Requests \ {call[t].req} : book'[q] = book[q]
             /\ book'[call[t].req].word \in BrokerWords
             /\ \/ /\ book[call[t].req].word = "absent" /\ Stored(call[t].req)
                   /\ book'[call[t].req].word = "open" /\ book'[call[t].req].by # None
                \/ Live(call[t].req) /\ book'[call[t].req].by = book[call[t].req].by
  <2> DEFINE r == call[t].req
  <2>1. /\ r \in Requests /\ \A q \in Requests \ {r} : book'[q] = book[q]
        /\ book'[r].word \in BrokerWords
        /\ pc[t] # "submit" => book'[r].by = book[r].by
        /\ pc[t] = "submit" => book'[r].by = t
    BY <1>3, ObeysEffect DEF Entry
  <2>2. CASE pc[t] = "submit"
    <3>1. book[r] = NoEntry /\ Stored(r)
      BY <1>3, <2>2 DEF BrokerObeys, IInv, LabelsFit, PlacesFit
    <3>2. book'[r].word = "open"
      BY <1>3, <2>1, <2>2 DEF BrokerObeys, IInv, Shapes
    <3>3. t # None
      BY ConstantsOK
    <3>4. QED
      BY <1>3, <2>1, <2>2, <3>1, <3>2, <3>3 DEF BrokerObeys, NoEntry
  <2>3. CASE pc[t] # "submit"
    BY <1>3, <2>1, <2>3 DEF BrokerObeys
  <2>4. QED
    BY <2>2, <2>3
<1>4. ASSUME NEW r \in Requests, BrokerMoves(r)
      PROVE  /\ UNCHANGED orders
             /\ \A q \in Requests \ {r} : book'[q] = book[q]
             /\ book'[r].word \in BrokerWords
             /\ Live(r) /\ book'[r].by = book[r].by
  <2>1. Live(r)
    BY <1>4 DEF BrokerMoves, BrokerFills, BrokerCloses
  <2>2. QED
    BY <1>4, <2>1, MovesEffect DEF Entry
<1>5. ASSUME NEW m \in msgs, HandleOrderUpdate(m) \/ HandleTradeEvent(m)
      PROVE  UNCHANGED book
  BY <1>5 DEF HandleOrderUpdate, HandleTradeEvent
<1>6. QED
  BY <1>1, <1>2, <1>3, <1>4, <1>5 DEF Next, Deliver, BrokerAnswers, vars

\* A sender is recorded with whatever is sent.
LEMMA SentStep == IInv /\ SentBy /\ [Next]_vars => SentBy'
<1> SUFFICES ASSUME IInv, SentBy, [Next]_vars PROVE SentBy'
  OBVIOUS
<1>1. CASE UNCHANGED book
  BY <1>1 DEF SentBy
<1>2. ASSUME NEW r \in Requests, \A q \in Requests \ {r} : book'[q] = book[q],
             book'[r].by # None \/ (Live(r) /\ book'[r].by = book[r].by)
      PROVE  SentBy'
  BY <1>2 DEF SentBy, Live, LiveWords
<1>3. QED
  BY <1>1, <1>2, RecordsEffect

-----------------------------------------------------------------------------
(* The mapping.                                                             *)

StageMap == [r \in Requests |-> StageOf(r)]
ShownMap == [r \in Requests |-> ShownOf(r)]

\* What the invariant of the orders says of the mapping: no end is shown but the
\* one the order has come to.
ShownTrue ==
    \A r \in Requests :
        Stored(r) => ShownOf(r) \in {"working"} \cup ({StageOf(r)} \cap Promise!ShownEnds)

LEMMA MirrorShows == OrdersMirror => ShownTrue
<1> SUFFICES ASSUME NEW r \in Requests, Stored(r), Mirrors(r, orders[r], book[r], refused)
             PROVE  ShownOf(r) \in {"working"} \cup ({StageOf(r)} \cap Promise!ShownEnds)
  BY DEF OrdersMirror, ShownTrue
<1>0. CASE orders[r].status = "CANCELLED" /\ r \in refused
  BY <1>0 DEF ShownOf
<1>1. CASE orders[r].status = "CANCELLED" /\ r \notin refused
  <2>1. ShownOf(r) = "cancelled" /\ StageOf(r) = "cancelled"
    BY <1>1 DEF Mirrors, ShownOf, StageOf, DeadWords, LiveWords
  <2>2. QED
    BY <2>1 DEF Promise!ShownEnds, Promise!Ends
<1>2. CASE orders[r].status = "EXPIRED"
  <2>1. ShownOf(r) = "expired" /\ StageOf(r) = "expired"
    BY <1>2 DEF Mirrors, ShownOf, StageOf, DeadWords, LiveWords
  <2>2. QED
    BY <2>1 DEF Promise!ShownEnds, Promise!Ends
<1>3. CASE orders[r].status = "FILLED" /\ "trade" \notin Streams
  <2>1. ShownOf(r) = "filled" /\ StageOf(r) = "filled"
    BY <1>3 DEF Mirrors, ShownOf, StageOf, DeadWords, LiveWords
  <2>2. QED
    BY <2>1 DEF Promise!ShownEnds, Promise!Ends
<1>4. CASE /\ orders[r].status \notin {"CANCELLED", "EXPIRED"}
           /\ ~(orders[r].status = "FILLED" /\ "trade" \notin Streams)
  BY <1>4 DEF ShownOf, Stored
<1>5. QED
  BY <1>0, <1>1, <1>2, <1>3, <1>4

\* The mapped orders are one order's apart when the executor's are.
LEMMA OneMoves ==
    ASSUME NEW r \in Requests,
           \A q \in Requests \ {r} : StageOf(q)' = StageOf(q) /\ ShownOf(q)' = ShownOf(q)
    PROVE  /\ StageMap' = [StageMap EXCEPT ![r] = StageOf(r)']
           /\ ShownMap' = [ShownMap EXCEPT ![r] = ShownOf(r)']
BY DEF StageMap, ShownMap

\* A step that writes orders is Record or Show.
LEMMA OrderWritten ==
    ASSUME IInv, IInv', ShownTrue', [Next]_vars, UNCHANGED <<book, refused>>,
           NEW r \in Requests, \A q \in Requests \ {r} : orders'[q] = orders[q]
    PROVE  [Promise!Next]_(Promise!vars)
<1>1. \A q \in Requests \ {r} : StageOf(q)' = StageOf(q) /\ ShownOf(q)' = ShownOf(q)
  BY DEF StageOf, ShownOf, Stored
<1>2. /\ StageMap' = [StageMap EXCEPT ![r] = StageOf(r)']
      /\ ShownMap' = [ShownMap EXCEPT ![r] = ShownOf(r)']
  BY <1>1, OneMoves
<1>3. CASE ~Stored(r) /\ ~Stored(r)'
  <2>1. StageOf(r)' = StageOf(r) /\ ShownOf(r)' = ShownOf(r)
    BY <1>3 DEF StageOf, ShownOf, Stored
  <2>2. StageMap' = StageMap /\ ShownMap' = ShownMap
    BY <1>1, <2>1 DEF StageMap, ShownMap
  <2>3. QED
    BY <2>2 DEF Promise!vars, StageMap, ShownMap
<1>4. CASE ~Stored(r) /\ Stored(r)'
  <2>1. PICK t \in Tasks : RiskApproved(t) /\ call[t].req = r
    BY <1>4, StoredEffect
  <2>2. orders'[r].status = "PENDING"
    BY <2>1 DEF RiskApproved, NoOrder, IInv, Shapes
  <2>3. book[r].word = "absent"
    BY <1>4 DEF IInv, OrdersFit
  <2>4. /\ StageOf(r) = "unseen" /\ StageOf(r)' = "recorded" /\ ShownOf(r)' = "working"
    <3>1. StageOf(r) = "unseen" /\ StageOf(r)' = "recorded"
      BY <1>4, <2>3 DEF StageOf, Stored, LiveWords, DeadWords
    <3>2. ShownOf(r)' = "working"
      BY <2>2 DEF ShownOf
    <3>3. QED
      BY <3>1, <3>2
  <2>5. Promise!Record(r)
    BY <1>2, <2>4 DEF Promise!Record, StageMap, ShownMap
  <2>6. QED
    BY <2>5 DEF Promise!Next
<1>5. CASE Stored(r)
  <2>1. Stored(r)'
    BY <1>5, OrdersStay
  <2>2. StageOf(r)' = StageOf(r)
    BY <1>5, <2>1 DEF StageOf, Stored
  <2>3. ShownOf(r)' \in {"working"} \cup ({StageOf(r)'} \cap Promise!ShownEnds)
    BY <2>1 DEF ShownTrue
  <2>4. StageOf(r) # "unseen"
    BY <1>5 DEF StageOf, DeadWords
  <2>5. StageMap' = StageMap
    BY <1>1, <2>2 DEF StageMap
  <2>6. Promise!Show(r)
    BY <1>2, <2>2, <2>3, <2>4, <2>5 DEF Promise!Show, StageMap, ShownMap
  <2>7. QED
    BY <2>6 DEF Promise!Next
<1>6. QED
  BY <1>3, <1>4, <1>5

\* A step that writes the broker's records is Send or End, or none.
LEMMA RecordWritten ==
    ASSUME IInv, IInv', SentBy, AtMostOncePerKey', [Next]_vars, UNCHANGED <<orders, refused>>,
           NEW r \in Requests, \A q \in Requests \ {r} : book'[q] = book[q],
           book'[r].word \in BrokerWords,
           \/ book[r].word = "absent" /\ Stored(r) /\ book'[r].word = "open"
              /\ book'[r].by # None
           \/ Live(r)
    PROVE  [Promise!Next]_(Promise!vars)
<1>1. \A q \in Requests \ {r} : StageOf(q)' = StageOf(q) /\ ShownOf(q)' = ShownOf(q)
  BY DEF StageOf, ShownOf, Stored
<1>2. ShownOf(r)' = ShownOf(r)
  BY DEF ShownOf
<1>3. /\ StageMap' = [StageMap EXCEPT ![r] = StageOf(r)']
      /\ ShownMap' = ShownMap
  BY <1>1, <1>2, OneMoves DEF ShownMap
<1>4. CASE Live(r)
  <2>1. StageOf(r) = "live"
    BY <1>4 DEF Live, StageOf, LiveWords, DeadWords
  <2>2. StageOf(r)' \in {"live"} \cup Promise!Ends
    BY DEF StageOf, BrokerWords, LiveWords, DeadWords, Promise!Ends
  <2>3. CASE StageOf(r)' = "live"
    <3>1. StageMap' = StageMap
      BY <1>1, <2>1, <2>3 DEF StageMap
    <3>2. QED
      BY <1>3, <3>1 DEF Promise!vars, StageMap, ShownMap
  <2>4. CASE StageOf(r)' \in Promise!Ends
    <3>1. Promise!End(r)
      BY <1>3, <2>1, <2>4 DEF Promise!End, StageMap, ShownMap
    <3>2. QED
      BY <3>1 DEF Promise!Next
  <2>5. QED
    BY <2>2, <2>3, <2>4
<1>5. CASE book[r].word = "absent" /\ Stored(r) /\ book'[r].word = "open" /\ book'[r].by # None
  <2>1. StageOf(r) = "recorded" /\ StageOf(r)' = "live"
    BY <1>5 DEF StageOf, LiveWords, DeadWords
  <2>2. ASSUME NEW p \in Requests \ {r}, ~RiskSuspends, KeyOf[r] # None, KeyOf[p] = KeyOf[r]
        PROVE  StageOf(p) \in Promise!Unsent
    <3>1. book'[p].by = None
      BY <1>5, <2>2 DEF AtMostOncePerKey, SameKey
    <3>2. book[p].word = "absent"
      BY <3>1 DEF SentBy
    <3>3. QED
      BY <3>2 DEF StageOf, LiveWords, DeadWords, Promise!Unsent
  <2>3. Promise!Send(r)
    <3>1. StageMap[r] = "recorded" /\ StageMap' = [StageMap EXCEPT ![r] = "live"]
      BY <1>3, <2>1 DEF StageMap
    <3>2. QED
      BY <1>3, <2>2, <3>1 DEF Promise!Send, StageMap, ShownMap
  <2>4. QED
    BY <2>3 DEF Promise!Next
<1>6. QED
  BY <1>4, <1>5

\* A cancellation that is declined, of which only the history is written, is Show: what
\* is shown of that order is no promise any more.
LEMMA DeclineWritten ==
    ASSUME ShownTrue', NEW r \in Requests, Stored(r),
           UNCHANGED <<orders, book>>, refused' = refused \cup {r}
    PROVE  [Promise!Next]_(Promise!vars)
<1>1. UNCHANGED <<orders, book>> /\ refused' = refused \cup {r}
  OBVIOUS
<1>2. r \in Requests /\ Stored(r) /\ Stored(r)'
  BY DEF Stored
<1>3. \A q \in Requests \ {r} : StageOf(q)' = StageOf(q) /\ ShownOf(q)' = ShownOf(q)
  BY <1>1 DEF StageOf, ShownOf, Stored
<1>4. /\ StageMap' = [StageMap EXCEPT ![r] = StageOf(r)']
      /\ ShownMap' = [ShownMap EXCEPT ![r] = ShownOf(r)']
  BY <1>2, <1>3, OneMoves
<1>5. StageOf(r)' = StageOf(r)
  BY <1>1 DEF StageOf, Stored
<1>6. ShownOf(r)' \in {"working"} \cup ({StageOf(r)'} \cap Promise!ShownEnds)
  BY <1>2 DEF ShownTrue
<1>7. StageOf(r) # "unseen"
  BY <1>2 DEF StageOf, DeadWords
<1>8. StageMap' = StageMap
  BY <1>3, <1>5 DEF StageMap
<1>9. Promise!Show(r)
  BY <1>2, <1>4, <1>5, <1>6, <1>7, <1>8 DEF Promise!Show, StageMap, ShownMap
<1>10. QED
  BY <1>2, <1>9 DEF Promise!Next

\* Nothing else writes the history.
LEMMA HistoryEffect ==
    ASSUME [Next]_vars PROVE UNCHANGED refused \/ \E t \in Tasks : BrokerDeclines(t)
BY DEF Next, vars, BrokerAnswers

-----------------------------------------------------------------------------
\* The executor implements the promise: recorded before sent, one order of a
\* client_order_id, one end of an order, and no end shown that it has not come
\* to unless the broker refused to cancel it, for any tasks, requests and keys.
THEOREM Implements == Spec => KeepsPromise
<1>1. Init => Promise!Init
  <2> SUFFICES ASSUME Init PROVE Promise!Init
    OBVIOUS
  <2>1. \A r \in Requests : StageOf(r) = "unseen" /\ ShownOf(r) = "nothing"
    BY DEF Init, StageOf, ShownOf, Stored, NoOrder, NoEntry, LiveWords, DeadWords
  <2>2. QED
    BY <2>1 DEF Promise!Init
<1>2. Init => SentBy
  BY DEF Init, SentBy, NoEntry
<1>3. OrdersMirror' => ShownTrue'
  BY MirrorShows, PTL
<1>4. /\ IInv /\ IInv' /\ OrdersMirror' /\ SentBy /\ AtMostOncePerKey' /\ [Next]_vars
      => [Promise!Next]_(Promise!vars)
  <2> SUFFICES ASSUME IInv, IInv', ShownTrue', SentBy, AtMostOncePerKey', [Next]_vars
               PROVE  [Promise!Next]_(Promise!vars)
    BY <1>3
  <2>1. CASE UNCHANGED <<orders, book, refused>>
    <3>1. \A r \in Requests : StageOf(r)' = StageOf(r) /\ ShownOf(r)' = ShownOf(r)
      BY <2>1 DEF StageOf, ShownOf, Stored
    <3>2. QED
      BY <3>1 DEF Promise!vars
  <2>2. CASE UNCHANGED <<book, refused>> /\ ~UNCHANGED orders
    BY <2>2, OrdersEffect, OrderWritten
  <2>3. CASE ~UNCHANGED book /\ UNCHANGED refused
    BY <2>3, RecordsEffect, RecordWritten
  <2>4. CASE \E t \in Tasks : BrokerDeclines(t)
    <3>1. PICK t \in Tasks : BrokerDeclines(t)
      BY <2>4
    <3>2. /\ UNCHANGED <<orders, book>> /\ refused' = refused \cup {call[t].req}
          /\ call[t].req \in Requests /\ Stored(call[t].req)
      BY <3>1 DEF BrokerDeclines, IInv, LabelsFit, OrdersFit
    <3>3. PICK r \in Requests : UNCHANGED <<orders, book>> /\ refused' = refused \cup {r}
                               /\ Stored(r)
      BY <3>2
    <3>4. QED
      BY <3>3, DeclineWritten
  <2>5. QED
    BY <2>1, <2>2, <2>3, <2>4, HistoryEffect
<1>5. QED
  BY <1>1, <1>2, <1>4, Inductive, MirrorInductive, SentStep, OneOrderPerKey,
     PTL DEF Spec, KeepsPromise, Promise!Spec
====
