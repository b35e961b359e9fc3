---- MODULE InstanceDesk ----
(***************************************************************************)
(* The strategy instances of one trader and what they do at the broker:    *)
(* strategy_instance_service.py and live_trading_service.py with their     *)
(* endpoints.  A handler reads a row in one step and commits in a later    *)
(* one; a trade is at the broker before its rows are committed.  Prices,   *)
(* quantities and performance figures are left out, and with them the      *)
(* handlers that write nothing else (sync_positions, update_position).     *)
(* Every request has a StrategyInstanceService of its own, so the paper    *)
(* engine that start_instance puts into it is gone with the request:       *)
(* candles, close_position and exit-all find none in paper mode.           *)
(***************************************************************************)
EXTENDS Naturals, FiniteSets, TLC, UnitOfWork

CONSTANTS
    Instances, Positions,    \* identities of the rows
    Requests,                \* requests in flight
    NoRow,
    NoPosition,              \* a signal without a position_id
    MaxOrders                \* bound on the orders sent, in the guard of a trade

\* No code completes an instance.
Status == {"draft", "running", "paused", "stopped"}
Instance == [status : Status, mode : {"paper", "live"}]
Position == [instance : Instances, open : BOOLEAN]

VARIABLES
    instances,     \* identity -> row
    positions,     \* identity -> row
    session,       \* _broker_sessions of the trader: the broker connected, or "none"
    request,       \* what each request in flight has read, and will write
    placed,        \* the number of orders at the broker
    trades,        \* the number of trades recorded in instance_trades
    lost           \* history: orders whose request failed before its commit

ivars == <<instances, positions, session, request, placed, trades, lost>>

Idle == [op |-> "idle"]

Init ==
    /\ instances = [i \in Instances |-> NoRow]
    /\ positions = [p \in Positions |-> NoRow]
    /\ session = "none"
    /\ request = [r \in Requests |-> Idle]
    /\ placed = 0 /\ trades = 0 /\ lost = 0

Present == {i \in Instances : instances[i] # NoRow}
Free(r) == request[r] = Idle
Ends(r) == request' = [request EXCEPT ![r] = Idle]
Set(row, status) == {[row EXCEPT !.status = status]}

\* The arguments place_order takes, in each of the three brokers a session can hold.
Accepted(keywords) ==
    keywords \subseteq {"symbol", "side", "quantity", "order_type", "price", "product"}

----
\* The life cycle: what each handler makes of the row it has read.

StartInstance(row) == IF row.status = "running" THEN {} ELSE Set(row, "running")

PauseInstance(row) == IF row.status = "running" THEN Set(row, "paused") ELSE {}

\* Mutant: an instance that does not run resumes.
ResumeIdle(row) == IF row.status # "running" THEN Set(row, "running") ELSE {}

ResumeInstance(row) == IF row.status = "paused" THEN Set(row, "running") ELSE {}

StopInstance(row) == Set(row, "stopped")

\* The live endpoints ask for no status, and not whose instance it is.
PauseLive(row) == Set(row, "paused")
ResumeLive(row) == Set(row, "running")
StopLive(row) == Set(row, "stopped")

DeleteInstance(row) == IF row.status = "running" THEN {} ELSE {NoRow}

Outcomes(op, row) ==
    CASE op = "start" -> StartInstance(row)
      [] op = "pause" -> PauseInstance(row)
      [] op = "resume" -> ResumeInstance(row)
      [] op = "stop" -> StopInstance(row)
      [] op = "live-pause" -> PauseLive(row)
      [] op = "live-resume" -> ResumeLive(row)
      [] op = "live-stop" -> StopLive(row)
      [] op = "delete" -> DeleteInstance(row)

LifeCycle == {"start", "pause", "resume", "stop", "live-pause", "live-resume", "live-stop",
              "delete"}

CreateInstance ==
    /\ \E i \in Instances \ Present, m \in {"paper", "live"} :
         /\ \A r \in Requests : request[r] # Idle => request[r].on # i
         /\ instances' = [instances EXCEPT ![i] = [status |-> "draft", mode |-> m]]
    /\ UNCHANGED <<positions, session, request, placed, trades, lost>>

Handle(r) ==
    /\ Free(r)
    /\ \E op \in LifeCycle, i \in Present : \E new \in Outcomes(op, instances[i]) :
         request' = [request EXCEPT ![r] =
            [op |-> op, on |-> i, read |-> instances[i], new |-> new]]
    /\ UNCHANGED <<instances, positions, session, placed, trades, lost>>

\* Mutant: the instance is deleted without what belongs to it.
CascadeNothing(i) == positions

\* Deleting an instance deletes its positions.
Cascade(i) ==
    [p \in Positions |-> IF positions[p] # NoRow /\ positions[p].instance = i
                         THEN NoRow ELSE positions[p]]

\* An UPDATE that finds no row raises, a DELETE that finds none does not.
Commit(r) ==
    /\ request[r].op \in LifeCycle
    /\ LET req == request[r]
           row == instances[req.on]
       IN  IF req.new = NoRow
           THEN /\ instances' = [instances EXCEPT ![req.on] = NoRow]
                /\ positions' = Cascade(req.on)
           ELSE /\ instances' = [instances EXCEPT ![req.on] =
                     IF row = NoRow THEN NoRow ELSE Flush(row, req.read, req.new)]
                /\ UNCHANGED positions
    /\ Ends(r)
    /\ UNCHANGED <<session, placed, trades, lost>>

----
\* The broker connection, in the memory of the process.

ConnectBroker ==
    /\ \E broker \in {"mock", "real"} : session' = broker
    /\ UNCHANGED <<instances, positions, request, placed, trades, lost>>

DisconnectBroker ==
    /\ session # "none"
    /\ session' = "none"
    /\ UNCHANGED <<instances, positions, request, placed, trades, lost>>

----
\* A candle reads the status, waits for its signal and then trades.
Candle(r) ==
    /\ Free(r)
    /\ \E i \in Present :
         /\ instances[i].status = "running"
         /\ request' = [request EXCEPT ![r] =
                [op |-> "candle", on |-> i, mode |-> instances[i].mode]]
    /\ UNCHANGED <<instances, positions, session, placed, trades, lost>>

\* No paper engine, no session, or a TypeError for product_type: in each case a log entry
\* and nothing else.
CandleTrades(r) ==
    /\ request[r].op = "candle"
    /\ placed' = IF /\ request[r].mode = "live" /\ session # "none"
                    /\ Accepted({"symbol", "side", "quantity", "order_type", "price",
                                 "product_type"})
                 THEN placed + 1 ELSE placed
    /\ Ends(r)
    /\ UNCHANGED <<instances, positions, session, trades, lost>>

\* Mutant: the trade is recorded whether or not the broker answers as expected.
TradeAssumed(r) ==
    /\ Free(r) /\ session # "none" /\ placed < MaxOrders
    /\ \E i \in Instances, p \in Positions \cup {NoPosition} :
         /\ placed' = IF session = "mock" THEN placed + 1 ELSE placed
         /\ request' = [request EXCEPT ![r] = [op |-> "trade", on |-> i, position |-> p]]
    /\ UNCHANGED <<instances, positions, session, trades, lost>>

\* execute_live_trade sends its order before it looks at any row.  The answer of a real
\* broker has no average_price: the request fails with the order at the broker.
ExecuteLiveTrade(r) ==
    /\ Free(r) /\ session # "none" /\ placed < MaxOrders
    /\ Accepted({"symbol", "side", "quantity", "order_type", "product"})
    /\ placed' = placed + 1
    /\ IF session = "mock"
       THEN /\ \E i \in Instances, p \in Positions \cup {NoPosition} :
                 request' = [request EXCEPT ![r] = [op |-> "trade", on |-> i, position |-> p]]
            /\ UNCHANGED lost
       ELSE lost' = lost + 1 /\ UNCHANGED request
    /\ UNCHANGED <<instances, positions, session, trades>>

\* With a position_id it reads that row, whether open or not, to close it.
TradeReads(r) ==
    /\ request[r].op = "trade"
    /\ request[r].position # NoPosition
    /\ request' = [request EXCEPT ![r] =
            [op |-> "close", on |-> @.on, position |-> @.position,
             found |-> positions[@.position] # NoRow]]
    /\ UNCHANGED <<instances, positions, session, placed, trades, lost>>

\* The rows refer to the instance: the commit fails if it is gone, and so does the update of a
\* position that is.
TradeCommits(r) ==
    /\ \/ request[r].op = "close"
       \/ request[r].op = "trade" /\ request[r].position = NoPosition
    /\ LET req == request[r]
           closes == req.op = "close" /\ req.found
       IN  IF instances[req.on] = NoRow \/ (closes /\ positions[req.position] = NoRow)
           THEN lost' = lost + 1 /\ UNCHANGED <<positions, trades>>
           ELSE /\ trades' = trades + 1
                /\ IF req.op = "close"
                   THEN positions' = IF req.found
                          THEN [positions EXCEPT ![req.position].open = FALSE] ELSE positions
                   ELSE \E p \in Positions : /\ positions[p] = NoRow
                                             /\ positions' = [positions EXCEPT ![p] =
                                                  [instance |-> req.on, open |-> TRUE]]
                /\ UNCHANGED lost
    /\ Ends(r)
    /\ UNCHANGED <<instances, session, placed>>

----
\* The emergency exit reads the open positions of a live instance, and then sends an order
\* for each with a keyword no broker takes.
ExitAllPositions(r) ==
    /\ Free(r)
    /\ session # "none"
    /\ \E i \in Present :
         /\ instances[i].mode = "live"
         /\ request' = [request EXCEPT ![r] = [op |-> "exit", on |-> i, open |->
                {p \in Positions : positions[p] = [instance |-> i, open |-> TRUE]}]]
    /\ UNCHANGED <<instances, positions, session, placed, trades, lost>>

ExitsPlaced(r) ==
    /\ request[r].op = "exit"
    /\ LET closed == IF Accepted({"symbol", "side", "quantity", "order_type", "product_type"})
                     THEN request[r].open ELSE {}
       IN  /\ positions' = [p \in Positions |->
                IF p \in closed /\ positions[p] # NoRow
                THEN [positions[p] EXCEPT !.open = FALSE] ELSE positions[p]]
           /\ placed' = placed + Cardinality(closed)
    /\ Ends(r)
    /\ UNCHANGED <<instances, session, trades, lost>>

\* The process dies: requests and sessions are gone, rows and orders stay.
Restart ==
    /\ lost' = lost + Cardinality({r \in Requests : request[r].op \in {"trade", "close"}})
    /\ request' = [r \in Requests |-> Idle]
    /\ session' = "none"
    /\ UNCHANGED <<instances, positions, placed, trades>>

Next ==
    \/ CreateInstance \/ ConnectBroker \/ DisconnectBroker \/ Restart
    \/ \E r \in Requests :
         \/ Handle(r) \/ Commit(r)
         \/ Candle(r) \/ CandleTrades(r)
         \/ ExecuteLiveTrade(r) \/ TradeReads(r) \/ TradeCommits(r)
         \/ ExitAllPositions(r) \/ ExitsPlaced(r)

Spec == Init /\ [][Next]_ivars

----
(* Properties. *)

\* Every order at the broker was recorded in instance_trades, or a request that will still
\* write it, or was lost by a request that failed after the broker had it; and no trade is
\* recorded that is not at the broker.
OrdersAccounted ==
    placed = trades + lost
             + Cardinality({r \in Requests : request[r].op \in {"trade", "close"}})

\* Trades, deletions and their races leave no position of an instance that is gone.
NoOrphans ==
    \A p \in Positions : positions[p] # NoRow => instances[positions[p].instance] # NoRow

\* The requests that mean an instance to run: of those that found it not running a start and a
\* resume of the live service, which ask for nothing else, and a resume of a paused one.
MeansRunning(r) ==
    /\ request[r].op \in {"start", "resume", "live-resume"}
    /\ request[r].read.status # "running" /\ request[r].new.status = "running"
    /\ request[r].op = "resume" => request[r].read.status = "paused"

\* A stopped instance runs again only by a request that found it not running and means it to
\* run - so by a resume only if that had read it before the stop -, and by none that found it
\* running and commits after the stop.
StoppedStaysStopped ==
    [][\A i \in Present :
         (instances[i].status = "stopped" /\ i \in Present'
            /\ instances'[i].status = "running") =>
            \E r \in Requests :
              ~Free(r) /\ Free(r)' /\ MeansRunning(r) /\ request[r].on = i
      ]_ivars
====
