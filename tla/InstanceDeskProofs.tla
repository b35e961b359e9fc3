---- MODULE InstanceDeskProofs ----
(***************************************************************************)
(* Proofs about InstanceDesk, for any instances, positions and requests:   *)
(* the orders at the broker are accounted for, no position outlives its    *)
(* instance, and a stopped instance does not run by itself.                *)
(***************************************************************************)
EXTENDS InstanceDesk, FiniteSetTheorems, TLAPS

\* What the proofs assume of the constants: requests are finitely many, and the absence of
\* a row is not one.
Distinct ==
    /\ IsFiniteSet(Requests)
    /\ NoRow \notin Instance \cup Position
    /\ MaxOrders \in Nat

InFlight == {r \in Requests : request[r].op \in {"trade", "close"}}

RequestFits(r) ==
    /\ request[r].op \in LifeCycle =>
         /\ request[r].on \in Instances
         /\ request[r].read \in Instance
         /\ request[r].new \in Outcomes(request[r].op, request[r].read)
    /\ request[r].op \in {"trade", "close"} =>
         request[r].on \in Instances /\ request[r].position \in Positions \cup {NoPosition}
    /\ request[r].op = "exit" => request[r].open \subseteq Positions

Types ==
    /\ instances \in [Instances -> Instance \cup {NoRow}]
    /\ positions \in [Positions -> Position \cup {NoRow}]
    /\ DOMAIN request = Requests
    /\ placed \in Nat /\ trades \in Nat /\ lost \in Nat

Fits == \A r \in Requests : RequestFits(r)

IInv == Types /\ Fits /\ OrdersAccounted /\ NoOrphans

-----------------------------------------------------------------------------
(* What a commit makes of a row.                                            *)

\* A handler makes a row, or none, of the row it has read.
LEMMA OutcomesFit ==
    ASSUME NEW op \in LifeCycle, NEW row \in Instance, NEW new \in Outcomes(op, row)
    PROVE  new \in Instance \cup {NoRow}
<1>1. \A status \in Status : Set(row, status) \subseteq Instance
  BY DEF Set, Instance
<1>2. QED
  BY <1>1, SMTT(30) DEF Outcomes, LifeCycle, StartInstance, PauseInstance, ResumeInstance,
     StopInstance, PauseLive, ResumeLive, StopLive, DeleteInstance, Status, Set

\* Committing over a row that has changed leaves a row, with the status that was read or the
\* one that was meant.
LEMMA FlushFits ==
    ASSUME NEW row \in Instance, NEW read \in Instance, NEW new \in Instance
    PROVE  /\ Flush(row, read, new) \in Instance
           /\ Flush(row, read, new).status =
                IF new.status = read.status THEN row.status ELSE new.status
<1>1. DOMAIN row = {"status", "mode"}
  BY DEF Instance
<1>2. Flush(row, read, new) =
        [status |-> IF new.status = read.status THEN row.status ELSE new.status,
         mode |-> IF new.mode = read.mode THEN row.mode ELSE new.mode]
  BY <1>1 DEF Flush
<1>3. QED
  BY <1>2 DEF Instance

-----------------------------------------------------------------------------
(* What a step of one request does to the others.                           *)

\* The other requests are what they were.
LEMMA OthersFit ==
    ASSUME DOMAIN request = Requests, Fits, NEW r \in Requests, NEW new,
           request' = [request EXCEPT ![r] = new]
    PROVE  /\ DOMAIN request' = Requests
           /\ request'[r] = new
           /\ \A q \in Requests \ {r} : request'[q] = request[q]
           /\ \A q \in Requests \ {r} : RequestFits(q)'
<1>1. /\ DOMAIN request' = Requests /\ request'[r] = new
      /\ \A q \in Requests \ {r} : request'[q] = request[q]
  OBVIOUS
<1>2. QED
  BY <1>1 DEF Fits, RequestFits

\* The number of trades in flight moves with the request that moves.
LEMMA InFlightMoves ==
    ASSUME IsFiniteSet(Requests), DOMAIN request = Requests, NEW r \in Requests, NEW new,
           request' = [request EXCEPT ![r] = new]
    PROVE  /\ Cardinality(InFlight) \in Nat
           /\ (r \in InFlight <=> new.op \in {"trade", "close"}) =>
                Cardinality(InFlight') = Cardinality(InFlight)
           /\ (r \notin InFlight /\ new.op \in {"trade", "close"}) =>
                Cardinality(InFlight') = Cardinality(InFlight) + 1
           /\ (r \in InFlight /\ new.op \notin {"trade", "close"}) =>
                Cardinality(InFlight') = Cardinality(InFlight) - 1
<1>1. IsFiniteSet(InFlight)
  BY FS_Subset DEF InFlight
<1>2. Cardinality(InFlight) \in Nat
  BY <1>1, FS_CardinalityType
<1>3. r \in InFlight' <=> new.op \in {"trade", "close"}
  BY DEF InFlight
<1>4. \A q \in Requests \ {r} : q \in InFlight' <=> q \in InFlight
  BY DEF InFlight
<1>5. InFlight \subseteq Requests /\ InFlight' \subseteq Requests
  BY DEF InFlight
<1>6. CASE r \in InFlight <=> new.op \in {"trade", "close"}
  <2>1. InFlight' = InFlight
    BY <1>3, <1>4, <1>5, <1>6
  <2>2. QED
    BY <1>2, <1>6, <2>1
<1>7. CASE r \notin InFlight /\ new.op \in {"trade", "close"}
  <2>1. InFlight' = InFlight \cup {r}
    BY <1>3, <1>4, <1>5, <1>7
  <2>2. QED
    BY <1>1, <1>2, <1>7, <2>1, FS_AddElement
<1>8. CASE r \in InFlight /\ new.op \notin {"trade", "close"}
  <2>1. InFlight' = InFlight \ {r}
    BY <1>3, <1>4, <1>5, <1>8
  <2>2. QED
    BY <1>1, <1>2, <1>8, <2>1, FS_RemoveElement
<1>9. QED
  BY <1>6, <1>7, <1>8

\* A request that is and was no trade leaves the account as it is.
LEMMA NoTrade ==
    ASSUME IsFiniteSet(Requests), Types, OrdersAccounted, NEW r \in Requests, NEW new,
           request' = [request EXCEPT ![r] = new],
           request[r].op \notin {"trade", "close"}, new.op \notin {"trade", "close"},
           UNCHANGED <<trades, lost, placed>>
    PROVE  OrdersAccounted'
<1>1. Cardinality(InFlight') = Cardinality(InFlight)
  BY InFlightMoves DEF Types, InFlight
<1>2. QED
  BY <1>1 DEF OrdersAccounted, InFlight

-----------------------------------------------------------------------------
(* Each action keeps the invariant.                                         *)

\* It holds at the start.
LEMMA InitFits == ASSUME Distinct, Init PROVE IInv
<1>1. Types
  BY DEF Init, Types
<1>2. Fits
  BY DEF Init, Fits, RequestFits, Idle, LifeCycle
<1>3. InFlight = {}
  BY DEF Init, Idle, InFlight
<1>4. OrdersAccounted
  <2>1. Cardinality(InFlight) = 0
    BY <1>3, FS_EmptySet
  <2>2. QED
    BY <2>1 DEF Init, OrdersAccounted, InFlight
<1>5. NoOrphans
  BY DEF Init, NoOrphans
<1>6. QED
  BY <1>1, <1>2, <1>4, <1>5 DEF IInv

\* A new row is a draft, and no position refers to it.
LEMMA CreateInstanceKeeps == ASSUME Distinct, IInv, CreateInstance PROVE IInv'
<1> USE DEF IInv
<1>1. PICK i \in Instances, m \in {"paper", "live"} :
        instances' = [instances EXCEPT ![i] = [status |-> "draft", mode |-> m]]
  BY DEF CreateInstance, Present
<1>2. [status |-> "draft", mode |-> m] \in Instance
  BY DEF Instance, Status
<1>3. UNCHANGED <<positions, session, request, placed, trades, lost>>
  BY DEF CreateInstance
<1>4. Types'
  BY <1>1, <1>2, <1>3 DEF Types
<1>5. Fits'
  BY <1>3 DEF Fits, RequestFits
<1>6. OrdersAccounted'
  BY <1>3 DEF OrdersAccounted
<1>7. NoOrphans'
  BY <1>1, <1>2, <1>3 DEF NoOrphans, Types, Distinct, Position
<1>8. QED
  BY <1>4, <1>5, <1>6, <1>7

\* A handler reads a row and notes what it will write.
LEMMA HandleKeeps ==
    ASSUME Distinct, IInv, NEW r \in Requests, Handle(r)
    PROVE  IInv'
<1> USE DEF IInv
<1>1. PICK op \in LifeCycle, i \in Present : \E new \in Outcomes(op, instances[i]) :
        request' = [request EXCEPT ![r] =
            [op |-> op, on |-> i, read |-> instances[i], new |-> new]]
  BY DEF Handle
<1>2. PICK new \in Outcomes(op, instances[i]) :
        request' = [request EXCEPT ![r] =
            [op |-> op, on |-> i, read |-> instances[i], new |-> new]]
  BY <1>1
<1>3. /\ request[r].op = "idle"
      /\ UNCHANGED <<instances, positions, session, placed, trades, lost>>
  BY DEF Handle, Free, Idle
<1>4. i \in Instances /\ instances[i] \in Instance
  BY DEF Present, Types
<1>5. RequestFits(r)'
  BY <1>2, <1>4 DEF RequestFits, LifeCycle, Types
<1>6. Types' /\ Fits'
  BY <1>2, <1>3, <1>5, OthersFit DEF Types, Fits
<1>7. OrdersAccounted'
  BY <1>2, <1>3, NoTrade DEF LifeCycle, Distinct
<1>8. NoOrphans'
  BY <1>3 DEF NoOrphans
<1>9. QED
  BY <1>6, <1>7, <1>8

\* A commit writes a row, or deletes one with its positions.
LEMMA CommitKeeps ==
    ASSUME Distinct, IInv, NEW r \in Requests, Commit(r)
    PROVE  IInv'
<1> USE DEF IInv
<1> DEFINE req == request[r]
<1>1. /\ req.op \in LifeCycle
      /\ req.on \in Instances /\ req.read \in Instance
      /\ req.new \in Instance \cup {NoRow}
  BY OutcomesFit DEF Commit, Fits, RequestFits
<1>2. /\ request' = [request EXCEPT ![r] = Idle]
      /\ UNCHANGED <<session, placed, trades, lost>>
  BY DEF Commit, Ends
<1>3. RequestFits(r)'
  BY <1>2 DEF RequestFits, Idle, LifeCycle, Types
<1>4. Fits' /\ DOMAIN request' = Requests
  BY <1>2, <1>3, OthersFit DEF Fits, Types
<1>5. OrdersAccounted'
  BY <1>1, <1>2, NoTrade DEF LifeCycle, Distinct, Idle
<1>6. CASE req.new = NoRow
  <2>1. /\ instances' = [instances EXCEPT ![req.on] = NoRow]
        /\ positions' = Cascade(req.on)
    BY <1>6 DEF Commit
  <2>2. Types'
    BY <1>1, <1>2, <1>4, <2>1 DEF Types, Cascade
  <2>3. NoOrphans'
    BY <1>1, <2>1 DEF NoOrphans, Cascade, Types
  <2>4. QED
    BY <1>4, <1>5, <2>2, <2>3
<1>7. CASE req.new # NoRow
  <2>1. instances' = [instances EXCEPT ![req.on] =
           IF instances[req.on] = NoRow THEN NoRow
           ELSE Flush(instances[req.on], req.read, req.new)]
    BY <1>7 DEF Commit
  <2>2. UNCHANGED positions
    BY <1>7 DEF Commit
  <2>3. instances[req.on] # NoRow =>
          Flush(instances[req.on], req.read, req.new) \in Instance
    BY <1>1, <1>7, FlushFits DEF Types
  <2>4. Types'
    BY <1>1, <1>2, <1>4, <2>1, <2>2, <2>3 DEF Types
  <2>5. NoOrphans'
    BY <1>1, <2>1, <2>2, <2>3 DEF NoOrphans, Types, Distinct
  <2>6. QED
    BY <1>4, <1>5, <2>4, <2>5
<1>8. QED
  BY <1>6, <1>7

\* The session is in no part of the invariant.
LEMMA BrokerKeeps ==
    ASSUME Distinct, IInv, ConnectBroker \/ DisconnectBroker
    PROVE  IInv'
BY DEF IInv, ConnectBroker, DisconnectBroker, Types, Fits, RequestFits, OrdersAccounted, NoOrphans

\* A candle reads a row.
LEMMA CandleKeeps ==
    ASSUME Distinct, IInv, NEW r \in Requests, Candle(r)
    PROVE  IInv'
<1> USE DEF IInv
<1>1. PICK i \in Present :
        request' = [request EXCEPT ![r] =
            [op |-> "candle", on |-> i, mode |-> instances[i].mode]]
  BY DEF Candle
<1>2. /\ request[r].op = "idle"
      /\ UNCHANGED <<instances, positions, session, placed, trades, lost>>
  BY DEF Candle, Free, Idle
<1>3. RequestFits(r)'
  BY <1>1 DEF RequestFits, LifeCycle, Types
<1>4. Types' /\ Fits'
  BY <1>1, <1>2, <1>3, OthersFit DEF Types, Fits
<1>5. OrdersAccounted'
  BY <1>1, <1>2, NoTrade DEF Distinct
<1>6. NoOrphans'
  BY <1>2 DEF NoOrphans
<1>7. QED
  BY <1>4, <1>5, <1>6

\* The keyword "product_type" is none that a broker takes.
LEMMA CandleTradesKeeps ==
    ASSUME Distinct, IInv, NEW r \in Requests, CandleTrades(r)
    PROVE  IInv'
<1> USE DEF IInv
<1>1. /\ request' = [request EXCEPT ![r] = Idle]
      /\ request[r].op = "candle"
      /\ UNCHANGED <<instances, positions, session, trades, lost>>
  BY DEF CandleTrades, Ends
<1>2. UNCHANGED placed
  BY DEF CandleTrades, Accepted
<1>3. RequestFits(r)'
  BY <1>1 DEF RequestFits, Idle, LifeCycle, Types
<1>4. Types' /\ Fits'
  BY <1>1, <1>2, <1>3, OthersFit DEF Types, Fits
<1>5. OrdersAccounted'
  BY <1>1, <1>2, NoTrade DEF Distinct, Idle
<1>6. NoOrphans'
  BY <1>1 DEF NoOrphans
<1>7. QED
  BY <1>4, <1>5, <1>6

\* An order is at the broker and in flight, or at the broker and lost.
LEMMA ExecuteLiveTradeKeeps ==
    ASSUME Distinct, IInv, NEW r \in Requests, ExecuteLiveTrade(r)
    PROVE  IInv'
<1> USE DEF IInv
<1>1. /\ request[r].op = "idle"
      /\ placed' = placed + 1
      /\ UNCHANGED <<instances, positions, session, trades>>
  BY DEF ExecuteLiveTrade, Free, Idle
<1>2. NoOrphans'
  BY <1>1 DEF NoOrphans
<1>3. CASE session = "mock"
  <2>1. PICK i \in Instances, p \in Positions \cup {NoPosition} :
          request' = [request EXCEPT ![r] = [op |-> "trade", on |-> i, position |-> p]]
    BY <1>3 DEF ExecuteLiveTrade
  <2> DEFINE new == [op |-> "trade", on |-> i, position |-> p]
  <2>2. /\ UNCHANGED lost
        /\ request' = [request EXCEPT ![r] = new] /\ new.op = "trade"
    BY <1>3, <2>1 DEF ExecuteLiveTrade
  <2>3. RequestFits(r)'
    BY <2>1 DEF RequestFits, LifeCycle, Types
  <2> HIDE DEF new
  <2>4. Fits' /\ DOMAIN request' = Requests
    BY <2>2, <2>3, OthersFit DEF Types, Fits
  <2>5. Types'
    BY <1>1, <2>2, <2>4 DEF Types
  <2>6. r \notin InFlight /\ new.op \in {"trade", "close"}
    BY <1>1, <2>2 DEF InFlight
  <2>7. IsFiniteSet(Requests) /\ DOMAIN request = Requests
    BY DEF Types, Distinct
  <2>8. /\ Cardinality(InFlight) \in Nat
        /\ Cardinality(InFlight') = Cardinality(InFlight) + 1
    BY <2>2, <2>6, <2>7, InFlightMoves
  <2>9. OrdersAccounted'
    BY <1>1, <2>2, <2>8 DEF OrdersAccounted, InFlight, Types
  <2>10. QED
    BY <1>2, <2>4, <2>5, <2>9
<1>4. CASE session # "mock"
  <2>1. lost' = lost + 1 /\ UNCHANGED request
    BY <1>4 DEF ExecuteLiveTrade
  <2>2. Types' /\ Fits'
    BY <1>1, <2>1 DEF Types, Fits, RequestFits
  <2>3. Cardinality(InFlight) \in Nat
    BY FS_Subset, FS_CardinalityType DEF InFlight, Distinct
  <2>4. OrdersAccounted'
    BY <1>1, <2>1, <2>3 DEF OrdersAccounted, InFlight, Types
  <2>5. QED
    BY <1>2, <2>2, <2>4
<1>5. QED
  BY <1>3, <1>4

\* A trade that has read the position it closes is still in flight.
LEMMA TradeReadsKeeps ==
    ASSUME Distinct, IInv, NEW r \in Requests, TradeReads(r)
    PROVE  IInv'
<1> USE DEF IInv
<1> DEFINE new == [op |-> "close", on |-> request[r].on, position |-> request[r].position,
                   found |-> positions[request[r].position] # NoRow]
<1>1. /\ request[r].op = "trade"
      /\ request' = [request EXCEPT ![r] = new]
      /\ UNCHANGED <<instances, positions, session, placed, trades, lost>>
  BY DEF TradeReads
<1>2. RequestFits(r)'
  BY <1>1 DEF RequestFits, Fits, LifeCycle, Types
<1>3. Types' /\ Fits'
  <2>1. DOMAIN request = Requests /\ DOMAIN request' = Requests
    BY <1>1 DEF Types
  <2>2. Types'
    BY <1>1, <2>1 DEF Types
  <2>3. PICK made : made = new
    OBVIOUS
  <2>4. \A q \in Requests \ {r} : RequestFits(q)'
    BY <1>1, <2>1, <2>3, OthersFit
  <2>5. QED
    BY <1>2, <2>2, <2>4 DEF Fits
<1>4. Cardinality(InFlight') = Cardinality(InFlight)
  <2>1. r \in InFlight /\ new.op = "close"
    BY <1>1 DEF InFlight
  <2>2. IsFiniteSet(Requests) /\ DOMAIN request = Requests
    BY DEF Types, Distinct
  <2>3. PICK made : made = new
    OBVIOUS
  <2>4. made.op = "close" /\ request' = [request EXCEPT ![r] = made]
    BY <1>1, <2>1, <2>3
  <2>5. QED
    BY <2>1, <2>2, <2>4, InFlightMoves
<1>5. OrdersAccounted'
  BY <1>1, <1>4 DEF OrdersAccounted, InFlight
<1>6. NoOrphans'
  BY <1>1 DEF NoOrphans
<1>7. QED
  BY <1>3, <1>5, <1>6

\* A trade that ends was recorded or is lost.
LEMMA TradeCommitsKeeps ==
    ASSUME Distinct, IInv, NEW r \in Requests, TradeCommits(r)
    PROVE  IInv'
<1> USE DEF IInv
<1> DEFINE req == request[r]
           closes == req.op = "close" /\ req.found
<1>1. /\ request' = [request EXCEPT ![r] = Idle]
      /\ UNCHANGED <<instances, session, placed>>
      /\ req.op \in {"trade", "close"}
  BY DEF TradeCommits, Ends
<1>2. req.on \in Instances /\ req.position \in Positions \cup {NoPosition}
  BY <1>1 DEF Fits, RequestFits
<1>3. RequestFits(r)'
  BY <1>1 DEF RequestFits, Idle, LifeCycle, Types
<1>4. Fits' /\ DOMAIN request' = Requests
  BY <1>1, <1>3, OthersFit DEF Types, Fits
<1>5. /\ Cardinality(InFlight) \in Nat
      /\ Cardinality(InFlight') = Cardinality(InFlight) - 1
  <2>1. r \in InFlight /\ Idle.op \notin {"trade", "close"}
    BY <1>1 DEF InFlight, Idle
  <2>2. IsFiniteSet(Requests) /\ DOMAIN request = Requests
    BY DEF Types, Distinct
  <2>3. QED
    BY <1>1, <2>1, <2>2, InFlightMoves
<1>6. CASE instances[req.on] = NoRow \/ (closes /\ positions[req.position] = NoRow)
  <2>1. lost' = lost + 1 /\ UNCHANGED <<positions, trades>>
    BY <1>6 DEF TradeCommits
  <2>2. Types'
    BY <1>1, <1>4, <2>1 DEF Types
  <2>3. OrdersAccounted'
    BY <1>1, <1>5, <2>1 DEF OrdersAccounted, InFlight, Types
  <2>4. NoOrphans'
    BY <1>1, <2>1 DEF NoOrphans
  <2>5. QED
    BY <1>4, <2>2, <2>3, <2>4
<1>7. CASE ~(instances[req.on] = NoRow \/ (closes /\ positions[req.position] = NoRow))
  <2>1. trades' = trades + 1 /\ UNCHANGED lost
    BY <1>7 DEF TradeCommits
  <2>2. OrdersAccounted'
    BY <1>1, <1>5, <2>1 DEF OrdersAccounted, InFlight, Types
  <2>3. /\ positions' \in [Positions -> Position \cup {NoRow}]
        /\ NoOrphans'
    <3>1. CASE closes
      <4>1. positions' = [positions EXCEPT ![req.position].open = FALSE]
        BY <1>7, <3>1 DEF TradeCommits
      <4>2. req.position \in Positions => positions[req.position] \in Position
        BY <1>7, <3>1 DEF Types
      <4>3. positions' \in [Positions -> Position \cup {NoRow}]
        BY <4>1, <4>2 DEF Types, Position
      <4>4. \A p \in Positions : positions'[p] # NoRow =>
              positions[p] # NoRow /\ positions'[p].instance = positions[p].instance
        BY <4>1, <4>2, <1>7, <3>1 DEF Types, Position
      <4>5. QED
        BY <1>1, <4>3, <4>4 DEF NoOrphans
    <3>2. CASE req.op = "close" /\ ~req.found
      <4>1. UNCHANGED positions
        BY <1>7, <3>2 DEF TradeCommits
      <4>2. QED
        BY <1>1, <4>1 DEF NoOrphans, Types
    <3>3. CASE req.op # "close"
      <4>1. PICK p \in Positions :
              positions' = [positions EXCEPT ![p] = [instance |-> req.on, open |-> TRUE]]
        BY <1>7, <3>3 DEF TradeCommits
      <4>2. [instance |-> req.on, open |-> TRUE] \in Position
        BY <1>2 DEF Position
      <4>3. positions' \in [Positions -> Position \cup {NoRow}]
        BY <4>1, <4>2 DEF Types
      <4>4. instances[req.on] # NoRow
        BY <1>7
      <4>5. QED
        BY <1>1, <4>1, <4>3, <4>4 DEF NoOrphans, Types
    <3>4. QED
      BY <3>1, <3>2, <3>3
  <2>4. Types'
    BY <1>1, <1>4, <2>1, <2>3 DEF Types
  <2>5. QED
    BY <1>4, <2>2, <2>3, <2>4
<1>8. QED
  BY <1>6, <1>7

\* The emergency exit notes the open positions of its instance.
LEMMA ExitAllPositionsKeeps ==
    ASSUME Distinct, IInv, NEW r \in Requests, ExitAllPositions(r)
    PROVE  IInv'
<1> USE DEF IInv
<1>1. PICK i \in Present :
        request' = [request EXCEPT ![r] = [op |-> "exit", on |-> i, open |->
            {p \in Positions : positions[p] = [instance |-> i, open |-> TRUE]}]]
  BY DEF ExitAllPositions
<1>2. /\ request[r].op = "idle"
      /\ UNCHANGED <<instances, positions, session, placed, trades, lost>>
  BY DEF ExitAllPositions, Free, Idle
<1>3. RequestFits(r)'
  BY <1>1 DEF RequestFits, LifeCycle, Types
<1>4. Fits' /\ DOMAIN request' = Requests
  BY <1>1, <1>3, OthersFit DEF Types, Fits
<1>5. Types'
  BY <1>2, <1>4 DEF Types
<1>6. OrdersAccounted'
  BY <1>1, <1>2, NoTrade DEF Distinct
<1>7. NoOrphans'
  BY <1>2 DEF NoOrphans
<1>8. QED
  BY <1>4, <1>5, <1>6, <1>7

\* It closes nothing: "product_type" again.
LEMMA ExitsPlacedKeeps ==
    ASSUME Distinct, IInv, NEW r \in Requests, ExitsPlaced(r)
    PROVE  IInv'
<1> USE DEF IInv
<1>1. /\ request' = [request EXCEPT ![r] = Idle]
      /\ request[r].op = "exit"
      /\ UNCHANGED <<instances, session, trades, lost>>
  BY DEF ExitsPlaced, Ends
<1>2. ~Accepted({"symbol", "side", "quantity", "order_type", "product_type"})
  BY DEF Accepted
<1>3. /\ positions' = [p \in Positions |-> positions[p]]
      /\ placed' = placed + Cardinality({})
  BY <1>2 DEF ExitsPlaced
<1>4. UNCHANGED <<positions, placed>>
  BY <1>3, FS_EmptySet DEF Types
<1>5. RequestFits(r)'
  BY <1>1 DEF RequestFits, Idle, LifeCycle, Types
<1>6. Types' /\ Fits'
  BY <1>1, <1>4, <1>5, OthersFit DEF Types, Fits
<1>7. OrdersAccounted'
  BY <1>1, <1>4, NoTrade DEF Distinct, Idle
<1>8. NoOrphans'
  BY <1>1, <1>4 DEF NoOrphans
<1>9. QED
  BY <1>6, <1>7, <1>8

\* A restart loses the trades in flight.
LEMMA RestartKeeps == ASSUME Distinct, IInv, Restart PROVE IInv'
<1> USE DEF IInv
<1>1. /\ lost' = lost + Cardinality(InFlight)
      /\ request' = [r \in Requests |-> Idle]
      /\ UNCHANGED <<instances, positions, placed, trades>>
  BY DEF Restart, InFlight
<1>2. Cardinality(InFlight) \in Nat
  BY FS_Subset, FS_CardinalityType DEF InFlight, Distinct
<1>3. Types'
  BY <1>1, <1>2 DEF Types
<1>4. Fits'
  BY <1>1 DEF Fits, RequestFits, Idle, LifeCycle
<1>5. Cardinality(InFlight') = 0
  <2>1. InFlight' = {}
    BY <1>1 DEF InFlight, Idle
  <2>2. QED
    BY <2>1, FS_EmptySet
<1>6. OrdersAccounted'
  BY <1>1, <1>2, <1>5 DEF OrdersAccounted, InFlight, Types
<1>7. NoOrphans'
  BY <1>1 DEF NoOrphans
<1>8. QED
  BY <1>3, <1>4, <1>6, <1>7

\* Every step, of any action, keeps the invariant.
LEMMA StepKeeps == ASSUME Distinct, IInv, [Next]_ivars PROVE IInv'
<1>1. CASE UNCHANGED ivars
  BY <1>1 DEF ivars, IInv, Types, Fits, RequestFits, OrdersAccounted, NoOrphans
<1>2. CASE CreateInstance \/ ConnectBroker \/ DisconnectBroker \/ Restart
  BY <1>2, CreateInstanceKeeps, BrokerKeeps, RestartKeeps
<1>3. ASSUME NEW r \in Requests,
             \/ Handle(r) \/ Commit(r)
             \/ Candle(r) \/ CandleTrades(r)
             \/ ExecuteLiveTrade(r) \/ TradeReads(r) \/ TradeCommits(r)
             \/ ExitAllPositions(r) \/ ExitsPlaced(r)
      PROVE  IInv'
  BY <1>3, HandleKeeps, CommitKeeps, CandleKeeps, CandleTradesKeeps, ExecuteLiveTradeKeeps,
     TradeReadsKeeps, TradeCommitsKeeps, ExitAllPositionsKeeps, ExitsPlacedKeeps
<1>4. QED
  BY <1>1, <1>2, <1>3 DEF Next

\* Whatever the interleaving of handlers, commits, trades and restarts: each order at the
\* broker is recorded, or will be by a request in flight, or was lost by a request that
\* failed after it; and a position has its instance.
THEOREM Accounted == ASSUME Distinct PROVE Spec => [](OrdersAccounted /\ NoOrphans)
<1>1. Init => IInv
  BY InitFits
<1>2. IInv /\ [Next]_ivars => IInv'
  BY StepKeeps
<1>3. IInv => OrdersAccounted /\ NoOrphans
  BY DEF IInv
<1>4. QED
  BY <1>1, <1>2, <1>3, PTL DEF Spec

-----------------------------------------------------------------------------
(* Who makes a stopped instance run.                                         *)

\* Of the handlers only start, resume and the resume of the live service make an instance run,
\* and resume asks for a paused one.
LEMMA WhoMeansRunning ==
    ASSUME Distinct,
           NEW op \in LifeCycle, NEW row \in Instance, NEW new \in Outcomes(op, row),
           new \in Instance, new.status = "running", new.status # row.status
    PROVE  /\ op \in {"start", "resume", "live-resume"}
           /\ op = "resume" => row.status = "paused"
<1>1. \A status \in {"paused", "stopped"} : new \notin Set(row, status)
  BY DEF Set, Instance
<1>2. CASE op = "resume"
  BY <1>2 DEF Outcomes, ResumeInstance
<1>3. CASE op \in {"pause", "live-pause"}
  BY <1>1, <1>3 DEF Outcomes, PauseInstance, PauseLive
<1>4. CASE op \in {"stop", "live-stop"}
  BY <1>1, <1>4 DEF Outcomes, StopInstance, StopLive
<1>5. CASE op = "delete"
  BY <1>5 DEF Outcomes, DeleteInstance, Distinct
<1>6. QED
  BY <1>2, <1>3, <1>4, <1>5 DEF LifeCycle

\* Commit is the one step that changes the row of an instance that is there.
LEMMA CommitWakes ==
    ASSUME Distinct, IInv, NEW r \in Requests, Commit(r),
           NEW i \in Present, instances[i].status = "stopped", i \in Present',
           instances'[i].status = "running"
    PROVE  ~Free(r) /\ Free(r)' /\ MeansRunning(r) /\ request[r].on = i
<1> DEFINE req == request[r]
<1>1. /\ req.op \in LifeCycle
      /\ req.on \in Instances /\ req.read \in Instance
      /\ req.new \in Outcomes(req.op, req.read)
      /\ req.new \in Instance \cup {NoRow}
  BY OutcomesFit DEF Commit, IInv, Fits, RequestFits
<1>2. i \in Instances /\ instances[i] \in Instance
  BY DEF Present, IInv, Types
<1>3. ~Free(r) /\ Free(r)'
  BY <1>1 DEF Commit, Ends, Free, Idle, LifeCycle, IInv, Types
<1>4. req.new # NoRow
  BY <1>1, <1>2 DEF Commit, IInv, Types, Present
<1>5. instances' = [instances EXCEPT ![req.on] =
         IF instances[req.on] = NoRow THEN NoRow
         ELSE Flush(instances[req.on], req.read, req.new)]
  BY <1>4 DEF Commit
<1>6. i = req.on
  BY <1>1, <1>2, <1>5 DEF IInv, Types
<1>7. instances'[i] = Flush(instances[i], req.read, req.new)
  BY <1>2, <1>5, <1>6 DEF IInv, Types, Present
<1>8. req.new.status = "running" /\ req.new.status # req.read.status
  BY <1>1, <1>2, <1>4, <1>7, FlushFits
<1>9. QED
  BY <1>1, <1>3, <1>4, <1>6, <1>8, WhoMeansRunning DEF MeansRunning

\* The action of StoppedStaysStopped.
StoppedStay ==
    \A i \in Present :
         (instances[i].status = "stopped" /\ i \in Present'
            /\ instances'[i].status = "running") =>
            \E r \in Requests :
              ~Free(r) /\ Free(r)' /\ MeansRunning(r) /\ request[r].on = i

\* Every step takes it.
LEMMA StepWakes == ASSUME Distinct, IInv, [Next]_ivars PROVE StoppedStay
<1>1. SUFFICES ASSUME NEW i \in Present, instances[i].status = "stopped",
                      i \in Present', instances'[i].status = "running"
               PROVE  \E r \in Requests :
                 ~Free(r) /\ Free(r)' /\ MeansRunning(r) /\ request[r].on = i
  BY DEF StoppedStay
<1>2. instances' # instances
  BY <1>1
<1>3. ~CreateInstance
  BY <1>1 DEF CreateInstance, IInv, Types, Present
<1>4. PICK r \in Requests : Commit(r)
  BY <1>1, <1>2, <1>3 DEF Next, ivars, ConnectBroker, DisconnectBroker, Restart, Handle,
     Candle, CandleTrades, ExecuteLiveTrade, TradeReads, TradeCommits, ExitAllPositions,
     ExitsPlaced
<1>5. QED
  BY <1>1, <1>4, CommitWakes

\* Whatever requests are in flight when an instance is stopped, it runs again only by one that
\* found it not running and means it to run.
THEOREM StoppedStays == ASSUME Distinct PROVE Spec => StoppedStaysStopped
<1>1. Init => IInv
  BY InitFits
<1>2. IInv /\ [Next]_ivars => IInv'
  BY StepKeeps
<1>3. IInv /\ [Next]_ivars => [StoppedStay]_ivars
  BY StepWakes
<1>4. QED
  BY <1>1, <1>2, <1>3, PTL DEF Spec, StoppedStaysStopped, StoppedStay
====
