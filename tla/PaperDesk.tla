---- MODULE PaperDesk ----
(***************************************************************************)
(* Paper trading of one instance: services/paper_trading_service.py behind *)
(* the endpoints /start, /tick, /pause, /resume and /stop.  Instances do   *)
(* not touch each other.  Ticks are requests: two of one instance overlap, *)
(* each on its own copies of the rows, and its prices and signals come     *)
(* from a random walk.  Profit and loss is left out, but for whether an    *)
(* unrealized part is shown.                                               *)
(***************************************************************************)
EXTENDS Integers, FiniteSets, FiniteSetsExt, UnitOfWork

CONSTANTS
    Positions,         \* identities of instance_positions; bounds the entries
    Requests,          \* requests in flight
    Capital,           \* what the instance is started with
    Prices,            \* what the random walk yields
    Portion, Lot,      \* 10 and 100 in the code: a tenth of the capital, in lots
    NoRow


VARIABLES
    instance,          \* the row: [status, allocated_capital, trades_count]
    positions,         \* identity -> [is_open, cost, unrealized]
    request,           \* stage and copies of each request
    closings           \* instance_trades: closing trades of each position

pvars == <<instance, positions, request, closings>>

Idle == [at |-> "idle"]

PaperInit ==
    /\ instance = NoRow
    /\ positions = [p \in Positions |-> NoRow]
    /\ request = [r \in Requests |-> Idle]
    /\ closings = [p \in Positions |-> 0]

OpenPositions == {p \in Positions : positions[p] # NoRow /\ positions[p].is_open}
Entered == {p \in Positions : positions[p] # NoRow}
At(r, stage) == request[r].at = stage
Goto(r, record) == request' = [request EXCEPT ![r] = record]
Ends(r) == Goto(r, Idle)

\* Never less than one share, whatever capital is left.
CalculateQuantity(capital, price) ==
    Max({1, (capital \div (Portion * price * Lot)) * Lot})

----
StartPaperTrading ==
    /\ instance = NoRow
    /\ instance' = [status |-> "running", allocated_capital |-> Capital, trades_count |-> 0]
    /\ UNCHANGED <<positions, request, closings>>

\* What pause, resume and stop make of an instance: none asks for its status, and
\* stop closes no position.
PauseInstance(row) == [row EXCEPT !.status = "paused"]
ResumeInstance(row) == [row EXCEPT !.status = "running"]
StopInstance(row) == [row EXCEPT !.status = "stopped"]

ChangeStatus(r) ==
    /\ At(r, "idle") /\ instance # NoRow
    /\ \E row \in {PauseInstance(instance), ResumeInstance(instance), StopInstance(instance)} :
         Goto(r, [at |-> "status", read |-> instance, new |-> row])
    /\ UNCHANGED <<instance, positions, closings>>

CommitStatus(r) ==
    /\ At(r, "status")
    /\ instance' = Flush(instance, request[r].read, request[r].new)
    /\ Ends(r)
    /\ UNCHANGED <<positions, closings>>

----
\* The endpoint reads the row and its status; every later select of the request
\* returns this copy.
Tick(r) ==
    /\ At(r, "idle") /\ instance # NoRow
    /\ instance.status = "running"
    /\ Goto(r, [at |-> "look", read |-> instance])
    /\ UNCHANGED <<instance, positions, closings>>

\* _has_open_position: with two open positions the query raises, at every tick from then on.
HasOpenPosition(r) ==
    /\ At(r, "look")
    /\ LET read == request[r].read IN
       \/ Cardinality(OpenPositions) > 1 /\ Ends(r)
       \/ Cardinality(OpenPositions) = 1 /\ Goto(r, [at |-> "found", read |-> read])
       \/ OpenPositions = {} /\ Goto(r, [at |-> "update"])
       \/ /\ OpenPositions = {}
          /\ Cardinality(Entered) + Cardinality({q \in Requests : At(q, "open")})
                < Cardinality(Positions)
          /\ \E price \in Prices :
               Goto(r, [at |-> "open", read |-> read,
                        cost |-> price * CalculateQuantity(read.allocated_capital, price)])
    /\ UNCHANGED <<instance, positions, closings>>

\* _get_open_position asks again, and the exit rules look at what it found.
CheckExit(r) ==
    /\ At(r, "found")
    /\ \/ Cardinality(OpenPositions) > 1 /\ Ends(r)
       \/ Cardinality(OpenPositions) < 2 /\ Goto(r, [at |-> "update"])
       \/ /\ Cardinality(OpenPositions) = 1
          /\ \E p \in OpenPositions, signal \in {"exit", "stoploss", "target"} :
               Goto(r, [at |-> "close", read |-> request[r].read, signal |-> signal,
                        position |-> p, seen |-> positions[p]])
    /\ UNCHANGED <<instance, positions, closings>>

\* execute_trade without a position_id.
ExecuteEntry(r) ==
    /\ At(r, "open")
    /\ \E p \in Positions \ Entered :
         positions' = [positions EXCEPT ![p] =
             [is_open |-> TRUE, cost |-> request[r].cost, unrealized |-> FALSE]]
    /\ LET read == request[r].read
       IN  instance' = Flush(instance, read,
                             [read EXCEPT !.allocated_capital = @ - request[r].cost])
    /\ Goto(r, [at |-> "update"])
    /\ UNCHANGED closings

\* Mutant: the capital of the position is given back to the copy.
ExecuteExitCredited(r) ==
    /\ At(r, "close")
    /\ LET read == request[r].read
           p == request[r].position
       IN  /\ positions' = [positions EXCEPT ![p] =
                  Flush(@, request[r].seen, [request[r].seen EXCEPT !.is_open = FALSE])]
           /\ instance' = Flush(instance, read, [read EXCEPT !.trades_count = @ + 1,
                                !.allocated_capital = @ + request[r].seen.cost])
           /\ closings' = [closings EXCEPT ![p] = @ + 1]
    /\ Goto(r, [at |-> "update"])

\* execute_trade with a position_id.  "exit" is no InstanceExitReason: either the
\* database refuses the row, or it takes it and reading the row back raises.
ExecuteExit(r) ==
    /\ At(r, "close")
    /\ LET read == request[r].read
           p == request[r].position
       IN  \/ /\ positions' = [positions EXCEPT ![p] =
                     Flush(@, request[r].seen,
                           [request[r].seen EXCEPT !.is_open = FALSE, !.unrealized = FALSE])]
              /\ instance' = Flush(instance, read, [read EXCEPT !.trades_count = @ + 1])
              /\ closings' = [closings EXCEPT ![p] = @ + 1]
              /\ IF request[r].signal = "exit" THEN Ends(r) ELSE Goto(r, [at |-> "update"])
           \/ request[r].signal = "exit" /\ Ends(r) /\ UNCHANGED <<instance, positions, closings>>

\* update_positions: the open positions are read, then marked to market.
UpdatePositions(r) ==
    /\ At(r, "update")
    /\ Goto(r, [at |-> "mark", rows |-> [p \in OpenPositions |-> positions[p]]])
    /\ UNCHANGED <<instance, positions, closings>>

CommitMarks(r) ==
    /\ At(r, "mark")
    /\ LET read == request[r].rows
       IN  \E shown \in [DOMAIN read -> BOOLEAN] :
             positions' = [p \in Positions |->
                 IF p \in DOMAIN read
                 THEN Flush(positions[p], read[p], [read[p] EXCEPT !.unrealized = shown[p]])
                 ELSE positions[p]]
    /\ Ends(r)
    /\ UNCHANGED <<instance, closings>>

PaperStep ==
    \/ StartPaperTrading
    \/ \E r \in Requests : \/ ChangeStatus(r)
                           \/ CommitStatus(r)
                           \/ Tick(r)
                           \/ HasOpenPosition(r)
                           \/ CheckExit(r)
                           \/ ExecuteEntry(r)
                           \/ ExecuteExit(r)
                           \/ UpdatePositions(r)
                           \/ CommitMarks(r)

PaperSpec == PaperInit /\ [][PaperStep]_pvars

----
(* Properties. *)

Sum(f) == MapThenSumSet(LAMBDA p : f[p], DOMAIN f)

\* What the instance row says against the trades and positions recorded, although
\* ticks that overlap overwrite each other's figures: the allocated capital has not
\* grown and has lost no more than was bought, a position is closed by at most one
\* trade per request that overlapped, and the count of trades is not overstated.
BooksBalance ==
    /\ \A p \in Positions : closings[p] <= Cardinality(Requests)
    /\ Cardinality(OpenPositions) <= Cardinality(Requests)
    /\ instance # NoRow =>
         /\ instance.allocated_capital <= Capital
         /\ instance.allocated_capital >= Capital - Sum([p \in Entered |-> positions[p].cost])
         /\ instance.trades_count <= Sum(closings)
         /\ instance.trades_count = 0 <=> Sum(closings) = 0

\* A position that a tick has closed is never open again, though other ticks that
\* read it open commit their marks, or close it a second time, later.
ClosedForGood ==
    [][\A p \in Entered : ~positions[p].is_open => ~positions'[p].is_open]_pvars
====
