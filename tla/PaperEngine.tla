---- MODULE PaperEngine ----
(***************************************************************************)
(* trading_engine/paper_trading.py: the virtual account of a user, which   *)
(* fills market orders at once and limit orders when the price reaches     *)
(* them.  Its methods never suspend, so each is one step.  Equity and the  *)
(* reports are computed from what is kept here and left out.               *)
(***************************************************************************)
EXTENDS Integers, Sequences, SequencesExt

CONSTANTS
    Symbols, Prices, Quantities,
    Slippage,          \* per unit, against the trader
    CommissionRate,
    InitialBalance,
    MaxTrades,         \* bound on trades and limit orders, in the guards
    NoPosition

VARIABLES
    account,           \* [cash, realized_pnl, total_commission, total_trades], or none
    held,              \* symbol -> [quantity, cost, realized_pnl], or none
    orders,            \* the limit orders, oldest first
    unmatched          \* history: proceeds of sales that found no position to reduce

evars == <<account, held, orders, unmatched>>

NoAccount == [cash |-> 0, realized_pnl |-> 0, total_commission |-> 0, total_trades |-> 0]
Fresh == [NoAccount EXCEPT !.cash = InitialBalance]
Book == [account |-> account, held |-> held, unmatched |-> unmatched]

EngineInit ==
    /\ account = NoAccount
    /\ held = [s \in Symbols |-> NoPosition]
    /\ orders = <<>> /\ unmatched = 0

FillPrice(price, side) == IF side = "buy" THEN price + Slippage ELSE price - Slippage
Commission(value) == value * CommissionRate

\* _update_position, for a sale that a position covers.
Reduced(position, quantity, price) ==
    LET sold == (position.cost * quantity) \div position.quantity
    IN  [quantity |-> position.quantity - quantity, cost |-> position.cost - sold,
         realized_pnl |-> position.realized_pnl + price * quantity - sold]

\* Mutant: an addition to a position is averaged in as if it were one unit.
BoughtOne(position, quantity, price) ==
    IF position = NoPosition
    THEN [quantity |-> quantity, cost |-> quantity * price, realized_pnl |-> 0]
    ELSE [position EXCEPT !.quantity = @ + quantity, !.cost = @ + price]

Bought(position, quantity, price) ==
    IF position = NoPosition
    THEN [quantity |-> quantity, cost |-> quantity * price, realized_pnl |-> 0]
    ELSE [position EXCEPT !.quantity = @ + quantity, !.cost = @ + quantity * price]

\* _execute_order: the cash moves first, whether or not a position covers a sale;
\* the account learns what a position realized when the position is closed.
ExecuteOrder(b, o) ==
    LET value == o.price * o.quantity
        position == b.held[o.symbol]
        covered == position # NoPosition /\ position.quantity >= o.quantity
        after == Reduced(position, o.quantity, o.price)
        traded(cash) == [b EXCEPT !.account.cash = cash,
                                  !.account.total_commission = @ + Commission(value),
                                  !.account.total_trades = @ + 1]
        sold == traded(b.account.cash + value - Commission(value))
    IN  IF o.side = "buy"
        THEN [traded(b.account.cash - value - Commission(value)) EXCEPT
                !.held[o.symbol] = Bought(@, o.quantity, o.price)]
        ELSE IF ~covered THEN [sold EXCEPT !.unmatched = @ + value]
        ELSE IF after.quantity > 0 THEN [sold EXCEPT !.held[o.symbol] = after]
        ELSE [sold EXCEPT !.held[o.symbol] = NoPosition,
                          !.account.realized_pnl = @ + after.realized_pnl]

Becomes(b) == account' = b.account /\ held' = b.held /\ unmatched' = b.unmatched
Opened == account # NoAccount
Sides == {"buy", "sell"}

----
GetOrCreateAccount ==
    /\ ~Opened
    /\ account' = Fresh
    /\ held' = [s \in Symbols |-> NoPosition] /\ orders' = <<>> /\ unmatched' = 0

DeleteAccount ==
    /\ Opened
    /\ account' = NoAccount
    /\ held' = [s \in Symbols |-> NoPosition] /\ orders' = <<>> /\ unmatched' = 0

Reset ==
    /\ Opened
    /\ account' = Fresh
    /\ held' = [s \in Symbols |-> NoPosition] /\ orders' = <<>> /\ unmatched' = 0

\* can_place_order is asked by none of the methods that place orders.
PlaceMarketOrder ==
    /\ Opened /\ account.total_trades < MaxTrades
    /\ \E s \in Symbols, side \in Sides, q \in Quantities, price \in Prices :
         Becomes(ExecuteOrder(Book, [symbol |-> s, side |-> side, quantity |-> q,
                                     price |-> FillPrice(price, side)]))
    /\ UNCHANGED orders

PlaceLimitOrder ==
    /\ Opened /\ Len(orders) + account.total_trades < MaxTrades
    /\ \E s \in Symbols, side \in Sides, q \in Quantities, price \in Prices :
         orders' = Append(orders, [symbol |-> s, side |-> side, quantity |-> q,
                                   price |-> price, status |-> "PENDING"])
    /\ UNCHANGED <<account, held, unmatched>>

CanFill(o, symbol, price) ==
    /\ o.status = "PENDING" /\ o.symbol = symbol
    /\ IF o.side = "buy" THEN price <= o.price ELSE price >= o.price

\* Oldest first, each at its own limit, without another look at cash or position.
ProcessPendingOrders ==
    /\ Opened
    /\ \E s \in Symbols, price \in Prices :
         LET Fills(o) == CanFill(o, s, price)
             fill(b, o) == IF Fills(o) THEN ExecuteOrder(b, o) ELSE b
         IN  /\ \E i \in DOMAIN orders : Fills(orders[i])
             /\ Becomes(FoldLeft(fill, Book, orders))
             /\ orders' = [i \in DOMAIN orders |->
                    IF Fills(orders[i]) THEN [orders[i] EXCEPT !.status = "FILLED"]
                    ELSE orders[i]]

EngineStep ==
    \/ GetOrCreateAccount
    \/ DeleteAccount
    \/ Reset
    \/ PlaceMarketOrder
    \/ PlaceLimitOrder
    \/ ProcessPendingOrders

EngineSpec == EngineInit /\ [][EngineStep]_evars

----
(* Properties. *)

Tied(position) == IF position = NoPosition THEN 0 ELSE position.cost - position.realized_pnl

\* Every unit of cash is accounted for, however market orders, limit orders that fill
\* later, averaged entries and partial sales follow each other: cash and the cost of
\* what is held are the initial balance, the profit realized and the commissions, and
\* nothing else but the proceeds of sales that no position covered.
CashExplained ==
    Opened =>
        account.cash + SumFunction([s \in Symbols |-> Tied(held[s])])
          = InitialBalance + account.realized_pnl - account.total_commission + unmatched
====
