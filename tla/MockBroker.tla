---- MODULE MockBroker ----
(***************************************************************************)
(* src/mock-broker/main.py: the cash, the positions and the orders of the  *)
(* broker that stands in for a real one.  Each handler runs from start to  *)
(* end without giving way.  Average prices are fractions; a price, which   *)
(* the code draws at random, is any of Prices.                             *)
(***************************************************************************)
EXTENDS Functions, Fractions

CONSTANTS
    Symbols, Prices, Quantities,
    Funds,             \* the cash of a fresh portfolio, 1000000 in the code
    MaxFilled          \* bound on the orders of a portfolio, in the guard

VARIABLES
    cash,              \* portfolio_cash
    positions,         \* symbol -> [quantity, average, realized]
    filled,            \* the number of orders in orders_db
    vanished           \* history: cash taken by orders that then failed

mvars == <<cash, positions, filled, vanished>>

Total(value) == FoldFunction(Plus, Whole(0), value)

None == [quantity |-> 0, average |-> Whole(0), realized |-> Whole(0)]

Fresh ==
    /\ cash' = Funds
    /\ positions' = [s \in Symbols |-> None]
    /\ filled' = 0
    /\ vanished' = 0

MockInit ==
    /\ cash = Funds
    /\ positions = [s \in Symbols |-> None]
    /\ filled = 0 /\ vanished = 0

\* The cash is taken before the average is computed: one that divides by zero, because
\* the purchase ends a short position, fails with the cash gone.
Buy(s, n, price) ==
    LET p == positions[s]
        held == p.quantity + n
        cost == n * price
    IN  IF cost > cash THEN UNCHANGED <<cash, positions, filled, vanished>>
        ELSE /\ cash' = cash - cost
             /\ IF held = 0
                THEN vanished' = vanished + cost /\ UNCHANGED <<positions, filled>>
                ELSE /\ positions' = [positions EXCEPT ![s].quantity = held,
                            ![s].average = LET sum == Plus(Times(p.quantity, p.average), Whole(cost))
                                           IN  Fraction(sum[1], sum[2] * held)]
                     /\ filled' = filled + 1
                     /\ UNCHANGED vanished

\* Mutant: the profit is booked from the whole price.
SellWhole(s, n, price) ==
    /\ positions' = [positions EXCEPT ![s].quantity = @ - n,
                                      ![s].realized = Plus(@, Whole(n * price))]
    /\ cash' = cash + n * price
    /\ filled' = filled + 1
    /\ UNCHANGED vanished

\* Whatever is held: a sale may open a short position, at an average of zero.
Sell(s, n, price) ==
    /\ positions' = [positions EXCEPT ![s].quantity = @ - n,
            ![s].realized = Plus(@, Times(n, Minus(Whole(price), positions[s].average)))]
    /\ cash' = cash + n * price
    /\ filled' = filled + 1
    /\ UNCHANGED vanished

\* A market order fills at a price of the moment, an order with a price at that price:
\* at once and in full either way.
PlaceOrder ==
    /\ filled < MaxFilled
    /\ \E s \in Symbols, n \in Quantities, price \in Prices : Buy(s, n, price) \/ Sell(s, n, price)

ResetPortfolio == Fresh

MockStep == PlaceOrder \/ ResetPortfolio

MockSpec == MockInit /\ [][MockStep]_mvars

----
\* What the caller is shown: what is held, and only of that the profit; a short
\* position is not shown.
Held == {s \in Symbols : positions[s].quantity > 0}

GetPortfolio(price) ==
    LET value == [s \in Held |-> Whole(positions[s].quantity * price[s])]
        cost(s) == Times(positions[s].quantity, positions[s].average)
        gain == [s \in Held |-> Plus(positions[s].realized, Minus(value[s], cost(s)))]
    IN  [total_value |-> Plus(Whole(cash), Total(value)), total_pnl |-> Total(gain)]

(* Properties. *)

\* As long as nothing is short, at any prices the value of the portfolio is the cash of
\* a fresh one and the profit shown, with the profit of what is no longer held, which is
\* not shown, and without what failed orders took.
PortfolioExplained ==
    (\A s \in Symbols : positions[s].quantity >= 0) =>
    \A price \in [Symbols -> Prices] :
        GetPortfolio(price).total_value =
            Plus(Whole(Funds - vanished),
                 Plus(GetPortfolio(price).total_pnl,
                      Total([s \in Symbols \ Held |-> positions[s].realized])))
====
