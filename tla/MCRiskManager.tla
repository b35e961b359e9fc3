---- MODULE MCRiskManager ----
(* One user, two coroutines and one strategy.                               *)
EXTENDS RiskManager

CONSTANTS u1, t1, t2, s1

ToU1 == [t \in Tasks |-> u1]

\* Limits that reject (hard alerts), and one whose check raises.
Rejecting ==
    << Limit("max_trades_per_day", 1, "alert", TRUE),
       Limit("min_account_equity", 1, "kill_switch", FALSE),
       Limit("daily_loss_limit", 1, "alert", TRUE),
       Limit("max_portfolio_exposure", 50, "alert", TRUE),
       Limit("per_asset_position_limit", 0, "alert", TRUE) >>

\* Two presets, scaled down, against limits that reject.
ThreeLists == {Conservative(1, 1, 1, 1), Moderate(2, 2, 2, 1), Rejecting}
RateOf1 == {Limit("max_orders_per_minute", 1, "alert", FALSE)}
RiskOf1 == {Limit("risk_per_trade", 1, "alert", FALSE)}

\* A limit order, and a market order, which has no price.
LimitOrder == {[notional |-> 2, priced |-> TRUE]}
TwoOrders == LimitOrder \cup {[notional |-> 2, priced |-> FALSE]}
====
