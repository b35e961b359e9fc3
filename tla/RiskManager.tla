---- MODULE RiskManager ----
(***************************************************************************)
(* RiskManager of backend/risk_management/risk_manager.py, with the        *)
(* coroutines that use it the way OrderExecutor.place_order and the trading*)
(* workflow of the integration tests do: ask check_order_risk, send the    *)
(* order, and record_trade once it has traded.  No method awaits anything  *)
(* that suspends while it holds the manager's lock, so each is one action; *)
(* what interleaves is the time between the check and the trade it allows. *)
(***************************************************************************)
EXTENDS Naturals, Sequences, FiniteSets, SequencesExt

CONSTANTS
    Users, Tasks,
    UserOf,        \* task -> the user it trades for
    Strategies,
    Orders,        \* the orders: [notional, priced]
    LimitLists,    \* the arguments of set_user_limits
    NewLimits,     \* the arguments of add_limit
    AssetCaps,     \* the max_position_value arguments of set_per_asset_limit
    Balances,      \* the arguments of set_account_balance
    DefaultBalance,
    DefaultRate,   \* orders a minute when no limit says otherwise (10 in the code)
    Losses,        \* what check_daily_loss is told has been lost today
    Equities,      \* what check_daily_loss is told the account is worth
    Minute,        \* ticks of the clock in a minute
    MaxTrades,     \* bound on the trades of a day, in Call
    None

Rules == {"daily_loss_limit", "max_trades_per_day", "max_position_size",
          "max_portfolio_exposure", "min_account_equity", "max_orders_per_minute",
          "per_asset_position_limit", "per_asset_loss_limit",
          "per_asset_daily_trades", "risk_per_trade", "trailing_stoploss"}
Actions == {"alert", "pause_strategy", "pause_all_trading", "kill_switch", "reject_order"}

RiskLimit == [rule_type : Rules, threshold : Nat, action : Actions,
              is_hard : BOOLEAN, is_enabled : BOOLEAN]

\* A limit as the presets write it, enabled.
Limit(rule, n, action, hard) ==
    [rule_type |-> rule, threshold |-> n, action |-> action, is_hard |-> hard,
     is_enabled |-> TRUE]

\* The presets of RiskLimitConfig, their thresholds left to the instance: aggressive has no
\* floor under the equity, and moderate is conservative with larger thresholds.
Aggressive(loss, trades, size) ==
    << Limit("daily_loss_limit", loss, "pause_all_trading", TRUE),
       Limit("max_trades_per_day", trades, "alert", FALSE),
       Limit("max_position_size", size, "reject_order", TRUE) >>

Conservative(loss, trades, size, equity) ==
    Append(Aggressive(loss, trades, size), Limit("min_account_equity", equity, "kill_switch", TRUE))

Moderate(loss, trades, size, equity) == Conservative(loss, trades, size, equity)

ASSUME ConstantsOK ==
    /\ UserOf \in [Tasks -> Users]
    /\ IsFiniteSet(Tasks)
    /\ Orders \subseteq [notional : Nat, priced : BOOLEAN]
    /\ LimitLists \subseteq Seq(RiskLimit)
    /\ NewLimits \subseteq RiskLimit
    /\ AssetCaps \cup Balances \cup {DefaultBalance} \subseteq Nat
    /\ Losses \cup Equities \subseteq Nat
    /\ DefaultRate \in Nat /\ MaxTrades \in Nat
    /\ Minute \in Nat \ {0}
    /\ None \notin Nat \cup Strategies \cup Orders

VARIABLES
    limits,        \* _user_limits
    stats,         \* _daily_stats: the trades counted, and whether the date is today's
    tracker,       \* _order_rate_tracker: the ages of the orders let through
    globalKill,    \* _global_kill_switch
    userKill,      \* _user_kill_switches
    strategyKill,  \* _strategy_kill_switches
    assetCap,      \* _per_asset_limits, of the one symbol traded; None: not set
    balance,       \* _account_balances
    pc, order,     \* where each task is, and with which order
    granted,       \* history: the ages of the approvals of the last minute
    ceiling,       \* history: the loosest cap on trades an order was approved under
    stopped        \* history: check_daily_loss refused, and nobody has reset since

config == <<limits, assetCap, balance>>
switches == <<globalKill, userKill, strategyKill>>
counters == <<stats, tracker>>
tasks == <<pc, order>>
history == <<granted, ceiling, stopped>>
vars == <<config, switches, counters, tasks, history>>

Init ==
    /\ limits = [u \in Users |-> <<>>]
    /\ stats = [u \in Users |-> [count |-> 0, today |-> TRUE]]
    /\ tracker = [u \in Users |-> <<>>]
    /\ globalKill = FALSE
    /\ userKill = [u \in Users |-> FALSE]
    /\ strategyKill = [p \in Users \X Strategies |-> FALSE]
    /\ assetCap = [u \in Users |-> None]
    /\ balance = [u \in Users |-> DefaultBalance]
    /\ pc = [t \in Tasks |-> "idle"]
    /\ order = [t \in Tasks |-> None]
    /\ granted = [u \in Users |-> <<>>]
    /\ ceiling = [u \in Users |-> 0]
    /\ stopped = [u \in Users |-> FALSE]

-----------------------------------------------------------------------------
(* What the checks read.                                                    *)

\* _get_daily_stats starts a new count when the date has changed.
DailyStats(u) == IF stats[u].today THEN stats[u] ELSE [count |-> 0, today |-> TRUE]

\* (price or 0) * quantity: an order without a price weighs nothing.
OrderValue(o) == IF o.priced THEN o.notional ELSE 0

\* Mutant: the trade that reaches the cap is let through.
BreachedAfter(u, l, o) ==
    CASE l.rule_type = "max_trades_per_day" -> DailyStats(u).count > l.threshold
      [] OTHER -> FALSE

\* _check_limit: the condition of each rule.  Nothing writes _positions or the
\* per-asset statistics: exposure, position, per-asset loss and trades are 0
\* (so that a per-asset loss is never over a limit, and per-asset trades reach
\* only a limit of 0, which the defaults exclude).  The other rules are checked
\* elsewhere or nowhere.
Breached(u, l, o) ==
    CASE l.rule_type = "max_position_size" -> OrderValue(o) > l.threshold
      [] l.rule_type = "max_trades_per_day" -> DailyStats(u).count >= l.threshold
      [] l.rule_type = "per_asset_position_limit" ->
            assetCap[u] # None /\ OrderValue(o) > assetCap[u]
      [] l.rule_type = "max_portfolio_exposure" ->
            100 * OrderValue(o) > l.threshold * balance[u]
      [] OTHER -> FALSE

\* The rule reads signal_stop_loss, a name its function does not have.
Raises(l, o) == l.rule_type = "risk_per_trade" /\ OrderValue(o) > 0

\* "approved = action != ALERT": a breach is disapproved only of an alert, and a
\* disapproval ends the check only of a hard limit (or REJECT_ORDER, which has
\* just been approved).
Rejects(u, l, o) == Breached(u, l, o) /\ l.action = "alert" /\ l.is_hard

\* The loop over the limits of u ends at limit i.
EndsCheck(u, o, i) ==
    LET l == limits[u][i] IN l.is_enabled /\ (Raises(l, o) \/ Rejects(u, l, o))

\* Some limit that the loop comes to reads the trades of the day.
ReadsTrades(u, o) ==
    \E i \in DOMAIN limits[u] :
        /\ limits[u][i].rule_type = "max_trades_per_day" /\ limits[u][i].is_enabled
        /\ \A j \in 1 .. i - 1 : ~EndsCheck(u, o, j)

\* The first rate limit in the list, enabled or not.
RateLimit(u) ==
    LET rates == {i \in DOMAIN limits[u] :
                    limits[u][i].rule_type = "max_orders_per_minute"}
    IN  IF rates = {} THEN DefaultRate
        ELSE limits[u][CHOOSE i \in rates : \A j \in rates : i <= j].threshold

\* [x for x in list if x in S], the form of every list comprehension of the manager.
Keep(list, S) ==
    FoldLeft(LAMBDA kept, x : IF x \in S THEN Append(kept, x) ELSE kept, <<>>, list)

Recent(ages) == Keep(ages, 0 .. Minute - 1)

Killed(u, s) == globalKill \/ userKill[u] \/ (s \in Strategies /\ strategyKill[<<u, s>>])

\* What a hard limit on trades allows in a day; MaxTrades where there is none.
TradeCap(u) ==
    LET caps == {limits[u][i].threshold : i \in {j \in DOMAIN limits[u] :
                    LET l == limits[u][j] IN
                    /\ l.rule_type = "max_trades_per_day"
                    /\ l.is_enabled /\ l.is_hard /\ l.action = "alert"}}
    IN  CHOOSE c \in caps \cup {MaxTrades} : \A d \in caps \cup {MaxTrades} : c <= d

Larger(m, n) == IF m >= n THEN m ELSE n

-----------------------------------------------------------------------------
(* Settings and switches: synchronous methods.                              *)

SetUserLimits(u, list) ==
    /\ limits' = [limits EXCEPT ![u] = list]
    /\ UNCHANGED <<assetCap, balance, switches, counters, tasks, history>>

\* The limit of the same type is taken out and the new one put at the end.
AddLimit(u, l) ==
    /\ limits' = [limits EXCEPT ![u] =
                    Append(Keep(@, {k \in RiskLimit : k.rule_type # l.rule_type}), l)]
    /\ UNCHANGED <<assetCap, balance, switches, counters, tasks, history>>

SetPerAssetLimit(u, cap) ==
    /\ assetCap' = [assetCap EXCEPT ![u] = cap]
    /\ UNCHANGED <<limits, balance, switches, counters, tasks, history>>

SetAccountBalance(u, amount) ==
    /\ balance' = [balance EXCEPT ![u] = amount]
    /\ UNCHANGED <<limits, assetCap, switches, counters, tasks, history>>

\* trigger_... and reset_global_kill_switch.
GlobalKillSwitch(on) ==
    /\ globalKill' = on
    /\ UNCHANGED <<config, userKill, strategyKill, counters, tasks, history>>

UserKillSwitch(u, on) ==
    /\ userKill' = [userKill EXCEPT ![u] = on]
    /\ stopped' = [stopped EXCEPT ![u] = on /\ @]
    /\ UNCHANGED <<config, globalKill, strategyKill, counters, tasks, granted, ceiling>>

StrategyKillSwitch(u, s, on) ==
    /\ strategyKill' = [strategyKill EXCEPT ![<<u, s>>] = on]
    /\ UNCHANGED <<config, globalKill, userKill, counters, tasks, history>>

ResetDailyLimits(u) ==
    /\ stats' = [stats EXCEPT ![u] = [count |-> 0, today |-> TRUE]]
    /\ UNCHANGED <<config, switches, tracker, tasks, history>>

\* get_risk_status reports, and begins the new day's statistics if nobody has.
GetRiskStatus(u) ==
    /\ stats' = [stats EXCEPT ![u] = DailyStats(u)]
    /\ UNCHANGED <<config, switches, tracker, tasks, history>>

-----------------------------------------------------------------------------
(* check_daily_loss                                                         *)

LossBreached(l, loss, equity) ==
    /\ l.is_enabled
    /\ \/ l.rule_type = "daily_loss_limit" /\ loss > l.threshold
       \/ l.rule_type = "min_account_equity" /\ equity < l.threshold

\* Mutant: the refusal is returned and the switch forgotten.
LossReportedOnly(u, loss, equity) ==
    \E i \in DOMAIN limits[u] :
        /\ LossBreached(limits[u][i], loss, equity)
        /\ \A j \in 1 .. i - 1 : ~LossBreached(limits[u][j], loss, equity)
        /\ limits[u][i].is_hard
        /\ stopped' = [stopped EXCEPT ![u] = TRUE]
        /\ UNCHANGED <<config, switches, counters, tasks, granted, ceiling>>

\* The first breach answers: of a hard limit by a refusal and the user's kill
\* switch; of a soft one by an approval, whatever limits come after it.
CheckDailyLoss(u, loss, equity) ==
    \E i \in DOMAIN limits[u] :
        /\ LossBreached(limits[u][i], loss, equity)
        /\ \A j \in 1 .. i - 1 : ~LossBreached(limits[u][j], loss, equity)
        /\ limits[u][i].is_hard
        /\ userKill' = [userKill EXCEPT ![u] = TRUE]
        /\ stopped' = [stopped EXCEPT ![u] = TRUE]
        /\ UNCHANGED <<config, globalKill, strategyKill, counters, tasks, granted, ceiling>>

-----------------------------------------------------------------------------
(* An order: called, checked, sent, recorded.                               *)

\* The caller decides on an order and waits (for the lock of the order) to have
\* it checked.
Call(t, o) ==
    LET u == UserOf[t] IN
    /\ pc[t] = "idle"
    /\ DailyStats(u).count + Cardinality({v \in Tasks : pc[v] # "idle"}) < MaxTrades
    /\ pc' = [pc EXCEPT ![t] = "called"]
    /\ order' = [order EXCEPT ![t] = o]
    /\ UNCHANGED <<config, switches, counters, history>>

\* Mutant: the frame outlives its call.
LeaveOrder(t) ==
    /\ pc' = [pc EXCEPT ![t] = "idle"]
    /\ order' = order

Leave(t) ==
    /\ pc' = [pc EXCEPT ![t] = "idle"]
    /\ order' = [order EXCEPT ![t] = None]

\* Mutant: the global switch alone is read.
StoppedForAll(t) == globalKill

\* No caller passes a strategy_id: the kill switch of a strategy stops no order.
Stopped(t) == Killed(UserOf[t], None)
Ended(t) == \E i \in DOMAIN limits[UserOf[t]] : EndsCheck(UserOf[t], order[t], i)

\* What the loop over the limits writes: the statistics of a new day.
LoopDone(t) ==
    LET u == UserOf[t] IN
    stats' = IF ReadsTrades(u, order[t]) THEN [stats EXCEPT ![u] = DailyStats(u)] ELSE stats

RefusedByKill(t) ==
    /\ pc[t] = "called"
    /\ Stopped(t)
    /\ Leave(t)
    /\ UNCHANGED <<config, switches, counters, history>>

\* A limit rejects the order, or the check of one raises.
RefusedByLimit(t) ==
    /\ pc[t] = "called"
    /\ ~Stopped(t) /\ Ended(t)
    /\ LoopDone(t)
    /\ Leave(t)
    /\ UNCHANGED <<config, switches, tracker, history>>

RefusedByRate(t) ==
    LET u == UserOf[t] IN
    /\ pc[t] = "called"
    /\ ~Stopped(t) /\ ~Ended(t)
    /\ Len(Recent(tracker[u])) >= RateLimit(u)
    /\ LoopDone(t)
    /\ tracker' = [tracker EXCEPT ![u] = Recent(@)]
    /\ Leave(t)
    /\ UNCHANGED <<config, switches, history>>

\* Mutant: the approval is not counted.
ApprovedUncounted(t) ==
    LET u == UserOf[t] IN
    /\ pc[t] = "called"
    /\ ~Stopped(t) /\ ~Ended(t)
    /\ Len(Recent(tracker[u])) < RateLimit(u)
    /\ LoopDone(t)
    /\ tracker' = [tracker EXCEPT ![u] = Recent(@)]
    /\ pc' = [pc EXCEPT ![t] = "approved"]
    /\ granted' = [granted EXCEPT ![u] = Append(@, 0)]
    /\ ceiling' = [ceiling EXCEPT ![u] = Larger(@, TradeCap(u))]
    /\ UNCHANGED <<config, switches, order, stopped>>

Approved(t) ==
    LET u == UserOf[t] IN
    /\ pc[t] = "called"
    /\ ~Stopped(t) /\ ~Ended(t)
    /\ Len(Recent(tracker[u])) < RateLimit(u)
    /\ LoopDone(t)
    /\ tracker' = [tracker EXCEPT ![u] = Append(Recent(@), 0)]
    /\ pc' = [pc EXCEPT ![t] = "approved"]
    /\ granted' = [granted EXCEPT ![u] = Append(@, 0)]
    /\ ceiling' = [ceiling EXCEPT ![u] = Larger(@, TradeCap(u))]
    /\ UNCHANGED <<config, switches, order, stopped>>

\* The order has traded: record_trade.
Traded(t) ==
    LET u == UserOf[t] IN
    /\ pc[t] = "approved"
    /\ stats' = [stats EXCEPT ![u] = [count |-> DailyStats(u).count + 1, today |-> TRUE]]
    /\ Leave(t)
    /\ UNCHANGED <<config, switches, tracker, history>>

\* The broker refused it, or it was never filled: its place in the minute is spent.
NotTraded(t) ==
    /\ pc[t] = "approved"
    /\ Leave(t)
    /\ UNCHANGED <<config, switches, counters, history>>

-----------------------------------------------------------------------------
(* Time (external).                                                         *)

Older(ages) == [i \in DOMAIN ages |-> IF ages[i] < Minute THEN ages[i] + 1 ELSE Minute]

Tick ==
    /\ tracker' = [u \in Users |-> Older(tracker[u])]
    /\ granted' = [u \in Users |-> Recent(Older(granted[u]))]
    /\ UNCHANGED <<config, switches, stats, tasks, ceiling, stopped>>

Midnight ==
    /\ stats' = [u \in Users |-> [stats[u] EXCEPT !.today = FALSE]]
    /\ UNCHANGED <<config, switches, tracker, tasks, history>>

-----------------------------------------------------------------------------
Check(t) == RefusedByKill(t) \/ RefusedByLimit(t) \/ RefusedByRate(t) \/ Approved(t)
Send(t)  == Traded(t) \/ NotTraded(t)

Settings(u) ==
    \/ \E list \in LimitLists : SetUserLimits(u, list)
    \/ \E l \in NewLimits : AddLimit(u, l)
    \/ \E cap \in AssetCaps : SetPerAssetLimit(u, cap)
    \/ \E amount \in Balances : SetAccountBalance(u, amount)
    \/ ResetDailyLimits(u)
    \/ GetRiskStatus(u)

Switches(u) ==
    \E on \in BOOLEAN :
        \/ GlobalKillSwitch(on)
        \/ UserKillSwitch(u, on)
        \/ \E s \in Strategies : StrategyKillSwitch(u, s, on)

Next ==
    \/ \E t \in Tasks : Check(t) \/ Send(t) \/ \E o \in Orders : Call(t, o)
    \/ \E u \in Users :
          \/ Settings(u)
          \/ Switches(u)
          \/ \E loss \in Losses, equity \in Equities : CheckDailyLoss(u, loss, equity)
    \/ Tick
    \/ Midnight

Spec == Init /\ [][Next]_vars

\* The event loop runs a coroutine that can run, and a broker call ends.
Fairness == \A t \in Tasks : WF_vars(Check(t)) /\ WF_vars(Send(t))

FairSpec == Spec /\ Fairness

-----------------------------------------------------------------------------
(* What the risk manager promises.                                          *)

\* Every variable keeps its shape (the dictionaries of __init__, the frames).
TypeOK ==
    /\ limits \in [Users -> Seq(RiskLimit)]
    /\ stats \in [Users -> [count : Nat, today : BOOLEAN]]
    /\ tracker \in [Users -> Seq(0 .. Minute)]
    /\ globalKill \in BOOLEAN
    /\ userKill \in [Users -> BOOLEAN]
    /\ strategyKill \in [Users \X Strategies -> BOOLEAN]
    /\ assetCap \in [Users -> Nat \cup {None}]
    /\ balance \in [Users -> Nat]
    /\ pc \in [Tasks -> {"idle", "called", "approved"}]
    /\ order \in [Tasks -> Orders \cup {None}]
    /\ \A t \in Tasks : pc[t] = "idle" <=> order[t] = None
    /\ granted \in [Users -> Seq(0 .. Minute)]
    /\ ceiling \in [Users -> Nat]
    /\ stopped \in [Users -> BOOLEAN]

\* In no minute are more orders let through than the rate limit in force when
\* the last of them was, however limits are replaced and calls interleave.
RateHolds ==
    [][\A u \in Users : Len(granted'[u]) > Len(granted[u]) => Len(granted'[u]) <= RateLimit(u)]_vars

\* check_order_risk counts trades that are recorded, not orders on their way: a
\* hard cap on the trades of a day is overrun, but never by more than the
\* orders the user's other coroutines had in flight.
TradesBounded ==
    \A u \in Users : stats[u].count > 0 =>
        stats[u].count < ceiling[u] + Cardinality({t \in Tasks : UserOf[t] = u})

\* A user whom check_daily_loss refused (a hard limit on loss or equity) gets no
\* order approved until the kill switch is reset: not by midnight, by
\* reset_daily_limits, by new limits or by a recovered balance.
LossStops ==
    [][\A t \in Tasks : pc[t] = "called" /\ pc'[t] = "approved" => ~stopped[UserOf[t]]]_vars

\* A kill switch, the global one or the user's, that is left on stops trading: what was
\* let through before it ends, and nothing follows it, whatever else is switched or set.
HaltsEventually ==
    \A u \in Users :
        <>[](globalKill \/ userKill[u]) =>
            <>[](\A t \in Tasks : UserOf[t] = u => pc[t] # "approved")

-----------------------------------------------------------------------------
(* What the documents say of it and the code does not do.                   *)

\* "Hard limits cannot be bypassed": no order is approved that breaches one.
HardLimitsHold ==
    [][\A t \in Tasks : pc[t] = "called" /\ pc'[t] = "approved" =>
         LET u == UserOf[t] IN
         \A i \in DOMAIN limits[u] :
            limits[u][i].is_hard /\ limits[u][i].is_enabled =>
                ~Breached(u, limits[u][i], order[t])]_vars
====
