---- MODULE RiskManagerProofs ----
(***************************************************************************)
(* Proofs about RiskManager, for any users, orders and limits.             *)
(***************************************************************************)
EXTENDS RiskManager, Induction

(* The ages of the orders let through.                                      *)

\* The list comprehensions of the manager are those of Induction.
LEMMA KeepIsKept == \A list, S : Keep(list, S) = Kept(list, S)
BY DEF Keep, Kept

Ages == 0 .. Minute

\* What a tick makes of an age.
Grown(a) == IF a < Minute THEN a + 1 ELSE Minute

Young == 0 .. Minute - 1

\* An approval more is of the last minute or not.
LEMMA RecentAppend ==
    ASSUME NEW ages \in Seq(Ages), NEW a \in Ages
    PROVE  Recent(Append(ages, a)) = IF a \in Young THEN Append(Recent(ages), a) ELSE Recent(ages)
<1>1. PICK S : S = 0 .. Minute - 1
  OBVIOUS
<1>2. \A list : Recent(list) = Kept(list, S)
  BY <1>1, KeepIsKept DEF Recent
<1>3. Kept(Append(ages, a), S) = IF a \in S THEN Append(Kept(ages, S), a) ELSE Kept(ages, S)
  BY KeepAppend
<1>4. QED
  BY <1>1, <1>2, <1>3 DEF Young

\* The ages of the last minute are ages, no more of them than there were, and stay what
\* they are when they are looked for again.
LEMMA RecentAges ==
    ASSUME NEW ages \in Seq(Ages)
    PROVE  /\ Recent(ages) \in Seq(Ages)
           /\ Recent(Recent(ages)) = Recent(ages)
           /\ Len(Recent(ages)) <= Len(ages)
<1>1. PICK S : S = 0 .. Minute - 1
  OBVIOUS
<1>2. \A list : Recent(list) = Kept(list, S)
  BY <1>1, KeepIsKept DEF Recent
<1>3. /\ Kept(ages, S) \in Seq(Ages)
      /\ Kept(Kept(ages, S), S) = Kept(ages, S)
      /\ Len(Kept(ages, S)) <= Len(ages)
  BY KeepType, KeepTwice
<1>4. QED
  BY <1>2, <1>3

\* A tick makes them older, each for itself.
LEMMA OlderAges ==
    /\ Older(<<>>) = <<>>
    /\ \A ages \in Seq(Ages) : /\ Older(ages) \in Seq(Ages)
                               /\ Len(Older(ages)) = Len(ages)
    /\ \A ages \in Seq(Ages), a \in Ages :
          Older(Append(ages, a)) = Append(Older(ages), Grown(a))
<1>1. Older(<<>>) = <<>>
  BY DEF Older
<1>2. Minute \in Nat \ {0}
  BY ConstantsOK
<1>3. ASSUME NEW ages \in Seq(Ages)
      PROVE  Older(ages) \in Seq(Ages) /\ Len(Older(ages)) = Len(ages)
  <2>1. \A i \in DOMAIN ages : ages[i] \in Ages
    OBVIOUS
  <2>2. \A i \in DOMAIN ages : (IF ages[i] < Minute THEN ages[i] + 1 ELSE Minute) \in Ages
    BY <1>2, <2>1 DEF Ages
  <2>3. Older(ages) \in [1 .. Len(ages) -> Ages]
    BY <2>2 DEF Older
  <2>4. QED
    BY <2>3
<1>4. ASSUME NEW ages \in Seq(Ages), NEW a \in Ages
      PROVE  Older(Append(ages, a)) = Append(Older(ages), Grown(a))
  <2>1. PICK b, n : b = Grown(a) /\ n = Len(ages)
    OBVIOUS
  <2>2. b \in Ages
    BY <1>2, <2>1 DEF Ages, Grown
  <2>3. PICK long, older : long = Append(ages, a) /\ older = Older(ages)
    OBVIOUS
  <2>4. /\ long \in Seq(Ages) /\ Len(long) = n + 1 /\ n \in Nat
        /\ older \in Seq(Ages) /\ Len(older) = n
    BY <1>3, <2>1, <2>3
  <2>5. /\ \A i \in 1 .. n : Older(long)[i] = older[i]
        /\ Older(long)[n + 1] = b
    BY <2>1, <2>3, <2>4 DEF Older, Grown
  <2>6. Older(long) \in Seq(Ages) /\ Len(Older(long)) = n + 1
    BY <1>3, <2>4
  <2>7. Append(older, b) \in Seq(Ages) /\ Len(Append(older, b)) = n + 1
        /\ Append(older, b)[n + 1] = b /\ \A i \in 1 .. n : Append(older, b)[i] = older[i]
    BY <2>2, <2>4
  <2>8. \A i \in 1 .. n + 1 : Older(long)[i] = Append(older, b)[i]
    BY <2>4, <2>5, <2>7
  <2>9. Older(long) = Append(older, b)
    BY <2>4, <2>6, <2>7, <2>8
  <2>10. QED
    BY <2>1, <2>3, <2>9
<1>5. QED
  BY <1>1, <1>3, <1>4

\* What is recent after a tick was recent before it.
LEMMA RecentStays == \A ages \in Seq(Ages) : Recent(Older(Recent(ages))) = Recent(Older(ages))
<1> DEFINE G == {ages \in Seq(Ages) : Recent(Older(Recent(ages))) = Recent(Older(ages))}
<1>1. <<>> \in G
  BY KeepIsKept, KeepEmpty DEF Recent
<1>2. ASSUME NEW ages \in Seq(Ages), NEW a \in Ages, ages \in G PROVE Append(ages, a) \in G
  <2>1. PICK recent : recent = Recent(ages)
    OBVIOUS
  <2>2. recent \in Seq(Ages) /\ Recent(Older(recent)) = Recent(Older(ages))
    BY <1>2, <2>1, RecentAges
  <2>3. PICK older, oldest : older = Older(ages) /\ oldest = Older(recent)
    OBVIOUS
  <2>4. older \in Seq(Ages) /\ oldest \in Seq(Ages) /\ Recent(oldest) = Recent(older)
    BY <2>2, <2>3, OlderAges
  <2>5. PICK b : b = Grown(a)
    OBVIOUS
  <2>6. b \in Ages /\ (a \notin Young => b \notin Young)
    BY ConstantsOK, <2>5 DEF Ages, Young, Grown
  <2>7. Recent(Older(Append(ages, a))) =
          IF b \in Young THEN Append(Recent(older), b) ELSE Recent(older)
    BY <2>3, <2>4, <2>5, <2>6, OlderAges, RecentAppend
  <2>8. Recent(Append(ages, a)) = IF a \in Young THEN Append(recent, a) ELSE recent
    BY <2>1, RecentAppend
  <2>9. CASE a \in Young
    <3>1. Older(Append(recent, a)) = Append(oldest, b)
      BY <2>2, <2>3, <2>5, OlderAges
    <3>2. Recent(Append(oldest, b)) =
            IF b \in Young THEN Append(Recent(oldest), b) ELSE Recent(oldest)
      BY <2>4, <2>6, RecentAppend
    <3>3. PICK long, more : long = Append(ages, a) /\ more = Append(recent, a)
      OBVIOUS
    <3>4. Recent(long) = more /\ Recent(Older(more)) = Recent(Older(long))
      BY <2>4, <2>7, <2>8, <2>9, <3>1, <3>2, <3>3
    <3>5. long \in Seq(Ages)
      BY <3>3
    <3>6. QED
      BY <3>3, <3>4, <3>5
  <2>10. CASE a \notin Young
    BY <2>3, <2>4, <2>6, <2>7, <2>8, <2>10
  <2>11. QED
    BY <2>9, <2>10
<1> HIDE DEF G
<1>3. \A ages \in Seq(Ages) : ages \in G
  BY <1>1, <1>2, SequenceInduction
<1>4. QED
  BY <1>3 DEF G

-----------------------------------------------------------------------------
(* The shape of the state.                                                  *)

\* The cap on the trades of a day is a number: MaxTrades, or the threshold of a limit that is
\* in force and less.
LEMMA TradeCapIsLeast ==
    ASSUME NEW u \in Users, limits[u] \in Seq(RiskLimit)
    PROVE  /\ TradeCap(u) \in Nat
           /\ \/ TradeCap(u) = MaxTrades
              \/ \E i \in DOMAIN limits[u] :
                    LET l == limits[u][i] IN
                    /\ l.rule_type = "max_trades_per_day"
                    /\ l.is_enabled /\ l.is_hard /\ l.action = "alert"
                    /\ TradeCap(u) = l.threshold
<1>1. PICK In : In = {j \in DOMAIN limits[u] :
                        LET l == limits[u][j] IN
                        /\ l.rule_type = "max_trades_per_day"
                        /\ l.is_enabled /\ l.is_hard /\ l.action = "alert"}
  OBVIOUS
<1>2. PICK caps : caps = {limits[u][i].threshold : i \in In} \cup {MaxTrades}
  OBVIOUS
<1>3. \A i \in DOMAIN limits[u] : limits[u][i].threshold \in Nat
  <2>1. \A i \in DOMAIN limits[u] : limits[u][i] \in RiskLimit
    OBVIOUS
  <2>2. QED
    BY <2>1 DEF RiskLimit
<1>4. caps \in SUBSET Nat /\ caps # {}
  BY ConstantsOK, <1>1, <1>2, <1>3
<1>5. PICK c \in caps : \A d \in caps : c <= d
  BY <1>4, LeastExists
<1>6. PICK least : least = CHOOSE d \in caps : \A e \in caps : d <= e
  OBVIOUS
<1>7. least \in caps
  BY <1>5, <1>6
<1>8. TradeCap(u) = least
  BY <1>1, <1>2, <1>6 DEF TradeCap
<1>9. QED
  BY <1>1, <1>2, <1>4, <1>7, <1>8

\* The rate limit in force is a number.
LEMMA RateLimitType ==
    ASSUME NEW u \in Users, limits[u] \in Seq(RiskLimit)
    PROVE  RateLimit(u) \in Nat
<1>1. PICK rates : rates = {i \in DOMAIN limits[u] :
                              limits[u][i].rule_type = "max_orders_per_minute"}
  OBVIOUS
<1>2. CASE rates = {}
  BY <1>1, <1>2, ConstantsOK DEF RateLimit
<1>3. CASE rates # {}
  <2>1. rates \in SUBSET Nat
    BY <1>1
  <2>2. PICK i \in rates : \A j \in rates : i <= j
    BY <1>3, <2>1, LeastExists
  <2>3. PICK first : first = CHOOSE j \in rates : \A k \in rates : j <= k
    OBVIOUS
  <2>4. first \in rates
    BY <2>2, <2>3
  <2>5. RateLimit(u) = limits[u][first].threshold
    BY <1>1, <1>3, <2>3 DEF RateLimit
  <2>6. limits[u][first] \in RiskLimit
    BY <1>1, <2>4
  <2>7. QED
    BY <2>5, <2>6 DEF RiskLimit
<1>4. QED
  BY <1>2, <1>3

\* The statistics of today are statistics.
LEMMA DailyStatsType ==
    ASSUME TypeOK, NEW u \in Users
    PROVE  /\ DailyStats(u) \in [count : Nat, today : BOOLEAN]
           /\ DailyStats(u).count \in Nat /\ stats[u].count \in Nat
           /\ DailyStats(u).today = TRUE
           /\ DailyStats(u).count <= stats[u].count
BY DEF TypeOK, DailyStats

\* What a step of a task does to the variables.
LEMMA TaskStep ==
    ASSUME TypeOK, NEW t \in Tasks, Check(t) \/ Send(t) \/ \E o \in Orders : Call(t, o)
    PROVE  TypeOK'
<1>1. PICK u \in Users : u = UserOf[t]
  BY ConstantsOK
<1>2. UNCHANGED <<limits, assetCap, balance, globalKill, userKill, strategyKill, stopped>>
  BY DEF Check, Send, Call, RefusedByKill, RefusedByLimit, RefusedByRate, Approved, Traded,
         NotTraded, config, switches, history
<1>3. stats' \in [Users -> [count : Nat, today : BOOLEAN]]
  <2>0. PICK today : today = DailyStats(u)
    OBVIOUS
  <2>a. /\ today \in [count : Nat, today : BOOLEAN]
        /\ [count |-> today.count + 1, today |-> TRUE] \in [count : Nat, today : BOOLEAN]
        /\ stats \in [Users -> [count : Nat, today : BOOLEAN]]
    <3>1. today \in [count : Nat, today : BOOLEAN] /\ today.count \in Nat
      BY <2>0, DailyStatsType
    <3>2. QED
      BY <3>1 DEF TypeOK
  <2>1. LoopDone(t) => stats' \in [Users -> [count : Nat, today : BOOLEAN]]
    <3>1. LoopDone(t) => stats' = [stats EXCEPT ![u] = today] \/ stats' = stats
      BY <1>1, <2>0 DEF LoopDone
    <3>2. QED
      BY <2>a, <3>1
  <2>2. Traded(t) => stats' \in [Users -> [count : Nat, today : BOOLEAN]]
    <3>1. Traded(t) => stats' = [stats EXCEPT ![u] = [count |-> today.count + 1, today |-> TRUE]]
      BY <1>1, <2>0 DEF Traded
    <3>2. QED
      BY <2>a, <3>1
  <2>3. UNCHANGED stats => stats' \in [Users -> [count : Nat, today : BOOLEAN]]
    BY DEF TypeOK
  <2>4. LoopDone(t) \/ Traded(t) \/ UNCHANGED stats
    BY DEF Check, Send, Call, RefusedByKill, RefusedByLimit, RefusedByRate, Approved,
           NotTraded, counters
  <2>5. QED
    BY <2>1, <2>2, <2>3, <2>4
<1>4. tracker' \in [Users -> Seq(0 .. Minute)]
  <2>1. PICK recent : recent = Recent(tracker[u])
    OBVIOUS
  <2>2. recent \in Seq(0 .. Minute) /\ Append(recent, 0) \in Seq(0 .. Minute)
    <3>1. tracker[u] \in Seq(Ages) /\ 0 \in Ages
      BY ConstantsOK DEF TypeOK, Ages
    <3>2. recent \in Seq(Ages)
      BY <2>1, <3>1, RecentAges
    <3>3. QED
      BY <3>1, <3>2 DEF Ages
  <2>3. \/ tracker' = [tracker EXCEPT ![u] = recent]
        \/ tracker' = [tracker EXCEPT ![u] = Append(recent, 0)]
        \/ tracker' = tracker
    BY <1>1, <2>1 DEF Check, Send, Call, RefusedByKill, RefusedByLimit, RefusedByRate,
                      Approved, Traded, NotTraded, counters
  <2>4. tracker \in [Users -> Seq(0 .. Minute)]
    BY DEF TypeOK
  <2>5. QED
    BY <2>2, <2>3, <2>4
<1>5. /\ pc' \in [Tasks -> {"idle", "called", "approved"}]
      /\ order' \in [Tasks -> Orders \cup {None}]
      /\ \A v \in Tasks : pc'[v] = "idle" <=> order'[v] = None
  <2>1. \/ Leave(t)
        \/ \E o \in Orders : pc' = [pc EXCEPT ![t] = "called"] /\ order' = [order EXCEPT ![t] = o]
        \/ pc' = [pc EXCEPT ![t] = "approved"] /\ pc[t] = "called" /\ order' = order
    BY DEF Check, Send, Call, RefusedByKill, RefusedByLimit, RefusedByRate, Approved, Traded,
           NotTraded
  <2>2. None \notin Orders
    BY ConstantsOK
  <2>3. QED
    BY <2>1, <2>2 DEF Leave, TypeOK
<1>6. granted' \in [Users -> Seq(0 .. Minute)] /\ ceiling' \in [Users -> Nat]
  <2>1. CASE UNCHANGED <<granted, ceiling>>
    BY <2>1 DEF TypeOK
  <2>2. CASE Approved(t)
    <3>1. TradeCap(u) \in Nat
      BY TradeCapIsLeast DEF TypeOK
    <3>2. /\ granted' = [granted EXCEPT ![u] = Append(granted[u], 0)]
          /\ ceiling' = [ceiling EXCEPT ![u] = Larger(ceiling[u], TradeCap(u))]
      BY <1>1, <2>2 DEF Approved
    <3>3. Append(granted[u], 0) \in Seq(0 .. Minute)
      BY ConstantsOK DEF TypeOK
    <3>4. Larger(ceiling[u], TradeCap(u)) \in Nat
      BY <3>1 DEF TypeOK, Larger
    <3>5. QED
      BY <3>2, <3>3, <3>4 DEF TypeOK
  <2>3. QED
    BY <2>1, <2>2 DEF Check, Send, Call, RefusedByKill, RefusedByLimit, RefusedByRate, Traded,
                      NotTraded, history
<1>7. QED
  BY <1>2, <1>3, <1>4, <1>5, <1>6 DEF TypeOK

\* Every variable keeps its shape.
LEMMA TypeStep == TypeOK /\ [Next]_vars => TypeOK'
<1> SUFFICES ASSUME TypeOK, [Next]_vars PROVE TypeOK'
  OBVIOUS
<1>1. ASSUME NEW u \in Users, Settings(u) PROVE TypeOK'
  <2>1. CASE \E list \in LimitLists : SetUserLimits(u, list)
    BY <2>1, ConstantsOK DEF SetUserLimits, switches, counters, tasks, history, TypeOK
  <2>2. ASSUME NEW l \in NewLimits, AddLimit(u, l) PROVE TypeOK'
    <3>1. PICK kept : kept = Keep(limits[u], {k \in RiskLimit : k.rule_type # l.rule_type})
      OBVIOUS
    <3>2. kept \in Seq(RiskLimit)
      <4>1. limits[u] \in Seq(RiskLimit)
        BY DEF TypeOK
      <4>2. QED
        BY <3>1, <4>1, KeepIsKept, KeepType
    <3>3. Append(kept, l) \in Seq(RiskLimit)
      BY <3>2, ConstantsOK
    <3>4. limits' = [limits EXCEPT ![u] = Append(kept, l)]
      BY <2>2, <3>1 DEF AddLimit
    <3>5. limits' \in [Users -> Seq(RiskLimit)]
      BY <3>3, <3>4 DEF TypeOK
    <3>6. QED
      BY <2>2, <3>5 DEF AddLimit, switches, counters, tasks, history, TypeOK
  <2>3. CASE \E cap \in AssetCaps : SetPerAssetLimit(u, cap)
    BY <2>3, ConstantsOK DEF SetPerAssetLimit, switches, counters, tasks, history, TypeOK
  <2>4. CASE \E amount \in Balances : SetAccountBalance(u, amount)
    BY <2>4, ConstantsOK DEF SetAccountBalance, switches, counters, tasks, history, TypeOK
  <2>5. CASE ResetDailyLimits(u)
    BY <2>5 DEF ResetDailyLimits, config, switches, tasks, history, TypeOK
  <2>6. CASE GetRiskStatus(u)
    <3>1. stats' \in [Users -> [count : Nat, today : BOOLEAN]]
      BY <2>6, DailyStatsType DEF GetRiskStatus, TypeOK
    <3>2. QED
      BY <2>6, <3>1 DEF GetRiskStatus, config, switches, tasks, history, TypeOK
  <2>7. QED
    BY <1>1, <2>1, <2>2, <2>3, <2>4, <2>5, <2>6 DEF Settings
<1>2. ASSUME NEW u \in Users, Switches(u) PROVE TypeOK'
  <2>1. PICK on \in BOOLEAN : \/ GlobalKillSwitch(on)
                              \/ UserKillSwitch(u, on)
                              \/ \E s \in Strategies : StrategyKillSwitch(u, s, on)
    BY <1>2 DEF Switches
  <2>2. CASE GlobalKillSwitch(on)
    BY <2>2 DEF GlobalKillSwitch, config, counters, tasks, history, TypeOK
  <2>3. CASE UserKillSwitch(u, on)
    <3>1. /\ userKill' = [userKill EXCEPT ![u] = on]
          /\ stopped' = [stopped EXCEPT ![u] = on /\ stopped[u]]
      BY <2>3 DEF UserKillSwitch
    <3>2. (on /\ stopped[u]) \in BOOLEAN
      OBVIOUS
    <3>3. userKill' \in [Users -> BOOLEAN] /\ stopped' \in [Users -> BOOLEAN]
      BY <3>1, <3>2 DEF TypeOK
    <3>4. QED
      BY <2>3, <3>3 DEF UserKillSwitch, config, counters, tasks, TypeOK
  <2>4. ASSUME NEW s \in Strategies, StrategyKillSwitch(u, s, on) PROVE TypeOK'
    <3>1. strategyKill' \in [Users \X Strategies -> BOOLEAN]
      BY <2>4 DEF StrategyKillSwitch, TypeOK
    <3>2. QED
      BY <2>4, <3>1 DEF StrategyKillSwitch, config, counters, tasks, history, TypeOK
  <2>5. QED
    BY <2>1, <2>2, <2>3, <2>4
<1>3. ASSUME NEW u \in Users, NEW loss \in Losses, NEW equity \in Equities,
             CheckDailyLoss(u, loss, equity)
      PROVE  TypeOK'
  <2>1. /\ userKill' = [userKill EXCEPT ![u] = TRUE]
        /\ stopped' = [stopped EXCEPT ![u] = TRUE]
        /\ UNCHANGED <<config, globalKill, strategyKill, counters, tasks, granted, ceiling>>
    BY <1>3 DEF CheckDailyLoss
  <2>2. QED
    BY <2>1 DEF config, counters, tasks, TypeOK
<1>4. CASE Tick
  <2>1. ASSUME NEW u \in Users
        PROVE  /\ Older(tracker[u]) \in Seq(0 .. Minute)
               /\ Recent(Older(granted[u])) \in Seq(0 .. Minute)
    <3>1. tracker[u] \in Seq(Ages) /\ granted[u] \in Seq(Ages)
      BY DEF TypeOK, Ages
    <3>2. Older(tracker[u]) \in Seq(Ages) /\ Older(granted[u]) \in Seq(Ages)
      BY <3>1, OlderAges
    <3>3. QED
      BY <3>2, RecentAges DEF Ages
  <2>2. tracker' \in [Users -> Seq(0 .. Minute)] /\ granted' \in [Users -> Seq(0 .. Minute)]
    BY <1>4, <2>1 DEF Tick
  <2>3. QED
    BY <1>4, <2>2 DEF Tick, config, switches, tasks, TypeOK
<1>5. CASE Midnight
  <2>1. stats' \in [Users -> [count : Nat, today : BOOLEAN]]
    BY <1>5 DEF Midnight, TypeOK
  <2>2. QED
    BY <1>5, <2>1 DEF Midnight, config, switches, tasks, history, TypeOK
<1>6. CASE UNCHANGED vars
  BY <1>6 DEF vars, config, switches, counters, tasks, history, TypeOK
<1>7. QED
  BY <1>1, <1>2, <1>3, <1>4, <1>5, <1>6, TaskStep DEF Next

\* The manager's dictionaries and its callers keep their shapes, whatever is called when.
THEOREM Types == Spec => []TypeOK
<1>1. ASSUME Init PROVE TypeOK
  <2>1. strategyKill \in [Users \X Strategies -> BOOLEAN]
    BY <1>1 DEF Init
  <2>2. /\ limits \in [Users -> Seq(RiskLimit)]
        /\ stats \in [Users -> [count : Nat, today : BOOLEAN]]
        /\ tracker \in [Users -> Seq(0 .. Minute)]
        /\ granted \in [Users -> Seq(0 .. Minute)]
    BY <1>1 DEF Init
  <2>3. /\ assetCap \in [Users -> Nat \cup {None}]
        /\ balance \in [Users -> Nat]
        /\ ceiling \in [Users -> Nat]
    BY <1>1, ConstantsOK DEF Init
  <2>4. QED
    BY <1>1, <2>1, <2>2, <2>3 DEF Init, TypeOK
<1>2. QED
  BY <1>1, TypeStep, PTL DEF Spec

-----------------------------------------------------------------------------
(* The rate of the orders.                                                  *)

\* The approvals of the last minute are those that the tracker would still count.
RateFit == \A u \in Users : granted[u] = Recent(tracker[u])

\* Who looks at the tracker may shorten it, and time makes it older; neither changes what is
\* recent of it more than of the approvals.
LEMMA RateStep ==
    ASSUME TypeOK, RateFit, [Next]_vars
    PROVE  /\ RateFit'
           /\ \A u \in Users : Len(granted'[u]) > Len(granted[u]) =>
                 Len(granted'[u]) <= RateLimit(u)
<1>1. \A u \in Users : tracker[u] \in Seq(Ages) /\ granted[u] \in Seq(Ages)
  BY DEF TypeOK, Ages
<1>2. CASE UNCHANGED <<tracker, granted>>
  <2>1. \A u \in Users : Len(granted[u]) \in Nat
    BY <1>1
  <2>2. QED
    BY <1>2, <2>1 DEF RateFit
<1>3. ASSUME NEW t \in Tasks, RefusedByRate(t)
      PROVE  RateFit' /\ granted' = granted
  <2>1. PICK u \in Users : u = UserOf[t]
    BY ConstantsOK
  <2>2. /\ tracker' = [tracker EXCEPT ![u] = Recent(tracker[u])]
        /\ granted' = granted
    BY <1>3, <2>1 DEF RefusedByRate, history
  <2>3. Recent(Recent(tracker[u])) = Recent(tracker[u])
    BY <1>1, RecentAges
  <2>4. QED
    BY <2>2, <2>3 DEF TypeOK, RateFit
<1>4. ASSUME NEW t \in Tasks, Approved(t)
      PROVE  /\ RateFit'
             /\ \A u \in Users : Len(granted'[u]) > Len(granted[u]) =>
                   Len(granted'[u]) <= RateLimit(u)
  <2>1. PICK u \in Users : u = UserOf[t]
    BY ConstantsOK
  <2>2. PICK recent, more : recent = Recent(tracker[u]) /\ more = Append(recent, 0)
    OBVIOUS
  <2>3. /\ tracker' = [tracker EXCEPT ![u] = more]
        /\ granted' = [granted EXCEPT ![u] = more]
        /\ Len(recent) < RateLimit(u)
    BY <1>4, <2>1, <2>2 DEF Approved, RateFit
  <2>4. Recent(more) = more
    <3>1. recent \in Seq(Ages) /\ Recent(recent) = recent
      BY <1>1, <2>2, RecentAges
    <3>2. 0 \in Ages /\ 0 \in Young
      BY ConstantsOK DEF Ages, Young
    <3>3. QED
      BY <2>2, <3>1, <3>2, RecentAppend
  <2>5. RateFit'
    BY <2>3, <2>4 DEF TypeOK, RateFit
  <2>6. Len(more) <= RateLimit(u)
    <3>1. recent \in Seq(Ages)
      BY <1>1, <2>2, RecentAges
    <3>2. Len(more) = Len(recent) + 1 /\ Len(recent) \in Nat
      BY <2>2, <3>1
    <3>3. RateLimit(u) \in Nat
      BY RateLimitType DEF TypeOK
    <3>4. QED
      BY <2>3, <3>2, <3>3
  <2>7. ASSUME NEW v \in Users, Len(granted'[v]) > Len(granted[v]) PROVE v = u
    <3>1. v # u => granted'[v] = granted[v]
      BY <2>3 DEF TypeOK
    <3>2. Len(granted[v]) \in Nat
      BY <1>1
    <3>3. QED
      BY <2>7, <3>1, <3>2
  <2>8. granted'[u] = more
    BY <2>3 DEF TypeOK
  <2>9. QED
    BY <2>5, <2>6, <2>7, <2>8
<1>5. CASE Tick
  <2>1. ASSUME NEW u \in Users
        PROVE  /\ granted'[u] = Recent(tracker'[u])
               /\ ~(Len(granted'[u]) > Len(granted[u]))
    <3>1. PICK ages, now, older :
            ages = tracker[u] /\ now = granted[u] /\ older = Older(now)
      OBVIOUS
    <3>2. /\ ages \in Seq(Ages) /\ now \in Seq(Ages) /\ now = Recent(ages)
          /\ tracker'[u] = Older(ages) /\ granted'[u] = Recent(older)
      BY <1>1, <1>5, <3>1 DEF Tick, RateFit
    <3>3. Recent(older) = Recent(Older(ages))
      BY <3>1, <3>2, RecentStays
    <3>4. older \in Seq(Ages) /\ Len(older) = Len(now)
      BY <3>1, <3>2, OlderAges
    <3>5. Recent(older) \in Seq(Ages) /\ Len(Recent(older)) <= Len(older)
      BY <3>4, RecentAges
    <3>6. Len(Recent(older)) \in Nat /\ Len(now) \in Nat
      BY <3>2, <3>5
    <3>7. QED
      BY <3>1, <3>2, <3>3, <3>4, <3>5, <3>6
  <2>2. QED
    BY <2>1 DEF RateFit
<1>6. ASSUME NEW t \in Tasks, Check(t) \/ Send(t) \/ \E o \in Orders : Call(t, o)
      PROVE  UNCHANGED <<tracker, granted>> \/ RefusedByRate(t) \/ Approved(t)
  BY <1>6 DEF Check, Send, Call, RefusedByKill, RefusedByLimit, Traded, NotTraded, counters,
              history
<1>7. ASSUME NEW u \in Users, Settings(u) \/ Switches(u) \/
             \E loss \in Losses, equity \in Equities : CheckDailyLoss(u, loss, equity)
      PROVE  UNCHANGED <<tracker, granted>>
  BY <1>7 DEF Settings, SetUserLimits, AddLimit, SetPerAssetLimit, SetAccountBalance,
              ResetDailyLimits, GetRiskStatus, Switches, GlobalKillSwitch,
              UserKillSwitch, StrategyKillSwitch, CheckDailyLoss, counters, history
<1>8. CASE Midnight \/ UNCHANGED vars
  BY <1>2, <1>8 DEF Midnight, vars, counters, history
<1>9. ASSUME NEW t \in Tasks, RefusedByRate(t)
      PROVE  /\ RateFit'
             /\ \A u \in Users : Len(granted'[u]) > Len(granted[u]) =>
                   Len(granted'[u]) <= RateLimit(u)
  <2>1. \A u \in Users : Len(granted[u]) \in Nat
    BY <1>1
  <2>2. QED
    BY <1>3, <1>9, <2>1
<1>10. CASE \E t \in Tasks : Check(t) \/ Send(t) \/ \E o \in Orders : Call(t, o)
  BY <1>2, <1>4, <1>6, <1>9, <1>10
<1>11. CASE \E u \in Users :
              \/ Settings(u)
              \/ Switches(u)
              \/ \E loss \in Losses, equity \in Equities : CheckDailyLoss(u, loss, equity)
  BY <1>2, <1>7, <1>11
<1>12. QED
  BY <1>5, <1>8, <1>10, <1>11 DEF Next

\* No minute lets more orders through than the limit in force when the last of them was,
\* for any limits, replaced at any time, and any interleaving of the calls.
THEOREM RateIsHeld == Spec => RateHolds
<1>1. Init => RateFit
  BY KeepIsKept, KeepEmpty DEF Init, RateFit, Recent
<1>2. TypeOK /\ RateFit /\ [Next]_vars => RateFit' /\
        [\A u \in Users : Len(granted'[u]) > Len(granted[u]) =>
                             Len(granted'[u]) <= RateLimit(u)]_vars
  BY RateStep
<1>3. QED
  BY <1>1, <1>2, Types, PTL DEF Spec, RateHolds

-----------------------------------------------------------------------------
(* The trades of a day.                                                     *)

\* The callers of a user, those of them with an order on its way, and those whose order was
\* let through and may trade yet.
OfUser(u) == {t \in Tasks : UserOf[t] = u}
InFlight(u) == {t \in OfUser(u) : pc[t] # "idle"}
LetThrough(u) == {t \in OfUser(u) : pc[t] = "approved"}

\* The trades of the day and the orders let through, each of which may become one, are fewer
\* than the cap and the callers: an order was let through when the trades were below the cap,
\* and no more than one of each caller can have been since.
TradesFitFor(u) ==
    /\ DailyStats(u).count + Cardinality(InFlight(u)) <= MaxTrades
    /\ DailyStats(u).count > 0 \/ LetThrough(u) # {} =>
          DailyStats(u).count + Cardinality(LetThrough(u))
            < ceiling[u] + Cardinality(OfUser(u))
    /\ stats[u].count > 0 => stats[u].count < ceiling[u] + Cardinality(OfUser(u))

TradesFit == \A u \in Users : TradesFitFor(u)

\* There are finitely many callers.
LEMMA CallersCount ==
    ASSUME NEW u \in Users
    PROVE  /\ IsFiniteSet(OfUser(u)) /\ Cardinality(OfUser(u)) \in Nat
           /\ IsFiniteSet(InFlight(u)) /\ Cardinality(InFlight(u)) \in Nat
           /\ IsFiniteSet(LetThrough(u)) /\ Cardinality(LetThrough(u)) \in Nat
           /\ Cardinality(LetThrough(u)) <= Cardinality(OfUser(u))
<1>1. IsFiniteSet(OfUser(u))
  BY ConstantsOK, FS_Subset DEF OfUser
<1>2. InFlight(u) \in SUBSET OfUser(u) /\ LetThrough(u) \in SUBSET OfUser(u)
  BY DEF InFlight, LetThrough
<1>3. QED
  BY <1>1, <1>2, FS_Subset, FS_CardinalityType

\* Where no trade is counted, no order begun and none let through, the books stay fit.
LEMMA TradesKept ==
    ASSUME TypeOK, TypeOK', NEW u \in Users, TradesFitFor(u),
           (DailyStats(u).count)' <= DailyStats(u).count, stats'[u].count <= stats[u].count,
           InFlight(u)' \subseteq InFlight(u), LetThrough(u)' \subseteq LetThrough(u),
           ceiling'[u] >= ceiling[u]
    PROVE  TradesFitFor(u)'
<1>1. PICK n, a, n1, a1, all :
        /\ n = Cardinality(InFlight(u)) /\ a = Cardinality(LetThrough(u))
        /\ n1 = Cardinality(InFlight(u)') /\ a1 = Cardinality(LetThrough(u)')
        /\ all = Cardinality(OfUser(u))
  OBVIOUS
<1>2. n \in Nat /\ a \in Nat /\ n1 \in Nat /\ a1 \in Nat /\ all \in Nat /\ n1 <= n /\ a1 <= a
  BY <1>1, CallersCount, FS_Subset, FS_CardinalityType
<1>3. PICK c, c1, raw, raw1, top, top1 :
        /\ c = DailyStats(u).count /\ c1 = (DailyStats(u).count)'
        /\ raw = stats[u].count /\ raw1 = stats'[u].count
        /\ top = ceiling[u] /\ top1 = ceiling'[u]
  OBVIOUS
<1>4. /\ c \in Nat /\ c1 \in Nat /\ raw \in Nat /\ raw1 \in Nat /\ top \in Nat /\ top1 \in Nat
      /\ c1 <= c /\ raw1 <= raw /\ top1 >= top
  BY <1>3 DEF TypeOK, DailyStats
<1>5. /\ c + n <= MaxTrades
      /\ c > 0 \/ LetThrough(u) # {} => c + a < top + all
      /\ raw > 0 => raw < top + all
  BY <1>1, <1>3 DEF TradesFitFor
<1>6. MaxTrades \in Nat
  BY ConstantsOK
<1>7. c1 > 0 \/ LetThrough(u)' # {} => c > 0 \/ LetThrough(u) # {}
  BY <1>4
<1>8. /\ c1 + n1 <= MaxTrades
      /\ c1 > 0 \/ LetThrough(u)' # {} => c1 + a1 < top1 + all
      /\ raw1 > 0 => raw1 < top1 + all
  BY <1>2, <1>4, <1>5, <1>6, <1>7
<1>9. OfUser(u)' = OfUser(u)
  BY DEF OfUser
<1>10. QED
  BY <1>1, <1>3, <1>8, <1>9 DEF TradesFitFor

\* An order that the limits let pass finds the trades of the day below the cap.
LEMMA PassedBelowCap ==
    ASSUME TypeOK, NEW t \in Tasks, NEW u \in Users, u = UserOf[t], pc[t] = "called", ~Ended(t),
           TradesFitFor(u)
    PROVE  DailyStats(u).count < TradeCap(u)
<1>1. PICK c, cap, n : /\ c = DailyStats(u).count /\ cap = TradeCap(u)
                       /\ n = Cardinality(InFlight(u))
  OBVIOUS
<1>2. c \in Nat /\ n \in Nat /\ c + n <= MaxTrades /\ MaxTrades \in Nat
  BY <1>1, CallersCount, DailyStatsType, ConstantsOK DEF TradesFitFor
<1>3. limits[u] \in Seq(RiskLimit)
  BY DEF TypeOK
<1>4. CASE cap = MaxTrades
  <2>1. t \in InFlight(u)
    BY DEF InFlight, OfUser
  <2>2. n # 0
    BY <1>1, <2>1, CallersCount, FS_EmptySet
  <2>3. QED
    BY <1>1, <1>2, <1>4, <2>2
<1>5. ASSUME NEW i \in DOMAIN limits[u], NEW l, l = limits[u][i],
             l.rule_type = "max_trades_per_day", l.is_enabled, l.is_hard, l.action = "alert",
             cap = l.threshold
      PROVE  c < cap
  <2>1. ~EndsCheck(u, order[t], i)
    BY <1>5 DEF Ended
  <2>2. ~Breached(u, l, order[t])
    BY <1>5, <2>1 DEF EndsCheck, Rejects
  <2>3. ~(c >= l.threshold)
    BY <1>1, <1>5, <2>2 DEF Breached
  <2>4. l \in RiskLimit
    BY <1>3, <1>5
  <2>5. l.threshold \in Nat
    BY <2>4 DEF RiskLimit
  <2>6. QED
    BY <1>2, <1>5, <2>3, <2>5
<1>6. QED
  BY <1>1, <1>3, <1>4, <1>5, TradeCapIsLeast

\* What becomes of the callers of a user when one of them moves.
LEMMA CallersMove ==
    ASSUME TypeOK, NEW t \in Tasks, NEW x, pc' = [pc EXCEPT ![t] = x], NEW u \in Users
    PROVE  /\ u # UserOf[t] => InFlight(u)' = InFlight(u) /\ LetThrough(u)' = LetThrough(u)
           /\ x = "idle" => /\ InFlight(u)' = InFlight(u) \ {t}
                            /\ LetThrough(u)' = LetThrough(u) \ {t}
           /\ x = "called" => /\ InFlight(u)' \subseteq InFlight(u) \cup {t}
                              /\ LetThrough(u)' \subseteq LetThrough(u)
           /\ x = "approved" /\ pc[t] # "idle" => InFlight(u)' = InFlight(u)
BY DEF TypeOK, OfUser, InFlight, LetThrough

\* A step of a task keeps the books fit.
LEMMA TradesTaskStep ==
    ASSUME TypeOK, TypeOK', TradesFit, NEW t \in Tasks,
           Check(t) \/ Send(t) \/ \E o \in Orders : Call(t, o)
    PROVE  TradesFit'
<1>1. PICK u \in Users : u = UserOf[t]
  BY ConstantsOK
<1>2. PICK x : x \in {"idle", "called", "approved"} /\ pc' = [pc EXCEPT ![t] = x]
  BY DEF Check, Send, Call, RefusedByKill, RefusedByLimit, RefusedByRate, Approved, Traded,
         NotTraded, Leave
<1>3. PICK today : today = DailyStats(u)
  OBVIOUS
<1>4. /\ today \in [count : Nat, today : BOOLEAN] /\ today.count <= stats[u].count
      /\ today.today = TRUE /\ today.count \in Nat /\ stats[u].count \in Nat
  BY <1>3, DailyStatsType
<1>5. \/ stats' = stats
      \/ stats' = [stats EXCEPT ![u] = today]
      \/ Traded(t) /\ stats' = [stats EXCEPT ![u] = [count |-> today.count + 1, today |-> TRUE]]
  BY <1>1, <1>3 DEF Check, Send, Call, RefusedByKill, RefusedByLimit, RefusedByRate, Approved,
                    Traded, NotTraded, LoopDone, counters
<1>6. /\ ceiling' = ceiling \/ ceiling' = [ceiling EXCEPT ![u] = Larger(ceiling[u], TradeCap(u))]
      /\ ceiling' # ceiling => Approved(t)
  BY <1>1 DEF Check, Send, Call, RefusedByKill, RefusedByLimit, RefusedByRate, Approved,
              Traded, NotTraded, history
<1>7. TradeCap(u) \in Nat /\ ceiling[u] \in Nat
  BY TradeCapIsLeast DEF TypeOK
<1>8. ASSUME NEW v \in Users, v # u PROVE TradesFitFor(v)'
  <2>1. InFlight(v)' = InFlight(v) /\ LetThrough(v)' = LetThrough(v)
    BY <1>1, <1>2, <1>8, CallersMove
  <2>2. stats'[v] = stats[v] /\ ceiling'[v] = ceiling[v]
    BY <1>5, <1>6, <1>8 DEF TypeOK
  <2>3. stats[v].count \in Nat /\ ceiling[v] \in Nat
    BY DEF TypeOK
  <2>4. (DailyStats(v).count)' = DailyStats(v).count /\ DailyStats(v).count \in Nat
    BY <2>2, DailyStatsType DEF DailyStats
  <2>5. stats'[v].count <= stats[v].count /\ ceiling'[v] >= ceiling[v]
        /\ (DailyStats(v).count)' <= DailyStats(v).count
    BY <2>2, <2>3, <2>4
  <2>6. InFlight(v)' \subseteq InFlight(v) /\ LetThrough(v)' \subseteq LetThrough(v)
    BY <2>1
  <2>7. TradesFitFor(v)
    BY DEF TradesFit
  <2>8. QED
    BY <2>5, <2>6, <2>7, TradesKept
<1>9. TradesFitFor(u) /\ ceiling'[u] >= ceiling[u]
  BY <1>6, <1>7 DEF TradesFit, Larger, TypeOK
<1>10. ~Traded(t) => /\ (DailyStats(u).count)' = today.count
                     /\ stats'[u].count <= stats[u].count
  <2>1. stats' = stats => (DailyStats(u).count)' = today.count /\ stats'[u].count <= stats[u].count
    BY <1>3, <1>4 DEF DailyStats
  <2>2. stats' = [stats EXCEPT ![u] = today] =>
          (DailyStats(u).count)' = today.count /\ stats'[u].count <= stats[u].count
    BY <1>4 DEF DailyStats, TypeOK
  <2>3. QED
    BY <1>5, <2>1, <2>2
<1>11. CASE x = "idle" /\ ~Traded(t)
  <2>1. InFlight(u)' \subseteq InFlight(u) /\ LetThrough(u)' \subseteq LetThrough(u)
    <3>1. InFlight(u)' = InFlight(u) \ {t} /\ LetThrough(u)' = LetThrough(u) \ {t}
      BY <1>2, <1>11, CallersMove
    <3>2. QED
      BY <3>1
  <2>2. (DailyStats(u).count)' <= DailyStats(u).count
    BY <1>3, <1>4, <1>10, <1>11
  <2>3. TradesFitFor(u)'
    BY <1>9, <1>10, <1>11, <2>1, <2>2, TradesKept
  <2>4. QED
    BY <1>8, <2>3 DEF TradesFit
<1>12. PICK c, n, a, all, n1, a1 :
         /\ c = today.count /\ n = Cardinality(InFlight(u)) /\ a = Cardinality(LetThrough(u))
         /\ all = Cardinality(OfUser(u))
         /\ n1 = Cardinality(InFlight(u)') /\ a1 = Cardinality(LetThrough(u)')
  OBVIOUS
<1>13. /\ c \in Nat /\ n \in Nat /\ a \in Nat /\ all \in Nat /\ n1 \in Nat /\ a1 \in Nat
       /\ a1 <= all /\ ceiling'[u] \in Nat /\ stats'[u].count \in Nat /\ MaxTrades \in Nat
       /\ OfUser(u)' = OfUser(u)
  <2>1. OfUser(u)' = OfUser(u)
    BY DEF OfUser
  <2>2. InFlight(u)' \in SUBSET OfUser(u) /\ LetThrough(u)' \in SUBSET OfUser(u)
    BY DEF OfUser, InFlight, LetThrough
  <2>3. QED
    BY <1>4, <1>12, <2>1, <2>2, CallersCount, FS_Subset, FS_CardinalityType, ConstantsOK
       DEF TypeOK
<1>14. /\ c + n <= MaxTrades
       /\ c > 0 \/ LetThrough(u) # {} => c + a < ceiling[u] + all
       /\ stats[u].count > 0 => stats[u].count < ceiling[u] + all
  BY <1>3, <1>9, <1>12 DEF TradesFitFor
<1>15. SUFFICES TradesFitFor(u)'
  BY <1>8 DEF TradesFit
<1>16. CASE Traded(t)
  <2>1. t \in InFlight(u) /\ t \in LetThrough(u) /\ x = "idle"
    BY <1>1, <1>2, <1>16 DEF Traded, Leave, InFlight, LetThrough, OfUser, TypeOK
  <2>2. InFlight(u)' = InFlight(u) \ {t} /\ LetThrough(u)' = LetThrough(u) \ {t}
    BY <1>2, <2>1, CallersMove
  <2>3. n1 = n - 1 /\ a1 = a - 1
    BY <1>12, <2>1, <2>2, CallersCount, FS_RemoveElement
  <2>4. a # 0
    BY <1>12, <2>1, CallersCount, FS_EmptySet
  <2>5. stats'[u] = [count |-> c + 1, today |-> TRUE]
    BY <1>1, <1>3, <1>12, <1>16 DEF Traded, TypeOK
  <2>6. stats'[u].count = c + 1 /\ (DailyStats(u).count)' = c + 1
    BY <2>5 DEF DailyStats
  <2>7. ceiling'[u] = ceiling[u]
    BY <1>16 DEF Traded, history
  <2>8. c + a < ceiling[u] + all
    BY <1>14, <2>1
  <2>9. /\ (c + 1) + n1 <= MaxTrades
        /\ (c + 1) + a1 < ceiling[u] + all
        /\ c + 1 < ceiling[u] + all
    BY <1>7, <1>13, <1>14, <2>3, <2>4, <2>8
  <2>10. QED
    BY <1>12, <1>13, <2>6, <2>7, <2>9 DEF TradesFitFor
<1>17. CASE x = "called" /\ ~Traded(t)
  <2>1. PICK all1 : all1 = Cardinality({v \in Tasks : pc[v] # "idle"})
    OBVIOUS
  <2>2. pc[t] = "idle" /\ today.count + all1 < MaxTrades /\ ceiling' = ceiling
    BY <1>1, <1>2, <1>3, <1>17, <2>1 DEF Check, Send, Call, RefusedByKill, RefusedByLimit,
       RefusedByRate, Approved, NotTraded, Leave, history, TypeOK
  <2>3. n <= all1 /\ all1 \in Nat
    <3>1. IsFiniteSet({v \in Tasks : pc[v] # "idle"})
      BY ConstantsOK, FS_Subset
    <3>2. InFlight(u) \in SUBSET {v \in Tasks : pc[v] # "idle"}
      BY DEF InFlight, OfUser
    <3>3. QED
      BY <1>12, <2>1, <3>1, <3>2, FS_Subset, FS_CardinalityType
  <2>4. n1 <= n + 1
    <3>1. InFlight(u)' \in SUBSET (InFlight(u) \cup {t})
      BY <1>2, <1>17, CallersMove
    <3>2. /\ IsFiniteSet(InFlight(u) \cup {t})
          /\ Cardinality(InFlight(u) \cup {t}) <= n + 1
          /\ Cardinality(InFlight(u) \cup {t}) \in Nat
      <4>1. PICK S, S1 : S = InFlight(u) /\ S1 = InFlight(u) \cup {t}
        OBVIOUS
      <4>2. IsFiniteSet(S) /\ Cardinality(S) = n /\ S1 = S \cup {t}
        BY <1>12, <4>1, CallersCount
      <4>3. IsFiniteSet(S1) /\ Cardinality(S1) \in {n, n + 1}
        BY <4>2, FS_AddElement
      <4>4. QED
        BY <1>13, <4>1, <4>3
    <3>3. n1 <= Cardinality(InFlight(u) \cup {t})
      BY <1>12, <3>1, <3>2, FS_Subset
    <3>4. QED
      BY <1>13, <3>2, <3>3
  <2>5. LetThrough(u)' \subseteq LetThrough(u) /\ a1 <= a
    <3>1. LetThrough(u)' \subseteq LetThrough(u)
      BY <1>2, <1>17, CallersMove
    <3>2. QED
      BY <1>12, <3>1, CallersCount, FS_Subset
  <2>6. c + n1 <= MaxTrades
    BY <1>12, <1>13, <2>2, <2>3, <2>4
  <2>7. c > 0 \/ LetThrough(u)' # {} => c + a1 < ceiling'[u] + all
    BY <1>7, <1>13, <1>14, <2>2, <2>5
  <2>8. stats'[u].count > 0 => stats'[u].count < ceiling'[u] + all
    BY <1>4, <1>7, <1>10, <1>13, <1>14, <1>17, <2>2
  <2>9. QED
    BY <1>10, <1>12, <1>13, <1>17, <2>6, <2>7, <2>8 DEF TradesFitFor
<1>18. CASE x = "approved" /\ ~Traded(t)
  <2>1. Approved(t)
    BY <1>2, <1>18 DEF Check, Send, Call, RefusedByKill, RefusedByLimit, RefusedByRate,
       NotTraded, Leave, TypeOK
  <2>2. c < TradeCap(u)
    BY <1>1, <1>3, <1>9, <1>12, <2>1, PassedBelowCap DEF Approved
  <2>3. ceiling'[u] = Larger(ceiling[u], TradeCap(u))
    BY <1>1, <2>1 DEF Approved, TypeOK
  <2>4. c < ceiling'[u]
    BY <1>7, <1>13, <2>2, <2>3 DEF Larger
  <2>5. n1 = n
    BY <1>2, <1>12, <1>18, <2>1, CallersMove DEF Approved
  <2>6. /\ c + n1 <= MaxTrades
        /\ c + a1 < ceiling'[u] + all
    BY <1>13, <1>14, <2>4, <2>5
  <2>7. stats'[u].count > 0 => stats'[u].count < ceiling'[u] + all
    BY <1>4, <1>7, <1>9, <1>10, <1>13, <1>14, <1>18
  <2>8. QED
    BY <1>10, <1>12, <1>13, <1>18, <2>6, <2>7 DEF TradesFitFor
<1>19. QED
  BY <1>2, <1>11, <1>15, <1>16, <1>17, <1>18 DEF TradesFit

\* So does every other step.
LEMMA TradesStep ==
    ASSUME TypeOK, TypeOK', TradesFit, [Next]_vars
    PROVE  TradesFit'
<1>1. CASE UNCHANGED <<stats, pc, ceiling>>
  BY <1>1 DEF TradesFit, TradesFitFor, DailyStats, InFlight, LetThrough, OfUser
<1>2. ASSUME UNCHANGED <<pc, ceiling>>,
             \A v \in Users : stats'[v] \in {stats[v], DailyStats(v), [count |-> 0, today |-> TRUE],
                                             [stats[v] EXCEPT !.today = FALSE]}
      PROVE  TradesFit'
  <2>1. SUFFICES ASSUME NEW v \in Users PROVE TradesFitFor(v)'
    BY DEF TradesFit
  <2>2. stats[v] \in [count : Nat, today : BOOLEAN] /\ ceiling[v] \in Nat
    BY DEF TypeOK
  <2>3. /\ stats'[v].count <= stats[v].count
        /\ (DailyStats(v).count)' <= DailyStats(v).count
    BY <1>2, <2>2 DEF DailyStats
  <2>4. InFlight(v)' = InFlight(v) /\ LetThrough(v)' = LetThrough(v)
    BY <1>2 DEF InFlight, LetThrough, OfUser
  <2>5. ceiling'[v] >= ceiling[v]
    BY <1>2, <2>2
  <2>6. QED
    BY <2>3, <2>4, <2>5, TradesKept DEF TradesFit
<1>3. ASSUME NEW u \in Users, Settings(u) PROVE TradesFit'
  <2>1. CASE ResetDailyLimits(u) \/ GetRiskStatus(u)
    <3>1. UNCHANGED <<pc, ceiling>>
      BY <2>1 DEF ResetDailyLimits, GetRiskStatus, tasks, history
    <3>2. stats' = [stats EXCEPT ![u] = [count |-> 0, today |-> TRUE]]
          \/ stats' = [stats EXCEPT ![u] = DailyStats(u)]
      BY <2>1 DEF ResetDailyLimits, GetRiskStatus
    <3>3. DOMAIN stats = Users
      BY DEF TypeOK
    <3>4. QED
      BY <1>2, <3>1, <3>2, <3>3
  <2>2. QED
    BY <1>1, <1>3, <2>1 DEF Settings, SetUserLimits, AddLimit, SetPerAssetLimit,
       SetAccountBalance, counters, tasks, history
<1>4. ASSUME NEW u \in Users, Switches(u) \/
             \E loss \in Losses, equity \in Equities : CheckDailyLoss(u, loss, equity)
      PROVE  UNCHANGED <<stats, pc, ceiling>>
  BY <1>4 DEF Switches, GlobalKillSwitch, UserKillSwitch, StrategyKillSwitch, CheckDailyLoss,
              counters, tasks, history
<1>5. CASE Midnight
  BY <1>2, <1>5 DEF Midnight, tasks, history
<1>6. CASE Tick \/ UNCHANGED vars
  BY <1>1, <1>6 DEF Tick, vars, counters, tasks, history
<1>7. QED
  BY <1>1, <1>3, <1>4, <1>5, <1>6, TradesTaskStep DEF Next

\* The trades of a day never overrun the loosest cap that an order was approved under by more
\* than the callers that were under way together, however limits, dates and calls interleave.
THEOREM TradesAreBounded == Spec => []TradesBounded
<1>1. ASSUME Init PROVE TradesFit
  <2>1. SUFFICES ASSUME NEW u \in Users PROVE TradesFitFor(u)
    BY DEF TradesFit
  <2>2. stats[u] = [count |-> 0, today |-> TRUE] /\ InFlight(u) = {} /\ LetThrough(u) = {}
    BY <1>1 DEF Init, InFlight, LetThrough, OfUser
  <2>3. QED
    BY <2>2, ConstantsOK, FS_EmptySet DEF TradesFitFor, DailyStats
<1>2. TypeOK /\ TypeOK' /\ TradesFit /\ [Next]_vars => TradesFit'
  BY TradesStep
<1>3. TradesFit => TradesBounded
  BY DEF TradesFit, TradesFitFor, TradesBounded, OfUser
<1>4. QED
  BY <1>1, <1>2, <1>3, Types, PTL DEF Spec

-----------------------------------------------------------------------------
(* The switches.                                                            *)

\* A user whom check_daily_loss refused has the kill switch on.
StopsFit ==
    /\ userKill \in [Users -> BOOLEAN]
    /\ stopped \in [Users -> BOOLEAN]
    /\ \A u \in Users : stopped[u] => userKill[u]

\* Only the switch of the user and check_daily_loss touch either.
LEMMA StopsStep == StopsFit /\ [Next]_vars => StopsFit'
<1> SUFFICES ASSUME StopsFit, [Next]_vars PROVE StopsFit'
  OBVIOUS
<1>1. CASE UNCHANGED <<userKill, stopped>>
  BY <1>1 DEF StopsFit
<1>2. ASSUME NEW t \in Tasks, Check(t) \/ Send(t) \/ \E o \in Orders : Call(t, o)
      PROVE  UNCHANGED <<userKill, stopped>>
  BY <1>2 DEF Check, Send, Call, RefusedByKill, RefusedByLimit, RefusedByRate, Approved,
              Traded, NotTraded, switches, history
<1>3. ASSUME NEW u \in Users, Settings(u)
      PROVE  UNCHANGED <<userKill, stopped>>
  BY <1>3 DEF Settings, SetUserLimits, AddLimit, SetPerAssetLimit, SetAccountBalance,
              ResetDailyLimits, GetRiskStatus, switches, history
<1>4. ASSUME NEW u \in Users, Switches(u)
      PROVE  StopsFit'
  <2>1. PICK on \in BOOLEAN : \/ GlobalKillSwitch(on)
                              \/ UserKillSwitch(u, on)
                              \/ \E s \in Strategies : StrategyKillSwitch(u, s, on)
    BY <1>4 DEF Switches
  <2>2. CASE UserKillSwitch(u, on)
    <3>1. /\ userKill' = [userKill EXCEPT ![u] = on]
          /\ stopped' = [stopped EXCEPT ![u] = on /\ stopped[u]]
      BY <2>2 DEF UserKillSwitch
    <3>2. (on /\ stopped[u]) \in BOOLEAN
      OBVIOUS
    <3>3. QED
      BY <3>1, <3>2 DEF StopsFit
  <2>3. CASE GlobalKillSwitch(on) \/ \E s \in Strategies : StrategyKillSwitch(u, s, on)
    BY <1>1, <2>3 DEF GlobalKillSwitch, StrategyKillSwitch, history
  <2>4. QED
    BY <2>1, <2>2, <2>3
<1>5. ASSUME NEW u \in Users, NEW loss \in Losses, NEW equity \in Equities,
             CheckDailyLoss(u, loss, equity)
      PROVE  StopsFit'
  <2>1. /\ userKill' = [userKill EXCEPT ![u] = TRUE]
        /\ stopped' = [stopped EXCEPT ![u] = TRUE]
    BY <1>5 DEF CheckDailyLoss
  <2>2. QED
    BY <2>1 DEF StopsFit
<1>6. CASE Tick \/ Midnight \/ UNCHANGED vars
  BY <1>1, <1>6 DEF Tick, Midnight, vars, switches, history
<1>7. QED
  BY <1>1, <1>2, <1>3, <1>4, <1>5, <1>6 DEF Next

Places == pc \in [Tasks -> {"idle", "called", "approved"}]

\* What a step does to the places of the tasks.
LEMMA PlacesStep ==
    ASSUME Places, [Next]_vars
    PROVE  /\ Places'
           /\ \A t \in Tasks : pc[t] = "called" /\ pc'[t] = "approved" => Approved(t)
<1>1. CASE UNCHANGED pc
  BY <1>1 DEF Places
<1>2. ASSUME NEW v \in Tasks, Check(v) \/ Send(v) \/ \E o \in Orders : Call(v, o)
      PROVE  /\ Places'
             /\ \A t \in Tasks : pc[t] = "called" /\ pc'[t] = "approved" => Approved(t)
  <2>1. \/ pc' = [pc EXCEPT ![v] = "idle"]
        \/ pc' = [pc EXCEPT ![v] = "called"]
        \/ pc' = [pc EXCEPT ![v] = "approved"] /\ Approved(v)
    BY <1>2 DEF Check, Send, Call, RefusedByKill, RefusedByLimit, RefusedByRate, Approved,
                Traded, NotTraded, Leave
  <2>2. QED
    BY <2>1 DEF Places
<1>3. ASSUME NEW u \in Users, Settings(u) \/ Switches(u) \/
             \E loss \in Losses, equity \in Equities : CheckDailyLoss(u, loss, equity)
      PROVE  UNCHANGED pc
  BY <1>3 DEF Settings, SetUserLimits, AddLimit, SetPerAssetLimit, SetAccountBalance,
              ResetDailyLimits, GetRiskStatus, Switches, GlobalKillSwitch,
              UserKillSwitch, StrategyKillSwitch, CheckDailyLoss, tasks
<1>4. CASE Tick \/ Midnight \/ UNCHANGED vars
  BY <1>1, <1>4 DEF Tick, Midnight, vars, tasks
<1>5. QED
  BY <1>1, <1>2, <1>3, <1>4 DEF Next

\* The refusal of check_daily_loss binds check_order_risk until the kill switch is
\* reset, whatever happens to limits, statistics and dates in between.
THEOREM LossStopsTrading == Spec => LossStops
<1>1. Init => StopsFit /\ Places
  BY DEF Init, StopsFit, Places
<1>2. ASSUME StopsFit, Places, [Next]_vars, NEW t \in Tasks,
             pc[t] = "called", pc'[t] = "approved"
      PROVE  ~stopped[UserOf[t]]
  <2>1. ~userKill[UserOf[t]]
    BY <1>2, PlacesStep DEF Approved, Stopped, Killed
  <2>2. UserOf[t] \in Users
    BY ConstantsOK
  <2>3. QED
    BY <1>2, <2>1, <2>2 DEF StopsFit
<1>3. StopsFit /\ Places /\ [Next]_vars => StopsFit' /\ Places' /\
        [\A t \in Tasks : pc[t] = "called" /\ pc'[t] = "approved" => ~stopped[UserOf[t]]]_vars
  BY <1>2, StopsStep, PlacesStep
<1>4. QED
  BY <1>1, <1>3, PTL DEF Spec, LossStops
====
