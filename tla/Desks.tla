---- MODULE Desks ----
(***************************************************************************)
(* The services behind the endpoints.  They keep rows of tables that no    *)
(* other service reads in a way that matters here, so a behaviour is one of*)
(* one service, the desk; the others rest.                                 *)
(***************************************************************************)
EXTENDS Integers, FiniteSets

CONSTANTS
    Requests,                                       \* in flight, at every desk
    NoRow, None,
    Strategies, Traders, Names, Parameters, Edits,  \* StrategyDesk
    Instances, Positions, MaxOrders,                \* InstanceDesk
    PaperPositions, Capital, Prices, Portion, Lot,  \* PaperDesk
    Orders, Rules, BrokerAccounts, OrderQuantity,   \* OrderDesk
    Users, AdminEmail, Sessions, Threshold, LockPeriod, Timeout, MaxTime,
    Notes, Kinds, Changes,                          \* Notifications
    Secrets, Tokens, Passwords, MaxHour,            \* Mfa, Passwords
    SavedOrders, SavedPositions, Entries, Keys, Products, OrderUpdates, PositionUpdates

VARIABLES
    desk,
    strategies, assigned, strategyRequest, vouched,
    instances, positions, session, instanceRequest, placed, trades, lost,
    paperInstance, paperPositions, paperRequest, closings,
    orders, rules, brokerAccounts, orderInstances, caller, killed, halted,
    users, sessions, issued, now, accountRequest,
    notes, preferences, noteRequest, attempted, ever, always, seen,
    factor, setups, shown,
    credential, resets, told, spent, hour,
    savedOrders, savedPositions, savedEntries, call, raced

strategyVars == <<strategies, assigned, strategyRequest, vouched>>
instanceVars == <<instances, positions, session, instanceRequest, placed, trades, lost>>
paperVars == <<paperInstance, paperPositions, paperRequest, closings>>
orderVars == <<orders, rules, brokerAccounts, orderInstances, caller, killed, halted>>
accountVars == <<users, sessions, issued, now, accountRequest>>
noteVars == <<notes, preferences, noteRequest, attempted, ever, always, seen>>
factorVars == <<factor, setups, shown, credential, resets, told, spent, hour>>
savedVars == <<savedOrders, savedPositions, savedEntries, call, raced>>

vars == <<desk, strategyVars, instanceVars, paperVars, orderVars, accountVars, noteVars,
          factorVars, savedVars>>

Strategy == INSTANCE StrategyDesk WITH request <- strategyRequest

Instance == INSTANCE InstanceDesk WITH NoPosition <- None, request <- instanceRequest

Paper == INSTANCE PaperDesk WITH
    Positions <- PaperPositions,
    instance <- paperInstance, positions <- paperPositions, request <- paperRequest

Order == INSTANCE OrderDesk WITH Callers <- Requests, instances <- orderInstances

Account == INSTANCE Accounts WITH request <- accountRequest

Note == INSTANCE Notifications WITH request <- noteRequest

Factor == INSTANCE Mfa WITH NoSecret <- None

Password == INSTANCE Passwords WITH NoToken <- None

Saved == INSTANCE Repository WITH
    Orders <- SavedOrders, Positions <- SavedPositions,
    orders <- savedOrders, positions <- savedPositions, entries <- savedEntries

-----------------------------------------------------------------------------
(* What the constants have to be for the proofs.                            *)

\* Requests in flight, and positions in the table, are finitely many.
ASSUME Finite ==
    IsFiniteSet(Requests) /\ IsFiniteSet(SavedPositions) /\ IsFiniteSet(PaperPositions)

\* Limits and periods are numbers, and an order has a quantity (create_order refuses another).
\* The prices of the random walk stay above 0: each is the one before and a normal deviate of
\* 2 % of it, which this takes to be above -100 %.
ASSUME Numbers ==
    /\ OrderQuantity \in Nat \ {0}
    /\ Prices \subseteq Nat \ {0} /\ Portion \in Nat \ {0} /\ Lot \in Nat \ {0}
    /\ Capital \in Int
    /\ MaxOrders \in Nat /\ LockPeriod \in Nat

\* The absence of a row is not a row, and the absence of a secret or token is none.
ASSUME Absences ==
    /\ NoRow \notin Strategy!Strategy
    /\ NoRow \notin Instance!Instance /\ NoRow \notin Instance!Position
    /\ NoRow \notin Account!User
    /\ NoRow \notin [status : {"running", "paused", "stopped"}, allocated_capital : Int,
                      trades_count : Nat]
    /\ NoRow \notin [is_open : BOOLEAN, cost : Nat, unrealized : BOOLEAN]
    /\ NoRow \notin [user : Users, active : BOOLEAN, created : Nat, late : BOOLEAN]
    /\ NoRow \notin [kind : Kinds, is_read : BOOLEAN, is_sent : BOOLEAN]
    /\ NoRow \notin [product : Products, quantity : Int, is_active : BOOLEAN]
    /\ None \notin [status : {"pending", "cancelled"}, remaining : Nat, cancelled : Nat,
                     account : BrokerAccounts \cup {None}]
    /\ None \notin Secrets /\ None \notin Tokens

\* StrategyUpdate has no field for the approval, and an update of a position none for its
\* product (backend/schemas/strategy_schemas.py, backend/worker/tasks/trading.py).
ASSUME Contents ==
    /\ Parameters \subseteq [entry : {"none", "entry", "entry_conditions"}, stop : BOOLEAN]
    /\ \A e \in Edits :
         /\ "approved" \notin DOMAIN e
         /\ "name" \in DOMAIN e => e["name"] \in Names
         /\ "status" \in DOMAIN e => e["status"] \in Strategy!Status
         /\ "entry" \in DOMAIN e => e["entry"] \in {"none", "entry", "entry_conditions"}
         /\ "stop" \in DOMAIN e => e["stop"] \in BOOLEAN
    /\ \A u \in PositionUpdates :
         /\ "product" \notin DOMAIN u
         /\ "quantity" \in DOMAIN u => u["quantity"] \in Int
         /\ "is_active" \in DOMAIN u => u["is_active"] \in BOOLEAN

-----------------------------------------------------------------------------
Desks == {"strategies", "instances", "paper", "orders", "accounts", "notes", "factor",
          "passwords", "saved"}

Init ==
    /\ desk \in Desks
    /\ Strategy!Init /\ Instance!Init /\ Paper!PaperInit /\ Order!OrderInit
    /\ Account!Init /\ Note!NotifyInit /\ Factor!MfaInit /\ Password!PasswordsInit
    /\ Saved!RepositoryInit

StrategyDeskWorks ==
    /\ desk = "strategies" /\ Strategy!StrategyStep
    /\ UNCHANGED <<desk, instanceVars, paperVars, orderVars, accountVars, noteVars,
                   factorVars, savedVars>>

InstanceDeskWorks ==
    /\ desk = "instances" /\ Instance!Next
    /\ UNCHANGED <<desk, strategyVars, paperVars, orderVars, accountVars, noteVars,
                   factorVars, savedVars>>

PaperDeskWorks ==
    /\ desk = "paper" /\ Paper!PaperStep
    /\ UNCHANGED <<desk, strategyVars, instanceVars, orderVars, accountVars, noteVars,
                   factorVars, savedVars>>

OrderDeskWorks ==
    /\ desk = "orders" /\ Order!OrderStep
    /\ UNCHANGED <<desk, strategyVars, instanceVars, paperVars, accountVars, noteVars,
                   factorVars, savedVars>>

AccountsWork ==
    /\ desk = "accounts" /\ Account!Next
    /\ UNCHANGED <<desk, strategyVars, instanceVars, paperVars, orderVars, noteVars,
                   factorVars, savedVars>>

NotificationsWork ==
    /\ desk = "notes" /\ Note!NotifyStep
    /\ UNCHANGED <<desk, strategyVars, instanceVars, paperVars, orderVars, accountVars,
                   factorVars, savedVars>>

MfaWorks ==
    /\ desk = "factor" /\ Factor!MfaStep
    /\ UNCHANGED <<credential, resets, told, spent, hour>>
    /\ UNCHANGED <<desk, strategyVars, instanceVars, paperVars, orderVars, accountVars,
                   noteVars, savedVars>>

PasswordsWork ==
    /\ desk = "passwords" /\ Password!PasswordStep
    /\ UNCHANGED <<factor, setups, shown>>
    /\ UNCHANGED <<desk, strategyVars, instanceVars, paperVars, orderVars, accountVars,
                   noteVars, savedVars>>

RepositoryWorks ==
    /\ desk = "saved" /\ Saved!RepositoryStep
    /\ UNCHANGED <<desk, strategyVars, instanceVars, paperVars, orderVars, accountVars,
                   noteVars, factorVars>>

Next ==
    \/ StrategyDeskWorks \/ InstanceDeskWorks \/ PaperDeskWorks \/ OrderDeskWorks
    \/ AccountsWork \/ NotificationsWork \/ MfaWorks \/ PasswordsWork
    \/ RepositoryWorks

Spec == Init /\ [][Next]_vars

-----------------------------------------------------------------------------
(* The properties of the desks, as the runs name them.                      *)

\* Live trading: every order at the broker is recorded, will be, or belongs to a request
\* that failed after the broker had it; and no position is left of a deleted instance.
OrdersAccounted == Instance!OrdersAccounted /\ Instance!NoOrphans

\* What was ended comes back only by a request that gives it another status itself, be it one
\* computed from the row before the end: a strategy its kill switch stopped, a stopped
\* instance.  Requests that had read the row before and change anything else leave it ended.
\* A closed paper position never opens again.
EndedStaysEnded ==
    Strategy!KilledStaysStopped /\ Instance!StoppedStaysStopped /\ Paper!ClosedForGood

\* No life cycle leads an unapproved strategy to live trading.
LiveWasVouched == Strategy!LiveWasVouched

\* What paper trading says of its capital and trades agrees with the rows it wrote.
BooksBalance == Paper!BooksBalance

\* Whatever a kill switch stopped stays stopped, whoever cancels at the same time.
KillSwitchHolds == Order!KillSwitchHolds

\* A suspension ends the session rows that were open when it looked; only rows of logins
\* that inserted them after that are open.  This is about rows: no access token is refused
\* for it.
SessionsEnd == Account!SuspendedLoggedOut

\* Only administrators change the status of an account, each to what he decided of the row
\* he had read, whatever older copies of the row are written back meanwhile.
DecisionsStand == Account!DecisionsStand

\* A notification goes only ways that the user was told are on while it was on its way, and
\* one that shows as sent went all of those that were on throughout.
NotifiedAsPreferred == Note!NotifiedAsPreferred

\* The secret that a user was shown is the one his codes are checked with.  The token in his
\* row is the last he was told, and only resets with tokens he was told change his password:
\* those that had read the row before the last was told among them, so that one token sets as
\* many passwords as there are resets reading it at once.
SecretSettles == Factor!SecretSettles /\ Password!TokensSettle

\* Rows that a look-up before the insert should have made one are as many as the requests
\* that raced between the two, and no more: positions, and assignments of a strategy.
DuplicatesRaced == Saved!DuplicatesRaced /\ Strategy!RowsBounded
====
