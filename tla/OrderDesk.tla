---- MODULE OrderDesk ----
(***************************************************************************)
(* The orders of the database and what requests do to them: order_endpoints*)
(* (create, cancel), the kill switch and the rules of risk_endpoints and   *)
(* the accounts of broker_endpoints, for one user.  No order of this table *)
(* is ever sent to a broker, none is filled, and no row of the positions   *)
(* the kill switch closes is ever created, so these are left out.          *)
(***************************************************************************)
EXTENDS Integers, FiniteSets, UnitOfWork

CONSTANTS
    Orders, Rules, BrokerAccounts, Instances,   \* identities of rows; they bound the rows
    Callers,                                    \* requests in flight
    OrderQuantity,
    None

VARIABLES
    orders,            \* identity -> [status, remaining, cancelled, account], or None
    rules,             \* identity -> the account a rule is for (or None), or "unset"
    brokerAccounts,    \* account -> "new", "open" or "deleted"
    instances,         \* the status of each strategy instance
    caller,            \* stage and copies of each request
    killed, halted     \* history: orders and instances that kill switches stopped

ovars == <<orders, rules, brokerAccounts, instances, caller, killed, halted>>

Resting == [at |-> "idle"]
Open == {a \in BrokerAccounts : brokerAccounts[a] = "open"}

OrderInit ==
    /\ orders = [o \in Orders |-> None]
    /\ rules = [r \in Rules |-> "unset"]
    /\ brokerAccounts = [a \in BrokerAccounts |-> "new"]
    /\ instances = [i \in Instances |-> "idle"]
    /\ caller = [c \in Callers |-> Resting]
    /\ killed = {} /\ halted = {}

Stage(c, stage) == caller[c].at = stage
Goes(c, record) == caller' = [caller EXCEPT ![c] = record]
Answered(c) == Goes(c, Resting)

----
\* A client order id is drawn for every request.  The account need not be the
\* user's; the foreign key wants it to exist.
CreateOrder ==
    /\ \E o \in Orders, a \in Open \cup {None} :
         /\ orders[o] = None
         /\ orders' = [orders EXCEPT ![o] = [status |-> "pending", remaining |-> OrderQuantity,
                                             cancelled |-> 0, account |-> a]]
    /\ UNCHANGED <<rules, brokerAccounts, instances, caller, killed, halted>>

CancelOrder(c) ==
    /\ Stage(c, "idle")
    /\ \E o \in Orders :
         /\ orders[o] # None
         /\ orders[o].status \notin {"filled", "cancelled", "rejected"}
         /\ Goes(c, [at |-> "cancel", order |-> o, read |-> orders[o]])
    /\ UNCHANGED <<orders, rules, brokerAccounts, instances, killed, halted>>

CommitCancel(c) ==
    /\ Stage(c, "cancel")
    /\ LET o == caller[c].order
           read == caller[c].read
       IN  orders' = [orders EXCEPT ![o] = Flush(@, read,
               [read EXCEPT !.status = "cancelled", !.cancelled = read.remaining,
                            !.remaining = 0])]
    /\ Answered(c)
    /\ UNCHANGED <<rules, brokerAccounts, instances, killed, halted>>

----
\* Mutant: an order that was not submitted is taken to be harmless.
HaltsSubmitted(status) == status \in {"submitted", "partial_filled"}
HaltsOrder(status) == status \in {"pending", "submitted", "partial_filled"}

OpenOrders == {o \in Orders : orders[o] # None /\ orders[o].status # "cancelled"}

\* The orders are read first, then the instances; a paused one is passed over.
KillSwitchOrders(c) ==
    /\ Stage(c, "idle")
    /\ LET found == {o \in Orders : orders[o] # None /\ HaltsOrder(orders[o].status)}
       IN  Goes(c, [at |-> "kill", orders |-> [o \in found |-> orders[o]], open |-> OpenOrders])
    /\ UNCHANGED <<orders, rules, brokerAccounts, instances, killed, halted>>

KillSwitchInstances(c) ==
    /\ Stage(c, "kill")
    /\ Goes(c, [at |-> "halt", orders |-> caller[c].orders, open |-> caller[c].open,
                 instances |-> {i \in Instances : instances[i] = "running"}])
    /\ UNCHANGED <<orders, rules, brokerAccounts, instances, killed, halted>>

\* Only the status of an order is written: what remains of it stays as it was.
CommitKillSwitch(c) ==
    /\ Stage(c, "halt")
    /\ LET found == caller[c].orders IN
       orders' = [o \in Orders |->
           IF o \in DOMAIN found
           THEN Flush(orders[o], found[o], [found[o] EXCEPT !.status = "cancelled"])
           ELSE orders[o]]
    /\ instances' = [i \in Instances |->
           IF i \in caller[c].instances THEN "stopped" ELSE instances[i]]
    /\ killed' = killed \cup caller[c].open
    /\ halted' = halted \cup caller[c].instances
    /\ Answered(c)
    /\ UNCHANGED <<rules, brokerAccounts>>

\* The requests of the instance endpoints, which look at a status before they write one.
ChangeInstance(c) ==
    /\ Stage(c, "idle")
    /\ \E i \in Instances :
         \/ instances[i] # "running" /\ Goes(c, [at |-> "change", instance |-> i, to |-> "running"])
         \/ instances[i] = "running" /\ Goes(c, [at |-> "change", instance |-> i, to |-> "paused"])
         \/ instances[i] # "stopped" /\ Goes(c, [at |-> "change", instance |-> i, to |-> "stopped"])
    /\ UNCHANGED <<orders, rules, brokerAccounts, instances, killed, halted>>

CommitInstance(c) ==
    /\ Stage(c, "change")
    /\ instances' = [instances EXCEPT ![caller[c].instance] = caller[c].to]
    /\ halted' = halted \ {caller[c].instance}
    /\ Answered(c)
    /\ UNCHANGED <<orders, rules, brokerAccounts, killed>>

----
CreateRiskRule ==
    /\ \E r \in Rules, a \in Open \cup {None} :
         rules[r] = "unset" /\ rules' = [rules EXCEPT ![r] = a]
    /\ UNCHANGED <<orders, brokerAccounts, instances, caller, killed, halted>>

\* The row is read and deleted; deleting it twice is no error.
DeleteRiskRule ==
    /\ \E r \in Rules : rules[r] # "unset" /\ rules' = [rules EXCEPT ![r] = "unset"]
    /\ UNCHANGED <<orders, brokerAccounts, instances, caller, killed, halted>>

CreateBrokerAccount ==
    /\ \E a \in BrokerAccounts :
         brokerAccounts[a] = "new" /\ brokerAccounts' = [brokerAccounts EXCEPT ![a] = "open"]
    /\ UNCHANGED <<orders, rules, instances, caller, killed, halted>>

\* The database forgets the account in its orders, and deletes its rules.
DeleteBrokerAccount ==
    /\ \E a \in Open :
         /\ brokerAccounts' = [brokerAccounts EXCEPT ![a] = "deleted"]
         /\ orders' = [o \in Orders |->
                IF orders[o] # None /\ orders[o].account = a
                THEN [orders[o] EXCEPT !.account = None] ELSE orders[o]]
         /\ rules' = [r \in Rules |-> IF rules[r] = a THEN "unset" ELSE rules[r]]
    /\ UNCHANGED <<instances, caller, killed, halted>>

OrderStep ==
    \/ CreateOrder
    \/ CreateRiskRule \/ DeleteRiskRule
    \/ CreateBrokerAccount \/ DeleteBrokerAccount
    \/ \E c \in Callers : \/ CancelOrder(c)
                          \/ CommitCancel(c)
                          \/ KillSwitchOrders(c)
                          \/ KillSwitchInstances(c)
                          \/ CommitKillSwitch(c)
                          \/ ChangeInstance(c)
                          \/ CommitInstance(c)

OrderSpec == OrderInit /\ [][OrderStep]_ovars

----
(* Properties. *)

\* A kill switch holds: whatever order was open when it was pressed is cancelled from
\* its answer on, though cancellations that read the order before commit after it, and
\* their order and the kill switch's add up (nothing is cancelled twice or forgotten);
\* an instance it stopped stays so until a request of its user is committed; and a
\* deleted account is in no order, though requests still hold copies that name it.
KillSwitchHolds ==
    /\ \A o \in killed : orders[o].status = "cancelled"
    /\ \A o \in Orders : orders[o] # None =>
         /\ orders[o].remaining + orders[o].cancelled = OrderQuantity
         /\ orders[o].status = "pending" => orders[o].remaining = OrderQuantity
         /\ orders[o].account \in Open \cup {None}
    /\ \A i \in halted : instances[i] = "stopped"
====
