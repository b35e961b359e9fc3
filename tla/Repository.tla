---- MODULE Repository ----
(***************************************************************************)
(* services/order_repository.py: orders, positions, trades and breaches in *)
(* the database.  Every method reads in one step and commits in a later    *)
(* one, each with a session of its own.  The tables of trades and breaches *)
(* only gain rows and have one flag to be set.                             *)
(***************************************************************************)
EXTENDS FiniteSets, UnitOfWork

CONSTANTS
    Orders, Positions, Entries,   \* identities of the rows; an entry is a trade or a breach
    Keys,              \* client_order_id and idempotency_key of an order
    Products,          \* (symbol, exchange, product_type) of the one user
    OrderUpdates, PositionUpdates,   \* the updates a caller gives, records
    Requests,          \* calls in flight
    NoRow

VARIABLES
    orders,            \* identity -> [key, status, filled]
    positions,         \* identity -> [product, quantity, is_active]
    entries,           \* identity -> [settled]
    call,              \* what each call in flight has read, and will write
    raced              \* history: product -> rows inserted though one had come meanwhile

rvars == <<orders, positions, entries, call, raced>>

Unused == [op |-> "idle"]

RepositoryInit ==
    /\ orders = [o \in Orders |-> NoRow]
    /\ positions = [p \in Positions |-> NoRow]
    /\ entries = [e \in Entries |-> NoRow]
    /\ call = [r \in Requests |-> Unused]
    /\ raced = [k \in Products |-> 0]

Rows(table) == {x \in DOMAIN table : table[x] # NoRow}
Active(k) == {p \in Rows(positions) : positions[p].product = k /\ positions[p].is_active}

Begins(r, what) ==
    /\ call[r] = Unused
    /\ call' = [call EXCEPT ![r] = what]

Returns(r) == call' = [call EXCEPT ![r] = Unused]

\* A key is there once: a second INSERT with it fails.
CreateOrder ==
    /\ \E o \in Orders \ Rows(orders), k \in Keys :
         /\ \A x \in Rows(orders) : orders[x].key # k
         /\ orders' = [orders EXCEPT ![o] = [key |-> k, status |-> "pending", filled |-> 0]]
    /\ UNCHANGED <<positions, entries, call, raced>>

UpdateOrder(r) ==
    /\ \E o \in Rows(orders), updates \in OrderUpdates :
         Begins(r, [op |-> "update", on |-> o, read |-> orders[o],
                    new |-> With(orders[o], updates)])
    /\ UNCHANGED <<orders, positions, entries, raced>>

OrderUpdated(r) ==
    /\ call[r].op = "update"
    /\ orders' = [orders EXCEPT ![call[r].on] = Flush(@, call[r].read, call[r].new)]
    /\ Returns(r)
    /\ UNCHANGED <<positions, entries, raced>>

\* Mutant: the flag is compared with the wrong value.
FindInactive(k) == {p \in Rows(positions) : positions[p].product = k /\ ~positions[p].is_active}

\* The rows that "scalar_one_or_none" looks at.
Find(k) == Active(k)

\* Two active rows of a product make every further upsert of it raise.
UpsertPosition(r) ==
    /\ \E k \in Products, updates \in PositionUpdates :
         /\ Cardinality(Find(k)) <= 1
         /\ \/ \E p \in Find(k) :
                 Begins(r, [op |-> "change", on |-> p, read |-> positions[p],
                            new |-> With(positions[p], updates)])
            \/ /\ Find(k) = {}
               /\ Begins(r, [op |-> "insert", had |-> Active(k),
                    new |-> With([product |-> k, quantity |-> 0, is_active |-> TRUE], updates)])
    /\ UNCHANGED <<orders, positions, entries, raced>>

PositionChanged(r) ==
    /\ call[r].op = "change"
    /\ positions' = [positions EXCEPT ![call[r].on] = Flush(@, call[r].read, call[r].new)]
    /\ Returns(r)
    /\ UNCHANGED <<orders, entries, raced>>

\* No constraint keeps a second active row of the product out.
PositionInserted(r) ==
    /\ call[r].op = "insert"
    /\ LET new == call[r].new IN
         /\ \E p \in Positions \ Rows(positions) : positions' = [positions EXCEPT ![p] = new]
         /\ raced' = [raced EXCEPT ![new.product] =
                IF Active(new.product) \subseteq call[r].had THEN @ ELSE @ + 1]
    /\ Returns(r)
    /\ UNCHANGED <<orders, entries>>

CreateEntry ==
    /\ \E e \in Entries \ Rows(entries) : entries' = [entries EXCEPT ![e] = [settled |-> FALSE]]
    /\ UNCHANGED <<orders, positions, call, raced>>

\* mark_reconciled of a trade, resolve_breach of a breach.
SettleEntry(r) ==
    /\ \E e \in Rows(entries) :
         Begins(r, [op |-> "settle", on |-> e, read |-> entries[e], new |-> [settled |-> TRUE]])
    /\ UNCHANGED <<orders, positions, entries, raced>>

EntrySettled(r) ==
    /\ call[r].op = "settle"
    /\ entries' = [entries EXCEPT ![call[r].on] = Flush(@, call[r].read, call[r].new)]
    /\ Returns(r)
    /\ UNCHANGED <<orders, positions, raced>>

RepositoryStep ==
    \/ CreateOrder \/ CreateEntry
    \/ \E r \in Requests :
         \/ UpdateOrder(r) \/ OrderUpdated(r)
         \/ UpsertPosition(r) \/ PositionChanged(r) \/ PositionInserted(r)
         \/ SettleEntry(r) \/ EntrySettled(r)

RepositorySpec == RepositoryInit /\ [][RepositoryStep]_rvars

----
(* Properties. *)

\* A product has a second active position only where two upserts both found none before
\* either committed, one for each such race.
DuplicatesRaced == \A k \in Products : Cardinality(Active(k)) <= 1 + raced[k]
====
