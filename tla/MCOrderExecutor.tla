---- MODULE MCOrderExecutor ----
(* Small instances of OrderExecutor for TLC.                                *)
EXTENDS OrderExecutor, TLC

CONSTANTS t1, t2, t3, r1, r2, r3, k1

AllOps == {"place", "cancel", "modify", "sync"}

\* One order, two tasks that do everything to it.
OneKeyOf == r1 :> k1
OneQtyOf == r1 :> 2
OneOpsOf == [t \in {t1, t2} |-> AllOps]

\* A client that retries: two requests of one client_order_id, and a third
\* request without one that is not valid.
RetryKeyOf == (r1 :> k1) @@ (r2 :> k1) @@ (r3 :> None)
RetryQtyOf == (r1 :> 1) @@ (r2 :> 1) @@ (r3 :> 0)
RetryOpsOf == (t1 :> {"place"}) @@ (t2 :> {"place", "cancel", "sync"})

\* Three callers that race with orders of one client_order_id.
RaceKeyOf == [r \in {r1, r2, r3} |-> k1]
RaceQtyOf == [r \in {r1, r2, r3} |-> 1]
RaceOpsOf == RetryOpsOf @@ (t3 :> {"place", "modify"})
====
