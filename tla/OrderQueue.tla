---- MODULE OrderQueue ----
(***************************************************************************)
(* OrderQueue of trading_engine/execution/order_executor.py: workers take  *)
(* orders one after the other under a lock, with a pause between two.      *)
(* Anyone may be cancelled wherever it waits.                              *)
(***************************************************************************)
EXTENDS Naturals, SequencesExt

CONSTANTS
    Workers,           \* tasks that dequeue
    Spacing,           \* 1 / max_per_second
    Timeout,           \* how long a worker waits for an order, 1 s in the code
    MaxNow, MaxOrders  \* bounds on the clock and the orders, in the guards

VARIABLES
    now,
    queue,             \* the orders, numbered as they came
    count,             \* how many have come
    lastSubmit,        \* _last_submit_time
    worker,            \* [at: "idle" | "lock" | "pause" | "get", until]
    lockQueue,         \* those who hold or wait for the lock, the holder first
    taken              \* history: <<[order, time], ...>>

qvars == <<now, queue, count, lastSubmit, worker, lockQueue, taken>>

Holder(w) == lockQueue # <<>> /\ Head(lockQueue) = w
At(w, place, until) == worker' = [worker EXCEPT ![w] = [at |-> place, until |-> until]]
Leaves(w) == lockQueue' = RemoveFirst(lockQueue, w) /\ At(w, "idle", 0)

QueueInit ==
    /\ now = Spacing /\ lastSubmit = 0     \* long ago, with nothing to pause for
    /\ queue = <<>> /\ count = 0 /\ taken = <<>> /\ lockQueue = <<>>
    /\ worker = [w \in Workers |-> [at |-> "idle", until |-> 0]]

Enqueue ==
    /\ count < MaxOrders
    /\ count' = count + 1
    /\ queue' = Append(queue, count')
    /\ UNCHANGED <<now, lastSubmit, worker, lockQueue, taken>>

Dequeue(w) ==
    /\ worker[w].at = "idle"
    /\ lockQueue' = Append(lockQueue, w)
    /\ At(w, "lock", 0)
    /\ UNCHANGED <<now, queue, count, lastSubmit, taken>>

\* With the lock, the pause is computed once; the order is waited for after it.
Paces(w) ==
    /\ worker[w].at = "lock" /\ Holder(w)
    /\ IF now - lastSubmit < Spacing THEN At(w, "pause", lastSubmit + Spacing)
       ELSE At(w, "get", now + Timeout)
    /\ UNCHANGED <<now, queue, count, lastSubmit, lockQueue, taken>>

Paced(w) ==
    /\ worker[w].at = "pause" /\ now >= worker[w].until
    /\ At(w, "get", now + Timeout)
    /\ UNCHANGED <<now, queue, count, lastSubmit, lockQueue, taken>>

\* Mutant: the time noted is that at which the worker began to wait.
TakesEarlier(w) ==
    /\ worker[w].at = "get" /\ queue # <<>>
    /\ taken' = Append(taken, [order |-> Head(queue), time |-> now])
    /\ queue' = Tail(queue)
    /\ lastSubmit' = worker[w].until - Timeout
    /\ Leaves(w)
    /\ UNCHANGED <<now, count>>

Takes(w) ==
    /\ worker[w].at = "get" /\ queue # <<>>
    /\ taken' = Append(taken, [order |-> Head(queue), time |-> now])
    /\ queue' = Tail(queue)
    /\ lastSubmit' = now
    /\ Leaves(w)
    /\ UNCHANGED <<now, count>>

TimesOut(w) ==
    /\ worker[w].at = "get" /\ now >= worker[w].until
    /\ Leaves(w)
    /\ UNCHANGED <<now, queue, count, lastSubmit, taken>>

Cancelled(w) ==
    /\ worker[w].at # "idle"
    /\ Leaves(w)
    /\ UNCHANGED <<now, queue, count, lastSubmit, taken>>

Tick ==
    /\ now < MaxNow
    /\ now' = now + 1
    /\ UNCHANGED <<queue, count, lastSubmit, worker, lockQueue, taken>>

QueueStep ==
    \/ Enqueue \/ Tick
    \/ \E w \in Workers :
         Dequeue(w) \/ Paces(w) \/ Paced(w) \/ Takes(w) \/ TimesOut(w) \/ Cancelled(w)

QueueSpec == QueueInit /\ [][QueueStep]_qvars

----
(* Properties. *)

\* The orders leave in the order they came, each once and none lost although workers give up
\* and are cancelled at any point, and never two within the spacing.
QueuePaced ==
    /\ [i \in DOMAIN taken |-> taken[i].order] \o queue = [n \in 1..count |-> n]
    /\ \A i \in DOMAIN taken :
         i > 1 => taken[i].time - taken[i - 1].time >= Spacing
====
