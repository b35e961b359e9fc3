---- MODULE OrderPromise ----
(***************************************************************************)
(* What OrderExecutor promises its callers, without coroutines, locks,     *)
(* caches, answers or messages: an order is recorded here before it is     *)
(* sent, one order of a key is sent, an order ends once and in one way,    *)
(* and what is shown of an order as its end is the end it has come to.     *)
(***************************************************************************)
CONSTANTS
    Orders,   \* the orders a caller may ask for
    KeyOf,    \* order -> its client_order_id, or None
    None

VARIABLES
    stage,    \* where each order really is
    shown     \* what a reader of _orders is shown of it

vars == <<stage, shown>>

Ends == {"filled", "cancelled", "expired", "rejected"}

\* "rejected" is no end that is shown: it is also what a lost answer leaves.
ShownEnds == Ends \ {"rejected"}

Unsent == {"unseen", "recorded"}

Init ==
    /\ stage = [o \in Orders |-> "unseen"]
    /\ shown = [o \in Orders |-> "nothing"]

Record(o) ==
    /\ stage[o] = "unseen"
    /\ stage' = [stage EXCEPT ![o] = "recorded"]
    /\ shown' = [shown EXCEPT ![o] = "working"]

Send(o) ==
    /\ stage[o] = "recorded"
    /\ KeyOf[o] # None =>
          \A p \in Orders \ {o} : KeyOf[p] = KeyOf[o] => stage[p] \in Unsent
    /\ stage' = [stage EXCEPT ![o] = "live"]
    /\ UNCHANGED shown

End(o) ==
    /\ stage[o] = "live"
    /\ \E end \in Ends : stage' = [stage EXCEPT ![o] = end]
    /\ UNCHANGED shown

\* News may come late, so an order at its end may be shown working again.
Show(o) ==
    /\ stage[o] # "unseen"
    /\ \E word \in {"working"} \cup ({stage[o]} \cap ShownEnds) :
          shown' = [shown EXCEPT ![o] = word]
    /\ UNCHANGED stage

Next == \E o \in Orders : Record(o) \/ Send(o) \/ End(o) \/ Show(o)

Spec == Init /\ [][Next]_vars
====
