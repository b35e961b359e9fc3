---- MODULE MCDesks ----
(* The desks on small instances for TLC: two requests in flight at each.    *)
EXTENDS Desks, TLC

CONSTANTS r1, r2, p1, p2, p3

MCParameters == {[entry |-> "entry_conditions", stop |-> TRUE]}
MCEdits == {[status |-> "PAUSED"], [stop |-> FALSE]}

\* The preferences of a trader without a phone, and then with one; a category on and off.
MCChanges ==
    {"risk" :> FALSE, "risk" :> TRUE,
     "email" :> FALSE @@ [c \in {"webhook", "telegram", "whatsapp", "telegram_address",
                                "whatsapp_address"} |-> TRUE]}

MCOrderUpdates == {[status |-> "filled", filled |-> 1], [status |-> "open"]}
MCPositionUpdates == {[quantity |-> 1], [is_active |-> FALSE]}

Interchangeable == Permutations({r1, r2}) \cup Permutations({p1, p2})
====
