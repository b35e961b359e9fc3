---- MODULE Streaming ----
(***************************************************************************)
(* services/streaming_service.py: one broker's streamer of quotes, its     *)
(* sockets, the task that reads each of them, and the application that     *)
(* connects, subscribes and disconnects.  A task whose socket fails sleeps *)
(* and connects again; nothing it does is undone by a disconnect that      *)
(* happens meanwhile.  Prices are left out.                                *)
(***************************************************************************)
EXTENDS FiniteSets

CONSTANTS
    Sockets,           \* connections to the broker, used again when nobody reads them
    Symbols,
    Brokers,           \* the streamers there are: "zerodha", "kotak", "upstox"
    NoSocket

VARIABLES
    broker,            \* which streamer this is
    running, current, subscribed,      \* _running, _ws, _subscribed_symbols
    token,             \* Zerodha: enctoken, "unset", "none" when there was none, or "given"
    socket,            \* connection -> "open", "broken" (by the network), "shut"
    wire,              \* connection -> what the broker streams over it: nothing unless open
    task,              \* each reader, and the application's connect: where it is
    disconnecting,     \* disconnect waits for its socket to close
    unsubscribed       \* history: the application took it back and not up again

svars == <<broker, running, current, subscribed, token, socket, wire, task, disconnecting,
           unsubscribed>>

App == "app"
Tasks == Sockets \cup {App}

StreamInit ==
    /\ broker \in Brokers
    /\ running = FALSE /\ current = NoSocket /\ subscribed = {} /\ token = "unset"
    /\ socket = [k \in Sockets |-> "shut"]
    /\ wire = [k \in Sockets |-> {}]
    /\ task = [t \in Tasks |-> "idle"]
    /\ disconnecting = FALSE
    /\ unsubscribed = {}

Goto(t, stage) == task' = [task EXCEPT ![t] = stage]

\* A socket that nobody reads is forgotten when it is not, or no more, the current one.
Unused == {k \in Sockets : task[k] = "idle" /\ (k = current => socket[k] # "open")}

----
\* connect: called by the application, or "again" by a task that lost its socket.

Connect ==
    /\ task[App] = "idle"
    /\ Goto(App, IF broker = "zerodha" THEN "token" ELSE "connect")
    /\ UNCHANGED <<broker, running, current, subscribed, token, socket, wire, disconnecting,
                   unsubscribed>>

AtToken(t) == task[t] \in {"token", "token again"}
AtConnect(t) == task[t] \in {"connect", "connect again"}
ByTask(t) == task[t] \in {"token again", "connect again"}

\* All of the set over the current socket; one that is not open raises.
Send(symbols) ==
    wire' = IF current # NoSocket /\ running /\ socket[current] = "open"
            THEN [wire EXCEPT ![current] = @ \cup symbols] ELSE wire

\* Zerodha hands out the token for the socket: a new one; none, and connect returns
\* quietly; or an error status, and what came before is used, if anything did.
TokenGiven(t) ==
    /\ AtToken(t)
    /\ \/ token' = "given"
       \/ token # "unset" /\ UNCHANGED token
    /\ Goto(t, IF ByTask(t) THEN "connect again" ELSE "connect")
    /\ UNCHANGED <<broker, running, current, subscribed, socket, wire, disconnecting, unsubscribed>>

TokenMissing(t) ==
    /\ AtToken(t)
    /\ token' = "none"
    /\ IF ByTask(t) THEN Send(subscribed) ELSE UNCHANGED wire
    /\ Goto(t, "idle")
    /\ UNCHANGED <<broker, running, current, subscribed, socket, disconnecting, unsubscribed>>

\* The socket is the current one from here on, whichever was before, and has a reader.
\* A task that connects again subscribes in the same breath.  Kotak's and Upstox's connect
\* pass a parameter "headers" that the library does not have, and always raise.
ConnectOpens(t) ==
    /\ AtConnect(t) /\ broker = "zerodha"
    /\ \E k \in Unused \cup ({t} \cap Sockets) :
         /\ current' = k
         /\ socket' = [socket EXCEPT ![k] = "open"]
         /\ wire' = [wire EXCEPT ![k] = IF ByTask(t) THEN subscribed ELSE {}]
         /\ task' = [task EXCEPT ![t] = "idle", ![k] = "read"]
    /\ running' = TRUE
    /\ UNCHANGED <<broker, subscribed, token, disconnecting, unsubscribed>>

\* Mutant: a failure to connect again is the end.
GivesUp(t) == Goto(t, "idle")

Reconnect(t) == Goto(t, IF running THEN "sleep" ELSE "idle")

ConnectFails(t) ==
    /\ AtToken(t) \/ AtConnect(t)
    /\ Reconnect(t)
    /\ UNCHANGED <<broker, running, current, subscribed, token, socket, wire, disconnecting,
                   unsubscribed>>

\* Whether a disconnect came while it slept is not looked at.
Wakes(t) ==
    /\ task[t] = "sleep"
    /\ Goto(t, IF broker = "zerodha" THEN "token again" ELSE "connect again")
    /\ UNCHANGED <<broker, running, current, subscribed, token, socket, wire, disconnecting,
                   unsubscribed>>

----
\* The application.

Subscribe ==
    /\ \E symbols \in SUBSET Symbols \ {{}} :
         /\ subscribed' = subscribed \cup symbols
         /\ unsubscribed' = unsubscribed \ symbols
    /\ Send(subscribed')
    /\ UNCHANGED <<broker, running, current, token, socket, task, disconnecting>>

Withdraw(symbols) ==
    wire' = IF current # NoSocket /\ running /\ socket[current] = "open"
            THEN [wire EXCEPT ![current] = @ \ symbols] ELSE wire

\* Mutant: the set is kept, for the next connection to take up.
UnsubscribeWireOnly ==
    /\ \E symbols \in SUBSET Symbols \ {{}} :
         /\ unsubscribed' = unsubscribed \cup symbols
         /\ Withdraw(symbols)
    /\ UNCHANGED <<broker, running, current, subscribed, token, socket, task, disconnecting>>

Unsubscribe ==
    /\ \E symbols \in SUBSET Symbols \ {{}} :
         /\ subscribed' = subscribed \ symbols
         /\ unsubscribed' = unsubscribed \cup symbols
         /\ Withdraw(symbols)
    /\ UNCHANGED <<broker, running, current, token, socket, task, disconnecting>>

\* The current socket is closed, and forgotten when that is done: or the one that has
\* taken its place by then.
Disconnect ==
    /\ ~disconnecting
    /\ running' = FALSE
    /\ IF current = NoSocket THEN UNCHANGED <<socket, wire, disconnecting>>
       ELSE /\ socket' = [socket EXCEPT ![current] = "shut"]
            /\ wire' = [wire EXCEPT ![current] = {}]
            /\ disconnecting' = TRUE
    /\ UNCHANGED <<broker, current, subscribed, token, task, unsubscribed>>

Disconnected ==
    /\ disconnecting
    /\ disconnecting' = FALSE
    /\ current' = NoSocket
    /\ UNCHANGED <<broker, running, subscribed, token, socket, wire, task, unsubscribed>>

\* The manager of the streamers forgets this one: its socket stays open, and a task that
\* sleeps connects again as if nothing had happened.
RemoveStreamer ==
    /\ running' = FALSE
    /\ UNCHANGED <<broker, current, subscribed, token, socket, wire, task, disconnecting,
                   unsubscribed>>

----
\* The sockets and their readers.

Breaks(k) ==
    /\ socket[k] = "open"
    /\ socket' = [socket EXCEPT ![k] = "broken"]
    /\ wire' = [wire EXCEPT ![k] = {}]
    /\ UNCHANGED <<broker, running, current, subscribed, token, task, disconnecting,
                   unsubscribed>>

\* The broker closes in due form.
ClosedByBroker(k) ==
    /\ socket[k] = "open"
    /\ socket' = [socket EXCEPT ![k] = "shut"]
    /\ wire' = [wire EXCEPT ![k] = {}]
    /\ UNCHANGED <<broker, running, current, subscribed, token, task, disconnecting,
                   unsubscribed>>

\* A quote that finds the streamer stopped ends the reader.
MessageStopped(k) ==
    /\ task[k] = "read" /\ socket[k] = "open" /\ wire[k] # {} /\ ~running
    /\ Goto(k, "idle")
    /\ UNCHANGED <<broker, running, current, subscribed, token, socket, wire, disconnecting,
                   unsubscribed>>

\* A socket closed in due form ends it too; a broken one has it connect again, and is closed
\* by then.
LoopEnds(k) ==
    /\ task[k] = "read" /\ socket[k] # "open"
    /\ IF socket[k] = "broken" THEN Reconnect(k) ELSE Goto(k, "idle")
    /\ socket' = [socket EXCEPT ![k] = "shut"]
    /\ UNCHANGED <<broker, running, current, subscribed, token, wire, disconnecting,
                   unsubscribed>>

\* A message that is not even text raises past the handler for what is not JSON: the task
\* connects again, and leaves the socket open.
LoopRaises(k) ==
    /\ task[k] = "read" /\ socket[k] = "open" /\ wire[k] # {} /\ running
    /\ Reconnect(k)
    /\ UNCHANGED <<broker, running, current, subscribed, token, socket, wire, disconnecting,
                   unsubscribed>>

StreamStep ==
    \/ Connect \/ Subscribe \/ Unsubscribe \/ Disconnect \/ Disconnected \/ RemoveStreamer
    \/ \E t \in Tasks : \/ TokenGiven(t) \/ TokenMissing(t)
                        \/ ConnectOpens(t) \/ ConnectFails(t)
                        \/ Wakes(t)
    \/ \E k \in Sockets : \/ Breaks(k) \/ ClosedByBroker(k)
                          \/ MessageStopped(k) \/ LoopEnds(k) \/ LoopRaises(k)

StreamSpec == StreamInit /\ [][StreamStep]_svars

\* The event loop runs every reader, every request to the broker is answered or fails, and
\* a broker that is asked again and again answers for the token and opens a socket in the end.
Answers(k) == TokenGiven(k) \/ TokenMissing(k)

StreamFairness ==
    \A k \in Sockets :
        /\ WF_svars(LoopEnds(k)) /\ WF_svars(Wakes(k))
        /\ WF_svars(Answers(k) \/ ConnectOpens(k) \/ ConnectFails(k))
        /\ SF_svars(Answers(k)) /\ SF_svars(ConnectOpens(k))

StreamFairSpec == StreamSpec /\ StreamFairness

----
(* Properties. *)

\* Through failures, reconnections and a disconnect in the middle of one: the current
\* socket of a running streamer never carries a symbol that the application has taken back.
TakenBackIsGone ==
    (running /\ current # NoSocket /\ socket[current] = "open")
        => wire[current] \cap unsubscribed = {}

Reads == \E k \in Sockets : task[k] = "read" /\ socket[k] = "open"

\* A stream that the network broke, or that a message ended, is there again, or the
\* application has stopped it, or Zerodha has handed out no token, which ends the attempts.
StreamsAgain ==
    \A k \in Sockets :
        (running /\ (task[k] = "sleep" \/ (task[k] = "read" /\ socket[k] = "broken")))
            ~> (Reads \/ ~running \/ token = "none")
====
