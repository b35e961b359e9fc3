---- MODULE Notifications ----
(***************************************************************************)
(* services/notification_service.py for one user: the rows of the          *)
(* notifications, the one row of preferences, and the requests that send,  *)
(* read and prefer, which overlap, each on its own copies of the rows.     *)
(* What a notification says is left out.                                   *)
(***************************************************************************)
EXTENDS FiniteSets, UnitOfWork

CONSTANTS
    Notes,             \* identities of notifications; bounds them
    Kinds,             \* NotificationTypes that are sent
    Requests,          \* requests in flight
    Changes,           \* what requests change: functions from columns to values
    NoRow

VARIABLES
    notes,             \* identity -> [kind, is_read, is_sent]
    preferences,       \* column -> BOOLEAN, or no row yet
    request,           \* stage and copies of each request
    attempted,         \* history: channels tried for each notification
    ever, always,      \* history: channels the user was told are on at some time, and all
                       \* the time, since the notification was created
    seen               \* history: notifications marked as read

nvars == <<notes, preferences, request, attempted, ever, always, seen>>

Idle == [at |-> "idle"]
Channels == {"email", "push", "webhook", "telegram", "whatsapp"}

\* A channel is on or off; two need an address besides; and so is each category.
Columns == Channels \cup {"telegram_address", "whatsapp_address"}
           \cup {"trade", "risk", "strategy", "summary"}
Defaults == [c \in Columns |-> c \in {"email", "push", "trade", "risk", "strategy", "summary"}]

EmailTypes ==
    {"trade_execution", "order_filled", "order_cancelled", "order_rejected", "risk_alert",
     "risk_limit_breach", "daily_loss_limit", "daily_summary", "account_alert"}

Category(kind) ==
    CASE kind \in {"trade_execution", "order_filled", "order_cancelled", "order_rejected"}
           -> "trade"
      [] kind \in {"risk_alert", "risk_limit_breach", "daily_loss_limit", "account_alert"}
           -> "risk"
      [] kind \in {"strategy_started", "strategy_stopped", "strategy_error"} -> "strategy"
      [] kind \in {"daily_summary", "system_alert"} -> "summary"

\* What a user is told of his preferences: without a row, the defaults.
GetPreferences(prefs) == IF prefs = NoRow THEN Defaults ELSE prefs

\* The channels a notification goes through.
Wanted(prefs, kind) ==
    IF ~prefs[Category(kind)] THEN {}
    ELSE {c \in Channels : prefs[c] /\ (c = "email" => kind \in EmailTypes)
                                    /\ (c = "telegram" => prefs["telegram_address"])
                                    /\ (c = "whatsapp" => prefs["whatsapp_address"])}

NotifyInit ==
    /\ notes = [n \in Notes |-> NoRow]
    /\ preferences = NoRow
    /\ request = [r \in Requests |-> Idle]
    /\ attempted = [n \in Notes |-> {}]
    /\ ever = [n \in Notes |-> {}] /\ always = [n \in Notes |-> {}]
    /\ seen = {}

At(r, stage) == request[r].at = stage
Goto(r, record) == request' = [request EXCEPT ![r] = record]
Ends(r) == Goto(r, Idle)
Rows == {n \in Notes : notes[n] # NoRow}

----
CreateNotification(r) ==
    /\ At(r, "idle")
    /\ \E n \in Notes \ Rows, kind \in Kinds :
         LET row == [kind |-> kind, is_read |-> FALSE, is_sent |-> FALSE]
         IN  /\ notes' = [notes EXCEPT ![n] = row]
             /\ ever' = [ever EXCEPT ![n] = Wanted(GetPreferences(preferences), kind)]
             /\ always' = [always EXCEPT ![n] = Wanted(GetPreferences(preferences), kind)]
             /\ Goto(r, [at |-> "created", note |-> n, read |-> row])
    /\ UNCHANGED <<preferences, attempted, seen>>

\* The preferences are read once; the channels that read them again get this copy.  Without
\* a row nothing is sent, whatever the user was told, and the notification stays unsent.
SendNotification(r) ==
    /\ At(r, "created")
    /\ LET note == request[r].note
           read == request[r].read
       IN  IF preferences = NoRow THEN Ends(r)
           ELSE Goto(r, [at |-> "send", note |-> note, read |-> read,
                         left |-> Wanted(preferences, read.kind)])
    /\ UNCHANGED <<notes, preferences, attempted, ever, always, seen>>

\* One channel after the other; what a channel answers is dropped.
Sends(r, channel, earlier) ==
    /\ At(r, "send")
    /\ channel \in request[r].left /\ request[r].left \cap earlier = {}
    /\ attempted' = [attempted EXCEPT ![request[r].note] = @ \cup {channel}]
    /\ Goto(r, [request[r] EXCEPT !.left = @ \ {channel}])
    /\ UNCHANGED <<notes, preferences, ever, always, seen>>

SendEmail(r) == Sends(r, "email", {})
SendPush(r) == Sends(r, "push", {"email"})
SendWebhook(r) == Sends(r, "webhook", {"email", "push"})
SendTelegram(r) == Sends(r, "telegram", {"email", "push", "webhook"})
SendWhatsapp(r) == Sends(r, "whatsapp", Channels \ {"whatsapp"})

MarksSent(r) ==
    /\ LET n == request[r].note
           read == request[r].read
       IN  notes' = [notes EXCEPT ![n] = Flush(@, read, [read EXCEPT !.is_sent = TRUE])]
    /\ Ends(r)
    /\ UNCHANGED <<preferences, attempted, ever, always, seen>>

\* Mutant: the mark is committed before the channels are through.
CommitSentEarly(r) == At(r, "send") /\ MarksSent(r)

\* Also where the category is off, and nothing was sent.
CommitSent(r) == At(r, "send") /\ request[r].left = {} /\ MarksSent(r)

----
\* One notification of the user's, or all that are unread.
MarkAsRead(r) ==
    /\ At(r, "idle")
    /\ \E found \in {{n} : n \in Rows} \cup {{n \in Rows : ~notes[n].is_read}} :
         Goto(r, [at |-> "read", found |-> [n \in found |-> notes[n]]])
    /\ UNCHANGED <<notes, preferences, attempted, ever, always, seen>>

CommitRead(r) ==
    /\ At(r, "read")
    /\ LET found == request[r].found
       IN  /\ notes' = [n \in Notes |->
                  IF n \in DOMAIN found
                  THEN Flush(notes[n], found[n], [found[n] EXCEPT !.is_read = TRUE])
                  ELSE notes[n]]
           /\ seen' = seen \cup DOMAIN found
    /\ Ends(r)
    /\ UNCHANGED <<preferences, attempted, ever, always>>

\* A request names some of the columns; without a row it makes one.
UpdatePreferences(r) ==
    /\ At(r, "idle")
    /\ \E change \in Changes : Goto(r, [at |-> "prefer", read |-> preferences, change |-> change])
    /\ UNCHANGED <<notes, preferences, attempted, ever, always, seen>>

\* There is one row per user: of two first requests the second fails.
CommitPreferences(r) ==
    /\ At(r, "prefer")
    /\ LET read == request[r].read
           change == request[r].change
       IN  preferences' = IF read # NoRow THEN Flush(preferences, read, With(read, change))
                          ELSE IF preferences = NoRow THEN With(Defaults, change) ELSE preferences
    /\ LET on(n) == Wanted(GetPreferences(preferences'), notes[n].kind)
       IN  /\ ever' = [n \in Notes |-> IF n \in Rows THEN ever[n] \cup on(n) ELSE ever[n]]
           /\ always' = [n \in Notes |-> IF n \in Rows THEN always[n] \cap on(n) ELSE always[n]]
    /\ Ends(r)
    /\ UNCHANGED <<notes, attempted, seen>>

\* The server stops in the middle of a request, and nobody takes it up again.
Stops(r) ==
    /\ ~At(r, "idle") /\ Ends(r)
    /\ UNCHANGED <<notes, preferences, attempted, ever, always, seen>>

NotifyStep ==
    \E r \in Requests : \/ CreateNotification(r)
                        \/ SendNotification(r)
                        \/ SendEmail(r) \/ SendPush(r) \/ SendWebhook(r)
                        \/ SendTelegram(r) \/ SendWhatsapp(r)
                        \/ CommitSent(r)
                        \/ MarkAsRead(r)
                        \/ CommitRead(r)
                        \/ UpdatePreferences(r)
                        \/ CommitPreferences(r)
                        \/ Stops(r)

NotifySpec == NotifyInit /\ [][NotifyStep]_nvars

----
(* Properties. *)

\* Whoever prefers while notifications are being sent: one goes only through channels that
\* the user was told are on at some time since it was created, and one that shows as sent
\* went through all that he was told are on all that time.  (One that does not show as sent
\* may have gone nowhere: so do all of a user who has no row of preferences.)  What was read
\* stays read, although the sender commits its older copy afterwards.
NotifiedAsPreferred ==
    /\ \A n \in Rows : /\ attempted[n] \subseteq ever[n]
                       /\ notes[n].is_sent => always[n] \subseteq attempted[n]
    /\ \A n \in seen : notes[n].is_read
====
