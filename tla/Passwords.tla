---- MODULE Passwords ----
(***************************************************************************)
(* Forgotten passwords: the two endpoints of api/v1/endpoints/             *)
(* auth_endpoints.py over the row of one user.  A request reads the user in*)
(* one step and commits in a later one; it writes every column it sets, as *)
(* tokens, moments and the hash of a password are never those it has read. *)
(* Time runs in hours.                                                     *)
(***************************************************************************)
EXTENDS FiniteSets, SequencesExt, UnitOfWork

CONSTANTS
    Tokens,            \* token_urlsafe draws a new one each time
    Passwords,         \* what users choose
    Requests,          \* requests in flight
    NoToken,
    MaxHour            \* bound on the clock

VARIABLES
    credential,        \* the user's row: [password, token, expires], 0 for no expiry
    resets,            \* what each request in flight has read, and will write
    told,              \* the tokens that the user was told, in order
    spent,             \* history: how many passwords each token has set
    hour

pvars == <<credential, resets, told, spent, hour>>

Idle == [op |-> "idle"]

PasswordsInit ==
    /\ credential = [password |-> NoToken, token |-> NoToken, expires |-> 0]
    /\ resets = [r \in Requests |-> Idle]
    /\ told = <<>> /\ spent = [t \in Tokens |-> 0]
    /\ hour = 1

Drawn == ToSet(told) \cup {resets[r].token : r \in {q \in Requests : resets[q].op = "forgot"}}

Reads(r, op, token, writes) ==
    /\ resets[r] = Idle
    /\ resets' = [resets EXCEPT ![r] = [op |-> op, token |-> token, writes |-> writes]]
    /\ UNCHANGED <<credential, told, spent, hour>>

ForgotPassword(r) ==
    \E token \in Tokens \ Drawn :
        Reads(r, "forgot", token, [token |-> token, expires |-> hour + 1])

IsExpired(row) == row.expires # 0 /\ row.expires < hour

\* Mutant: the token stays for the next time.
ResetKeepsToken(r) ==
    \E token \in ToSet(told), password \in Passwords :
        /\ credential.token = token
        /\ ~IsExpired(credential)
        /\ Reads(r, "reset", token, [password |-> password, expires |-> 0])

\* Neither the sessions nor a lock of the account are touched.
ResetPassword(r) ==
    \E token \in ToSet(told), password \in Passwords :
        /\ credential.token = token
        /\ ~IsExpired(credential)
        /\ Reads(r, "reset", token,
                 [password |-> password, token |-> NoToken, expires |-> 0])

PasswordCommits(r) ==
    /\ resets[r] # Idle
    /\ credential' = With(credential, resets[r].writes)
    /\ IF resets[r].op = "forgot"
       THEN told' = Append(told, resets[r].token) /\ UNCHANGED spent
       ELSE spent' = [spent EXCEPT ![resets[r].token] = @ + 1] /\ UNCHANGED told
    /\ resets' = [resets EXCEPT ![r] = Idle]
    /\ UNCHANGED hour

HourPasses ==
    /\ hour < MaxHour
    /\ hour' = hour + 1
    /\ UNCHANGED <<credential, resets, told, spent>>

PasswordStep ==
    \/ HourPasses
    \/ \E r \in Requests : ForgotPassword(r) \/ ResetPassword(r) \/ PasswordCommits(r)

PasswordSpec == PasswordsInit /\ [][PasswordStep]_pvars

----
(* Properties. *)

\* The token of the row is the last one that was told, and has set no password; it leaves
\* the row, before another one is told, only by a reset.  The password changes only by a reset
\* with a token the user was told.  That need not be the last one: a reset that had read the
\* row with an earlier token still sets its password, and removes the token told since; and
\* resets that read the row with one token all set theirs, each over the one before.  So a
\* token sets no more passwords than requests overlap.
TokensSettle ==
    [][/\ credential.token # NoToken =>
            credential.token = Last(told) /\ spent[credential.token] = 0
       /\ credential' # credential =>
            \/ credential'.password = credential.password /\ credential'.token = Last(told')
            \/ \E r \in Requests : /\ resets[r].op = "reset" /\ resets'[r] = Idle
                                  /\ resets[r].token \in ToSet(told)
                                  /\ credential'.password = resets[r].writes.password
                                  /\ credential'.token = NoToken
       /\ \A t \in Tokens : spent[t] <= Cardinality(Requests)
      ]_pvars
====
