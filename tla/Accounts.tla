---- MODULE Accounts ----
(***************************************************************************)
(* The accounts of the platform and the rows of their sessions:            *)
(* auth_service.py, the endpoints over it, Google login and the creation of*)
(* the administrator at start-up.  The columns of password resets          *)
(* (Passwords) and of MFA (Mfa) are left out: no login reads them; and so  *)
(* are access tokens, which core/security.py accepts until they expire,    *)
(* without a look at sessions or accounts, and logout, which no endpoint   *)
(* offers.  Each handler reads in one step and commits in a later one;     *)
(* requests are handled by several worker processes over one database.  A  *)
(* refused request changes nothing and is no step; whether a password or a *)
(* Google token is right is a free choice, and so is a refusal by the      *)
(* limits on registrations.  Time runs in units of half an hour.           *)
(***************************************************************************)
EXTENDS Naturals, FiniteSets, UnitOfWork

CONSTANTS
    Users,         \* accounts, by e-mail address: the column is UNIQUE
    AdminEmail,    \* ADMIN_EMAIL of the environment
    Sessions,      \* identities of session rows
    Requests,      \* requests in flight
    NoRow,
    Threshold,     \* failed attempts that lock an account: 5
    LockPeriod,    \* 30 minutes
    Timeout,       \* INACTIVITY_TIMEOUT_MINUTES
    MaxTime        \* bound on the clock

Status == {"PENDING", "ACTIVE", "REJECTED", "SUSPENDED"}
\* locked is locked_until, 0 for NULL.
User == [role : {"trader", "admin"}, status : Status, failed : Nat, locked : Nat]
Account(role, status) ==
    [role |-> role, status |-> status, failed |-> 0, locked |-> 0]

VARIABLES
    users,         \* the table: e-mail -> row
    sessions,      \* the table: identity -> [user, active, created] and, for the
                   \*   history, "late": the insert overtook or followed a suspension
    issued,        \* identities that a session row has had
    now,
    request        \* what each request in flight has read, and will write

avars == <<users, sessions, issued, now, request>>

Idle == [op |-> "idle"]
Later(r, req) == request' = [request EXCEPT ![r] = req]
Ends(r) == Later(r, Idle)
Free(r) == request[r] = Idle
Accounts == {u \in Users : users[u] # NoRow}
OpenSessions(u) ==
    {s \in Sessions : sessions[s] # NoRow /\ sessions[s].user = u /\ sessions[s].active}

Init ==
    /\ users = [u \in Users |-> NoRow]
    /\ sessions = [s \in Sessions |-> NoRow]
    /\ issued = {}
    /\ now = 1
    /\ request = [r \in Requests |-> Idle]

----
\* Accounts come into being in three ways; each looks for a row first.

RegisterUser(u) == Account("trader", "PENDING")

\* Google users start PENDING too; the login goes on with the row.
FindOrCreateUser(u) == Account("trader", "PENDING")

CreateDefaultAdmin(u) == Account("admin", "ACTIVE")

Starts(r, u, op) ==
    LET new == CASE op = "register" -> RegisterUser(u)
                 [] op = "google" -> FindOrCreateUser(u)
                 [] op = "admin" -> CreateDefaultAdmin(u)
    IN  /\ op = "admin" => u = AdminEmail /\ \A v \in Accounts : users[v].role # "admin"
        /\ op # "admin" => users[u] = NoRow
        /\ Later(r, [op |-> op, on |-> u, new |-> new])

NewAccount(r) ==
    /\ Free(r)
    /\ \E u \in Users, op \in {"register", "google", "admin"} : Starts(r, u, op)
    /\ UNCHANGED <<users, sessions, issued, now>>

\* Mutant: the address is not unique, and the last insert wins.
InsertAnyway(u, new) == [users EXCEPT ![u] = new]

\* The column is UNIQUE: an insert for an address that has a row by now fails.
Insert(u, new) == IF users[u] = NoRow THEN [users EXCEPT ![u] = new] ELSE users

InsertAccount(r) ==
    /\ request[r].op \in {"register", "google", "admin"}
    /\ LET req == request[r]
       IN  /\ users' = Insert(req.on, req.new)
           /\ IF req.op = "google" /\ users[req.on] = NoRow
              THEN Later(r, [op |-> "session", on |-> req.on])
              ELSE Ends(r)
    /\ UNCHANGED <<sessions, issued, now>>

----
\* Logging in.

\* A wrong password.
AttemptFailed(row) ==
    LET n == row.failed + 1
    IN  [row EXCEPT !.failed = n, !.locked = IF n >= Threshold THEN now + LockPeriod ELSE @]

IsLocked(row) == row.locked > now

LoginBlocked(row) == row.status \in {"PENDING", "REJECTED", "SUSPENDED"}

AuthenticateUser(r) ==
    /\ Free(r)
    /\ \E u \in Accounts :
         LET row == users[u]
         IN  \/ /\ row.failed <= Threshold          \* bound on the counter
                /\ Later(r, [op |-> "failed", on |-> u,
                             writes |-> Dirty(row, AttemptFailed(row))])
             \/ /\ ~IsLocked(row) /\ ~LoginBlocked(row)
                /\ Later(r, [op |-> "admitted", on |-> u,
                             writes |-> Dirty(row, [row EXCEPT !.failed = 0])])
    /\ UNCHANGED <<users, sessions, issued, now>>

\* Google has vouched for the address; nobody looks at status or lock.
AuthenticateGoogle(r) ==
    /\ Free(r)
    /\ \E u \in Accounts : Later(r, [op |-> "session", on |-> u])
    /\ UNCHANGED <<users, sessions, issued, now>>

Suspending(u) ==
    \/ users[u].status = "SUSPENDED"
    \/ \E q \in Requests : request[q].op = "suspend" /\ request[q].on = u

NewSession(u) == [user |-> u, active |-> TRUE, created |-> now, late |-> Suspending(u)]

\* The session is a second commit, after the one that resets the counter.
CreateSession(r) ==
    /\ request[r].op = "session"
    /\ \E s \in Sessions :
         /\ s \notin issued
         /\ sessions' = [sessions EXCEPT ![s] = NewSession(request[r].on)]
         /\ issued' = issued \cup {s}
    /\ Ends(r)
    /\ UNCHANGED <<users, now>>

----
\* What the other handlers make of the row they have read; {}: refused.

ApproveUser(row) == IF row.status = "PENDING" THEN {[row EXCEPT !.status = "ACTIVE"]} ELSE {}
RejectUser(row) == IF row.status = "PENDING" THEN {[row EXCEPT !.status = "REJECTED"]} ELSE {}
ReactivateUser(row) ==
    IF row.status = "SUSPENDED" THEN {[row EXCEPT !.status = "ACTIVE"]} ELSE {}
SuspendUser(row) ==
    IF row.status # "SUSPENDED" THEN {[row EXCEPT !.status = "SUSPENDED"]} ELSE {}

Outcomes(op, row) ==
    CASE op = "approve" -> ApproveUser(row)
      [] op = "reject" -> RejectUser(row)
      [] op = "reactivate" -> ReactivateUser(row)
      [] op = "suspending" -> SuspendUser(row)

ByAdmin == {"approve", "reject", "reactivate", "suspending"}

\* Administrators work with the token they have, whatever their own account has become.
Handle(r) ==
    /\ Free(r)
    /\ \E u \in Accounts, op \in ByAdmin :
         \E new \in Outcomes(op, users[u]) :
            Later(r, [op |-> op, on |-> u, was |-> users[u].status,
                      writes |-> Dirty(users[u], new)])
    /\ UNCHANGED <<users, sessions, issued, now>>

CommitAccount(r) ==
    /\ request[r].op \in (ByAdmin \ {"suspending"}) \cup {"failed", "admitted"}
    /\ LET req == request[r]
       IN  /\ users' = [users EXCEPT ![req.on] = With(@, req.writes)]
           /\ IF req.op = "admitted"
              THEN Later(r, [op |-> "session", on |-> req.on])
              ELSE Ends(r)
    /\ UNCHANGED <<sessions, issued, now>>

\* Mutant: suspending leaves the sessions alone.
LogoutNone(u) == {}

\* The sessions that logout_all_sessions finds.
LogoutAllSessions(u) == OpenSessions(u)

SuspendReads(r) ==
    /\ request[r].op = "suspending"
    /\ Later(r, [op |-> "suspend", on |-> request[r].on, was |-> request[r].was,
                 writes |-> request[r].writes, rows |-> LogoutAllSessions(request[r].on)])
    /\ UNCHANGED <<users, sessions, issued, now>>

\* One commit writes the status and the sessions; a session row that is gone makes it fail.
CommitSuspension(r) ==
    /\ request[r].op = "suspend"
    /\ LET req == request[r]
       IN  IF \E s \in req.rows : sessions[s] = NoRow
           THEN UNCHANGED <<users, sessions>>
           ELSE /\ users' = [users EXCEPT ![req.on] = With(@, req.writes)]
                /\ sessions' = [s \in Sessions |->
                     IF s \in req.rows THEN [sessions[s] EXCEPT !.active = FALSE]
                     ELSE sessions[s]]
    /\ Ends(r)
    /\ UNCHANGED <<issued, now>>

----
\* The rows of sessions.

\* One session of the user's.  Revoking them all raises: it asks SessionManager for a method
\* that only AuthService has.
RevokeSession(r) ==
    /\ Free(r)
    /\ \E s \in Sessions : /\ sessions[s] # NoRow /\ sessions[s].active
                           /\ Later(r, [op |-> "revoke", session |-> s])
    /\ UNCHANGED <<users, sessions, issued, now>>

\* A row that is gone makes the commit fail.
CommitSession(r) ==
    /\ request[r].op = "revoke"
    /\ LET s == request[r].session
       IN  IF sessions[s] = NoRow THEN UNCHANGED sessions
           ELSE sessions' = [sessions EXCEPT ![s].active = FALSE]
    /\ Ends(r)
    /\ UNCHANGED <<users, issued, now>>

\* Nothing moves last_activity_at (the heartbeat raises): old sessions are idle ones.
CleanupExpiredSessions(r) ==
    /\ Free(r)
    /\ LET old == {s \in Sessions : sessions[s] # NoRow
                     /\ (~sessions[s].active \/ sessions[s].created + Timeout < now)}
       IN  old # {} /\ Later(r, [op |-> "cleanup", rows |-> old])
    /\ UNCHANGED <<users, sessions, issued, now>>

CommitCleanup(r) ==
    /\ request[r].op = "cleanup"
    /\ sessions' = [s \in Sessions |-> IF s \in request[r].rows THEN NoRow ELSE sessions[s]]
    /\ Ends(r)
    /\ UNCHANGED <<users, issued, now>>

----
Tick ==
    /\ now < MaxTime
    /\ now' = now + 1
    /\ UNCHANGED <<users, sessions, issued, request>>

Next ==
    \/ Tick
    \/ \E r \in Requests :
         \/ NewAccount(r) \/ InsertAccount(r)
         \/ AuthenticateUser(r) \/ AuthenticateGoogle(r) \/ CreateSession(r)
         \/ Handle(r) \/ CommitAccount(r)
         \/ SuspendReads(r) \/ CommitSuspension(r)
         \/ RevokeSession(r) \/ CommitSession(r)
         \/ CleanupExpiredSessions(r) \/ CommitCleanup(r)

Spec == Init /\ [][Next]_avars

----
(* Properties. *)

\* An open session of a suspended user is one whose login inserted it after the suspension
\* had looked for the user's sessions: whatever was open by then is closed, or nothing is
\* suspended.
SuspendedLoggedOut ==
    \A u \in Accounts : users[u].status = "SUSPENDED" =>
        \A s \in OpenSessions(u) : sessions[s].late

\* What each decision of an administrator is made of, and what it makes of it.
Decisions ==
    [approve |-> [from |-> {"PENDING"}, to |-> "ACTIVE"],
     reject |-> [from |-> {"PENDING"}, to |-> "REJECTED"],
     reactivate |-> [from |-> {"SUSPENDED"}, to |-> "ACTIVE"],
     suspend |-> [from |-> Status \ {"SUSPENDED"}, to |-> "SUSPENDED"]]

\* The status of an account changes only by a decision of an administrator that commits, and
\* to what was decided of the row he had read: not by the copies that logins write back, and
\* not by registrations, first Google logins and start-ups that look for the same address.
\* Decisions themselves overtake one another: an approval that had read the account PENDING
\* overrides a rejection or a suspension that was committed since.
DecisionsStand ==
    [][\A u \in Accounts :
         users'[u].status # users[u].status =>
            \E r \in Requests :
              /\ request[r].op \in DOMAIN Decisions
              /\ request[r].on = u
              /\ Free(r)'
              /\ request[r].was \in Decisions[request[r].op].from
              /\ users'[u].status = Decisions[request[r].op].to
      ]_avars
====
