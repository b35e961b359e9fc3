---- MODULE Mfa ----
(***************************************************************************)
(* services/totp_service.py and its endpoints: the second factor of one    *)
(* user.  A code stands for the secret it was computed from; the clock and *)
(* the digits are left out.  A request reads the user in one step and      *)
(* commits in a later one.  Disabling needs the user's password, for which *)
(* the endpoint gives an empty one: it never writes.                       *)
(***************************************************************************)
EXTENDS UnitOfWork

CONSTANTS
    Secrets,           \* random_base32 draws a new one each time
    Requests,          \* requests in flight
    NoSecret

VARIABLES
    factor,            \* the user's row: [secret, enabled]
    setups,            \* what each request in flight has read, and will write
    shown              \* the secrets that setups have answered with

fvars == <<factor, setups, shown>>

Waiting == [op |-> "idle"]

MfaInit ==
    /\ factor = [secret |-> NoSecret, enabled |-> FALSE]
    /\ setups = [r \in Requests |-> Waiting]
    /\ shown = {}

Drawn == shown \cup {setups[r].new.secret : r \in {q \in Requests : setups[q].op = "setup"}}

VerifyCode(secret, code) == secret # NoSecret /\ code = secret

Reads(r, op, new) ==
    /\ setups[r] = Waiting
    /\ setups' = [setups EXCEPT ![r] = [op |-> op, read |-> factor, new |-> new]]
    /\ UNCHANGED <<factor, shown>>

\* Mutant: a factor in use is set up again.
SetupAgain(r) ==
    \E secret \in Secrets \ Drawn : Reads(r, "setup", [factor EXCEPT !.secret = secret])

SetupMfa(r) ==
    /\ ~factor.enabled
    /\ \E secret \in Secrets \ Drawn : Reads(r, "setup", [factor EXCEPT !.secret = secret])

\* The code is one of a secret the user was shown.
EnableMfa(r) ==
    /\ \E code \in shown : VerifyCode(factor.secret, code)
    /\ Reads(r, "enable", [factor EXCEPT !.enabled = TRUE])

MfaCommits(r) ==
    /\ setups[r] # Waiting
    /\ factor' = Flush(factor, setups[r].read, setups[r].new)
    /\ shown' = IF setups[r].op = "setup" THEN shown \cup {setups[r].new.secret} ELSE shown
    /\ setups' = [setups EXCEPT ![r] = Waiting]

MfaStep == \E r \in Requests : SetupMfa(r) \/ EnableMfa(r) \/ MfaCommits(r)

MfaSpec == MfaInit /\ [][MfaStep]_fvars

----
(* Properties. *)

\* A factor in use stays in use, and its secret changes only by a setup that read the user
\* before the factor was enabled; whenever it is in use, its secret was shown to the user, so
\* that some code is accepted.
SecretSettles ==
    [][factor.enabled =>
         /\ factor'.enabled
         /\ \E code \in shown' : VerifyCode(factor'.secret, code)
         /\ factor'.secret # factor.secret =>
              \E r \in Requests : /\ setups[r].op = "setup" /\ setups'[r] = Waiting
                                  /\ ~setups[r].read.enabled
      ]_fvars
====
