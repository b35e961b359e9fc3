---- MODULE StrategyDesk ----
(***************************************************************************)
(* The strategies of an administrator, as strategy_endpoints.py keeps them:*)
(* rows of the table "strategies" with their life cycle (the manager of    *)
(* strategy_backtest_service.py), and their assignment to traders.  Every  *)
(* handler reads its row in one step and commits in another.  The handlers *)
(* that work on a strategy the caller owns are open to its owner only, and *)
(* only administrators create strategies; a refused request changes nothing*)
(* and is no step here.                                                    *)
(***************************************************************************)
EXTENDS Naturals, Sequences, FiniteSets, UnitOfWork

CONSTANTS
    Strategies,    \* identities of the rows
    Traders,
    Requests,      \* requests in flight
    Names,
    Parameters,    \* what strategies are created with: [entry, stop]
    Edits,         \* the updates administrators send: partial rows
    NoRow

\* The status of a strategy that transition and update know ("running" is
\* tested by several handlers and set by none), and the kill switch's.
Status == {"DRAFT", "validated", "backtested", "paper_trading", "live", "ACTIVE", "PAUSED",
           "STOPPED", "stopped"}
\* entry: under which key of the parameters usable entry conditions are kept;
\* stop: the exit rules have a stop-loss.
Strategy == [name : Names, status : Status, approved : BOOLEAN,
             entry : {"none", "entry", "entry_conditions"}, stop : BOOLEAN]

TRANSITIONS ==
    { <<"DRAFT", "validated">>, <<"validated", "DRAFT">>, <<"validated", "backtested">>,
      <<"backtested", "validated">>, <<"backtested", "paper_trading">>,
      <<"paper_trading", "backtested">>, <<"paper_trading", "live">>,
      <<"paper_trading", "PAUSED">>, <<"paper_trading", "STOPPED">>,
      <<"live", "paper_trading">>, <<"live", "PAUSED">>, <<"live", "STOPPED">>,
      <<"PAUSED", "paper_trading">>, <<"PAUSED", "live">>, <<"PAUSED", "STOPPED">> }

VARIABLES
    strategies,    \* the table: identity -> row
    assigned,      \* trader, strategy -> is_active of its rows, oldest first
    request,       \* what each request in flight has read, and will write
    vouched        \* history: strategies an administrator approved or set live

svars == <<strategies, assigned, request, vouched>>

Idle == [op |-> "idle"]

Init ==
    /\ strategies = [s \in Strategies |-> NoRow]
    /\ assigned = [p \in Traders \X Strategies |-> <<>>]
    /\ request = [r \in Requests |-> Idle]
    /\ vouched = {}

Existing == {s \in Strategies : strategies[s] # NoRow}
Set(row, status) == [row EXCEPT !.status = status]

----
\* What each handler makes of the row it has read; {}: it refuses or raises.

UpdateStrategy(row, edit) ==
    IF row.status = "running" THEN {}
    ELSE {With(row, edit)}

\* is_active is no column of Strategy: the commit has nothing to write.
DeleteStrategy(row) == IF row.status = "running" THEN {} ELSE {row}

\* Strategy has no broker_account_id: both raise before they write.
ActivateStrategy(row) == {}
CloneStrategy(row) == {}

DeactivateStrategy(row) ==
    IF row.status = "running" THEN {Set(row, "paused")} ELSE {}

\* kill_switch and kill_switched_at are no columns; the status is.
KillSwitch(row) == {Set(row, "stopped")}

\* The validator finds entry conditions, under either key.
Valid(row) == row.entry # "none"

\* A back-test that traded moves the strategy, from whatever status it had.
BacktestStrategy(row) ==
    IF Valid(row) THEN {row, Set(row, "backtested")} ELSE {}

\* Mutant: the approval is asked for nowhere.
RequirementsUnapproved(row, target) ==
    /\ target = "validated" => Valid(row)
    /\ target = "backtested" => row.status = "validated" /\ row.entry = "entry_conditions"
    /\ target \in {"paper_trading", "live"} => row.stop

\* The requirements the handler tests; it skips those it has no branch for
\* (passed_backtest, passed_paper_trading, is_running).
RequirementsMet(row, target) ==
    /\ target = "validated" => Valid(row)
    /\ target = "backtested" => row.status = "validated" /\ row.entry = "entry_conditions"
    /\ target = "paper_trading" => row.stop
    /\ target = "live" => row.approved /\ row.stop

TransitionState(row, target) ==
    IF <<row.status, target>> \in TRANSITIONS /\ RequirementsMet(row, target)
    THEN {Set(row, target)} ELSE {}

ApproveStrategy(row, yes) ==
    {[row EXCEPT !.approved = yes, !.status = IF yes THEN "live" ELSE @]}

\* What the handler named op may make of a row.
Outcomes(op, row) ==
    CASE op = "update" -> UNION {UpdateStrategy(row, e) : e \in Edits}
      [] op = "delete" -> DeleteStrategy(row)
      [] op = "activate" -> ActivateStrategy(row)
      [] op = "clone" -> CloneStrategy(row)
      [] op = "deactivate" -> DeactivateStrategy(row)
      [] op = "kill" -> KillSwitch(row)
      [] op = "backtest" -> BacktestStrategy(row)
      [] op = "transition" -> UNION {TransitionState(row, t) : t \in Status}
      [] op = "approve" -> UNION {ApproveStrategy(row, yes) : yes \in BOOLEAN}

Handlers == {"update", "delete", "activate", "clone", "deactivate", "kill", "backtest",
             "transition", "approve"}

----
\* One row, under its identity.
One(s, row) == [x \in {s} |-> row]

\* A request reads the rows it works on; "new" is what it will commit.
Read(r, op, rows, new) ==
    request' = [request EXCEPT ![r] = [op |-> op, read |-> rows, new |-> new]]

Handle(r) ==
    /\ request[r] = Idle
    /\ \E op \in Handlers, s \in Existing :
         \E new \in Outcomes(op, strategies[s]) :
            Read(r, op, One(s, strategies[s]), One(s, new))
    /\ UNCHANGED <<strategies, assigned, vouched>>

\* The duplicate-name test precedes the insert by a round trip.
CreateStrategy(r) ==
    /\ request[r] = Idle
    /\ \E s \in Strategies \ Existing, n \in Names, p \in Parameters :
         /\ \A q \in Requests : request[q] # Idle => s \notin DOMAIN request[q].read
         /\ \A t \in Existing : strategies[t].name # n
         /\ Read(r, "create", One(s, NoRow),
                 One(s, [name |-> n, status |-> "DRAFT", approved |-> FALSE,
                         entry |-> p.entry, stop |-> p.stop]))
    /\ UNCHANGED <<strategies, assigned, vouched>>

\* It looks for the strategies whose status is "running".
GlobalKillSwitch(r) ==
    /\ request[r] = Idle
    /\ LET running == {s \in Existing : strategies[s].status = "running"}
       IN  Read(r, "global-kill", [s \in running |-> strategies[s]],
                [s \in running |-> Set(strategies[s], "stopped")])
    /\ UNCHANGED <<strategies, assigned, vouched>>

\* The second step of all these handlers.
Commit(r) ==
    /\ request[r] # Idle
    /\ request[r].op # "assign"
    /\ LET req == request[r]
           Written(s) == IF req.read[s] = NoRow THEN req.new[s]
                         ELSE Flush(strategies[s], req.read[s], req.new[s])
       IN  /\ strategies' = [s \in Strategies |->
                IF s \in DOMAIN req.new THEN Written(s) ELSE strategies[s]]
           /\ vouched' = IF req.op \in {"approve", "update"}
                         THEN vouched \cup {s \in DOMAIN req.new :
                                 req.new[s].status = "live" /\ req.read[s].status # "live"}
                         ELSE vouched
    /\ request' = [request EXCEPT ![r] = Idle]
    /\ UNCHANGED assigned

\* Mutant: only an active row counts as an assignment.
AssignInactive(r) ==
    /\ request[r] = Idle
    /\ \E u \in Traders, s \in Existing :
         /\ \A i \in DOMAIN assigned[<<u, s>>] : ~assigned[<<u, s>>][i]
         /\ request' = [request EXCEPT ![r] =
                [op |-> "assign", trader |-> u, read |-> One(s, strategies[s])]]
    /\ UNCHANGED <<strategies, assigned, vouched>>

\* Assigning looks for a row of the pair first; two rows make it raise.
AssignStrategy(r) ==
    /\ request[r] = Idle
    /\ \E u \in Traders, s \in Existing :
         /\ assigned[<<u, s>>] = <<>>
         /\ request' = [request EXCEPT ![r] =
                [op |-> "assign", trader |-> u, read |-> One(s, strategies[s])]]
    /\ UNCHANGED <<strategies, assigned, vouched>>

CommitAssignment(r) ==
    /\ request[r] # Idle
    /\ request[r].op = "assign"
    /\ \E s \in DOMAIN request[r].read :
         assigned' = [assigned EXCEPT ![<<request[r].trader, s>>] = Append(@, TRUE)]
    /\ request' = [request EXCEPT ![r] = Idle]
    /\ UNCHANGED <<strategies, vouched>>

\* A removed assignment keeps its row, inactive.
RemoveAssignment ==
    /\ \E p \in Traders \X Strategies : \E i \in DOMAIN assigned[p] :
         /\ assigned[p][i]
         /\ assigned' = [assigned EXCEPT ![p][i] = FALSE]
    /\ UNCHANGED <<strategies, request, vouched>>

\* The strategies a trader is shown: those with an active row.
MyStrategies(u) ==
    {s \in Strategies : \E i \in DOMAIN assigned[<<u, s>>] : assigned[<<u, s>>][i]}

StrategyStep ==
    \/ \E r \in Requests : \/ Handle(r)
                           \/ CreateStrategy(r)
                           \/ GlobalKillSwitch(r)
                           \/ Commit(r)
                           \/ AssignStrategy(r)
                           \/ CommitAssignment(r)
    \/ RemoveAssignment

Spec == Init /\ [][StrategyStep]_svars

----
(* Properties. *)

\* However the handlers interleave, a strategy is live only if at some time an
\* administrator approved it or set it live himself: no sequence of life-cycle
\* transitions, back-tests and stale commits takes an unapproved one there.
LiveWasVouched ==
    \A s \in Existing : strategies[s].status = "live" => s \in vouched

\* After the kill switch a strategy stays stopped until a request commits that gives it
\* another status: a back-test, an approval or an edit, whatever it has read, or a life-cycle
\* transition that had read the row before the kill ("stopped" is in no transition of the
\* manager).  A request that read the row before and changes something else leaves it stopped.
KilledStaysStopped ==
    [][\A s \in Existing :
         (strategies[s].status = "stopped" /\ strategies'[s].status # "stopped") =>
            \E r \in Requests :
              /\ request'[r] = Idle /\ request[r] # Idle
              /\ s \in DOMAIN request[r].read
              /\ \/ request[r].op \in {"backtest", "approve", "update"}
                 \/ request[r].op = "transition" /\ request[r].read[s].status # "stopped"
              /\ request[r].new[s].status # request[r].read[s].status
              /\ strategies'[s].status = request[r].new[s].status
      ]_svars

\* A trader who lost a strategy does not get it back by a later assignment: it finds
\* the inactive row, or raises at two of them.  So however often a pair is assigned and
\* removed, its rows are no more than the requests that looked before the first was written.
RowsBounded ==
    \A u \in Traders, s \in Strategies :
        Len(assigned[<<u, s>>]) <= Cardinality(Requests)
====
