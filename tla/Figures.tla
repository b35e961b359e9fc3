---- MODULE Figures ----
(***************************************************************************)
(* What is computed at once from what is given: analytics of the trades of *)
(* a back-test, reports on closed trades, and strategies parsed from text. *)
(* None calls another, so a behaviour is one of one of them, the figure;   *)
(* the others rest, and all of them when there is none.                    *)
(***************************************************************************)
EXTENDS Integers

CONSTANTS
    Results, Equities, InitialCapital, MaxResults,  \* Analytics
    Years, MonthsOfYear, DaysOfMonth, Pnls, Invested, Entries, Exits, MaxRecorded,
    Clauses, Numbers, Ratios, MaxClauses            \* Parser

VARIABLES figure, results, equity_curve, recorded, clauses

figureVars == <<figure, results, equity_curve, recorded, clauses>>

Analysis == INSTANCE Analytics

Report == INSTANCE Reports WITH
    Profits <- Pnls, MaxTrades <- MaxRecorded

Texts == INSTANCE Parser

\* Money is counted in whole units, equity stays above 0, and nothing is left before it was
\* entered.
ASSUME ResultAmounts ==
    /\ \A trade \in Results :
         /\ trade.entry \in Int /\ trade.exit \in Int
         /\ trade.entered \in Int /\ trade.left \in Int /\ trade.entered <= trade.left
    /\ Equities \subseteq Nat \ {0} /\ InitialCapital \in Int

\* The years that are reported on are those of the trades.
ASSUME Calendar ==
    /\ Years \in Nat /\ MonthsOfYear \in Nat \ {0} /\ DaysOfMonth \in Nat \ {0}
    /\ Entries \cup Exits \subseteq 0 .. Report!Year * Years - 1 /\ Pnls \subseteq Int

-----------------------------------------------------------------------------
FiguresInit ==
    /\ figure \in {"none", "analytics", "reports", "parser"}
    /\ Analysis!AnalyticsInit /\ Report!ReportInit /\ Texts!TextInit

ResultsGrow ==
    /\ figure = "analytics" /\ Analysis!AnalyticsStep
    /\ UNCHANGED <<figure, recorded, clauses>>

ReportsGrow ==
    /\ figure = "reports" /\ Report!RecordTrade
    /\ UNCHANGED <<figure, results, equity_curve, clauses>>

TextGrows ==
    /\ figure = "parser" /\ Texts!Write
    /\ UNCHANGED <<figure, results, equity_curve, recorded>>

FiguresNext == ResultsGrow \/ ReportsGrow \/ TextGrows

FiguresSpec == FiguresInit /\ [][FiguresNext]_figureVars

-----------------------------------------------------------------------------
(* The properties of the figures, which the run names.                      *)

\* The figures of analytics and reports agree with the trades they are of.
FiguresTrue ==
    /\ Analysis!AnalyticsAgree /\ Analysis!HistoryAgrees
    /\ Report!ReportsAgree /\ Report!DrawdownTrue

\* What follows a full sentence for buying leaves its conditions as they were.
SentencesStandAlone == Texts!SentencesStandAlone
====
