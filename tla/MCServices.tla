---- MODULE MCServices ----
(* The services and the figures on small instances for TLC, one at a time.   *)
EXTENDS Services, Figures, TLC

CONSTANTS share1, share2, w1, w2, w3, k1, k2, Nothing

\* The texts are those of MCParser, which need no clauses to be defined.
Written == INSTANCE MCParser WITH Clauses <- {}, Numbers <- {}, Ratios <- {}
MCSentences == Written!Sentences
MCSaid == Written!Said
MCWeighed == Written!Weighed

\* A loss over a night, a trade that earns nothing, a small and a large win.
MCResults ==
    {[symbol |-> "A", entry |-> 5, exit |-> 3, entered |-> 15, left |-> 34],
     [symbol |-> "A", entry |-> 3, exit |-> 3, entered |-> 34, left |-> 34],
     [symbol |-> "B", entry |-> 4, exit |-> 5, entered |-> 9, left |-> 10],
     [symbol |-> "B", entry |-> 2, exit |-> 5, entered |-> 39, left |-> 40]}

\* A loss and a gain, of the trades that are reported on.
MCPnls == {-1, 2}

-----------------------------------------------------------------------------
\* Either a service works or a figure is computed.
MCInit == Init /\ FiguresInit /\ (service = "none" <=> figure # "none")

MCNext ==
    \/ Next /\ UNCHANGED figureVars
    \/ FiguresNext /\ UNCHANGED vars

\* Every behaviour of it is one of the services', and one of the figures'.
MCSpec == MCInit /\ [][MCNext]_<<vars, figureVars>> /\ Stream!StreamFairness
====
