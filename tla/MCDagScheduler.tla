---------------------------- MODULE MCDagScheduler ----------------------------
(***************************************************************************)
(* Instances of the DAG scheduler for TLC.                                 *)
(***************************************************************************)
EXTENDS DagSchedulerProps

CONSTANTS a, b, c, d

\* A graph given by what b, c and d depend on; a is a root.
Graph(db, dc, dd) ==
    [n \in Nodes |-> IF n = b THEN db ELSE IF n = c THEN dc ELSE IF n = d THEN dd ELSE {}]

\* Every acyclic graph of three nodes up to renaming, beside an independent
\* fourth node (which keeps the loop going after a skip) and below one that
\* joins two of them; and a root beside a cycle.
MCGraphs ==
    {Graph(db, dc, dd) : db \in SUBSET {a}, dc \in SUBSET {a, b}, dd \in {{}, {b, c}}}
      \cup {Graph({c}, {b}, {a})}

\* Only the first node of the graph may be retried once.
MCOneRetry == [n \in Nodes |-> IF n = a THEN 1 ELSE 0]
=============================================================================
