-------------------------- MODULE MCSubagentLifecycle --------------------------
(***************************************************************************)
(* Instances of the sub-agent lifecycle for TLC.                           *)
(***************************************************************************)
EXTENDS SubagentLifecycleProps

CONSTANTS d1, d2, s

\* The DAG jobs are the nodes of one run.
MCOneRun == {{d1, d2}}

\* No job is tried again.
MCOnce == [j \in Jobs |-> 1]

\* Only the first DAG job and the single job may be tried again.
MCMixed == [j \in Jobs |-> IF j = d2 THEN 1 ELSE 2]
=============================================================================
