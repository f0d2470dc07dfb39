---------------------------- MODULE DagRunContract ----------------------------
(***************************************************************************)
(* What a DAG run promises to whoever watches its DagRun through the       *)
(* dag_status tool, with no scheduler in it: nodes run in dependency       *)
(* order and under the parallelism bound, a node is skipped only after a   *)
(* failure it depends on, a verdict on the run is final, and reruns after  *)
(* the verdict only ever repair failed or skipped nodes.                   *)
(***************************************************************************)
EXTENDS Naturals, FiniteSets

CONSTANTS Nodes, MaxParallelism

VARIABLES deps, status, run

cvars == <<deps, status, run>>

In(states) == {n \in Nodes : status[n] \in states}

Open == run \in {"Pending", "Running"}

DepsSucceeded(n) == deps[n] \subseteq In({"Succeeded"})

Init ==
    /\ deps \in [Nodes -> SUBSET Nodes]
    /\ status = [n \in Nodes |-> "Waiting"]
    /\ run = "Pending"

\* A batch L starts, and a batch S is given up on.
Advance(L, S) ==
    /\ Open
    /\ L \cup S \subseteq In({"Waiting"})
    /\ \A n \in L : DepsSucceeded(n)
    /\ L # {} => Cardinality(In({"Running"}) \cup L) <= MaxParallelism
    /\ \A n \in S : deps[n] \cap In({"Failed", "Skipped"}) # {}
    /\ status' = [n \in Nodes |-> IF n \in L THEN "Running"
                                  ELSE IF n \in S THEN "Skipped" ELSE status[n]]
    /\ run' = IF L = {} THEN run ELSE "Running"
    /\ UNCHANGED deps

Succeed(n) ==
    /\ run = "Running" /\ status[n] = "Running"
    /\ status' = [status EXCEPT ![n] = "Succeeded"]
    /\ UNCHANGED <<deps, run>>

\* The failure of a node may also be the verdict on the run.
Fail(n) ==
    /\ run = "Running" /\ status[n] = "Running"
    /\ status' = [status EXCEPT ![n] = "Failed"]
    /\ run' \in {"Running", "Failed", "Cancelled"}
    /\ UNCHANGED deps

Close(verdict) ==
    /\ Open
    /\ verdict = "Completed" => In({"Succeeded"}) = Nodes
    /\ verdict = "CompletedWithFailures" =>
          In({"Running"}) = {} /\ In({"Failed"}) # {}
    /\ run' = verdict
    /\ UNCHANGED <<deps, status>>

\* retry_failed and recover_skipped: the verdict stays, nodes are promoted.
Repair(S) ==
    /\ run = "CompletedWithFailures"
    /\ S \subseteq In({"Failed", "Skipped"})
    /\ \A n \in S : DepsSucceeded(n)
    /\ status' = [n \in Nodes |-> IF n \in S THEN "Succeeded" ELSE status[n]]
    /\ UNCHANGED <<deps, run>>

Next ==
    \/ \E L, S \in SUBSET Nodes : Advance(L, S)
    \/ \E n \in Nodes : Succeed(n) \/ Fail(n)
    \/ \E v \in {"Completed", "CompletedWithFailures", "Failed", "Cancelled"} : Close(v)
    \/ \E S \in SUBSET Nodes : Repair(S)

Spec == Init /\ [][Next]_cvars
=============================================================================
