--------------------------- MODULE DagSchedulerProps ---------------------------
(***************************************************************************)
(* What the DAG scheduler must guarantee.                                  *)
(***************************************************************************)
EXTENDS DagScheduler

Answers == {"ok", "error", "cancelled", "panicked"}
NodeStates == {"Pending", "Ready", "Running", "Succeeded", "Failed", "Skipped"}
RunStates ==
    {"Pending", "Running", "Completed", "CompletedWithFailures", "Failed", "Cancelled"}

TypeOK ==
    /\ deps \in [Nodes -> SUBSET Nodes] /\ override \in {"none", "On", "Off"}
    /\ scope \in SUBSET Nodes /\ round \in Nat
    /\ loop \in {"start", "head", "spawn", "select", "backoff", "finish", "returned"}
    /\ completed \in SUBSET Nodes /\ failed \in SUBSET Nodes
    /\ skipped \in SUBSET Nodes /\ results \in SUBSET Nodes
    /\ inflight \in SUBSET Nodes
    /\ attempts \in [Nodes -> Nat] /\ starts \in [Nodes -> Nat]
    /\ retrying \in Nodes \cup {NoNode}
    /\ loop = "backoff" <=> retrying # NoNode
    /\ token \in BOOLEAN /\ stopRequested \in BOOLEAN /\ stamped \in BOOLEAN
    /\ task \in [Nodes -> {"none", "spawned", "executing"} \cup Answers]
    /\ runStatus \in RunStates
    /\ nodeStatus \in [Nodes -> NodeStates]
    /\ history \in [Nodes -> Nat]
    /\ outcome \in {"none", "ok", "cycle", "cancelled", "nodeFailed", "joinError"}

-----------------------------------------------------------------------------
(* Safety.                                                                 *)

\* A node the loop holds a slot for: its task is in the JoinSet, or its
\* backoff is being slept through.
Held == inflight \cup ({retrying} \ {NoNode})

\* No node is ever executed before all of its dependencies have succeeded,
\* in the run itself or in a rerun, although `completed` also holds failed
\* and skipped nodes (scheduler.rs ready filter, 431-453).
DependencyOrder ==
    \A n \in Nodes : starts[n] > 0 => \A m \in deps[n] : nodeStatus[m] = "Succeeded"

\* The respawn after a backoff does not look at the free slots; the bound
\* holds because the slot stays reserved while the loop sleeps.
ParallelismCap ==
    /\ Cardinality(Held) <= MaxParallelism
    /\ inflight = JoinSet

\* What the loop's local sets say of a node, in the words of the DagRun.
Shown(n) ==
    IF n \in results THEN "Succeeded"
    ELSE IF n \in failed THEN "Failed"
    ELSE IF n \in skipped THEN "Skipped"
    ELSE IF n \in Held THEN "Running"
    ELSE IF deps[n] = {} THEN "Ready" ELSE "Pending"

\* While the run goes on, and after it returned Ok, the DagRun shows of every
\* node exactly what the loop's local sets say of it.
MirrorAgrees ==
    round = 0 /\ (loop # "returned" \/ outcome = "ok") =>
        \A n \in Nodes : nodeStatus[n] = Shown(n)

\* A node a finished run leaves out of its report waits, through nodes that
\* are left out themselves, for a node the run skipped.
OnlySkipsHideNodes ==
    LET reported == results \cup failed \cup skipped
    IN  round = 0 /\ outcome = "ok" =>
            \A n \in Nodes \ reported : \E m \in deps[n] : m \notin results \cup failed

\* Once the token has fired or the run has returned, no executor is started
\* (a rerun resets the counts and has a token of its own).
NothingStartsAfterStop ==
    [][token \/ outcome # "none" => \A n \in Nodes : starts'[n] <= starts[n]]_vars

\* The inductive strengthening of DependencyOrder: which sets are disjoint,
\* what the DagRun shows of them, and that a rerun is confined to nodes whose
\* dependencies have succeeded.
Succeeded == {n \in Nodes : nodeStatus[n] = "Succeeded"}

SetsInv ==
    /\ inflight = JoinSet /\ retrying \notin inflight
    /\ Held \subseteq scope \ completed
    /\ completed = results \cup failed \cup skipped /\ completed \subseteq scope
    /\ FailFast = "On" => failed = {} /\ skipped = {}

RunInv ==
    round = 0 =>
        /\ scope = Nodes /\ Succeeded = results
        /\ \A n \in Held : nodeStatus[n] = "Running"
        /\ \A n \in Nodes :
              starts[n] > 0 => nodeStatus[n] \in {"Running", "Succeeded", "Failed"}
        /\ loop # "returned" =>
              \A n \in Nodes : starts[n] > 0 => n \in Held \cup completed

RerunInv ==
    round > 0 => /\ \A n \in scope : deps[n] \subseteq Succeeded
                 /\ \A n \in Nodes : starts[n] > 0 => n \in scope

\* Outside the loop no task is in the pool.
QuietInv == loop \in {"start", "finish", "returned"} => inflight = {}

OrderInv ==
    /\ SetsInv /\ RunInv /\ RerunInv
    /\ \A n \in Nodes : nodeStatus[n] \in {"Running", "Succeeded", "Failed"} =>
                          deps[n] \subseteq Succeeded

\* What the DagRun shows of the run, and how a run ends: the verdict follows
\* from the nodes that failed or were skipped, no node is left that only
\* waits for reported ones, and a rerun works on nodes still unsuccessful.
DisjointInv == results \cap (failed \cup skipped) = {} /\ failed \cap skipped = {}

HiddenWait == \A n \in Nodes \ completed : \E m \in deps[n] : m \notin results \cup failed

VerdictInv ==
    round = 0 =>
        /\ scope = Nodes
        /\ loop # "returned" => runStatus \in {"Pending", "Running"}
        /\ Held # {} => runStatus = "Running"
        /\ skipped # {} => failed # {}
        /\ loop \notin {"start", "returned"} => Acyclic
        /\ loop = "finish" \/ outcome = "ok" => HiddenWait
        /\ outcome = "ok" => runStatus = IF failed \cup skipped # {}
                                        THEN "CompletedWithFailures" ELSE "Completed"

RepairInv ==
    round > 0 =>
        /\ runStatus = "CompletedWithFailures"
        /\ loop # "returned" => \A n \in scope : nodeStatus[n] \in {"Failed", "Skipped"}

OutcomeInv == outcome # "none" => loop = "returned"

ReportInv ==
    /\ SetsInv /\ DisjointInv /\ MirrorAgrees
    /\ OutcomeInv /\ VerdictInv /\ RepairInv

-----------------------------------------------------------------------------
(* Refinement and liveness.                                                *)

\* The contract does not tell a root that waits from another node.
ContractStatus ==
    [n \in Nodes |-> IF nodeStatus[n] \in {"Pending", "Ready"} THEN "Waiting"
                     ELSE nodeStatus[n]]

Contract == INSTANCE DagRunContract WITH status <- ContractStatus, run <- runStatus

\* Every behaviour of the scheduler, seen through the DagRun, is one the
\* contract of a run allows.
ImplementsContract == Contract!Spec

\* If every execute call answers, each run and each rerun returns.
EventuallyReturns == []<>(loop = "returned")

\* A fired token ends the run even when no executor ever answers.
CancelTerminates == token ~> loop = "returned"

=============================================================================
