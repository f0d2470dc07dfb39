----------------------------- MODULE DagScheduler -----------------------------
(***************************************************************************)
(* The asynchronous DAG scheduler of the multi-agent runtime               *)
(* (runtime/src/multi_agent/dag/scheduler.rs) together with the JoinSet    *)
(* tasks it spawns and the DagRun it mirrors its progress into             *)
(* (dag/mod.rs, dag/types.rs).                                             *)
(*                                                                         *)
(* The run loop has no await point between two of its program points       *)
(* below, so one action is one stretch between awaits.  Round 0 is         *)
(* run_inner on the whole graph; a later round is a call of retry_failed   *)
(* or recover_skipped, which runs run_inner again on an edgeless subgraph  *)
(* in a sub-scheduler of its own that is not bridged to the DagRun.        *)
(***************************************************************************)
EXTENDS Naturals, FiniteSets

CONSTANTS
    Nodes,            \* node ids of the DAG
    Graphs,           \* the dependency relations depends_on to start from
    MaxRetries,       \* DagNode::max_retries of every node
    MaxParallelism,   \* DagScheduler::max_parallelism, at least 1
    Overrides,        \* arguments of with_fail_fast, "none" when not called
    MaxRounds,        \* bound: calls of retry_failed / recover_skipped
    CallerChecks,     \* the caller keeps the precondition of recover_skipped
    NoNode            \* no node is in backoff

ASSUME NodesAssumption == IsFiniteSet(Nodes) /\ NoNode \notin Nodes
ASSUME GraphsAssumption == Graphs \subseteq [Nodes -> SUBSET Nodes]
ASSUME BoundsAssumption ==
    /\ MaxRetries \in [Nodes -> Nat]
    /\ MaxParallelism \in Nat \ {0}
    /\ MaxRounds \in Nat
ASSUME ModeAssumption ==
    Overrides \subseteq {"none", "On", "Off"} /\ CallerChecks \in BOOLEAN

VARIABLES
    deps, override,   \* depends_on of every node; how with_fail_fast was called
    scope, round,     \* nodes of the graph being run; 0 or the retry call
    loop,             \* program point of run_inner
    completed, failed, skipped, results, inflight, attempts,  \* its locals
    retrying,         \* the node whose backoff the loop is sleeping in
    token,            \* the CancellationToken of the scheduler that runs
    stopRequested,    \* cancel() was called on the caller's scheduler
    task,             \* JoinSet entry of a node
    starts,           \* history: executor.execute calls of this round
    runStatus, stamped, nodeStatus, history,   \* the DagRun
    outcome           \* what the last run_inner returned

localVars  == <<completed, failed, skipped, results, attempts>>
roundVars  == <<deps, override, scope, round>>
dagRunVars == <<runStatus, stamped, nodeStatus, history>>
vars == <<roundVars, loop, localVars, inflight, retrying, token,
          stopRequested, task, starts, dagRunVars, outcome>>

-----------------------------------------------------------------------------
(* The graph.                                                              *)

\* DagScheduler::new stores FailFast::Off; with_fail_fast replaces it.
FailFast == IF override = "none" THEN "Off" ELSE override

\* build_subgraph clears depends_on, so a retry round has no edges.
Deps(n) == IF round = 0 THEN deps[n] ELSE {}

\* No nonempty set of nodes each depends on a member of the set, which is
\* what Kosaraju's components plus the self-loop test decide.
Acyclic == \A S \in (SUBSET scope) \ {{}} : \E n \in S : Deps(n) \cap S = {}

\* Operators named Mut_... are plausible bugs the checks are tried on; no
\* action of the specification uses one.
Mut_CandidatesResultsOnly ==
    {n \in scope \ (completed \cup inflight) : Deps(n) \subseteq results}

\* DagGraph::ready_nodes, without the nodes already in flight.
Candidates == {n \in scope \ (completed \cup inflight) : Deps(n) \subseteq completed}

Mut_SkipDirectOnly ==
    {n \in Candidates : FailFast = "Off" /\ Deps(n) \cap failed # {}}

\* The filter that turns a candidate into a skipped node under FailFast::Off.
NewlySkipped ==
    {n \in Candidates : FailFast = "Off" /\ Deps(n) \cap (failed \cup skipped) # {}}

Ready == Candidates \ NewlySkipped

JoinSet == {n \in Nodes : task[n] # "none"}

Mut_SlotsIgnoreInflight == MaxParallelism

FreeSlots ==
    IF Cardinality(inflight) <= MaxParallelism
    THEN MaxParallelism - Cardinality(inflight) ELSE 0

\* ready.iter().take(available_slots), in an arbitrary node order.
IsLaunch(L) ==
    /\ L \subseteq Ready
    /\ Cardinality(L) <= FreeSlots
    /\ Cardinality(L) = FreeSlots \/ L = Ready

-----------------------------------------------------------------------------
(* The DagRun of DagStore: bridged in round 0 only.                        *)

Mut_StampSkipsSuccess(S, status) ==
    nodeStatus' = IF round = 0 /\ status # "Succeeded"
                  THEN [n \in Nodes |-> IF n \in S THEN status ELSE nodeStatus[n]]
                  ELSE nodeStatus
Mut_StampInReruns(S, status) ==
    nodeStatus' = [n \in Nodes |-> IF n \in S THEN status ELSE nodeStatus[n]]

StampNodes(S, status) ==
    nodeStatus' = IF round = 0
                  THEN [n \in Nodes |-> IF n \in S THEN status ELSE nodeStatus[n]]
                  ELSE nodeStatus

\* update_run_status; CompletedWithFailures is not in its list of statuses
\* that stamp completed_at.
StampRun(status) ==
    /\ runStatus' = IF round = 0 THEN status ELSE runStatus
    /\ stamped' = (stamped \/ (round = 0 /\ status \in {"Completed", "Failed", "Cancelled"}))

\* Every early return: abort_all, then the JoinSet is dropped.
Abort(result, status) ==
    /\ loop' = "returned"
    /\ outcome' = result
    /\ task' = [n \in Nodes |-> "none"]
    /\ inflight' = {}
    /\ retrying' = NoNode
    /\ StampRun(status)

-----------------------------------------------------------------------------
(* The scheduler's own steps.                                              *)

\* A new DagRun has its roots Ready and the other nodes Pending.
Init ==
    /\ deps \in Graphs /\ override \in Overrides
    /\ scope = Nodes /\ round = 0
    /\ loop = "start"
    /\ completed = {} /\ failed = {} /\ skipped = {} /\ results = {}
    /\ inflight = {}
    /\ attempts = [n \in Nodes |-> 0]
    /\ retrying = NoNode
    /\ token = FALSE /\ stopRequested = FALSE
    /\ task = [n \in Nodes |-> "none"]
    /\ starts = [n \in Nodes |-> 0]
    /\ runStatus = "Pending" /\ stamped = FALSE
    /\ nodeStatus = [n \in Nodes |-> IF deps[n] = {} THEN "Ready" ELSE "Pending"]
    /\ history = [n \in Nodes |-> 0]
    /\ outcome = "none"

\* validate_acyclic: a cyclic graph returns before the DagRun is touched.
Validate ==
    /\ loop = "start"
    /\ IF Acyclic THEN loop' = "head" /\ UNCHANGED outcome
                  ELSE loop' = "returned" /\ outcome' = "cycle"
    /\ UNCHANGED <<roundVars, localVars, inflight, retrying, token,
                   stopRequested, task, starts, dagRunVars>>

\* The token check at the head of the loop.
CheckToken ==
    /\ loop = "head" /\ ~token
    /\ loop' = "spawn"
    /\ UNCHANGED <<roundVars, localVars, inflight, retrying, token,
                   stopRequested, task, starts, dagRunVars, outcome>>

CancelledAtHead ==
    /\ loop = "head" /\ token
    /\ Abort("cancelled", "Cancelled")
    /\ UNCHANGED <<roundVars, localVars, token, stopRequested, starts,
                   nodeStatus, history>>

\* Skip what a failed dependency rules out, spawn what fits in the free
\* slots, then wait for a task, or stop when none is left and none was ready.
Dispatch(L) ==
    /\ loop = "spawn" /\ IsLaunch(L)
    /\ skipped' = skipped \cup NewlySkipped
    /\ completed' = completed \cup NewlySkipped
    /\ inflight' = inflight \cup L
    /\ task' = [n \in Nodes |-> IF n \in L THEN "spawned" ELSE task[n]]
    /\ nodeStatus' = IF round = 0
                     THEN [n \in Nodes |-> IF n \in L THEN "Running"
                                           ELSE IF n \in NewlySkipped THEN "Skipped"
                                           ELSE nodeStatus[n]]
                     ELSE nodeStatus
    /\ runStatus' = IF round = 0 /\ L # {} THEN "Running" ELSE runStatus
    /\ loop' = IF JoinSet \cup L # {} THEN "select"
               ELSE IF Ready = {} THEN "finish" ELSE "head"
    /\ UNCHANGED <<roundVars, failed, results, attempts, retrying, token,
                   stopRequested, starts, stamped, history, outcome>>

Mut_ReapLeaksSlot(n) == inflight' = inflight /\ task' = [task EXCEPT ![n] = "none"]

Reap(n) == inflight' = inflight \ {n} /\ task' = [task EXCEPT ![n] = "none"]

JoinSuccess(n) ==
    /\ loop = "select" /\ task[n] = "ok"
    /\ Reap(n)
    /\ completed' = completed \cup {n}
    /\ results' = results \cup {n}
    /\ StampNodes({n}, "Succeeded")
    /\ loop' = "head"
    /\ UNCHANGED <<roundVars, failed, skipped, attempts, retrying, token,
                   stopRequested, starts, runStatus, stamped, history, outcome>>

\* NodeError::Cancelled is not retried: it cancels the whole DAG.
JoinCancelled(n) ==
    /\ loop = "select" /\ task[n] = "cancelled"
    /\ token' = TRUE
    /\ StampNodes({n}, "Failed")
    /\ Abort("cancelled", "Cancelled")
    /\ UNCHANGED <<roundVars, localVars, stopRequested, starts, history>>

\* The loop itself sleeps through the backoff: nothing is joined meanwhile.
JoinRetry(n) ==
    /\ loop = "select" /\ task[n] = "error"
    /\ attempts[n] < MaxRetries[n]
    /\ Reap(n)
    /\ attempts' = [attempts EXCEPT ![n] = @ + 1]
    /\ retrying' = n
    /\ loop' = "backoff"
    /\ UNCHANGED <<roundVars, completed, failed, skipped, results, token,
                   stopRequested, starts, dagRunVars, outcome>>

BackoffElapsed ==
    /\ loop = "backoff" /\ ~token
    /\ inflight' = inflight \cup {retrying}
    /\ task' = [task EXCEPT ![retrying] = "spawned"]
    /\ StampNodes({retrying}, "Running")
    /\ retrying' = NoNode
    /\ loop' = "head"
    /\ UNCHANGED <<roundVars, localVars, token, stopRequested, starts,
                   runStatus, stamped, history, outcome>>

Mut_BackoffCancelGoesOn ==
    /\ loop = "backoff" /\ token
    /\ StampNodes({retrying}, "Failed")
    /\ loop' = "head"
    /\ UNCHANGED <<roundVars, localVars, inflight, retrying, token, stopRequested,
                   task, starts, runStatus, stamped, history, outcome>>

BackoffCancelled ==
    /\ loop = "backoff" /\ token
    /\ StampNodes({retrying}, "Failed")
    /\ Abort("cancelled", "Cancelled")
    /\ UNCHANGED <<roundVars, localVars, token, stopRequested, starts, history>>

\* Retries exhausted under FailFast::Off: record the failure and go on.
JoinFailedOff(n) ==
    /\ loop = "select" /\ task[n] = "error"
    /\ attempts[n] >= MaxRetries[n] /\ FailFast = "Off"
    /\ Reap(n)
    /\ failed' = failed \cup {n}
    /\ completed' = completed \cup {n}
    /\ StampNodes({n}, "Failed")
    /\ loop' = "head"
    /\ UNCHANGED <<roundVars, skipped, results, attempts, retrying, token,
                   stopRequested, starts, runStatus, stamped, history, outcome>>

\* Retries exhausted under FailFast::On: cancel the whole DAG.
JoinFailedOn(n) ==
    /\ loop = "select" /\ task[n] = "error"
    /\ attempts[n] >= MaxRetries[n] /\ FailFast = "On"
    /\ token' = TRUE
    /\ StampNodes({n}, "Failed")
    /\ Abort("nodeFailed", "Failed")
    /\ UNCHANGED <<roundVars, localVars, stopRequested, starts, history>>

\* A spawned task panicked: join_next returns a JoinError without a node id.
JoinPanicked(n) ==
    /\ loop = "select" /\ task[n] = "panicked"
    /\ token' = TRUE
    /\ Abort("joinError", "Failed")
    /\ UNCHANGED <<roundVars, localVars, stopRequested, starts, nodeStatus, history>>

\* append_retry_attempts, which does nothing in round 0: a NodeAttempt for
\* every success and failure, and the successes promoted in the DagRun.
AppendAttempts ==
    LET tried == IF round = 0 THEN {} ELSE results \cup failed
    IN  /\ history' = [n \in Nodes |-> IF n \in tried THEN history[n] + 1 ELSE history[n]]
        /\ nodeStatus' = [n \in Nodes |-> IF n \in tried \cap results THEN "Succeeded"
                                           ELSE nodeStatus[n]]

\* The break out of the loop.
Finish ==
    /\ loop = "finish"
    /\ loop' = "returned"
    /\ outcome' = "ok"
    /\ StampRun(IF failed \cup skipped # {} THEN "CompletedWithFailures" ELSE "Completed")
    /\ AppendAttempts
    /\ UNCHANGED <<roundVars, localVars, inflight, retrying, token,
                   stopRequested, task, starts>>

-----------------------------------------------------------------------------
(* The spawned tasks and the callers.                                      *)

Mut_TaskStartIgnoresToken(n) ==
    /\ task[n] = "spawned"
    /\ task' = [task EXCEPT ![n] = "executing"]
    /\ starts' = [starts EXCEPT ![n] = @ + 1]
    /\ UNCHANGED <<roundVars, loop, localVars, inflight, retrying, token,
                   stopRequested, dagRunVars, outcome>>

\* First poll of a spawned task; the select is biased to the child token.
TaskStart(n) ==
    /\ task[n] = "spawned"
    /\ IF token
       THEN task' = [task EXCEPT ![n] = "cancelled"] /\ UNCHANGED starts
       ELSE /\ task' = [task EXCEPT ![n] = "executing"]
            /\ starts' = [starts EXCEPT ![n] = @ + 1]
    /\ UNCHANGED <<roundVars, loop, localVars, inflight, retrying, token,
                   stopRequested, dagRunVars, outcome>>

\* The executor answers: a result, an error, Cancelled of its own, or a panic.
TaskAnswer(n) ==
    /\ task[n] = "executing" /\ ~token
    /\ \E answer \in {"ok", "error", "cancelled", "panicked"} :
          task' = [task EXCEPT ![n] = answer]
    /\ UNCHANGED <<roundVars, loop, localVars, inflight, retrying, token,
                   stopRequested, starts, dagRunVars, outcome>>

Mut_TaskNeverCancelled(n) == task[n] = "executing" /\ token /\ UNCHANGED vars

TaskCancelled(n) ==
    /\ task[n] = "executing" /\ token
    /\ task' = [task EXCEPT ![n] = "cancelled"]
    /\ UNCHANGED <<roundVars, loop, localVars, inflight, retrying, token,
                   stopRequested, starts, dagRunVars, outcome>>

\* DagScheduler::cancel.  A retry round runs under the sub-scheduler's own
\* token, which this call does not reach.
Cancel ==
    /\ ~stopRequested
    /\ loop # "returned"
    /\ stopRequested' = TRUE
    /\ token' = IF round = 0 THEN TRUE ELSE token
    /\ UNCHANGED <<roundVars, loop, localVars, inflight, retrying, task,
                   starts, dagRunVars, outcome>>

\* The caller reruns a set of failed nodes (retry_failed) or of skipped nodes
\* (recover_skipped) after run_with_details returned Ok.
Rerun(S) ==
    /\ loop = "returned" /\ outcome = "ok" /\ round < MaxRounds
    /\ S # {}
    /\ \/ \A n \in S : nodeStatus[n] = "Failed"
       \/ /\ \A n \in S : nodeStatus[n] = "Skipped"
          /\ CallerChecks => \A n \in S : \A m \in deps[n] : nodeStatus[m] = "Succeeded"
    /\ round' = round + 1 /\ scope' = S
    /\ loop' = "start" /\ outcome' = "none"
    /\ completed' = {} /\ failed' = {} /\ skipped' = {} /\ results' = {}
    /\ attempts' = [n \in Nodes |-> 0]
    /\ starts' = [n \in Nodes |-> 0]
    /\ token' = FALSE
    /\ UNCHANGED <<deps, override, inflight, retrying, stopRequested, task, dagRunVars>>

Join(n) ==
    \/ JoinSuccess(n) \/ JoinCancelled(n) \/ JoinRetry(n)
    \/ JoinFailedOff(n) \/ JoinFailedOn(n) \/ JoinPanicked(n)

Scheduler ==
    \/ Validate \/ CheckToken \/ CancelledAtHead
    \/ \E L \in SUBSET Nodes : Dispatch(L)
    \/ \E n \in Nodes : Join(n)
    \/ BackoffElapsed \/ BackoffCancelled
    \/ Finish

Next ==
    \/ Scheduler
    \/ \E n \in Nodes : TaskStart(n) \/ TaskAnswer(n) \/ TaskCancelled(n)
    \/ Cancel
    \/ \E S \in SUBSET Nodes : Rerun(S)

Spec == Init /\ [][Next]_vars

\* The scheduler's thread drives the run loop and polls every spawned task.
PollFairness ==
    /\ WF_vars(Scheduler)
    /\ \A n \in Nodes : WF_vars(TaskStart(n)) /\ WF_vars(TaskCancelled(n))

\* In addition every execute call answers (turns are bounded by the
\* dispatcher's iteration limit and the API client's timeouts).
AnswerFairness == \A n \in Nodes : WF_vars(TaskAnswer(n))

PollSpec == Spec /\ PollFairness
FairSpec == PollSpec /\ AnswerFairness
=============================================================================
