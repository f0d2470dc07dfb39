--------------------------- MODULE SubagentLifecycle ---------------------------
(***************************************************************************)
(* The registry of sub-agents (MultiAgentCoordinator, multi_agent/mod.rs)  *)
(* and everything that moves a sub-agent through its states: the DAG       *)
(* executor (dag/coordinator_executor.rs) with the turn threads of         *)
(* dag/subagent_dispatcher.rs, the retry loop of dispatch_subagent and the *)
(* kill_subagent tool (conversation.rs), and the restart that restores the *)
(* checkpoints (rusty-claude-cli/src/app.rs).  A run of a DAG may be cut   *)
(* short: its nodes are aborted, and the tasks that were to record their   *)
(* answers die with the runtime they were spawned on.                      *)
(*                                                                         *)
(* A job is a task handed to the harness.  A DAG job registers a new       *)
(* sub-agent for every attempt and may be killed while it runs in the      *)
(* background; a single job resets and restarts one sub-agent inside the   *)
(* main session, which cannot kill it meanwhile.  Every registry method    *)
(* holds the registry's mutex, so one action is at most one method.        *)
(***************************************************************************)
EXTENDS Naturals, FiniteSets

CONSTANTS
    Jobs, DagJobs,    \* tasks, and those run as nodes of a DAG
    DagRuns,          \* the nodes of each run of a DAG
    MaxTries,         \* max_retries + 1 of a node, max_attempts of a dispatch
    MaxId,            \* bound: sub-agents one process registers
    MaxRestarts,      \* bound: crashes of the process
    Nobody            \* no sub-agent, no job

ASSUME JobsAssumption ==
    IsFiniteSet(Jobs) /\ DagJobs \subseteq Jobs /\ Nobody \notin Jobs \cup Nat
ASSUME RunsAssumption == UNION DagRuns = DagJobs
ASSUME LimitsAssumption ==
    MaxTries \in [Jobs -> Nat \ {0}] /\ MaxId \in Nat /\ MaxRestarts \in Nat

Ids == 1..MaxId
NoFile == [status |-> "absent", resets |-> 0, validated |-> FALSE]

VARIABLES
    counter,                            \* id_counter
    status, resets, validated, owner,   \* the registry; owner is the task's job
    pc, cur, tries, outcome,            \* the driver of a job
    turn,                               \* the LLM turn of a sub-agent
    dropped,                            \* those whose execute_async task is gone
    tools,                              \* the tool_executor mutex of the DAG
    commands,                           \* kill commands queued on the bus
    killing, killStep,                  \* the kill_subagent call under way
    ckpt,                               \* .claw/checkpoints/{id}.json
    restarts

registry  == <<status, resets, validated, owner>>
drivers   == <<pc, cur, tries, outcome>>
killVars  == <<commands, killing, killStep>>
vars == <<counter, registry, drivers, turn, dropped, tools, killVars, ckpt, restarts>>

Terminal == {"Completed", "Failed", "Cancelled"}

Init ==
    /\ counter = 0
    /\ status = [i \in Ids |-> "absent"] /\ resets = [i \in Ids |-> 0]
    /\ validated = [i \in Ids |-> FALSE] /\ owner = [i \in Ids |-> Nobody]
    /\ pc = [j \in Jobs |-> "idle"] /\ cur = [j \in Jobs |-> Nobody]
    /\ tries = [j \in Jobs |-> 0] /\ outcome = [j \in Jobs |-> "none"]
    /\ turn = [i \in Ids |-> "none"] /\ dropped = {}
    /\ tools = "free"
    /\ commands = {} /\ killing = Nobody /\ killStep = "none"
    /\ ckpt = [i \in Ids |-> NoFile]
    /\ restarts = 0

-----------------------------------------------------------------------------
(* Methods of the coordinator: what they do to the status of sub-agent i.  *)

\* Operators named Mut_... are plausible bugs the checks are tried on; no
\* action of the specification uses one.
Mut_MayFailCancelled(i) == status[i] \in Terminal \cup {"Running"}
Mut_MayCancelCompleted(i) == status[i] \notin {"Failed", "Cancelled", "absent"}

MayComplete(i) == status[i] = "Running"
MayFail(i)     == status[i] \in {"Running", "Completed"}
MayCancel(i)   == status[i] \notin Terminal \cup {"absent"}
MayReset(i, limit) == status[i] \in {"Failed", "Completed"} /\ resets[i] + 1 < limit

\* complete, fail and cancel: an illegal transition is an ignored Err.
Complete(i) == status' = IF MayComplete(i) THEN [status EXCEPT ![i] = "Completed"] ELSE status
Fail(i) == status' = IF MayFail(i) THEN [status EXCEPT ![i] = "Failed"] ELSE status
CancelAgent(i) == status' = IF MayCancel(i) THEN [status EXCEPT ![i] = "Cancelled"] ELSE status

\* reset_for_retry, then start: the loop ignores the errors of both.
ResetAndStart(i, limit) ==
    IF MayReset(i, limit)
    THEN /\ status' = [status EXCEPT ![i] = "Running"]
         /\ resets' = [resets EXCEPT ![i] = @ + 1]
         /\ validated' = [validated EXCEPT ![i] = FALSE]
    ELSE UNCHANGED <<status, resets, validated>>

-----------------------------------------------------------------------------
(* The drivers.                                                            *)

Goto(j, where) == pc' = [pc EXCEPT ![j] = where]

Finished(j, verdict) ==
    /\ Goto(j, "done")
    /\ outcome' = [outcome EXCEPT ![j] = verdict]

\* A NodeError other than Cancelled: the scheduler retries the node.
NodeFailed(j) ==
    IF tries[j] < MaxTries[j] THEN Goto(j, "idle") /\ UNCHANGED outcome
                              ELSE Finished(j, "failed")

\* The main session runs one tool call at a time: a dispatch with its retry
\* loop, or a kill.
Dispatching == \E j \in Jobs \ DagJobs : pc[j] \notin {"idle", "done"}
MainFree == ~Dispatching /\ killStep = "none"

\* spawn: the next id, whatever the registry already holds under it.
Spawn(j) ==
    /\ pc[j] = "idle" /\ counter < MaxId
    /\ j \notin DagJobs => MainFree
    /\ counter' = counter + 1
    /\ status' = [status EXCEPT ![counter'] = "Created"]
    /\ resets' = [resets EXCEPT ![counter'] = 0]
    /\ validated' = [validated EXCEPT ![counter'] = FALSE]
    /\ owner' = [owner EXCEPT ![counter'] = j]
    /\ cur' = [cur EXCEPT ![j] = counter']
    /\ tries' = [tries EXCEPT ![j] = @ + 1]
    /\ Goto(j, "spawned")
    /\ UNCHANGED <<outcome, turn, tools, killVars, ckpt, restarts, dropped>>

\* start, alone or inside execute_async.  A DAG turn runs on a thread of its
\* own that first takes the shared tool executor.
Start(j) ==
    LET i == cur[j] IN
    /\ pc[j] = "spawned"
    /\ IF status[i] = "Created"
       THEN /\ status' = [status EXCEPT ![i] = "Running"]
            /\ turn' = [turn EXCEPT ![i] = IF j \in DagJobs THEN "waiting" ELSE "running"]
            /\ Goto(j, "turn") /\ UNCHANGED outcome
       ELSE NodeFailed(j) /\ UNCHANGED <<status, turn>>
    /\ UNCHANGED <<counter, resets, validated, owner, cur, tries, tools, killVars, ckpt,
                   restarts, dropped>>

Mut_TurnIgnoresPoison(i) ==
    /\ turn[i] = "waiting" /\ tools = "free"
    /\ tools' = "taken" /\ turn' = [turn EXCEPT ![i] = "running"]
    /\ UNCHANGED <<counter, registry, drivers, killVars, ckpt, restarts, dropped>>

\* The turn thread: a mutex poisoned by an earlier panic fails the turn.
TurnBegins(i) ==
    /\ turn[i] = "waiting"
    /\ \/ tools = "free" /\ tools' = "taken" /\ turn' = [turn EXCEPT ![i] = "running"]
       \/ tools = "poisoned" /\ tools' = tools /\ turn' = [turn EXCEPT ![i] = "error"]
    /\ UNCHANGED <<counter, registry, drivers, killVars, ckpt, restarts, dropped>>

Mut_ReleaseForgotten(i) == tools

Release(i) == IF owner[i] \in DagJobs THEN "free" ELSE tools

\* execute_subagent_llm ends by itself; a kill that arrives after its last
\* round is not seen.
TurnEnds(i) ==
    /\ turn[i] = "running"
    /\ \E answer \in {"ok", "error"} : turn' = [turn EXCEPT ![i] = answer]
    /\ tools' = Release(i)
    /\ UNCHANGED <<counter, registry, drivers, killVars, ckpt, restarts, dropped>>

\* A round of execute_subagent_llm consumes the kill command.
TurnKilled(i) ==
    /\ turn[i] = "running" /\ i \in commands
    /\ turn' = [turn EXCEPT ![i] = "error"]
    /\ commands' = commands \ {i}
    /\ tools' = Release(i)
    /\ UNCHANGED <<counter, registry, drivers, killing, killStep, ckpt, restarts, dropped>>

\* A panic on the turn thread drops the answer channel and poisons the mutex.
TurnPanics(i) ==
    /\ turn[i] = "running" /\ owner[i] \in DagJobs
    /\ turn' = [turn EXCEPT ![i] = "error"]
    /\ tools' = "poisoned"
    /\ UNCHANGED <<counter, registry, drivers, killVars, ckpt, restarts, dropped>>

\* The task of execute_async records the answer unless the sub-agent was
\* cancelled meanwhile.  It is detached: it runs without its driver too, but
\* not without its runtime.
Settle(i) ==
    /\ turn[i] \in {"ok", "error"} /\ owner[i] \in DagJobs /\ i \notin dropped
    /\ status' = IF status[i] = "Running"
                 THEN [status EXCEPT ![i] = IF turn[i] = "ok" THEN "Completed" ELSE "Failed"]
                 ELSE status
    /\ turn' = [turn EXCEPT ![i] = IF @ = "ok" THEN "settledOk" ELSE "settledError"]
    /\ UNCHANGED <<counter, resets, validated, owner, drivers, tools, killVars, ckpt,
                   restarts, dropped>>

\* execute resumes with the answer; complete() is then always a no-op.
Answered(j) ==
    LET i == cur[j] IN
    /\ pc[j] = "turn" /\ j \in DagJobs
    /\ \/ turn[i] = "settledOk" /\ Goto(j, "save") /\ UNCHANGED outcome
       \/ turn[i] = "settledError" /\ NodeFailed(j)
    /\ UNCHANGED <<counter, registry, cur, tries, turn, tools, killVars, ckpt, restarts, dropped>>

\* A node failed for good and FailFast::On ends the run: abort_all drops the
\* awaits of its other nodes, and those that wait for a slot never start.
Abandon(r) ==
    /\ \E j \in r : pc[j] = "done" /\ cur[j] # Nobody /\ outcome[j] = "failed"
    /\ \E j \in r : pc[j] # "done"
    /\ \A j \in r : pc[j] \in {"idle", "turn", "done"}
    /\ pc' = [j \in Jobs |-> IF j \in r THEN "done" ELSE pc[j]]
    /\ outcome' = [j \in Jobs |-> IF j \in r /\ pc[j] # "done" THEN "cancelled"
                                                             ELSE outcome[j]]
    /\ UNCHANGED <<counter, registry, cur, tries, turn, tools, killVars, ckpt, restarts, dropped>>

\* The runtime of the run ends, with the run (dag_run) or with the turn of the
\* main session (spawn_parallel_subagents), and takes the pending tasks of
\* execute_async along.  The turns are threads of their own and go on.
RuntimeEnds(r) ==
    LET pending == {i \in Ids : owner[i] \in r
                                 /\ turn[i] \in {"waiting", "running", "ok", "error"}}
    IN
    /\ \A j \in r : pc[j] = "done"
    /\ ~(pending \subseteq dropped)
    /\ dropped' = dropped \cup pending
    /\ UNCHANGED <<counter, registry, drivers, turn, tools, killVars, ckpt, restarts>>

\* save_checkpoint: std::fs::write truncates the file before it fills it.
SaveBegins(j) ==
    LET i == cur[j] IN
    /\ \/ pc[j] = "save"
       \/ pc[j] = "turn" /\ j \notin DagJobs /\ turn[i] \in {"ok", "error"}
    /\ ckpt' = [ckpt EXCEPT ![i].status = "torn"]
    /\ Goto(j, "saving")
    /\ UNCHANGED <<counter, registry, cur, tries, outcome, turn, tools, killVars, restarts, dropped>>

\* The single loop saves before it records the answer of the turn.
SaveEnds(j) ==
    LET i == cur[j] IN
    /\ pc[j] = "saving"
    /\ ckpt' = [ckpt EXCEPT ![i] = [status |-> status[i], resets |-> resets[i],
                                    validated |-> validated[i]]]
    /\ Goto(j, IF j \in DagJobs THEN "validate" ELSE "record")
    /\ UNCHANGED <<counter, registry, cur, tries, outcome, turn, tools, killVars, restarts, dropped>>

\* The single loop: Ok(result_ref), complete().
RecordOk(j) ==
    LET i == cur[j] IN
    /\ pc[j] = "record" /\ turn[i] = "ok"
    /\ Complete(i)
    /\ Goto(j, "validate")
    /\ UNCHANGED <<counter, resets, validated, owner, cur, tries, outcome, turn, tools,
                   killVars, ckpt, restarts, dropped>>

\* The single loop: Err(e), fail(), and perhaps another attempt.
RecordError(j) ==
    /\ pc[j] = "record" /\ turn[cur[j]] = "error"
    /\ Fail(cur[j])
    /\ IF tries[j] < MaxTries[j] THEN Goto(j, "upgrade") /\ UNCHANGED outcome
                                 ELSE Finished(j, "failed")
    /\ UNCHANGED <<counter, resets, validated, owner, cur, tries, turn, tools, killVars,
                   ckpt, restarts, dropped>>

\* validate, up to the release of the lock; only Completed may validate.
Validate(j) ==
    LET i == cur[j] IN
    /\ pc[j] = "validate"
    /\ Goto(j, IF status[i] = "Completed" THEN "gates" ELSE "rejected")
    /\ UNCHANGED <<counter, registry, cur, tries, outcome, turn, tools, killVars, ckpt,
                   restarts, dropped>>

\* The gates pass: validated is set without a second look at the status.
GatesPass(j) ==
    /\ pc[j] = "gates"
    /\ validated' = [validated EXCEPT ![cur[j]] = TRUE]
    /\ Finished(j, "completed")
    /\ UNCHANGED <<counter, status, resets, owner, cur, tries, turn, tools, killVars, ckpt,
                   restarts, dropped>>

\* A gate fails: the single loop may try again, if the error is retryable.
GatesFail(j) ==
    /\ pc[j] = "gates"
    /\ \/ Goto(j, "rejected")
       \/ j \notin DagJobs /\ tries[j] < MaxTries[j] /\ Goto(j, "upgrade")
    /\ UNCHANGED <<counter, registry, cur, tries, outcome, turn, tools, killVars, ckpt,
                   restarts, dropped>>

\* fail() after a failed validation.
Reject(j) ==
    /\ pc[j] = "rejected"
    /\ Fail(cur[j])
    /\ IF j \in DagJobs THEN NodeFailed(j) ELSE Finished(j, "failed")
    /\ UNCHANGED <<counter, resets, validated, owner, cur, tries, turn, tools, killVars,
                   ckpt, restarts, dropped>>

\* The cost limit or the end of the upgrade path stops the single loop (the
\* branch after a turn error has called fail() already), or it goes round
\* again on a stronger model.
UpgradeRefused(j) ==
    /\ pc[j] = "upgrade"
    /\ Fail(cur[j])
    /\ Finished(j, "failed")
    /\ UNCHANGED <<counter, resets, validated, owner, cur, tries, turn, tools, killVars,
                   ckpt, restarts, dropped>>

Upgrade(j) ==
    LET i == cur[j] IN
    /\ pc[j] = "upgrade"
    /\ ResetAndStart(i, MaxTries[j])
    /\ tries' = [tries EXCEPT ![j] = @ + 1]
    /\ turn' = [turn EXCEPT ![i] = "running"]
    /\ Goto(j, "turn")
    /\ UNCHANGED <<counter, owner, cur, outcome, tools, killVars, ckpt, restarts, dropped>>

-----------------------------------------------------------------------------
(* kill_subagent, and the restart of the process.                          *)

\* execute_kill_subagent looks at the status, then publishes a Command, then
\* cancels; the turn moves on in between.
KillBegins(i) ==
    /\ MainFree
    /\ owner[i] \notin Jobs \ DagJobs /\ MayCancel(i)
    /\ killing' = i /\ killStep' = "publish"
    /\ UNCHANGED <<counter, registry, drivers, turn, tools, commands, ckpt, restarts, dropped>>

\* The command reaches the sub-agent only while its turn is on the bus.
KillPublishes ==
    /\ killStep = "publish"
    /\ commands' = IF turn[killing] = "running" THEN commands \cup {killing} ELSE commands
    /\ killStep' = "cancel"
    /\ UNCHANGED <<counter, registry, drivers, turn, tools, killing, ckpt, restarts, dropped>>

KillCancels ==
    /\ killStep = "cancel"
    /\ CancelAgent(killing)
    /\ killing' = Nobody /\ killStep' = "none"
    /\ UNCHANGED <<counter, resets, validated, owner, drivers, turn, tools, commands, ckpt,
                   restarts, dropped>>

\* restore_from_checkpoint on every file that can be read: a sub-agent that was
\* running has no turn any more and goes back to Created.
Mut_RestoredTornToo(i) == ckpt[i].status # "absent"

Restored(i) == ckpt[i].status \notin {"absent", "torn"}
Revived(st) == IF st = "Running" THEN "Created" ELSE st

\* A new process: only the checkpoints survive, and id_counter starts again.
Restart ==
    /\ restarts < MaxRestarts /\ restarts' = restarts + 1
    /\ counter' = 0
    /\ status' = [i \in Ids |-> IF Restored(i) THEN Revived(ckpt[i].status)
                                               ELSE "absent"]
    /\ resets' = [i \in Ids |-> IF Restored(i) THEN ckpt[i].resets ELSE 0]
    /\ validated' = [i \in Ids |-> Restored(i) /\ ckpt[i].validated]
    /\ owner' = [i \in Ids |-> Nobody]
    /\ pc' = [j \in Jobs |-> IF pc[j] = "done" THEN "done" ELSE "idle"]
    /\ cur' = [j \in Jobs |-> Nobody]
    /\ tries' = [j \in Jobs |-> 0]
    /\ turn' = [i \in Ids |-> "none"] /\ dropped' = {} /\ tools' = "free"
    /\ commands' = {} /\ killing' = Nobody /\ killStep' = "none"
    /\ UNCHANGED <<outcome, ckpt>>

-----------------------------------------------------------------------------
Turn(i) == TurnBegins(i) \/ TurnEnds(i) \/ TurnKilled(i) \/ TurnPanics(i) \/ Settle(i)

Drive(j) ==
    \/ Start(j) \/ Answered(j) \/ SaveBegins(j) \/ SaveEnds(j)
    \/ RecordOk(j) \/ RecordError(j)
    \/ Validate(j) \/ GatesPass(j) \/ GatesFail(j) \/ Reject(j)
    \/ UpgradeRefused(j) \/ Upgrade(j)

Kill == (\E i \in Ids : KillBegins(i)) \/ KillPublishes \/ KillCancels

Next ==
    \/ \E j \in Jobs : Spawn(j) \/ Drive(j)
    \/ \E r \in DagRuns : Abandon(r) \/ RuntimeEnds(r)
    \/ \E i \in Ids : Turn(i)
    \/ Kill
    \/ Restart

Spec == Init /\ [][Next]_vars

\* Turns are bounded by their iteration limit and the client's timeouts, and
\* the drivers never wait on anything but a turn.
FairSpec ==
    /\ Spec
    /\ \A j \in Jobs : WF_vars(Drive(j))
    /\ \A i \in Ids : WF_vars(Turn(i))
=============================================================================
