# Verification of claw-code

claw-code is a coding-agent harness written in Rust (`src/rust/crates`). A
conversation loop lets a model call tools; around it the `runtime` crate runs
sub-agents along a dependency graph, keeps a registry of them with checkpoints,
passes messages between sessions and processes, guards files against concurrent
writers, keeps the processes of MCP servers, and lets a background pipeline repair
the harness itself.

This directory models the concurrent core of that system in TLA+, checks it with
TLC on small instances, and proves some of its properties with TLAPS for every
instance. `PROJECT.json` maps each definition to the lines it translates.

    tlc -config DagRun.cfg MCDagScheduler.tla      # a run
    tlapm DagScheduler_proofs.tla                  # a proof

Contents: [inventory](#1-inventory) ·
[how the parts interact](#2-how-the-parts-interact) ·
[modules](#3-modules-and-their-correspondence-to-the-code) ·
[runs and bounds](#4-runs-what-they-show-and-their-bounds) ·
[fairness](#5-fairness) · [proofs](#6-what-is-proved) ·
[divergences](#7-divergences-between-code-and-documentation) ·
[limits](#8-what-is-not-modelled) · [plan](#9-plan)

## 1. Inventory

Paths are relative to `src/rust/crates/runtime/src` unless they name a crate.
"Status" is the one of `PROJECT.json`.

| Component | State it keeps | Operations | What is hard | Correct means | Status |
|---|---|---|---|---|---|
| Asynchronous DAG scheduler: `multi_agent/dag/{scheduler,types,mod}.rs` | local sets completed, failed, skipped, results, inflight; attempts; a cancellation token; the `DagRun` in `DagStore` | `run`, `cancel`, `retry_failed`, `recover_skipped` | tasks finish in any order; cancellation races a backoff; `completed` also holds failures; retries do not consult the free slots | dependency order, parallelism cap, the DagRun agrees with the loop, every run returns | modelled |
| Sub-agent registry and drivers: `multi_agent/mod.rs`, `dag/{coordinator_executor,subagent_dispatcher,executor_trait}.rs`, parts of `conversation.rs` | id counter, status, resets, validated; a turn thread per sub-agent; the shared tool executor; checkpoint files | spawn, start, complete, fail, cancel, reset, validate, checkpoint, restore, kill | kill in three steps against a moving turn; validation outside the lock; panics that poison a mutex; crashes in the middle of a checkpoint; records that die with the runtime of a run | verdicts agree with the registry, cancelled is final, waits end, ids are unique | partly |
| File guard: `multi_agent/file_guard.rs`, tool loops of `conversation.rs` | a flag and a condition variable per key | acquire with timeout, release | test, wait and notification under no common mutex; the key depends on the existence of the file | one owner, mutual exclusion on a file, no wait for ever | modelled |
| Session bus: `session_bus.rs`, its readers in `rusty-claude-cli`, `im-bridge` | peers, queues, watchers, mailboxes (directories) | register, publish, watch, read, mark read, consume commands, prune, leave, poll, inject | peers leave while others publish; drains in two sections; files that cannot be archived; queues at their limit | permissions, order, no silent loss, nothing survives its peer | partly |
| Conversation loop: `conversation.rs` | messages, iteration limits, what may still be recovered, signals of the user | a turn, in the TUI, the REPL and the ACP shell | interrupts between any two steps, restarts of an iteration, three hosts that keep different sessions after a failure | requests show results for tool uses and tool uses for results, a turn ends | partly |
| Session persistence: `session.rs`, `session_control.rs`; compaction: `compact.rs` | JSONL file, rotated logs; boundary and kept messages | append, rewrite, rotate, load, compact | crash between rename and write, torn lines, boundaries inside a batch of results | the file covers the session, what is loaded is well formed | partly |
| Evolution pipeline: `evolution_{lock,auto,inbox,runner,gate}.rs` | lock file, inbox, attempt counts, quarantine, cooldown stamp, the source tree and the program | report, spawn, acquire, repair, inspect, test, install, mark, quarantine | lock reclaim by several processes, check-then-act on the cooldown, crashes between steps, a tree nobody resets | one pipeline at a time, what is installed was tested, proposals settle | partly |
| MCP servers: `mcp_stdio.rs`, `mcp_tool_bridge.rs`, `plugin_state.rs` of rusty-claude-cli | server processes, handshakes, routes, what the bridge lists, a mutex a panic may poison | discover, call, retry, reset, shut down | timeouts against late answers, retries inside retries, runtimes that end before the pipes registered with them, a runtime inside a runtime | an answer belongs to its request, a tool call is sent once, failures are earned, calls return | partly |
| Background sessions: `bg.rs` | record files | start, list, kill | records changed without a lock | a process that was killed stays Killed | not modelled |
| Worker boot: `worker_boot.rs`, `trust_resolver.rs` | status of a terminal worker, prompt in flight, receipts | observe, send, restart, terminate | stale screens, replayed and misdelivered prompts | a prompt is delivered once, to a ready worker | not modelled |
| Task, team and cron registries: `task_registry.rs`, `team_cron_registry.rs` | tables under a mutex, files | create, stop, set status, flush | guarded and unguarded transitions; failed flushes | terminal is final | not modelled |
| Validation, handoff, manifest; sync DAG executor; loop control; goal and task state; prompt and memory; histories; recovery; lane policy; approval tokens; planner; permissions; tools; hooks; LSP | see `PROJECT.json` | – | mostly text, tables and one thread | – | not modelled, with the reason there |
| Other crates: tools, plugins, api, rusty-claude-cli, commands, im-bridge, web-bridge, claw-acp, claw-shell, telemetry, test equipment; the Python port `src/src` | – | – | I/O and user interface | – | not modelled |

The hazards, each at its line and with the properties that watch it, are the
"hazards" of `PROJECT.json`.

## 2. How the parts interact

* `dag_run` (tools crate) starts `DagScheduler::run` on a thread with a
  single-threaded runtime, which ends when `run` has returned, with every task
  still on it. The scheduler spawns one JoinSet task per node; the task calls the
  node executor under a child of the scheduler's token.
* The executor (`CoordinatorExecutor`) registers a fresh sub-agent for every
  attempt and awaits its turn, which runs on a thread that takes the tool
  executor all DAG turns of the process share; a task on the run's runtime
  records the answer. A failed attempt comes back to
  the scheduler as a `NodeError`, which it retries or not.
* `dispatch_subagent` does the same for a single task inside the main session
  (it holds `&mut self`), with a retry loop that resets one sub-agent.
* A turn registers its sub-agent on the session bus, consumes commands between
  two rounds (`kill_subagent` publishes one), and when it ends is marked Done,
  pruned, and announced.
* Tool calls of scoped sub-agents and of the main session take the write lock
  of the file they name.
* A turn appends every message to the session file; a new process, `/resume` or
  an upgrade starts from what the file holds.
* A gap report goes to the inbox and starts a pipeline, a process of its own. It
  takes the lock file, has a child repair the first proposal in the source tree,
  and installs what the tree builds to.
* The tools of MCP servers reach one manager on two ways. The session makes it and
  runs the first discovery on a runtime that lives as long as the session; its
  tools, which come later and from inside the runtime of a turn, panic. The bridge
  behind the base tool `MCP` makes a thread and a runtime for each call.
* An IM bridge has a mailbox for each of its channels, one registry of peers, and one
  poller that walks the mailboxes.
* Processes share only files: mailboxes, checkpoints, session files, the
  evolution lock, the inbox, the source tree.

The modules follow these seams. `DagScheduler` takes the answers of the executor
as nondeterministic input; `SubagentLifecycle` models what happens behind such
an answer, and takes the retries of the scheduler as a count of tries; what both
promise is what the other assumes: an execute call answers
(`AwaitEnds` of one, `AnswerFairness` of the other). The kill command is a set
in `SubagentLifecycle` and a message in `SessionBus`. A turn of a sub-agent and a
tool are one step of `ConversationTurn`; `EvolutionPipeline` extends `EvolutionLock`,
and a proof shows that nothing in it touches the lock outside the lock's own
specification.

## 3. Modules and their correspondence to the code

Each component has a module with its state and actions, a `...Props` module with
its properties, an `MC...` module with the data of the instances, and for some a
`..._proofs` module. Operators named `Mut_...` are plausible bugs the
properties were tried on (a dropped guard, a missing reset); no action uses one.

### DagScheduler

The run loop is asynchronous with few await points. Everything between two of
them is one action: `Validate` (the cycle check), `CheckToken` /
`CancelledAtHead` (the token test at the head), `Dispatch(L)` (the skips of this
pass and the spawn of a batch L), one `Join...` per outcome of `join_next`,
`BackoffElapsed` / `BackoffCancelled`, `Finish`. The JoinSet tasks are
`TaskStart`, `TaskAnswer`, `TaskCancelled`; a task is polled once before it
executes, with the `select!` biased to the token. The callers are `Cancel` and
`Rerun(S)`, which stands for `retry_failed` and `recover_skipped` (`round` counts
them, and a rerun sees no dependencies because `build_subgraph` keeps only
those inside the set and clears the rest). `runStatus`, `nodeStatus` and `history` are the
DagRun; `stamped` is whether `completed_at` was written. `FailFast` is the
option as `new` and `with_fail_fast` leave it. Progress events, durations and
the text of results are left out; `MaxRounds` bounds the reruns, and
`CallerChecks` says whether the caller of `recover_skipped` keeps the
precondition its comment states.

`DagRunContract` is the abstract specification: what a watcher of the DagRun is
promised, without a scheduler. `Contract` in `DagSchedulerProps` maps the
DagRun to it.

### SubagentLifecycle

Every registry method holds one mutex, so an action is at most one method. A job
has a driver (`pc`, `cur`, `tries`, `outcome`), a sub-agent has a status and a
turn. Drivers: `Spawn`, `Start`, `Answered`, `SaveBegins`/`SaveEnds` (a
checkpoint is truncated, then filled), `RecordOk`/`RecordError`, `Validate`, then
`GatesPass` or `GatesFail` (the lock is released for the gates), `Reject`,
`Upgrade`/`UpgradeRefused`, `Abandon` (the scheduler drops the await). Turns:
`TurnBegins`, `TurnEnds`, `TurnKilled`, `TurnPanics`, and `Settle`, the task that
records the answer. `DagRuns` says which DAG jobs are nodes of one run, that is, share
a runtime; `RuntimeEnds` is its end, once none of these jobs is driven any more: the
records still pending on it are lost (`dropped`), while the turns, which are threads,
go on. The kill tool is `KillBegins`, `KillPublishes`, `KillCancels`. `Restart` is a crash and the start
of a new process. The manifest file, costs and
the setters of capability, workspace and tools change nothing these properties
look at and are left out.

### FileGuard

A writer is a session in a tool call. `Call(w, p, f)` is the call with the path p
in the input field f (the two tool loops look at different fields); `Try` is the
compare-and-swap; `Park` the wait, in a step of its own because no mutex joins
it to the test; `Timeout`, `SpuriousWake`; `WriteBegins`, `Release`, `Notify`
(store, then `notify_one`). `KeyOf` is `normalize_path`: the canonical path if
the file exists, the path as it was given otherwise. `early` is history: did a call
name its file before it existed.

### SessionBus

A process has a bus; a session is a front (main session, IM channel, panel) or a
sub-agent. An action is one section under the locks: `Compose` (`bus_send`
decides whether the message is a command), `Publish`, `WriteFile` (one mailbox
file per session), `Watch`, `Unwatch`, `ReadUnread` and `MarkRead` (the two
sections of every drain), `Register`, `ConsumeCommands`, `End`, `Prune` with
`LeavePeers`, `LeaveUnread`, `LeaveWatch`, `Handoff`, `Return`, and the poller's
`ConsumeMailbox`, `Take`, `RegisterRemote`, `Inject`. Routing is pure: `Direct`
(targets), `Mirrors` (watchers), `Routes` (mailboxes). A file may stay in its
mailbox because the rename that archives it failed; a file that could not be
written is lost. A process may have several mailboxes (`Boxes`), which the poller
takes one at a time against the one registry of the process. Left out: the chat
message the IM bridge sends beside a queue it delivers to, the rate limit, the hop
count (always 0), the unread counter beside a peer (it counts dropped messages too, by intention, see the
test at session_bus.rs:1076) and times; the Done peers to prune are any choice.
The order of files in a mailbox is the order they were written in; the code sorts
by name, where two sequence numbers of different length within one millisecond
sort as text.

### ConversationTurn

The session of the running turn (`mem`), the one its host will start the next turn
from (`held`) and the file (`file`: does it exist, its lines, is the last one
open). `run_turn_async` is one thread; an action is the stretch up to the next
push, request, tool or look at a signal: `TurnBegins`, `Iterate` (limit and
interjections), `GiveUp`, `Interrupted`, `UpgradeNotice`/`PassGate`, `Send`,
`ApiFails`, `PromptTooLong`, `Reply`, `Close` (results for the tools an interrupt
during the stream keeps from running), `Final`, `ToolDone`, `ToolsInterrupted`,
`LoopAbort` with `Prune`, `Review`, `Save`. `Fail` is what each host does with an
error of a turn. `PushOk`/`PushFails` go through `Appends`, which lists what an
append may leave behind (half a line, a line without its end, a rotation whose new
file is missing); `Loadable` and `Restart` are the load, `Crash` falls anywhere.
A message is a kind, a number and a count of tools; when a heuristic fires
(branch retry, punchback, compaction, review) is open. `cut` is a history
variable.

### EvolutionLock, EvolutionPipeline

`EvolutionLock` is the lock file alone, every call on the file system an action:
`TryCreate` (`create_new`), `Fill`, `FillFails`, `Judge` (`is_stale`), `Reclaim`
and `Release` (removal by name), `Die`, `LockAges`. `slip` is a history
variable: a stale verdict on the file of a living holder, or on one that another
process has judged and not yet removed. `EvolutionPipeline` extends it with the
sessions (`Report`, `Gate`, `Spawn`, `Stamp`: the cooldown is read first and
written last) and the steps of `run_pipeline`, one per call that can fail. The
tree is what a build and the checks can tell of it: number of commits, whether
HEAD's own files are protected, whether anything protected is changed, whether
the tests pass, which proposals are repaired. `Pick` reads `head_before` and
`Inspect` the head after the child; either may fail, and the first then yields
`NoHead`, the empty string of `head_sha`, from which every head differs. `blind` is
history: the proposals accepted that way.

### McpManager

The manager's mutex admits one call at a time (`op`), beside which the server
processes act: `Answer`, `Ask`, `Dies`. `Init` is the discovery at the start of a
session, `Bridge` begins a call of the base tool. A call walks through `Check` (has
the process exited), `Spawn`, `Shake`, `Send`, `Receive`/`HangUp`/`Timeout` and
`Return`; `Fails` is what the handshake, the loop around a discovery, and the caller
make of an error, and `Reset` the kill. A process has a home, the runtime it was
started on; `Orphaned` is the end of a runtime, at the `Return` of a bridge call and
when the session lets go of its own (`Dropped`). On Unix the pipes of a process are
registered with that runtime and fail without it; that is what is modelled (on
Windows a child's pipes do not depend on it). `Session` is a call by one of the
session's own MCP tools: `CliToolExecutor::execute` runs inside `run_turn_async`,
which a runtime's `block_on` drives (conversation.rs:6534), and
`RuntimeMcpState::call_tool` calls `block_on` again (plugin_state.rs:282). Tokio
panics there; the guard of the manager's mutex has been taken before, so the mutex is
`poisoned`. Nothing is sent. The terminal interface catches the panic
(tui/app.rs:676) and goes on; elsewhere the program ends. `Replace` is the next
session: it shuts the old manager down, which the bridge keeps. `op.sent`, `op.blows`,
`op.lost`, `op.hard`, `mixed` and `spoiled` are history. The IM bridge's own discovery
(`init_mcp_tools`, im-bridge/src/main.rs:174) has no action: it meets the same panic
when it starts, before a server is spoken to. Reads of resources, which only the
session's tools ask for, are never reached. Request numbers grow for ever in the code; a model
that gives out the least number no process knows has the same confusions and is
finite. Notifications, which are skipped, and framing are left out.

## 4. Runs, what they show, and their bounds

| Run | Instance | Shows |
|---|---|---|
| `dag_run` | all acyclic graphs of three nodes up to renaming, alone and with a fourth that joins two, and a root beside a cycle; default FailFast and On; one node with a retry; two slots; one rerun | dependency order, the cap, agreement of DagRun and loop, only skips hide nodes from the report, the refinement of `DagRunContract`, no start after the stop, every run returns |
| `subagent` | two DAG jobs of one run, one try, kills, panics and a run cut short | turns and awaits end, with a poisoned mutex too; only a sub-agent whose run was cut short may stay Running |
| `subagent_restart` | two ids for a DAG job with a retry, a second node of its run and a single job with a retry; a run cut short, one crash | registry, drivers and turns agree (verdicts, validation, turns, retry counters), cancelled is final until a restart |
| `file_guard` | three writers, one file under two paths, two calls each | one owner per flag; two writes of one file at once only if one named it by another path before it existed; every wait ends |
| `file_guard_parent` (violation) | main session and a sub-agent | both write one file |
| `bus` | a watching main session, a panel that may write to sub-agents, two sub-agents with three runs in all, two messages, queues of two, no Done peer kept | permissions of targets and watchers; nothing survives its peer; every loss has a reason |
| `bus_remote` | a main session with a sub-agent, and an IM bridge with two channels and their mailboxes; two messages, queues of one | types, each message at most once and in order per sender, the first message of an unknown sender arrives |
| `conversation` | each of the three hosts, two turns, answers without tools or with two, two iterations, one recovery, one punchback, one note or interjection, two messages kept by a compaction; one interrupt, crash or failed write | tool uses lack results only where a batch was broken off, no orphan results, the file covers the session, turns end |
| `conversation_pairing` (violation) | the shell, one interrupt | a batch that is broken off leaves tool uses without result in the next request |
| `evolution` | one session, two slots for pipelines, two proposals, two attempts, two commits, one mishap (crash, failed call, dangerous verdict, slow holder) | exclusion, installed means tested, processed means installed (but for a head that could not be read), attempts bounded, every proposal settles |
| `evolution_deploy` (violation) | the same, the first proposal's repair may change a protected file | the change is installed with a later clean commit |
| `mcp` | two servers, four calls after the discovery, by the bridge or the session, two faults, one extra page, any number of timeouts | no stale answer, failures are earned, a tool call is sent once, calls return |

Why the bounds are enough. *DAG*: the loop treats nodes alike, so an effect needs
at most a failing node, a dependent, a dependent of that, and an independent
node that keeps the loop going: four nodes. Two slots are the smallest number
that lets two tasks interleave and a third wait. One retry reaches the backoff
and the exhausted state; a rerun's state is fresh, so one shows what follows.
*Registry*: two turns compete for the tool executor and one crash finds a
checkpoint in every state; two ids are two attempts of a job, or attempts of two jobs, whichever two of the three they are; a run cut short while one of its turns goes on
takes two jobs of one run. *File guard*:
an owner, a sleeper and a third that comes between; two calls each reach the
file that has come to exist, and then one that was named before it did. *Bus*: a message and one more reach every order of
two and, with queues of one, the limit; two channels are what it takes for a sender
to be known through one and to write to the other; three runs of two sub-agents reach the
one that is registered again while it is being pruned. *Conversation*: the second
turn meets whatever the first left in memory and file; two tools are the smallest
batch that can be broken off in the middle, and two kept messages the smallest
window whose boundary can fall into it. One mishap is enough to reach every
failure followed by an undisturbed turn. *Evolution*: two pipelines are the
contention and a third would meet the same lock file; two attempts (three in the
code) have a first, a last and a crash between; that exclusion, tests and bounds
hold with any number of processes and mishaps is proved. *MCP*: a first server
that fails and a second one behind it; four calls are one that leaves something
behind, one that meets it, one that starts the server again and one that meets that;
two faults let a server break down in both tries of a handshake. The largest
instances have a million states (`bus` 1.4, `evolution` 1.3, `mcp` and
`subagent_restart` 1.0). Deadlock is not checked:
all of these systems stop when their work (bounded by the instance) is done;
that they do not stop too early is what the liveness properties say.

## 5. Fairness

Weak fairness, with one exception, and only for what the code's scheduling justifies.
`PollFairness`: the thread of the run drives the loop, and the runtime polls a
spawned task and one whose token fired. `AnswerFairness`, apart from it: an
execute call answers, because a turn has an iteration limit and its requests
time out; `CancelTerminates` holds although TLC also explores behaviours in
which an answer takes as long as it likes, since a fired token stops the task.
No fairness is assumed for a particular answer, for cancellation or for callers.
`SubagentLifecycle` assumes that threads run and turns end, never that a turn
succeeds, a kill arrives or a process restarts, and of a record only that it is made
while its runtime lives. `FileGuard` assumes that threads
run, a tool returns and the timer of a wait fires; it does not assume
notifications. `ConversationTurn`: the thread of a turn goes on, since requests and
tools return; nothing about users, signals or restarts. `EvolutionPipeline`: a
pipeline and its child run on, the hour and the cooldown pass, and sessions go on
reporting gaps, because only a report starts a pipeline; that the next one comes
is an assumption about use, and `EveryProposalSettles` means little without it.
That property is stated as one recurrence over all proposals, which with finitely many
says the same of each, at half the cost of one formula per proposal for TLC.
`McpManager`: the thread of a call goes on and its timer fires; a server may stay
silent for ever. `SessionBus` assumes that a sending turn goes on, the event loop
shows what is there, runs end and the poller wakes (it sleeps 500 ms in a loop);
lost writes and stuck files stay possible for ever.
The exception is `ConsumeMailbox(f)`: the poller of a process is one loop, so while it
works on one mailbox it cannot take another, but each round visits every registered
mailbox (im-bridge/src/session.rs:428); strong fairness for each mailbox says just
that, and weak fairness would let one wait for ever behind another.

## 6. What is proved

Proved by TLAPS from the constants' assumptions only (`NodesAssumption`: finitely
many nodes; `ProcsAssumption`: `Nobody` is no process; `BusAssumption`: what a session
is and where it lives, and that there are finitely many mailboxes; the limits are
naturals), for every graph and any number of nodes, retries, slots and reruns,
sub-agents, kills and restarts, writers, paths and calls, processes, sessions and
permissions, hosts, limits, batches and failed writes, servers and faults, pipelines,
proposals and mishaps. The one hypothesis beside them is `CallerChecks = TRUE` in
`DependenciesFirst` and `SchedulerImplementsContract`: without it both are false
(section 7).

Where an invariant is not inductive, the strengthening is a definition of the
`...Props` module, and TLC was run on it before it was proved.

**Scheduler** (`DagScheduler_proofs`, `DagContract_proofs`)

* `TypeCorrect`: inductive as it stands.
* `ParallelismBound`: the slots in use never exceed `max_parallelism`. The
  respawn after a backoff takes a slot without counting; the invariant counts
  the node that is sleeping as a holder (`Held`), so a join-and-sleep keeps the
  count, a respawn moves the node from one part of `Held` to the other
  (`HeldShrinks`), and only `Dispatch` adds, within the free slots
  (`LaunchFits`). `inflight = JoinSet` is proved with it: without it "free slots"
  would not be about the tasks.
* `DependenciesFirst`: when callers of `recover_skipped` keep its precondition,
  no node is executed before all its dependencies have succeeded, in the run
  and in reruns. `DependencyOrder` is not inductive: a node in `completed` may
  have failed. The strengthening `OrderInv` says that the local sets partition
  the scope, that the DagRun shows them, that whatever has started has its
  dependencies among the successes, and that a rerun is confined to nodes whose
  dependencies succeeded. Its core is `ReadyDepsSucceeded`: a ready node has all
  dependencies in `completed` and none failed or skipped, hence in `results`.
  `QuietInv` (no task outlives the loop), proved before, is needed for reruns.
* `MirrorIsExact` and `HiddenOnlyBehindSkips` follow from `ReportInv`, the
  conjunction of what the loop knows when it leaves (`VerdictInv`), what a rerun
  may find (`RepairInv`) and the form of the report (`OutcomeInv`). The core of
  the second is `NothingLeftOut`: when no node is ready, free or running, a node
  that is not completed waits for another such node; on an acyclic graph that
  chain ends, by a minimal counterexample over the acyclic order, and it can only
  end at a skip of the last pass.
* `NoStartAfterStop`: an action property; after the loop has returned or the
  token has fired, no task starts to execute.
* `SchedulerImplementsContract`: every step of the scheduler is a step of
  `DagRunContract` under the refinement mapping, or a stutter, for every graph. It
  needs the partition and the rerun part of `OrderInv` (what a rerun may touch) and
  `MirrorIsExact` (what the DagRun shows when a node starts).

**Registry** (`SubagentLifecycle_proofs`)

* `TypeCorrect`; `RegistryAgreesAlways`. The strengthening `LifecycleInv` pairs, per
  sub-agent, how far its turn is with the statuses that allows (`AgentInv`), and, per
  job, the program counter of its driver with both (`JobInv`). A DAG sub-agent may
  be cancelled at any step, so its driver is promised less (`DagDriverInv`) than the
  driver of a single job (`SingleDriverInv`), whose sub-agent no kill can be aimed at.
  A lost record (`dropped`) is confined to the last attempt of a job whose run was cut
  short: a run that ends otherwise has awaited every turn it started.
* `CancellationIsFinal`, within one process and for one use of an id.

**File guard** (`FileGuard_proofs`)

* `TypeCorrect`; `OneOwner`: the flag of a lock is up exactly while one writer holds
  it.
* `ExistingFilesExclude`, from it and `KeyIsCanonical`: a key that was made while the
  file existed, or from the file's own path, is the canonical one, so two writers of
  one file with different keys include one that named it otherwise, too early. The
  property would be false of a `normalize_path` that never canonicalises.

**Session bus** (`SessionBus_proofs`)

* `TypeCorrect`, from `BaseInv`: types, what each thread carries (`ThreadInv`), who is
  known where (`PeerInv`), where a file may lie (`FileInv`) and whom a poller is
  about to deliver for (`PollerInv`). The lemma all the others use is `QueueSteps`: a
  step leaves a queue as it is, pushes a message that `Arrives`, takes the
  commands out, clears it for its front, or removes it with its peer.
* `PermissionsHold` and `LossExplained` follow from `QueueSteps`, the first because
  the poller's messages were asked for by the bus that wrote them (`FileInv`).
* `LeavingIsComplete`, from `GoneInv`: what is left of an absent peer is what the
  thread that removes it has still to do, section by section. That a peer may be
  registered again, published to or watched between the sections is harmless,
  because all three ask whether it is registered.
* `GivenOnceInOrder`, from `OrderInv`: all a front has of a sender is older than what
  that sender is about to publish, and of a sender in another process there is one
  message at most, the one it was registered for (`ArrivalIsNewer`, `OlderKept`).

**MCP servers** (`McpManager_proofs`)

* `TypeCorrect` and `ToolCalledOnce`, from the types and `CallOk`: a call that has
  sent its request waits for the answer or is over, and is in no handshake.
* `AnswersAreCurrent`, from `PipesInv`: a request is owed or answered, not both, and
  at most once, and it is the one under way; so reading the answer or resetting
  the server leaves nothing behind. The ping that passes for an answer (`mixed`) is
  excepted, as in the property.
* `FailuresEarned`. `BlowInv` says that every restart of a call was paid for, by a
  breakdown of the server, by its death under the call, or once by a pipe that was lost
  with its runtime; a call that fails has therefore used up its chances. That a lost
  pipe never fails two tool calls in a row to one server is not inductive: `LostInv`
  says that a server whose pipe was lost during a call has no process any more or one
  of this call's runtime, so it can be lost once per call, and `SpoiledInv` that a
  server whose last tool call was lost has no process until the next tool call starts
  one, which needs `StageInv` (nobody else would: the bridge has discovered by then).
  `HomeHolds` proves the three together.

**Evolution** (`EvolutionPipeline_proofs`)

* `LockExcludes`, of `EvolutionLock` alone: two holders only after a slip. The
  invariant `LockInv` says whose file the lock file is: while nothing has slipped,
  a holder owns it, whoever is about to remove it has judged a file without a
  living owner, and is the only one to have done so. The last part is what makes
  the reclaim safe in the good case, and it is why the verdict, not the removal,
  is the step that slips.
* `PipelineUsesLock`: every behaviour of `EvolutionPipeline` is one of `LockSpec` for
  the lock's variables, hence `PipelinesExclude`. With it, while nothing has slipped,
  a pipeline that works is alone with the tree (`Alone`), and `WorkInv` says what
  it knows at each step: after the gate the tree is green, before the mark the
  program has the repair, repairs of processed proposals are never lost.
  `TypeCorrect`, `InstalledIsTested`, `ProcessedStaysInstalled` and
  `AttemptsStayBounded` follow. Where the head could not be read before the child ran,
  `WorkInv` promises nothing of the repair, and the proposal is in `blind`.

**Conversation** (`ConversationTurn_proofs`)

* `TypeCorrect`, `ResultsHaveTheirCall` and `UnansweredForACause`, from `SessionInv`.
  "No result without its message" is not inductive: a compaction cuts a prefix off,
  a request starts behind the last summary, and either could cut between a message
  and its results. The invariant therefore speaks of places: between a result and
  the message it answers there is nothing but results (`Anchored`), and no two
  assistant messages have the same number (`Distinct`); so a cut in front of anything
  but a result leaves no orphan (`Shortened`, used for `Compact` and for `Request`),
  and `KeepFrom` never cuts in front of one (`CompactOk`). While a batch runs, memory
  and the file, if it can be loaded, both end in its message and the results so
  far (`BatchInv`): that is what makes the result that is pushed next the right one
  in both, after writes that failed, and what `Prune` relies on. `Paired` says which
  tool uses have all their results, but for the batch under way and those in `cut`.

* `FileCovers`, from `SessionInv` and `CoverInv`. That every message of a session is in
  the file is not inductive: a push that finds no file writes one with the session
  it was given, which after a reactive compaction would be less than the host holds.
  `CoverInv` says that this cannot happen: only saves remove the file, saves fall
  between turns, where there is one session (`AtRest`), and a turn that has begun
  has a file (`CoverPush`). That the order is the same follows from an order of the
  messages themselves (`Precedes`: the number, then the results behind their message)
  that held session, running session and file all respect. A new message is last in
  it by its number, a result by its batch (`OrderedResult`), in memory and behind
  whatever failed turns left in the file. The property is stated with places instead
  of filtered sequences, which the provers would need induction over data for; it
  says in addition that no message is in the file twice.

**Only model-checked.** All liveness, and nothing else: fairness and ENABLED are
beyond the prover. These are `EventuallyReturns`, `CancelTerminates`, `RunningEnds`,
`AwaitEnds`, `AcquireReturns`, `FirstContact`, `TurnEnds`, `CallsReturn` and
`EveryProposalSettles`. Every safety and action property of a passing run is a
theorem. Where a definition would have needed induction over data, it was put into
a form that can be reasoned about without it: what is left of a queue is `KeepAt`,
the kept places counted in order, and `Within` compares places. No module declares a
RECURSIVE operator.

## 7. Divergences between code and documentation

Shown by a run (the "findings" of `PROJECT.json`): the three violation runs above.

Met while modelling and described by the models, without a run of their own.

*Scheduler, registry and bus*

* "All nodes reached terminal state" (scheduler.rs:659) does not hold at the end of
  an Ok run: in the chain a, b, c with a failing, b is skipped in the last pass,
  the loop leaves (scheduler.rs:512) and c stays Pending. `OnlySkipsHideNodes` says
  that nothing else is left out.
* A kill ends a sub-agent's turn "without a retry" (conversation.rs:2124), and
  executor_trait.rs:66 has a cancelled answer for it; the executor reports
  `ExecutionFailed` (coordinator_executor.rs:240), so the scheduler runs the node
  again with a fresh sub-agent.
* The id of a sub-agent is called globally unique (mod.rs:185) and a restore refuses to
  overwrite (mod.rs:812); the counter starts at 0 in a new process (mod.rs:432), so
  the first spawn after a restore replaces `subagent-1` and later its checkpoint.
* The release of a file lock is said to wake a waiter (file_guard.rs:54); the test of
  the flag and the wait (file_guard.rs:192) share no mutex with it, so a sleeper may
  miss it and wait its 30 s on a free lock. `AcquireReturns` relies on the timer.
* The poller says that it skips messages of this process (session_bus.rs:830, :845); a
  remote sender becomes a peer with its first message (:848), and from then on its
  files are skipped as well. In an IM bridge, which polls the mailboxes of all its
  channels over one registry (im-bridge/src/session.rs:428), a sender that has written
  to one channel is thereby taken for local on the others (:436), where its first
  message is lost, against the doc that the mailboxes of all channels are consumed
  (:414). `FirstContact` is what remains: as long as nobody in the process knows the
  sender, a message of it arrives.
* `recover_skipped` (scheduler.rs:292) is said to skip a node again whose
  dependency is still failed; the subgraph has no dependencies any more
  (scheduler.rs:380), so the node is executed. `Rerun` with `CallerChecks = FALSE`
  shows it; the checked instance assumes the precondition.
* `cancel` is said to drain the in-flight nodes (scheduler.rs:186); the loop
  returns at its head or aborts them, and their DagRun nodes stay Running. This is
  why `MirrorAgrees` is restricted to running and Ok rounds.
* FailFast is documented On by default (scheduler.rs:13); `new` leaves it Off
  (scheduler.rs:134).
* `cancel` does not reach a rerun, which has a token of its own (scheduler.rs:262).
* CompletedWithFailures does not stamp `completed_at` (mod.rs:165, types.rs:256 of `dag/`).
* `execute_async` is said to mark the sub-agent Completed or Failed when its closure is
  through (mod.rs:1107). The task that does so (:1136) belongs to the runtime of the
  run, which ends when `run` returns (tools/src/lib.rs:4671, conversation.rs:3059). A
  run that leaves early (FailFast On, which `spawn_parallel_via_dag_with_fail_fast`
  offers and the defaults do not choose; a panic in a task) no longer awaits its turns:
  they go on in their threads, and their sub-agents are shown as Running for good. `RunningHasTurn` and `RunningEnds` say that this happens to a run
  that was cut short and to nothing else.
* A restart is said to restore the sub-agents that a crash left unfinished (app.rs:3813
  of rusty-claude-cli). The checkpoint of a single sub-agent always says Running, because
  it is written before the answer is recorded; one that had finished is restored as
  Created, to be run again.
* `kill_subagent` writes no checkpoint, so a crash after it restores the sub-agent as
  the file before the kill says: `CancelledIsFinal` holds up to a restart.
* A drain of the bus clears messages published between its two sections;
  `LossHasAReason` names this as a reason of loss rather than excluding it.
* What is published to a remote session that has become a peer goes to its local
  queue instead of its mailbox.

*Conversation*

* The reply of an interrupted turn is kept for the next request (conversation.rs:4806);
  in the TUI an interrupt is an error of the turn, after which the next turn starts
  from the session before it (app.rs:1285 of rusty-claude-cli). The file keeps both.
* An interjection is "never lost" (tui/app.rs:1117); one that the turn has drained
  (conversation.rs:4343) is dropped with the session of a turn that fails later.
* The upgrade signal goes up at the start of `run_upgrade` (app.rs:2811) and is not
  lowered when that fails; every later turn of a TUI session then ends after one
  iteration.

*Evolution*

* The lock is said to exclude concurrent builds (evolution_lock.rs:1); a process that
  reads the file between its creation and the write (:52) takes it for malformed
  and removes it. This and the two processes that judge one stale file are the
  slips `HoldersExclude` excepts.
* The cooldown should keep a storm of reports from starting several pipelines
  (evolution_auto.rs:438); it is read before the spawn and written after it, so two
  sessions start two. The second meets the lock.
* A proposal that cannot be read ends a run without counting (evolution_auto.rs:360)
  and is chosen first by every later one: `Blocked` in `EveryProposalSettles`.
* `head_sha` is the answer to whether the child committed (evolution_auto.rs:143), lest
  old code be deployed; it yields the empty string when git fails (:153), which is not
  looked at. Any head found after the child then differs (:386), the proposal is filed
  as processed, and no repair need exist. `ProcessedIsInstalled` excepts exactly these
  proposals (`blind`).
* After a crash between installation and mark a proposal is tried again, finds nothing
  to commit, and is quarantined although it is installed.

*MCP*

* The bridge is said to reuse the processes of earlier calls (mcp_tool_bridge.rs:78,
  :265). A call has a runtime of its own (:255) that ends with it, and on Unix the
  pipes of a process started on it are dead afterwards: the next call to a server that
  is well fails and kills the process, the one after starts it again. Calls to a server
  that the bridge has started alternate between success and failure.
  `FailuresAreEarned` tells this failure from those of a server, and says that it is no
  worse: the process is killed, and no two tool calls in a row meet it.
* The session's tools for MCP servers, which the program offers to the model
  (plugin_state.rs:277), panic on `block_on` when the model uses them; the panic
  poisons the manager, and from then on every call through the bridge fails
  (mcp_tool_bridge.rs:260) while its registry lists the servers as Connected.
  `FailuresAreEarned` has `poisoned` as a cause of its own; `CallsReturn` says that the
  calls through the bridge return all the same.
* The IM bridge is said to discover the servers at its start (im-bridge/src/main.rs:64)
  and calls `block_on` inside its own runtime (:200, under :52): with a server
  configured it panics there.
* The bridge keeps the first manager (`OnceLock`), the program makes one per runtime and
  shuts the old one down; what the bridge starts on it afterwards is never shut
  down by the program.
* The first call through the bridge discovers strictly, so one broken server makes the
  base tool fail for all, against the degraded startup of the session.
* A request of a server (`ping`) that has the number of the client's own is parsed as a
  response without result (mcp_stdio.rs:1425) and leaves the answer in the pipe:
  `mixed` in the properties.
* Lists are followed as long as the server gives a cursor (mcp_stdio.rs:921); `MaxPages`
  bounds that in the model, so `CallsReturn` is about servers whose lists end.

## 8. What is not modelled

The reasons are beside each component in `PROJECT.json`. In short: text (prompts,
memory, parsing, rendering), tables and pure rules (policy, permissions, recipes),
single-threaded bookkeeping, user interfaces and network protocols; most of the
repository's lines are of these kinds. The model's answers, tool results, verdicts
of gates and heuristics and the user's actions are nondeterministic inputs of the
models. Of the modelled components these parts are left out: the manifest, costs
and capabilities of sub-agents; the rate limit and times of the bus; prompt history,
forks and session lists; the report runner behind a gap report; notifications and the
configuration of MCP servers, and reads of resources.

## 9. Plan

Done, in this order: DAG scheduler and contract, sub-agent registry, file guard,
session bus, conversation and session file, evolution lock and pipeline, MCP
manager; proofs of every safety and action property of their passing runs.

Proofs that a further abstract specification would pay for: of the session file, as
a log that a crash may truncate and nothing else; of the bus, as a set of messages per
receiver.

Components that a module would still pay for:

1. `WorkerBoot`: statuses, prompt delivery, replay, restart, trust, against the
   screens of a terminal that may be stale when they are observed
   (worker_boot.rs:456, :808).
2. The task registry as an extension of `SubagentLifecycle` (unguarded transitions at
   task_registry.rs:191, :459); the manifest (multi_agent/mod.rs:1050).
3. Background records, which `list` and `kill` read, change and write without a lock
   (bg.rs:194).
