-------------------------- MODULE EvolutionPipeline --------------------------
(***************************************************************************)
(* Self-evolution: sessions that archive a gap report and start a pipeline *)
(* (evolution_inbox.rs, spawn_pipeline_detached), and the pipelines that   *)
(* take the lock, have a child repair the first proposal in the source     *)
(* tree, check the commit, run the tests, build and install the program    *)
(* (run_pipeline, evolution_auto.rs).                                      *)
(*                                                                         *)
(* The tree is shared by every pipeline, and nothing resets it after an    *)
(* attempt that failed.  One repair is one step of the child.              *)
(***************************************************************************)
EXTENDS EvolutionLock

CONSTANTS
    Sessions,      \* interactive sessions that report gaps
    MaxAttempts,   \* MAX_ATTEMPTS
    MaxProposals,  \* bound: gap reports that are followed
    MaxCommits,    \* bound: commits the children make
    MaxMishaps,    \* bound: crashes, failed calls, races for the lock, slow holders
    Touching       \* the proposals whose repair may change a protected file

ASSUME BoundsAssumption ==
    /\ MaxAttempts \in Nat \ {0} /\ MaxProposals \in Nat
    /\ MaxCommits \in Nat /\ MaxMishaps \in Nat
    /\ Touching \subseteq 1..MaxProposals

\* The name of a proposal begins with the time it was made: proposals are numbered
\* in the order list_pending sorts them in.
Proposals == 1..MaxProposals
NoProposal == 0

\* head_sha's empty string, when git fails; the heads are counted from 1.
NoHead == 0

VARIABLES
    session, cooling,          \* a session's report; whether .last_spawn is recent
    inbox, attempts,           \* the proposals in the inbox, and .attempts/
    torn, processed, exiled,   \* unreadable proposals; processed/ and quarantine/
    step, job, base,           \* a pipeline's place, proposal and head_before
    tree, exe,                 \* the source tree and the installed program
    blind,                     \* history: the proposals whose repair was accepted
                               \* with no head_before to compare with
    mishaps

queue == <<inbox, attempts, torn, processed, exiled>>
work  == <<step, job, base>>
vars  == <<lockVars, session, cooling, queue, work, tree, exe, blind, mishaps>>

\* head numbers the commits.  listed: the files of HEAD's own commit match the
\* protected names; touched: some change in the tree does, committed or not.
\* green: the test gate passes.  fixes: the proposals that have been repaired.
FirstTree == [head |-> 1, listed |-> FALSE, touched |-> FALSE, green |-> TRUE, fixes |-> {}]

\* What the tree makes of the program.
Build(t) == [touched |-> t.touched, green |-> t.green, fixes |-> t.fixes]

Init ==
    /\ LockInit
    /\ session = [s \in Sessions |-> "idle"] /\ cooling = FALSE
    /\ inbox = {} /\ attempts = [q \in Proposals |-> 0]
    /\ torn = {} /\ processed = {} /\ exiled = {}
    /\ step = [p \in Procs |-> "idle"]
    /\ job = [p \in Procs |-> NoProposal] /\ base = [p \in Procs |-> NoHead]
    /\ tree = FirstTree /\ exe = Build(FirstTree)
    /\ blind = {} /\ mishaps = 0

Unmade == Proposals \ (inbox \cup processed \cup exiled)
Mishap == mishaps < MaxMishaps /\ mishaps' = mishaps + 1
Smooth == UNCHANGED mishaps
Goto(p, where) == step' = [step EXCEPT ![p] = where]
Leaves(s, from, to) == session[s] = from /\ session' = [session EXCEPT ![s] = to]

-----------------------------------------------------------------------------
(* Sessions.                                                               *)

\* archive_gap.  A write that is cut short leaves a file that cannot be read.
Report(s) ==
    /\ Leaves(s, "idle", "reported")
    /\ \E q \in Unmade :
          /\ \A r \in Unmade : q <= r
          /\ inbox' = inbox \cup {q}
          /\ \/ Smooth /\ UNCHANGED torn
             \/ Mishap /\ torn' = torn \cup {q}
    /\ UNCHANGED <<lockVars, cooling, attempts, processed, exiled, work, tree, exe, blind>>

\* A report whose own proposal is outside the bounds of the model: it would wait
\* behind those that are inside.
LaterReport(s) ==
    /\ Leaves(s, "idle", "reported")
    /\ UNCHANGED <<lockVars, cooling, queue, work, tree, exe, blind, mishaps>>

\* should_auto_evolve, on what spawn_pipeline_detached has just read.
ShouldEvolve == inbox # {} /\ ~IsHeld /\ ~cooling
Gate(s) ==
    /\ Leaves(s, "reported", IF ShouldEvolve THEN "spawn" ELSE "idle")
    /\ UNCHANGED <<lockVars, cooling, queue, work, tree, exe, blind, mishaps>>

\* The process is started, and then the cooldown is written.
Spawn(s, p) ==
    /\ Leaves(s, "spawn", "stamp")
    /\ step[p] = "idle" /\ Goto(p, "start")
    /\ UNCHANGED <<lockVars, cooling, queue, job, base, tree, exe, blind, mishaps>>
Stamp(s) ==
    /\ Leaves(s, "stamp", "idle")
    /\ cooling' = TRUE
    /\ UNCHANGED <<lockVars, queue, work, tree, exe, blind, mishaps>>

CooldownEnds ==
    /\ cooling /\ cooling' = FALSE
    /\ UNCHANGED <<lockVars, session, queue, work, tree, exe, blind, mishaps>>

-----------------------------------------------------------------------------
(* run_pipeline.                                                           *)

\* A refused or failed acquire ends the run.  A dangerous verdict counts as a
\* mishap, to bound how often two pipelines overlap.
Lock(p) ==
    /\ step[p] = "start"
    /\ \/ Acquire(p) /\ IF Dangerous(p) THEN Mishap ELSE Smooth
       \/ FillFails(p) /\ Mishap
    /\ Goto(p, CASE at'[p] = "in" -> "pick" [] at'[p] = "out" -> "idle" [] OTHER -> "start")
    /\ UNCHANGED <<session, cooling, queue, job, base, tree, exe, blind>>

Mut_AttemptableAlways(q) == TRUE
Attemptable(q) == attempts[q] < MaxAttempts

NextAttemptable(q) ==
    /\ q \in inbox /\ Attemptable(q)
    /\ \A r \in inbox : Attemptable(r) => q <= r

\* list_pending, next_attemptable, read_to_string and head_before.  A proposal
\* that cannot be read ends the run without a count.
Chosen(p) ==
    \/ \E q \in inbox :
          /\ NextAttemptable(q)
          /\ job' = [job EXCEPT ![p] = q]
          /\ Goto(p, IF q \in torn THEN "leave" ELSE "child")
    \/ ~(\E q \in inbox : Attemptable(q)) /\ Goto(p, "leave") /\ UNCHANGED job

\* head_before, the empty string when git fails; for a child only.
ReadsHead(p) ==
    \/ step'[p] = "child" /\ base' = [base EXCEPT ![p] = tree.head] /\ Smooth
    \/ step'[p] = "child" /\ base' = [base EXCEPT ![p] = NoHead] /\ Mishap
    \/ step'[p] = "leave" /\ base' = [base EXCEPT ![p] = NoHead] /\ Smooth

Mut_PickDropsLock(p) ==
    /\ step[p] = "pick" /\ Release(p)
    /\ Chosen(p) /\ ReadsHead(p)
    /\ UNCHANGED <<session, cooling, queue, tree, exe, blind>>

Pick(p) ==
    /\ step[p] = "pick"
    /\ Chosen(p) /\ ReadsHead(p)
    /\ UNCHANGED <<lockVars, session, cooling, queue, tree, exe, blind>>

\* What a child may do to the tree: nothing, edits it does not commit, or a
\* commit that repairs the proposal.
Edits(touch, green) ==
    [tree EXCEPT !.touched = @ \/ touch, !.green = green]
Commits(q, touch, green) ==
    [tree EXCEPT !.head = @ + 1, !.listed = touch, !.touched = @ \/ touch,
                 !.green = green, !.fixes = @ \cup {q}]
ChildWorks(q) ==
    \/ UNCHANGED tree
    \/ \E touch \in IF q \in Touching THEN BOOLEAN ELSE {FALSE}, green \in BOOLEAN :
          \/ tree' = Edits(touch, green)
          \/ tree.head <= MaxCommits /\ tree' = Commits(q, touch, green)

\* The child runs to its end, whatever its exit code; or it cannot be started,
\* which ends the run without a count.
Child(p) ==
    /\ step[p] = "child"
    /\ \/ /\ ChildWorks(job[p])
          /\ \E ok \in BOOLEAN : Goto(p, IF ok THEN "inspect" ELSE "count")
          /\ Smooth
       \/ Goto(p, "leave") /\ Mishap /\ UNCHANGED tree
    /\ UNCHANGED <<lockVars, session, cooling, queue, job, base, exe, blind>>

Mut_InspectAnyHead(p) ==
    /\ step[p] = "inspect"
    /\ Goto(p, IF tree.listed THEN "veto" ELSE "test")
    /\ base' = [base EXCEPT ![p] = NoHead]
    /\ UNCHANGED <<lockVars, session, cooling, queue, job, tree, exe, blind, mishaps>>

\* A new commit, and none of its files protected; a git that fails counts as a
\* failed repair.  Every head differs from a head_before that could not be read,
\* a commit or not.  The old HEAD is not used again.
Inspect(p) ==
    /\ step[p] = "inspect"
    /\ \/ /\ Goto(p, IF tree.head = base[p] THEN "count"
                     ELSE IF tree.listed THEN "veto" ELSE "test")
          /\ blind' = IF base[p] = NoHead THEN blind \cup {job[p]} ELSE blind
          /\ Smooth
       \/ Goto(p, "count") /\ Mishap /\ UNCHANGED blind
    /\ base' = [base EXCEPT ![p] = NoHead]
    /\ UNCHANGED <<lockVars, session, cooling, queue, job, tree, exe>>

Mut_TestTrusted(p) ==
    /\ step[p] = "test" /\ Goto(p, "install")
    /\ UNCHANGED <<lockVars, session, cooling, queue, job, base, tree, exe, blind, mishaps>>

\* run_test_gate, in the tree as it is.
Test(p) ==
    /\ step[p] = "test"
    /\ Goto(p, IF tree.green THEN "install" ELSE "count")
    /\ UNCHANGED <<lockVars, session, cooling, queue, job, base, tree, exe, blind, mishaps>>

\* install_binary builds the tree as it is; a copy that fails is rolled back.
Install(p) ==
    /\ step[p] = "install"
    /\ \/ exe' = Build(tree) /\ Goto(p, "mark") /\ Smooth
       \/ UNCHANGED exe /\ Goto(p, "count") /\ Mishap
    /\ UNCHANGED <<lockVars, session, cooling, queue, job, base, tree, blind>>

\* mark_processed; its failure is ignored, and a proposal that is gone is no error.
Mark(p) ==
    /\ step[p] = "mark" /\ Goto(p, "clear")
    /\ \/ inbox' = inbox \ {job[p]} /\ processed' = processed \cup (inbox \cap {job[p]}) /\ Smooth
       \/ Mishap /\ UNCHANGED <<inbox, processed>>
    /\ UNCHANGED <<lockVars, session, cooling, attempts, torn, exiled, job, base, tree, exe, blind>>

ClearAttempts(p) ==
    /\ step[p] = "clear" /\ Goto(p, "leave")
    /\ attempts' = [attempts EXCEPT ![job[p]] = 0]
    /\ UNCHANGED <<lockVars, session, cooling, inbox, torn, processed, exiled, job, base,
                   tree, exe, blind, mishaps>>

Mut_CountForgotten(p) ==
    /\ step[p] = "count" /\ Goto(p, "leave")
    /\ UNCHANGED <<lockVars, session, cooling, queue, job, base, tree, exe, blind, mishaps>>

\* bump_attempts: the count goes on even when it could not be written.
Count(p) ==
    /\ step[p] = "count"
    /\ \/ attempts' = [attempts EXCEPT ![job[p]] = @ + 1] /\ Smooth
       \/ UNCHANGED attempts /\ Mishap
    /\ Goto(p, IF attempts[job[p]] + 1 < MaxAttempts THEN "leave" ELSE "exile")
    /\ UNCHANGED <<lockVars, session, cooling, inbox, torn, processed, exiled, job, base,
                   tree, exe, blind>>

\* quarantine_proposal, for an exhausted or a vetoed proposal; it fails on a
\* proposal that is gone, and every failure is ignored.
Exile(p) ==
    /\ step[p] \in {"exile", "veto"} /\ Goto(p, "leave")
    /\ \/ inbox' = inbox \ {job[p]} /\ exiled' = exiled \cup (inbox \cap {job[p]}) /\ Smooth
       \/ Mishap /\ UNCHANGED <<inbox, exiled>>
    /\ UNCHANGED <<lockVars, session, cooling, attempts, torn, processed, job, base, tree, exe, blind>>

Leave(p) ==
    /\ step[p] = "leave"
    /\ Release(p) /\ Goto(p, "idle")
    /\ job' = [job EXCEPT ![p] = NoProposal] /\ base' = [base EXCEPT ![p] = NoHead]
    /\ UNCHANGED <<session, cooling, queue, tree, exe, blind, mishaps>>

Crash(p) ==
    /\ step[p] # "idle"
    /\ Die(p) /\ Goto(p, "idle") /\ Mishap
    /\ job' = [job EXCEPT ![p] = NoProposal] /\ base' = [base EXCEPT ![p] = NoHead]
    /\ UNCHANGED <<session, cooling, queue, tree, exe, blind>>

\* A holder that works for more than an hour is rare enough to be a mishap.
HourPasses ==
    /\ LockAges
    /\ IF lock.owner = Nobody THEN Smooth ELSE Mishap
    /\ UNCHANGED <<session, cooling, queue, work, tree, exe, blind>>

-----------------------------------------------------------------------------
SessionStep(s) ==
    Gate(s) \/ Stamp(s) \/ \E p \in Procs : Spawn(s, p)

Run(p) ==
    Lock(p) \/ Pick(p) \/ Child(p) \/ Inspect(p) \/ Test(p) \/ Install(p)
    \/ Mark(p) \/ ClearAttempts(p) \/ Count(p) \/ Exile(p) \/ Leave(p)

Next ==
    \/ \E s \in Sessions :
          Report(s) \/ LaterReport(s) \/ SessionStep(s)
    \/ \E p \in Procs : Run(p) \/ Crash(p)
    \/ CooldownEnds \/ HourPasses

Spec == Init /\ [][Next]_vars

\* Pipelines run on and their children end, clocks go on, and gaps keep being
\* reported: only a report starts a pipeline.
FairSpec ==
    /\ Spec
    /\ \A p \in Procs : WF_vars(Run(p))
    /\ \A s \in Sessions : WF_vars(LaterReport(s) \/ SessionStep(s))
    /\ WF_vars(CooldownEnds) /\ WF_vars(HourPasses)
=============================================================================
