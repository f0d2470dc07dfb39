------------------------ MODULE SubagentLifecycleProps ------------------------
(***************************************************************************)
(* What the sub-agent registry and its drivers must agree on.              *)
(***************************************************************************)
EXTENDS SubagentLifecycle

Statuses == {"absent", "Created", "Running"} \cup Terminal
PcStates ==
    {"idle", "spawned", "turn", "save", "saving", "record", "validate", "gates",
     "rejected", "upgrade", "done"}
TurnStates ==
    {"none", "waiting", "running", "ok", "error", "settledOk", "settledError"}

TypeOK ==
    /\ counter \in 0..MaxId
    /\ status \in [Ids -> Statuses] /\ resets \in [Ids -> Nat]
    /\ validated \in [Ids -> BOOLEAN] /\ owner \in [Ids -> Jobs \cup {Nobody}]
    /\ pc \in [Jobs -> PcStates] /\ cur \in [Jobs -> Ids \cup {Nobody}]
    /\ \A j \in Jobs : pc[j] \notin {"idle", "done"} => cur[j] # Nobody
    /\ tries \in [Jobs -> Nat]
    /\ outcome \in [Jobs -> {"none", "completed", "failed", "cancelled"}]
    /\ turn \in [Ids -> TurnStates]
    /\ dropped \subseteq Ids
    /\ tools \in {"free", "taken", "poisoned"}
    /\ commands \subseteq Ids /\ killing \in Ids \cup {Nobody}
    /\ killStep \in {"none", "publish", "cancel"}
    /\ killing # Nobody <=> killStep # "none"
    /\ ckpt \in [Ids -> [status : Statuses \cup {"torn"}, resets : Nat, validated : BOOLEAN]]
    /\ restarts \in Nat

-----------------------------------------------------------------------------
(* Safety.                                                                 *)

\* What a driver reports is what the registry shows: a completed job has a
\* Completed, validated sub-agent, and, as a node of a DAG, a checkpoint that
\* says so; a failed job has a Failed or Cancelled one.
VerdictMatches ==
    \A j \in Jobs :
        pc[j] = "done" /\ cur[j] # Nobody =>
            /\ outcome[j] = "completed" =>
                  /\ status[cur[j]] = "Completed" /\ validated[cur[j]]
                  /\ j \in DagJobs => ckpt[cur[j]].status = "Completed"
            /\ outcome[j] = "failed" => status[cur[j]] \in {"Failed", "Cancelled"}

\* validate() runs its gates without the lock and sets the flag afterwards
\* without a second look; still no sub-agent in another state is validated.
ValidatedIsCompleted == \A i \in Ids : validated[i] => status[i] = "Completed"

\* A sub-agent shown as Running has a turn of this process behind it, and a
\* task that will record its answer unless its run was cut short; and no attempt
\* of a job that completed or failed, an earlier one neither, is left Running.
RunningHasTurn ==
    \A i \in Ids :
        status[i] = "Running" =>
            /\ turn[i] \in {"waiting", "running", "ok", "error"}
            /\ outcome[owner[i]] \in {"none", "cancelled"}
            /\ i \in dropped => outcome[owner[i]] = "cancelled"

\* The two counters that bound the retries of a single job, the loop's and
\* the registry's, never drift apart, so no retry runs on a sub-agent whose
\* reset was refused.
CountersAgree ==
    \A j \in Jobs \ DagJobs :
        cur[j] # Nobody => resets[cur[j]] + 1 = tries[j] /\ tries[j] <= MaxTries[j]

\* The registry, the drivers and the turns, which share no lock for longer than
\* one method, agree on every sub-agent, although kills, panics, runs cut short
\* and a crash fall between any two methods.
RegistryAgrees ==
    VerdictMatches /\ ValidatedIsCompleted /\ RunningHasTurn /\ CountersAgree

\* Cancelled is final: no answer, failure, validation or retry that was under
\* way brings the sub-agent back, until its id is given away again.  A restart
\* may: kill_subagent writes no checkpoint, and the one before it is restored.
CancelledIsFinal ==
    [][\A i \in Ids :
        status[i] = "Cancelled" /\ counter' = counter /\ restarts' = restarts =>
            status'[i] = "Cancelled"]_vars

-----------------------------------------------------------------------------
(* The inductive strengthening of RegistryAgrees.                          *)

\* Of a sub-agent: only an id that was spawned for a job has a turn, how far the
\* turn of a DAG sub-agent is bounds its status, with its driver or without; only
\* the last attempt of a job runs, and after the job only if its run was cut
\* short; and a file says validated only beside Completed or while it is
\* rewritten.
AgentInv(i) ==
    /\ counter < i => owner[i] = Nobody
    /\ turn[i] # "none" => owner[i] # Nobody
    /\ owner[i] \in DagJobs =>
          /\ turn[i] \in {"waiting", "running", "ok", "error"} =>
                status[i] \in {"Running", "Cancelled"}
          /\ turn[i] = "settledOk" => status[i] \in Terminal
          /\ turn[i] = "settledError" => status[i] \in {"Failed", "Cancelled"}
    /\ validated[i] => status[i] = "Completed"
    /\ status[i] = "Running" =>
          /\ turn[i] \in {"waiting", "running", "ok", "error"}
          /\ cur[owner[i]] = i
          /\ pc[owner[i]] \in {"turn", "saving", "record", "done"}
          /\ pc[owner[i]] = "done" => outcome[owner[i]] = "cancelled"
    /\ i \in dropped =>
          owner[i] \in DagJobs /\ pc[owner[i]] = "done"
    /\ ckpt[i].validated => ckpt[i].status \in {"Completed", "torn"}

\* Of the driver of a DAG job: what it may find when it goes on.
DagDriverInv(j) ==
    /\ pc[j] \notin {"record", "upgrade"}
    /\ pc[j] = "spawned" =>
          turn[cur[j]] = "none" /\ status[cur[j]] \in {"Created", "Cancelled"}
    /\ pc[j] = "gates" => status[cur[j]] = "Completed"
    /\ pc[j] \in {"validate", "gates"} => ckpt[cur[j]].status = status[cur[j]]
    /\ pc[j] \in {"save", "saving", "validate", "gates", "rejected"} =>
          turn[cur[j]] = "settledOk"

\* Of a single job: nobody but its driver moves its sub-agent, and the two
\* counters of its tries go together.
SingleDriverInv(j) ==
    /\ pc[j] # "save"
    /\ pc[j] = "idle" => cur[j] = Nobody /\ tries[j] = 0
    /\ pc[j] = "spawned" => status[cur[j]] = "Created" /\ turn[cur[j]] = "none"
    /\ pc[j] = "turn" => /\ status[cur[j]] = "Running"
                        /\ turn[cur[j]] \in {"running", "ok", "error"}
    /\ pc[j] \in {"saving", "record"} =>
          status[cur[j]] = "Running" /\ turn[cur[j]] \in {"ok", "error"}
    /\ pc[j] \in {"validate", "gates", "rejected"} => status[cur[j]] = "Completed"
    /\ pc[j] = "upgrade" =>
          status[cur[j]] \in {"Failed", "Completed"} /\ tries[j] < MaxTries[j]
    /\ cur[j] # Nobody => resets[cur[j]] + 1 = tries[j] /\ tries[j] <= MaxTries[j]

\* Of a job: its sub-agent is its own, is validated by its last step only, and
\* bears its verdict out.
JobInv(j) ==
    /\ pc[j] # "done" => outcome[j] = "none"
    /\ cur[j] # Nobody =>
          /\ cur[j] <= counter /\ owner[cur[j]] = j
          /\ validated[cur[j]] => pc[j] = "done"
          /\ pc[j] = "done" =>
                /\ outcome[j] = "completed" =>
                      /\ status[cur[j]] = "Completed" /\ validated[cur[j]]
                      /\ j \in DagJobs => ckpt[cur[j]].status = "Completed"
                /\ outcome[j] = "failed" => status[cur[j]] \in {"Failed", "Cancelled"}
    /\ IF j \in DagJobs THEN DagDriverInv(j) ELSE SingleDriverInv(j)

\* No kill is aimed at the sub-agent of a single job.
LifecycleInv ==
    /\ \A i \in Ids : AgentInv(i)
    /\ \A j \in Jobs : JobInv(j)
    /\ killing # Nobody => owner[killing] \notin Jobs \ DagJobs

-----------------------------------------------------------------------------
(* Liveness.                                                               *)

\* Every sub-agent shown as Running leaves that state, also behind a turn that
\* panicked with the shared tool executor in its hands and after a kill that
\* came too late, unless the run of its DAG was cut short.
RunningEnds ==
    \A i \in Ids :
        status[i] = "Running" ~> status[i] # "Running" \/ outcome[owner[i]] = "cancelled"

\* A driver that waits for a turn goes on.
AwaitEnds == \A j \in Jobs : pc[j] = "turn" ~> pc[j] # "turn"

=============================================================================
