--------------------------- MODULE DagContract_proofs ---------------------------
(***************************************************************************)
(* What the DagRun shows of a run: that it agrees with the loop's local    *)
(* sets, which nodes a finished run leaves out, that nothing starts after  *)
(* the end, and that the scheduler implements the contract of a run.       *)
(***************************************************************************)
EXTENDS DagScheduler_proofs

-----------------------------------------------------------------------------
(* The local sets.                                                         *)

\* A joined node was held by the loop, and Reap releases that node alone.
LEMMA ReapReleases ==
  ASSUME TypeOK, SetsInv, NEW n \in Nodes, task[n] # "none", Reap(n), UNCHANGED retrying
  PROVE  /\ n \in Held /\ n \notin completed
         /\ inflight' = JoinSet' /\ retrying' \notin inflight' /\ Held' = Held \ {n}
BY NodesAssumption DEF NodesAssumption, SetsInv, Reap, JoinSet, Held, TypeOK

\* A retry keeps the slot of the node it will respawn.
LEMMA RetryHolds ==
  ASSUME TypeOK, SetsInv, NEW n \in Nodes, JoinRetry(n)
  PROVE  Held' = Held /\ inflight' = JoinSet' /\ retrying' \notin inflight'
<1>1. n \in inflight /\ retrying = NoNode /\ retrying' = n /\ Reap(n)
  BY DEF SetsInv, JoinSet, JoinRetry, TypeOK
<1>2. Held' = Held
  BY <1>1, NodesAssumption DEF NodesAssumption, Reap, Held, TypeOK
<1> QED
  BY <1>1, <1>2 DEF Reap, JoinSet, SetsInv, TypeOK

\* The respawn takes the slot the backoff kept.
LEMMA BackoffHolds ==
  ASSUME TypeOK, SetsInv, BackoffElapsed
  PROVE  /\ retrying \in Held /\ Held' = Held
         /\ inflight' = JoinSet' /\ retrying' \notin inflight'
<1>1. retrying \in Nodes /\ retrying # NoNode
  BY DEF BackoffElapsed, TypeOK
<1> QED
  BY <1>1, NodesAssumption DEF NodesAssumption, BackoffElapsed, Held, SetsInv, JoinSet, TypeOK

\* What Dispatch launches and what it skips were neither held nor completed.
LEMMA DispatchTakesNew ==
  ASSUME TypeOK, SetsInv, NEW L \in SUBSET Nodes, Dispatch(L)
  PROVE  /\ L \cap NewlySkipped = {} /\ NewlySkipped \subseteq Nodes
         /\ L \cup NewlySkipped \subseteq scope \ (completed \cup Held)
         /\ Held = inflight /\ Held' = Held \cup L
         /\ inflight' = JoinSet' /\ retrying' \notin inflight'
<1>1. L \subseteq Ready /\ L \cap NewlySkipped = {} /\ NewlySkipped \subseteq Candidates
  BY DEF Dispatch, IsLaunch, Ready, NewlySkipped
<1>2. retrying = NoNode /\ Held = inflight /\ Held' = inflight \cup L
  BY DEF Dispatch, TypeOK, Held
<1>3. inflight' = JoinSet'
  BY DEF Dispatch, SetsInv, JoinSet, TypeOK
<1> QED
  BY <1>1, <1>2, <1>3, NodesAssumption
  DEF NodesAssumption, Dispatch, Ready, Candidates, TypeOK

\* The pool empties whenever run_inner returns early.
LEMMA AbortReleases ==
  ASSUME NEW result, NEW status, Abort(result, status)
  PROVE  Held' = {} /\ inflight' = {} /\ JoinSet' = {}
BY DEF Abort, Held, JoinSet

\* A step that leaves the sets and the pool's membership alone.
LEMMA SetsUnchanged ==
  ASSUME SetsInv, DisjointInv, JoinSet' = JoinSet,
         UNCHANGED <<override, scope, completed, failed, skipped, results, inflight, retrying>>
  PROVE  SetsInv' /\ DisjointInv'
BY DEF SetsInv, DisjointInv, Held, FailFast

\* The loop's sets stay disjoint and in step with the pool.
LEMMA SetsKept ==
  ASSUME TypeOK, QuietInv, SetsInv, DisjointInv, Next
  PROVE  SetsInv' /\ DisjointInv'
<1> USE DEF roundVars, localVars, dagRunVars
<1>1. ASSUME NEW result, NEW status, Abort(result, status), UNCHANGED <<roundVars, localVars>>
      PROVE  SetsInv' /\ DisjointInv'
  <2>1. retrying' = NoNode
    BY <1>1 DEF Abort
  <2> QED
    BY <1>1, <2>1, AbortReleases, Zenon DEF SetsInv, DisjointInv, FailFast
<1>2. CASE Validate \/ CheckToken \/ Cancel \/ Finish
  <2>1. UNCHANGED <<roundVars, localVars, inflight, retrying, task>>
    BY <1>2 DEF Validate, CheckToken, Cancel, Finish
  <2> QED
    BY <2>1, SetsUnchanged DEF JoinSet
<1>3. CASE CancelledAtHead \/ BackoffCancelled
  BY <1>3, <1>1 DEF CancelledAtHead, BackoffCancelled
<1>4. ASSUME NEW L \in SUBSET Nodes, Dispatch(L) PROVE SetsInv' /\ DisjointInv'
  <2>1. FailFast = "On" => NewlySkipped = {}
    BY DEF NewlySkipped, FailFast
  <2>2. /\ skipped' = skipped \cup NewlySkipped /\ completed' = completed \cup NewlySkipped
        /\ UNCHANGED <<roundVars, failed, results>>
    BY <1>4 DEF Dispatch
  <2> QED
    BY <1>4, <2>1, <2>2, DispatchTakesNew DEF SetsInv, DisjointInv, FailFast
<1>5. ASSUME NEW n \in Nodes, Join(n) PROVE SetsInv' /\ DisjointInv'
  <2>1. CASE JoinSuccess(n)
    <3>1. task[n] # "none" /\ Reap(n) /\ UNCHANGED <<roundVars, failed, skipped, retrying>>
          /\ completed' = completed \cup {n} /\ results' = results \cup {n}
      BY <2>1 DEF JoinSuccess
    <3> QED
      BY <3>1, ReapReleases DEF SetsInv, DisjointInv, FailFast
  <2>2. CASE JoinFailedOff(n)
    <3>1. task[n] # "none" /\ Reap(n) /\ UNCHANGED <<roundVars, results, skipped, retrying>>
          /\ completed' = completed \cup {n} /\ failed' = failed \cup {n} /\ FailFast = "Off"
      BY <2>2 DEF JoinFailedOff
    <3> QED
      BY <3>1, ReapReleases DEF SetsInv, DisjointInv, FailFast
  <2>3. CASE JoinRetry(n)
    <3>1. UNCHANGED <<roundVars, completed, failed, skipped, results>>
      BY <2>3 DEF JoinRetry
    <3> QED
      BY <2>3, <3>1, RetryHolds DEF SetsInv, DisjointInv, FailFast
  <2>4. CASE JoinCancelled(n) \/ JoinFailedOn(n) \/ JoinPanicked(n)
    BY <2>4, <1>1 DEF JoinCancelled, JoinFailedOn, JoinPanicked
  <2> QED
    BY <1>5, <2>1, <2>2, <2>3, <2>4 DEF Join
<1>6. CASE BackoffElapsed
  <2>1. UNCHANGED <<roundVars, localVars>>
    BY <1>6 DEF BackoffElapsed
  <2> QED
    BY <1>6, <2>1, BackoffHolds DEF SetsInv, DisjointInv, FailFast
<1>7. ASSUME NEW n \in Nodes, TaskStart(n) \/ TaskAnswer(n) \/ TaskCancelled(n)
      PROVE  SetsInv' /\ DisjointInv'
  <2>1. JoinSet' = JoinSet /\ UNCHANGED <<roundVars, localVars, inflight, retrying>>
    BY <1>7 DEF TaskStart, TaskAnswer, TaskCancelled, JoinSet, TypeOK
  <2> QED
    BY <2>1, SetsUnchanged
<1>8. ASSUME NEW S \in SUBSET Nodes, Rerun(S) PROVE SetsInv' /\ DisjointInv'
  <2>1. /\ loop = "returned" /\ retrying = NoNode /\ scope' = S
        /\ completed' = {} /\ failed' = {} /\ skipped' = {} /\ results' = {}
        /\ UNCHANGED <<override, inflight, retrying, task>>
    BY <1>8 DEF Rerun, TypeOK
  <2>2. inflight' = {} /\ JoinSet' = {} /\ Held' = {}
    BY <2>1 DEF QuietInv, SetsInv, JoinSet, Held
  <2> QED
    BY <2>1, <2>2 DEF SetsInv, DisjointInv, FailFast
<1> QED
  BY <1>2, <1>3, <1>4, <1>5, <1>6, <1>7, <1>8 DEF Next, Scheduler

-----------------------------------------------------------------------------
(* What the DagRun shows.                                                  *)

\* Only a run that goes on can change; an outcome is set where the loop returns.
LEMMA OutcomeKept ==
  ASSUME TypeOK, QuietInv, SetsInv, OutcomeInv, Next
  PROVE  OutcomeInv'
<1>1. ASSUME NEW L \in SUBSET Nodes, Dispatch(L) PROVE OutcomeInv'
  BY <1>1 DEF Dispatch, OutcomeInv
<1>2. ASSUME NEW n \in Nodes, Join(n) PROVE OutcomeInv'
  BY <1>2 DEF Join, JoinSuccess, JoinCancelled, JoinRetry, JoinFailedOff, JoinFailedOn,
              JoinPanicked, Abort, OutcomeInv
<1>3. CASE Validate \/ CheckToken \/ CancelledAtHead \/ BackoffElapsed \/ BackoffCancelled
           \/ Finish \/ Cancel
  BY <1>3 DEF Validate, CheckToken, CancelledAtHead, BackoffElapsed, BackoffCancelled,
              Finish, Cancel, Abort, OutcomeInv
<1>4. ASSUME NEW n \in Nodes, TaskStart(n) \/ TaskAnswer(n) \/ TaskCancelled(n)
      PROVE  OutcomeInv'
  BY <1>4 DEF TaskStart, TaskAnswer, TaskCancelled, OutcomeInv
<1>5. ASSUME NEW S \in SUBSET Nodes, Rerun(S) PROVE OutcomeInv'
  BY <1>5 DEF Rerun, OutcomeInv
<1> QED
  BY <1>1, <1>2, <1>3, <1>4, <1>5 DEF Next, Scheduler

\* Rerun alone changes the round, and a round it starts is never the first.
LEMMA RoundSteps ==
  ASSUME TypeOK, Next
  PROVE  \/ round' = round /\ scope' = scope /\ deps' = deps
         \/ \E S \in SUBSET Nodes : Rerun(S) /\ round' > 0
<1> USE DEF roundVars
<1>1. ASSUME NEW S \in SUBSET Nodes, Rerun(S) PROVE round' > 0
  BY <1>1 DEF Rerun, TypeOK
<1>2. ASSUME NEW n \in Nodes, Join(n) PROVE UNCHANGED roundVars
  BY <1>2 DEF Join, JoinSuccess, JoinCancelled, JoinRetry, JoinFailedOff, JoinFailedOn,
              JoinPanicked
<1>3. CASE Validate \/ CheckToken \/ CancelledAtHead \/ BackoffElapsed \/ BackoffCancelled
           \/ Finish \/ Cancel
  BY <1>3 DEF Validate, CheckToken, CancelledAtHead, BackoffElapsed, BackoffCancelled,
              Finish, Cancel
<1>4. ASSUME NEW n \in Nodes, TaskStart(n) \/ TaskAnswer(n) \/ TaskCancelled(n)
      PROVE  UNCHANGED roundVars
  BY <1>4 DEF TaskStart, TaskAnswer, TaskCancelled
<1>5. ASSUME NEW L \in SUBSET Nodes, Dispatch(L) PROVE UNCHANGED roundVars
  BY <1>5 DEF Dispatch
<1> QED
  BY <1>1, <1>2, <1>3, <1>4, <1>5 DEF Next, Scheduler

\* A task that moves on belongs to a node the loop holds, so the loop has not
\* returned and only the task and the count of starts change.
LEMMA TaskSteps ==
  ASSUME TypeOK, QuietInv, SetsInv, NEW n \in Nodes,
         TaskStart(n) \/ TaskAnswer(n) \/ TaskCancelled(n)
  PROVE  /\ loop # "returned" /\ JoinSet' = JoinSet /\ Held' = Held
         /\ UNCHANGED <<roundVars, loop, localVars, inflight, retrying, token, stopRequested,
                        dagRunVars, outcome>>
<1>1. task[n] # "none" /\ JoinSet' = JoinSet
  BY DEF TaskStart, TaskAnswer, TaskCancelled, JoinSet, TypeOK
<1>2. UNCHANGED <<roundVars, loop, localVars, inflight, retrying, token, stopRequested,
                  dagRunVars, outcome>>
  BY DEF TaskStart, TaskAnswer, TaskCancelled
<1>3. loop # "returned"
  BY <1>1 DEF SetsInv, JoinSet, QuietInv
<1> QED
  BY <1>1, <1>2, <1>3 DEF Held

\* In the first round every stamp says what the loop just did to its sets.
LEMMA MirrorKept ==
  ASSUME TypeOK, QuietInv, SetsInv, DisjointInv, MirrorAgrees, OutcomeInv, Next
  PROVE  MirrorAgrees'
<1> USE DEF roundVars, localVars, dagRunVars
<1> SUFFICES ASSUME round' = 0, loop' # "returned" \/ outcome' = "ok", NEW m \in Nodes
             PROVE  nodeStatus'[m] = Shown(m)'
  BY DEF MirrorAgrees
<1>0. round = 0 /\ deps' = deps
  BY RoundSteps
<1>1. ASSUME UNCHANGED <<nodeStatus, results, failed, skipped>>, Held' = Held,
             loop # "returned"
      PROVE  nodeStatus'[m] = Shown(m)'
  BY <1>0, <1>1 DEF MirrorAgrees, Shown
<1>2. CASE Validate \/ CheckToken \/ Cancel \/ Finish
  <2>1. UNCHANGED <<localVars, inflight, retrying>> /\ loop # "returned"
    BY <1>2 DEF Validate, CheckToken, Cancel, Finish
  <2>2. nodeStatus' = nodeStatus
    BY <1>0, <1>2 DEF Validate, CheckToken, Cancel, Finish, AppendAttempts, TypeOK
  <2> QED
    BY <1>1, <2>1, <2>2 DEF Held
<1>3. CASE CancelledAtHead \/ BackoffCancelled
  BY <1>3 DEF CancelledAtHead, BackoffCancelled, Abort
<1>4. ASSUME NEW L \in SUBSET Nodes, Dispatch(L) PROVE nodeStatus'[m] = Shown(m)'
  <2>1. /\ loop # "returned" /\ skipped' = skipped \cup NewlySkipped
        /\ UNCHANGED <<results, failed>>
        /\ nodeStatus'[m] = IF m \in L THEN "Running"
                            ELSE IF m \in NewlySkipped THEN "Skipped" ELSE nodeStatus[m]
    BY <1>0, <1>4 DEF Dispatch
  <2>2. nodeStatus[m] = Shown(m)
    BY <1>0, <2>1 DEF MirrorAgrees
  <2> QED
    BY <1>0, <1>4, <2>1, <2>2, DispatchTakesNew DEF Shown, SetsInv
<1>5. ASSUME NEW n \in Nodes, Join(n) PROVE nodeStatus'[m] = Shown(m)'
  <2>0. loop # "returned"
    BY <1>5 DEF Join, JoinSuccess, JoinCancelled, JoinRetry, JoinFailedOff, JoinFailedOn,
                JoinPanicked
  <2>00. nodeStatus[m] = Shown(m)
    BY <1>0, <2>0 DEF MirrorAgrees
  <2>1. CASE JoinSuccess(n)
    <3>1. /\ task[n] # "none" /\ Reap(n) /\ UNCHANGED <<failed, skipped, retrying>>
          /\ results' = results \cup {n}
          /\ nodeStatus'[m] = IF m = n THEN "Succeeded" ELSE nodeStatus[m]
      BY <1>0, <2>1 DEF JoinSuccess, StampNodes
    <3> QED
      BY <1>0, <2>00, <3>1, ReapReleases DEF Shown
  <2>2. CASE JoinFailedOff(n)
    <3>1. /\ task[n] # "none" /\ Reap(n) /\ UNCHANGED <<results, skipped, retrying>>
          /\ failed' = failed \cup {n}
          /\ nodeStatus'[m] = IF m = n THEN "Failed" ELSE nodeStatus[m]
      BY <1>0, <2>2 DEF JoinFailedOff, StampNodes
    <3> QED
      BY <1>0, <2>00, <3>1, ReapReleases DEF Shown, SetsInv
  <2>3. CASE JoinRetry(n)
    <3>1. UNCHANGED <<nodeStatus, failed, skipped, results>>
      BY <2>3 DEF JoinRetry
    <3> QED
      BY <2>3, <3>1, <2>0, <1>1, RetryHolds
  <2>4. CASE JoinCancelled(n) \/ JoinFailedOn(n) \/ JoinPanicked(n)
    BY <2>4 DEF JoinCancelled, JoinFailedOn, JoinPanicked, Abort
  <2> QED
    BY <1>5, <2>1, <2>2, <2>3, <2>4 DEF Join
<1>6. CASE BackoffElapsed
  <2>1. /\ loop # "returned" /\ UNCHANGED <<results, failed, skipped>>
        /\ nodeStatus'[m] = IF m = retrying THEN "Running" ELSE nodeStatus[m]
    BY <1>0, <1>6 DEF BackoffElapsed, StampNodes
  <2>2. nodeStatus[m] = Shown(m)
    BY <1>0, <2>1 DEF MirrorAgrees
  <2> QED
    BY <1>0, <1>6, <2>1, <2>2, BackoffHolds DEF Shown, SetsInv
<1>7. ASSUME NEW n \in Nodes, TaskStart(n) \/ TaskAnswer(n) \/ TaskCancelled(n)
      PROVE  nodeStatus'[m] = Shown(m)'
  BY <1>7, <1>1, TaskSteps
<1>8. ASSUME NEW S \in SUBSET Nodes, Rerun(S) PROVE FALSE
  BY <1>8 DEF Rerun, TypeOK
<1> QED
  BY <1>2, <1>3, <1>4, <1>5, <1>6, <1>7, <1>8 DEF Next, Scheduler

-----------------------------------------------------------------------------
(* How a run ends.                                                         *)

\* A run that only moves its tasks or its token is judged as before.
LEMMA VerdictUnchanged ==
  ASSUME VerdictInv, round' = round,
         UNCHANGED <<deps, scope, completed, failed, skipped, results, runStatus, outcome, loop>>,
         Held' = Held
  PROVE  VerdictInv'
<1>1. Acyclic' = Acyclic
  BY DEF Acyclic, Deps
<1> QED
  BY <1>1 DEF VerdictInv, HiddenWait

\* In the first round the verdict matches the failures, and what is left out
\* waits for something that is neither a success nor a failure.
LEMMA VerdictKept ==
  ASSUME TypeOK, QuietInv, SetsInv, DisjointInv, OutcomeInv, VerdictInv, Next
  PROVE  VerdictInv'
<1> USE DEF roundVars, localVars, dagRunVars
<1> SUFFICES ASSUME round' = 0 PROVE VerdictInv'
  BY DEF VerdictInv
<1>0. round = 0 /\ deps' = deps /\ scope' = scope /\ scope = Nodes
  BY RoundSteps DEF VerdictInv
<1>00. Acyclic' = Acyclic
  BY <1>0, RoundSteps DEF Acyclic, Deps
<1>a. ASSUME NEW result, NEW status, Abort(result, status), UNCHANGED localVars, result # "ok",
             loop # "returned"
      PROVE  VerdictInv'
  BY <1>0, <1>a, AbortReleases DEF Abort, VerdictInv
<1>1. CASE Validate \/ CheckToken \/ Cancel
  <2>1. /\ UNCHANGED <<localVars, inflight, retrying, runStatus>> /\ Held' = Held
        /\ loop # "returned" /\ (loop' # "finish" \/ loop' = loop)
        /\ loop' # "returned" \/ outcome' # "ok"
    BY <1>1 DEF Validate, CheckToken, Cancel, Held, OutcomeInv
  <2> QED
    BY <2>1, <1>0, <1>00, <1>1 DEF VerdictInv, HiddenWait, OutcomeInv, Validate, CheckToken, Cancel
<1>2. CASE CancelledAtHead \/ BackoffCancelled
  BY <1>2, <1>a DEF CancelledAtHead, BackoffCancelled
<1>3. ASSUME NEW L \in SUBSET Nodes, Dispatch(L) PROVE VerdictInv'
  <2>1. /\ loop = "spawn" /\ skipped' = skipped \cup NewlySkipped
        /\ completed' = completed \cup NewlySkipped
        /\ UNCHANGED <<results, failed, outcome>> /\ inflight' = inflight \cup L
        /\ runStatus' = IF L # {} THEN "Running" ELSE runStatus
        /\ loop' \in {"select", "finish", "head"}
        /\ loop' = "finish" => JoinSet \cup L = {} /\ Ready = {}
    BY <1>0, <1>3 DEF Dispatch
  <2>2. NewlySkipped # {} => failed \cup skipped # {}
    BY DEF NewlySkipped
  <2>3. Held' # {} => runStatus' = "Running"
    BY <1>0, <1>3, <2>1, DispatchTakesNew DEF VerdictInv
  <2>4. ASSUME loop' = "finish", NEW n \in Nodes \ completed'
        PROVE  \E d \in deps'[n] : d \notin results' \cup failed'
    <3>1. n \notin completed /\ n \notin NewlySkipped /\ n \notin inflight
      BY <2>1, <2>4 DEF SetsInv
    <3>2. n \notin Candidates
      BY <2>1, <2>4, <3>1 DEF Ready
    <3>3. ~(deps[n] \subseteq completed)
      BY <1>0, <3>1, <3>2 DEF Candidates, Deps
    <3> QED
      BY <1>0, <2>1, <3>3 DEF SetsInv
  <2>5. loop' = "finish" => HiddenWait'
    BY <2>4 DEF HiddenWait
  <2> QED
    BY <1>0, <1>00, <2>1, <2>2, <2>3, <2>5 DEF VerdictInv, OutcomeInv
<1>4. ASSUME NEW n \in Nodes, Join(n) PROVE VerdictInv'
  <2>1. ASSUME JoinSuccess(n) \/ JoinFailedOff(n) PROVE VerdictInv'
    <3>1. /\ task[n] # "none" /\ Reap(n) /\ UNCHANGED <<runStatus, skipped, retrying, outcome>>
          /\ loop = "select" /\ loop' = "head" /\ failed \subseteq failed'
      BY <2>1 DEF JoinSuccess, JoinFailedOff
    <3> QED
      BY <1>0, <1>00, <3>1, ReapReleases DEF VerdictInv, OutcomeInv
  <2>2. CASE JoinRetry(n)
    <3>1. /\ UNCHANGED <<runStatus, failed, skipped, outcome>>
          /\ loop = "select" /\ loop' = "backoff"
      BY <2>2 DEF JoinRetry
    <3> QED
      BY <1>0, <1>00, <2>2, <3>1, RetryHolds DEF VerdictInv, OutcomeInv
  <2>3. CASE JoinCancelled(n) \/ JoinFailedOn(n) \/ JoinPanicked(n)
    BY <2>3, <1>a DEF JoinCancelled, JoinFailedOn, JoinPanicked
  <2> QED
    BY <1>4, <2>1, <2>2, <2>3 DEF Join
<1>5. CASE BackoffElapsed
  <2>1. /\ loop = "backoff" /\ loop' = "head" /\ UNCHANGED <<failed, skipped, runStatus, outcome>>
    BY <1>5 DEF BackoffElapsed
  <2> QED
    BY <1>0, <1>00, <1>5, <2>1, BackoffHolds DEF VerdictInv, OutcomeInv
<1>6. CASE Finish
  <2>1. /\ UNCHANGED <<localVars, inflight, retrying>> /\ Held' = Held
        /\ loop = "finish" /\ loop' = "returned"
        /\ runStatus' = IF failed \cup skipped # {} THEN "CompletedWithFailures" ELSE "Completed"
    BY <1>0, <1>6 DEF Finish, StampRun, Held
  <2>2. Held' = {} /\ HiddenWait'
    BY <1>0, <1>6, <2>1 DEF QuietInv, VerdictInv, HiddenWait, Held, TypeOK
  <2> QED
    BY <1>0, <2>1, <2>2 DEF VerdictInv
<1>7. ASSUME NEW n \in Nodes, TaskStart(n) \/ TaskAnswer(n) \/ TaskCancelled(n)
      PROVE  VerdictInv'
  BY <1>7, TaskSteps, VerdictUnchanged
<1>8. ASSUME NEW S \in SUBSET Nodes, Rerun(S) PROVE FALSE
  BY <1>8 DEF Rerun, TypeOK
<1> QED
  BY <1>1, <1>2, <1>3, <1>4, <1>5, <1>6, <1>7, <1>8 DEF Next, Scheduler

\* A rerun is not bridged to the DagRun: until it returns, its nodes are shown
\* as the run left them, and the verdict stays for good.
LEMMA RepairKept ==
  ASSUME TypeOK, QuietInv, SetsInv, MirrorAgrees, OutcomeInv, VerdictInv, RepairInv, Next
  PROVE  RepairInv'
<1> USE DEF roundVars, localVars, dagRunVars
<1>1. ASSUME NEW S \in SUBSET Nodes, Rerun(S) PROVE RepairInv'
  <2>1. /\ loop = "returned" /\ outcome = "ok" /\ S # {} /\ scope' = S
        /\ \A n \in S : nodeStatus[n] \in {"Failed", "Skipped"}
        /\ UNCHANGED <<nodeStatus, runStatus>>
    BY <1>1 DEF Rerun
  <2>2. CASE round = 0
    <3>1. PICK n \in S : nodeStatus[n] \in {"Failed", "Skipped"}
      BY <2>1
    <3>2. n \in failed \cup skipped
      BY <2>1, <2>2, <3>1 DEF MirrorAgrees, Shown
    <3> QED
      BY <2>1, <2>2, <3>2 DEF VerdictInv, RepairInv
  <2>3. CASE round # 0
    BY <2>1, <2>3 DEF RepairInv, TypeOK
  <2> QED
    BY <2>2, <2>3
<1>2. ASSUME round' = round, scope' = scope, round > 0 PROVE RepairInv'
  <2>0. round # 0
    BY <1>2
  <2>1. ASSUME NEW L \in SUBSET Nodes, Dispatch(L) PROVE RepairInv'
    BY <1>2, <2>1 DEF Dispatch, RepairInv, TypeOK
  <2>2. ASSUME NEW n \in Nodes, Join(n) PROVE RepairInv'
    BY <1>2, <2>2 DEF Join, JoinSuccess, JoinCancelled, JoinRetry, JoinFailedOff, JoinFailedOn,
                JoinPanicked, Abort, StampRun, StampNodes, RepairInv, TypeOK
  <2>3. CASE Validate \/ CheckToken \/ Cancel \/ BackoffElapsed
    <3>1. loop # "returned" /\ runStatus' = runStatus /\ nodeStatus' = nodeStatus
      BY <2>0, <2>3 DEF Validate, CheckToken, Cancel, BackoffElapsed, StampNodes
    <3> QED
      BY <1>2, <3>1 DEF RepairInv
  <2>3a. CASE CancelledAtHead \/ BackoffCancelled \/ Finish
    <3>1. loop' = "returned" /\ runStatus' = runStatus
      BY <2>0, <2>3a DEF CancelledAtHead, BackoffCancelled, Finish, Abort, StampRun
    <3> QED
      BY <1>2, <3>1 DEF RepairInv
  <2>4. ASSUME NEW n \in Nodes, TaskStart(n) \/ TaskAnswer(n) \/ TaskCancelled(n)
        PROVE  RepairInv'
    BY <1>2, <2>4, TaskSteps DEF RepairInv
  <2> QED
    BY <1>1, <2>1, <2>2, <2>3, <2>3a, <2>4 DEF Next, Scheduler
<1>3. CASE ~(round' > 0)
  BY <1>3 DEF RepairInv
<1> QED
  BY <1>1, <1>2, <1>3, RoundSteps

\* The parts together, for every graph, mode and caller.
LEMMA ReportHolds == Spec => []ReportInv
<1>1. Init => ReportInv
  <2> SUFFICES ASSUME Init PROVE ReportInv
    OBVIOUS
  <2>1. Held = {} /\ JoinSet = {}
    BY DEF Init, Held, JoinSet
  <2>2. SetsInv /\ DisjointInv /\ OutcomeInv
    BY <2>1, NodesAssumption DEF NodesAssumption, Init, SetsInv, DisjointInv, OutcomeInv, FailFast
  <2>3. MirrorAgrees
    BY <2>1 DEF Init, MirrorAgrees, Shown
  <2>4. VerdictInv /\ RepairInv
    BY <2>1 DEF Init, VerdictInv, RepairInv
  <2> QED
    BY <2>2, <2>3, <2>4 DEF ReportInv
<1>2. TypeOK /\ QuietInv /\ ReportInv /\ [Next]_vars => ReportInv'
  <2> SUFFICES ASSUME TypeOK, QuietInv, ReportInv, [Next]_vars PROVE ReportInv'
    OBVIOUS
  <2>1. CASE Next
    BY <2>1, SetsKept, MirrorKept, OutcomeKept, VerdictKept, RepairKept DEF ReportInv
  <2>2. CASE UNCHANGED vars
    <3>1. UNCHANGED <<deps, override, scope, round, loop, completed, failed, skipped, results,
                      inflight, retrying, task, runStatus, nodeStatus, outcome>>
      BY <2>2 DEF vars, roundVars, localVars, dagRunVars
    <3>2. JoinSet' = JoinSet /\ Held' = Held
      BY <3>1 DEF JoinSet, Held
    <3>3. SetsInv' /\ DisjointInv' /\ OutcomeInv'
      BY <3>1, <3>2, SetsUnchanged DEF ReportInv, OutcomeInv
    <3>4. MirrorAgrees'
      BY <3>1, <3>2 DEF ReportInv, MirrorAgrees, Shown
    <3>5. VerdictInv' /\ RepairInv'
      BY <3>1, <3>2, VerdictUnchanged DEF ReportInv, RepairInv
    <3> QED
      BY <3>3, <3>4, <3>5 DEF ReportInv
  <2> QED
    BY <2>1, <2>2
<1> QED
  BY <1>1, <1>2, TypeCorrect, QuietOutside, PTL DEF Spec

-----------------------------------------------------------------------------
(* The properties.                                                         *)

\* As long as the run goes on, and after it returned Ok, dag_status reads from
\* the DagRun exactly what the loop knows.
THEOREM MirrorIsExact == Spec => []MirrorAgrees
<1>1. ReportInv => MirrorAgrees
  BY DEF ReportInv
<1> QED
  BY <1>1, ReportHolds, PTL

\* Whatever the graph, a node missing from the report of a run that returned Ok
\* waits for a node that neither succeeded nor failed.
THEOREM HiddenOnlyBehindSkips == Spec => []OnlySkipsHideNodes
<1>1. ReportInv => OnlySkipsHideNodes
  BY DEF ReportInv, SetsInv, VerdictInv, HiddenWait, OnlySkipsHideNodes
<1> QED
  BY <1>1, ReportHolds, PTL

\* After the token fired, or after the return, no step starts an executor: a
\* task's first poll is biased to the token, and a returned loop has no tasks.
THEOREM NoStartAfterStop == Spec => NothingStartsAfterStop
<1> DEFINE Kept == token \/ outcome # "none" => \A n \in Nodes : starts'[n] <= starts[n]
<1>1. TypeOK /\ QuietInv /\ ReportInv /\ [Next]_vars => [Kept]_vars
  <2> SUFFICES ASSUME TypeOK, QuietInv, ReportInv, Next, token \/ outcome # "none",
                      NEW m \in Nodes
               PROVE  starts'[m] <= starts[m]
    OBVIOUS
  <2>0. starts[m] \in Nat
    BY DEF TypeOK
  <2>1. ASSUME starts' = starts PROVE starts'[m] <= starts[m]
    BY <2>0, <2>1
  <2>2. ASSUME NEW L \in SUBSET Nodes, Dispatch(L) PROVE starts' = starts
    BY <2>2 DEF Dispatch
  <2>3. ASSUME NEW n \in Nodes, Join(n) PROVE starts' = starts
    BY <2>3 DEF Join, JoinSuccess, JoinCancelled, JoinRetry, JoinFailedOff, JoinFailedOn,
                JoinPanicked
  <2>4. CASE Validate \/ CheckToken \/ CancelledAtHead \/ BackoffElapsed \/ BackoffCancelled
             \/ Finish \/ Cancel
    BY <2>1, <2>4 DEF Validate, CheckToken, CancelledAtHead, BackoffElapsed, BackoffCancelled,
                      Finish, Cancel
  <2>5. ASSUME NEW n \in Nodes, TaskStart(n) \/ TaskAnswer(n) \/ TaskCancelled(n)
        PROVE  starts' = starts
    <3>1. loop # "returned"
      BY <2>5, TaskSteps DEF ReportInv
    <3>2. token
      BY <3>1 DEF ReportInv, OutcomeInv
    <3> QED
      BY <2>5, <3>2 DEF TaskStart, TaskAnswer, TaskCancelled
  <2>6. ASSUME NEW S \in SUBSET Nodes, Rerun(S) PROVE starts'[m] <= starts[m]
    BY <2>0, <2>6 DEF Rerun
  <2> QED
    BY <2>1, <2>2, <2>3, <2>4, <2>5, <2>6 DEF Next, Scheduler
<1> QED
  BY <1>1, TypeCorrect, QuietOutside, ReportHolds, PTL DEF Spec, NothingStartsAfterStop

-----------------------------------------------------------------------------
(* The refinement: one step of the scheduler is one step of the contract,  *)
(* or none.                                                                *)

ContractStep == Contract!Next \/ UNCHANGED Contract!cvars

LEMMA SilentSteps ==
  ASSUME UNCHANGED <<deps, nodeStatus, runStatus>>
  PROVE  ContractStep
BY DEF ContractStep, Contract!cvars, ContractStatus

\* The contract's classes of nodes are the loop's sets.
LEMMA ContractSets ==
  ASSUME TypeOK, ReportInv, round = 0, loop # "returned"
  PROVE  /\ Contract!In({"Running"}) = Held
         /\ Contract!In({"Succeeded"}) = results
         /\ Contract!In({"Failed"}) = failed
         /\ Contract!In({"Failed", "Skipped"}) = failed \cup skipped
         /\ Contract!In({"Waiting"}) = Nodes \ (completed \cup Held)
         /\ Contract!Open
         /\ \A n \in Held : runStatus = "Running" /\ ContractStatus[n] = "Running"
<1>1. \A n \in Nodes : nodeStatus[n] = Shown(n)
  BY DEF ReportInv, MirrorAgrees
<1>2. \A n \in Nodes : ContractStatus[n] =
        IF n \in results THEN "Succeeded" ELSE IF n \in failed THEN "Failed"
        ELSE IF n \in skipped THEN "Skipped" ELSE IF n \in Held THEN "Running" ELSE "Waiting"
  BY <1>1 DEF ContractStatus, Shown
<1>3. /\ Held \subseteq Nodes \ completed /\ completed = results \cup failed \cup skipped
      /\ completed \subseteq Nodes
      /\ results \cap (failed \cup skipped) = {} /\ failed \cap skipped = {}
  BY DEF ReportInv, SetsInv, DisjointInv, TypeOK
<1>4. Contract!Open /\ (Held # {} => runStatus = "Running")
  BY DEF ReportInv, VerdictInv, Contract!Open
<1> QED
  BY <1>2, <1>3, <1>4 DEF Contract!In

\* The batch the loop launches is one the contract may start, and what it
\* skips is behind a failure.
LEMMA DispatchAdvances ==
  ASSUME TypeOK, OrderInv, ReportInv, ParallelismCap, round = 0,
         NEW L \in SUBSET Nodes, Dispatch(L)
  PROVE  ContractStep
<1>1. /\ loop = "spawn" /\ IsLaunch(L) /\ deps' = deps
      /\ nodeStatus' = [n \in Nodes |-> IF n \in L THEN "Running"
                                        ELSE IF n \in NewlySkipped THEN "Skipped"
                                        ELSE nodeStatus[n]]
      /\ runStatus' = IF L # {} THEN "Running" ELSE runStatus
  BY DEF Dispatch, roundVars
<1>2. /\ L \cup NewlySkipped \subseteq Nodes \ (completed \cup Held)
      /\ Held = inflight /\ NewlySkipped \in SUBSET Nodes
  BY DispatchTakesNew DEF ReportInv, TypeOK
<1>3. \A n \in L : Contract!DepsSucceeded(n)
  <2>1. \A n \in L : deps[n] \subseteq Succeeded
    BY <1>1, ReadyDepsSucceeded DEF IsLaunch
  <2>2. Succeeded = results
    BY DEF OrderInv, RunInv
  <2> QED
    BY <1>1, <2>1, <2>2, ContractSets DEF Contract!DepsSucceeded
<1>4. Contract!Cardinality(Contract!In({"Running"}) \cup L) <= MaxParallelism
  <2>1. Cardinality(Contract!In({"Running"}) \cup L) <= MaxParallelism
    BY <1>1, <1>2, ContractSets, LaunchFits DEF ParallelismCap
  <2> QED
    BY <2>1 DEF Contract!Cardinality, Cardinality
<1>5. \A n \in NewlySkipped : deps[n] \cap Contract!In({"Failed", "Skipped"}) # {}
  BY <1>1, ContractSets DEF NewlySkipped, Deps
<1>6. ContractStatus' = [n \in Nodes |-> IF n \in L THEN "Running"
                                        ELSE IF n \in NewlySkipped THEN "Skipped"
                                        ELSE ContractStatus[n]]
  BY <1>1 DEF ContractStatus
<1>7. Contract!Advance(L, NewlySkipped)
  BY <1>1, <1>2, <1>3, <1>4, <1>5, <1>6, ContractSets DEF Contract!Advance
<1> QED
  BY <1>2, <1>7 DEF Contract!Next, ContractStep

\* Stamping one held node Succeeded or Failed.
LEMMA StampedAs ==
  ASSUME TypeOK, round = 0, NEW n \in Nodes, NEW status \in {"Succeeded", "Failed", "Running"},
         StampNodes({n}, status)
  PROVE  ContractStatus' = [ContractStatus EXCEPT ![n] = status]
BY DEF StampNodes, ContractStatus

\* An abort that blames a node is that node's failure and the verdict.
LEMMA BlamedAbort ==
  ASSUME TypeOK, ReportInv, round = 0, loop # "returned", deps' = deps,
         NEW n \in Held, n \in Nodes, StampNodes({n}, "Failed"),
         runStatus' \in {"Running", "Failed", "Cancelled"}
  PROVE  ContractStep
<1>1. Contract!Fail(n)
  BY ContractSets, StampedAs DEF Contract!Fail
<1> QED
  BY <1>1 DEF Contract!Next, ContractStep

\* A verdict that changes no node.
LEMMA PlainAbort ==
  ASSUME TypeOK, ReportInv, round = 0, loop # "returned", UNCHANGED <<deps, nodeStatus>>,
         runStatus' \in {"Failed", "Cancelled"}
  PROVE  ContractStep
<1>1. Contract!Close(runStatus')
  BY ContractSets DEF Contract!Close, ContractStatus
<1> QED
  BY <1>1 DEF Contract!Next, ContractStep

\* The joins of the first round.
LEMMA JoinImplements ==
  ASSUME TypeOK, ReportInv, round = 0, NEW n \in Nodes, Join(n)
  PROVE  ContractStep
<1>1. task[n] # "none" => n \in Held
  BY DEF ReportInv, SetsInv, JoinSet, Held
<1>2. CASE JoinSuccess(n)
  <2>1. Contract!Succeed(n)
    BY <1>1, <1>2, ContractSets, StampedAs
    DEF Contract!Succeed, JoinSuccess, roundVars
  <2> QED
    BY <2>1 DEF Contract!Next, ContractStep
<1>3. CASE JoinFailedOff(n)
  <2>1. n \in Held /\ loop = "select" /\ deps' = deps /\ runStatus' = runStatus
        /\ StampNodes({n}, "Failed")
    BY <1>1, <1>3 DEF JoinFailedOff, roundVars
  <2> QED
    BY <2>1, ContractSets, BlamedAbort
<1>4. CASE JoinCancelled(n) \/ JoinFailedOn(n)
  <2>1. /\ n \in Held /\ loop = "select" /\ deps' = deps /\ StampNodes({n}, "Failed")
        /\ runStatus' \in {"Failed", "Cancelled"}
    BY <1>1, <1>4 DEF JoinCancelled, JoinFailedOn, Abort, StampRun, roundVars
  <2> QED
    BY <2>1, BlamedAbort
<1>5. CASE JoinPanicked(n)
  BY <1>5, PlainAbort DEF JoinPanicked, Abort, StampRun, roundVars
<1>6. CASE JoinRetry(n)
  BY <1>6, SilentSteps DEF JoinRetry, dagRunVars, roundVars
<1> QED
  BY <1>2, <1>3, <1>4, <1>5, <1>6, Zenon DEF Join

\* In an acyclic graph a run that failed and skipped nothing completed every
\* node: otherwise the nodes left out would each wait for one of themselves.
LEMMA NothingLeftOut ==
  ASSUME TypeOK, ReportInv, round = 0, loop = "finish", failed \cup skipped = {}
  PROVE  results = Nodes
<1> DEFINE Rest == Nodes \ results
<1>1. completed = results /\ results \subseteq Nodes /\ scope = Nodes /\ Acyclic /\ HiddenWait
  BY DEF ReportInv, SetsInv, VerdictInv, TypeOK
<1>2. \A n \in Rest : deps[n] \cap Rest # {}
  BY <1>1 DEF HiddenWait, TypeOK
<1>3. Rest = {}
  <2> SUFFICES ASSUME Rest # {} PROVE FALSE
    OBVIOUS
  <2>1. PICK n \in Rest : Deps(n) \cap Rest = {}
    BY <1>1 DEF Acyclic
  <2> QED
    BY <1>2, <2>1 DEF Deps
<1> QED
  BY <1>1, <1>3

\* The end of the run gives the verdict, the end of a rerun promotes nodes.
LEMMA FinishImplements ==
  ASSUME TypeOK, QuietInv, OrderInv, ReportInv, Finish
  PROVE  ContractStep
<1> USE DEF roundVars, localVars
<1>1. CASE round = 0
  <2>1. /\ deps' = deps /\ nodeStatus' = nodeStatus /\ loop = "finish"
        /\ runStatus' = IF failed \cup skipped # {} THEN "CompletedWithFailures" ELSE "Completed"
    BY <1>1 DEF Finish, StampRun, AppendAttempts, TypeOK
  <2>2. ContractStatus' = ContractStatus
    BY <2>1 DEF ContractStatus
  <2>3. Held = {} /\ (skipped # {} => failed # {})
    BY <1>1, <2>1 DEF QuietInv, Held, TypeOK, ReportInv, VerdictInv
  <2>4. Contract!Close(runStatus')
    BY <1>1, <2>1, <2>2, <2>3, ContractSets, NothingLeftOut DEF Contract!Close
  <2> QED
    BY <2>1, <2>4 DEF Contract!Next, ContractStep
<1>2. CASE round # 0
  <2>1. /\ deps' = deps /\ runStatus' = runStatus /\ loop = "finish"
        /\ nodeStatus' = [n \in Nodes |-> IF n \in results THEN "Succeeded" ELSE nodeStatus[n]]
    BY <1>2 DEF Finish, StampRun, AppendAttempts
  <2>2. /\ results \subseteq scope /\ runStatus = "CompletedWithFailures"
        /\ \A n \in scope : nodeStatus[n] \in {"Failed", "Skipped"}
        /\ \A n \in scope : deps[n] \subseteq Succeeded
    BY <1>2, <2>1 DEF ReportInv, SetsInv, RepairInv, OrderInv, RerunInv, TypeOK
  <2>3. Succeeded \subseteq Contract!In({"Succeeded"})
    BY DEF Succeeded, Contract!In, ContractStatus
  <2>4. results \subseteq Contract!In({"Failed", "Skipped"})
    BY <2>2 DEF Contract!In, ContractStatus, TypeOK
  <2>5. ContractStatus' = [n \in Nodes |-> IF n \in results THEN "Succeeded"
                                          ELSE ContractStatus[n]]
    BY <2>1 DEF ContractStatus
  <2>6. Contract!Repair(results)
    BY <2>1, <2>2, <2>3, <2>4, <2>5 DEF Contract!Repair, Contract!DepsSucceeded
  <2> QED
    BY <2>6 DEF Contract!Next, ContractStep, TypeOK
<1> QED
  BY <1>1, <1>2

\* What a rerun does before its end does not reach the DagRun.
LEMMA RerunsSilent ==
  ASSUME TypeOK, round # 0, Next, ~Finish
  PROVE  UNCHANGED <<deps, nodeStatus, runStatus>>
<1> USE DEF roundVars, dagRunVars, TypeOK
<1>1. ASSUME NEW L \in SUBSET Nodes, Dispatch(L)
      PROVE  UNCHANGED <<deps, nodeStatus, runStatus>>
  BY <1>1 DEF Dispatch
<1>2. ASSUME NEW n \in Nodes, Join(n) PROVE UNCHANGED <<deps, nodeStatus, runStatus>>
  BY <1>2 DEF Join, JoinSuccess, JoinCancelled, JoinRetry, JoinFailedOff, JoinFailedOn,
              JoinPanicked, Abort, StampRun, StampNodes
<1>3. CASE Validate \/ CheckToken \/ CancelledAtHead \/ BackoffElapsed \/ BackoffCancelled
           \/ Cancel
  BY <1>3 DEF Validate, CheckToken, CancelledAtHead, BackoffElapsed, BackoffCancelled,
              Cancel, Abort, StampRun, StampNodes
<1>4. ASSUME NEW n \in Nodes, TaskStart(n) \/ TaskAnswer(n) \/ TaskCancelled(n)
      PROVE  UNCHANGED <<deps, nodeStatus, runStatus>>
  BY <1>4 DEF TaskStart, TaskAnswer, TaskCancelled
<1>5. ASSUME NEW S \in SUBSET Nodes, Rerun(S) PROVE UNCHANGED <<deps, nodeStatus, runStatus>>
  BY <1>5 DEF Rerun
<1> QED
  BY <1>1, <1>2, <1>3, <1>4, <1>5 DEF Next, Scheduler

\* Seen through the DagRun, every behaviour of the scheduler is one the
\* contract of a run allows: for every graph, retry budget and bound, if the
\* callers keep the precondition of recover_skipped.
THEOREM SchedulerImplementsContract ==
  ASSUME CallerChecks = TRUE
  PROVE  Spec => ImplementsContract
<1>1. Init => Contract!Init
  <2> SUFFICES ASSUME Init PROVE Contract!Init
    OBVIOUS
  <2>1. deps \in [Nodes -> SUBSET Nodes]
    BY GraphsAssumption DEF Init, GraphsAssumption
  <2>2. ContractStatus = [n \in Nodes |-> "Waiting"]
    BY DEF Init, ContractStatus
  <2> QED
    BY <2>1, <2>2 DEF Init, Contract!Init
<1>2. TypeOK /\ QuietInv /\ ParallelismCap /\ OrderInv /\ ReportInv /\ [Next]_vars
        => ContractStep
  <2> SUFFICES ASSUME TypeOK, QuietInv, ParallelismCap, OrderInv, ReportInv, [Next]_vars
               PROVE  ContractStep
    OBVIOUS
  <2>1. CASE UNCHANGED vars
    BY <2>1, SilentSteps DEF vars, roundVars, dagRunVars
  <2>2. CASE Finish
    BY <2>2, FinishImplements
  <2>3. CASE Next /\ ~Finish /\ round # 0
    BY <2>3, RerunsSilent, SilentSteps
  <2>4. CASE Next /\ ~Finish /\ round = 0
    <3>1. ASSUME NEW L \in SUBSET Nodes, Dispatch(L) PROVE ContractStep
      BY <2>4, <3>1, DispatchAdvances
    <3>2. ASSUME NEW n \in Nodes, Join(n) PROVE ContractStep
      BY <2>4, <3>2, JoinImplements
    <3>3. CASE Validate \/ CheckToken \/ Cancel
      BY <3>3, SilentSteps DEF Validate, CheckToken, Cancel, roundVars, dagRunVars
    <3>4. CASE CancelledAtHead
      BY <2>4, <3>4, PlainAbort DEF CancelledAtHead, Abort, StampRun, roundVars
    <3>5. CASE BackoffElapsed
      <4>1. /\ loop # "returned" /\ retrying \in Held /\ retrying \in Nodes /\ deps' = deps
            /\ runStatus' = runStatus
        BY <3>5, BackoffHolds DEF BackoffElapsed, ReportInv, TypeOK, roundVars
      <4>2. ContractStatus' = ContractStatus
        BY <2>4, <3>5, <4>1, ContractSets, StampedAs DEF BackoffElapsed, ContractStatus
      <4> QED
        BY <4>1, <4>2 DEF ContractStep, Contract!cvars
    <3>6. CASE BackoffCancelled
      <4>1. /\ loop # "returned" /\ retrying \in Held /\ retrying \in Nodes /\ deps' = deps
            /\ runStatus' = "Cancelled" /\ StampNodes({retrying}, "Failed")
        BY <2>4, <3>6 DEF BackoffCancelled, Abort, StampRun, Held, TypeOK, roundVars
      <4> QED
        BY <2>4, <4>1, BlamedAbort
    <3>7. ASSUME NEW n \in Nodes, TaskStart(n) \/ TaskAnswer(n) \/ TaskCancelled(n)
          PROVE  ContractStep
      BY <3>7, SilentSteps DEF TaskStart, TaskAnswer, TaskCancelled, roundVars, dagRunVars
    <3>8. ASSUME NEW S \in SUBSET Nodes, Rerun(S) PROVE ContractStep
      BY <3>8, SilentSteps DEF Rerun, dagRunVars
    <3> QED
      BY <2>4, <3>1, <3>2, <3>3, <3>4, <3>5, <3>6, <3>7, <3>8 DEF Next, Scheduler
  <2> QED
    BY <2>1, <2>2, <2>3, <2>4
<1>3. Spec => []OrderInv
  BY OrderHolds
<1> QED
  BY <1>1, <1>2, <1>3, TypeCorrect, QuietOutside, ParallelismBound, ReportHolds, PTL
  DEF Spec, ImplementsContract, Contract!Spec, ContractStep
=============================================================================
