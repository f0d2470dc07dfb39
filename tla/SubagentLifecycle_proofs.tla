----------------------- MODULE SubagentLifecycle_proofs -----------------------
(***************************************************************************)
(* The registry of sub-agents, its drivers and the turns agree on every    *)
(* sub-agent, for every number of jobs, retries, ids and crashes.          *)
(***************************************************************************)
EXTENDS SubagentLifecycleProps, TLAPS

\* A method of the coordinator leaves a status behind, whatever it was asked.
LEMMA StatusTyped ==
  ASSUME TypeOK, NEW i \in Ids, Complete(i) \/ Fail(i) \/ CancelAgent(i)
  PROVE  status' \in [Ids -> Statuses]
BY DEF TypeOK, Complete, Fail, CancelAgent, Statuses, Terminal

\* The steps of a driver keep the types.
LEMMA DriverTyped ==
  ASSUME TypeOK, NEW j \in Jobs, Drive(j)
  PROVE  TypeOK'
<1> USE JobsAssumption, LimitsAssumption
    DEF JobsAssumption, LimitsAssumption, TypeOK, PcStates, registry, drivers, killVars,
        Goto, Finished, NodeFailed
<1>0. pc[j] \notin {"idle", "done"} => cur[j] \in Ids
  OBVIOUS
<1>1. CASE Start(j)
  BY <1>0, <1>1, ZenonT(60) DEF Start, Statuses, TurnStates
<1>2. CASE Answered(j)
  <2>1. CASE turn[cur[j]] = "settledOk" /\ Goto(j, "save") /\ UNCHANGED outcome
    BY <1>0, <1>2, <2>1 DEF Answered
  <2>2. CASE NodeFailed(j)
    BY <1>0, <1>2, <2>2, ZenonT(60) DEF Answered
  <2> QED
    BY <1>2, <2>1, <2>2 DEF Answered
<1>3. CASE SaveBegins(j)
  BY <1>0, <1>3, SMTT(30) DEF SaveBegins
<1>4. CASE SaveEnds(j)
  BY <1>0, <1>4 DEF SaveEnds
<1>5. CASE RecordOk(j)
  BY <1>0, <1>5, StatusTyped DEF RecordOk
<1>5a. CASE RecordError(j)
  <2>1. status' \in [Ids -> Statuses]
    BY <1>0, <1>5a, StatusTyped DEF RecordError
  <2>2. /\ pc' \in [Jobs -> PcStates]
        /\ outcome' \in [Jobs -> {"none", "completed", "failed", "cancelled"}]
        /\ \A k \in Jobs : pc'[k] \notin {"idle", "done"} => cur[k] # Nobody
    <3>1. CASE Goto(j, "upgrade") /\ UNCHANGED outcome
      BY <1>0, <1>5a, <3>1 DEF RecordError
    <3>2. CASE Finished(j, "failed")
      BY <1>0, <1>5a, <3>2 DEF RecordError
    <3> QED
      BY <1>5a, <3>1, <3>2 DEF RecordError
  <2>3. UNCHANGED <<counter, resets, validated, owner, cur, tries, turn, dropped, tools,
                    killVars, ckpt, restarts>>
    BY <1>5a DEF RecordError
  <2> QED
    BY <2>1, <2>2, <2>3
<1>5c. CASE UpgradeRefused(j)
  <2>1. status' \in [Ids -> Statuses]
    BY <1>0, <1>5c, StatusTyped DEF UpgradeRefused
  <2> QED
    BY <1>0, <1>5c, <2>1 DEF UpgradeRefused
<1>5b. CASE Reject(j)
  <2>1. status' \in [Ids -> Statuses]
    BY <1>0, <1>5b, StatusTyped DEF Reject
  <2> QED
    BY <1>0, <1>5b, <2>1, ZenonT(60) DEF Reject
<1>6. CASE Validate(j) \/ GatesPass(j) \/ GatesFail(j)
  BY <1>0, <1>6, ZenonT(60) DEF Validate, GatesPass, GatesFail
<1>7. CASE Upgrade(j)
  <2>1. /\ status' \in [Ids -> Statuses] /\ resets' \in [Ids -> Nat]
        /\ validated' \in [Ids -> BOOLEAN]
    <3>1. CASE MayReset(cur[j], MaxTries[j])
      <4>1. /\ status' = [status EXCEPT ![cur[j]] = "Running"]
            /\ resets' = [resets EXCEPT ![cur[j]] = resets[cur[j]] + 1]
            /\ validated' = [validated EXCEPT ![cur[j]] = FALSE]
        BY <1>7, <3>1 DEF Upgrade, ResetAndStart
      <4>2. cur[j] \in Ids /\ "Running" \in Statuses
        BY <1>0, <1>7 DEF Upgrade, Statuses
      <4> QED
        BY <4>1, <4>2
    <3>2. CASE ~MayReset(cur[j], MaxTries[j])
      BY <1>7, <3>2 DEF Upgrade, ResetAndStart
    <3> QED
      BY <3>1, <3>2
  <2>2. tries' \in [Jobs -> Nat] /\ turn' \in [Ids -> TurnStates] /\ pc' \in [Jobs -> PcStates]
    BY <1>0, <1>7 DEF Upgrade, TurnStates
  <2>3. UNCHANGED <<counter, owner, cur, outcome, dropped, tools, killVars, ckpt, restarts>>
    BY <1>7 DEF Upgrade
  <2>4. \A k \in Jobs : pc'[k] \notin {"idle", "done"} => cur'[k] # Nobody
    BY <1>0, <1>7 DEF Upgrade
  <2> QED
    BY <2>1, <2>2, <2>3, <2>4
<1> QED
  BY <1>1, <1>2, <1>3, <1>4, <1>5, <1>5a, <1>5b, <1>5c, <1>6, <1>7 DEF Drive

\* What the end of a run does to the drivers and the recorders keeps the types.
LEMMA RunTyped ==
  ASSUME TypeOK, NEW r \in DagRuns, Abandon(r) \/ RuntimeEnds(r)
  PROVE  TypeOK'
<1>1. CASE Abandon(r)
  <2>1. /\ pc' \in [Jobs -> PcStates]
        /\ outcome' \in [Jobs -> {"none", "completed", "failed", "cancelled"}]
        /\ \A j \in Jobs : pc'[j] \notin {"idle", "done"} => pc[j] \notin {"idle", "done"}
    BY <1>1 DEF Abandon, TypeOK, PcStates
  <2> QED
    BY <1>1, <2>1 DEF Abandon, TypeOK, registry, killVars
<1>2. CASE RuntimeEnds(r)
  BY <1>2 DEF RuntimeEnds, TypeOK, registry, drivers, killVars
<1> QED
  BY <1>1, <1>2

\* Every variable of the registry and its drivers keeps its type, through
\* kills, panics and restarts.
THEOREM TypeCorrect == Spec => []TypeOK
<1>1. Init => TypeOK
  BY JobsAssumption, LimitsAssumption
  DEF JobsAssumption, LimitsAssumption, Init, TypeOK, Statuses, PcStates, TurnStates, NoFile
<1>2. TypeOK /\ [Next]_vars => TypeOK'
  <2> SUFFICES ASSUME TypeOK, [Next]_vars PROVE TypeOK'
    OBVIOUS
  <2> USE JobsAssumption, LimitsAssumption
      DEF JobsAssumption, LimitsAssumption, TypeOK, PcStates, registry, drivers, killVars
  <2>1. ASSUME NEW j \in Jobs, Spawn(j) PROVE TypeOK'
    <3>1. counter' \in Ids /\ counter' \in 0..MaxId
      BY <2>1 DEF Spawn, Ids
    <3>2. /\ status' = [status EXCEPT ![counter'] = "Created"]
          /\ resets' = [resets EXCEPT ![counter'] = 0]
          /\ validated' = [validated EXCEPT ![counter'] = FALSE]
          /\ owner' = [owner EXCEPT ![counter'] = j]
          /\ cur' = [cur EXCEPT ![j] = counter']
          /\ tries' = [tries EXCEPT ![j] = @ + 1]
          /\ pc' = [pc EXCEPT ![j] = "spawned"]
          /\ UNCHANGED <<outcome, turn, dropped, tools, killVars, ckpt, restarts>>
      BY <2>1 DEF Spawn, Goto
    <3>3. /\ status' \in [Ids -> Statuses] /\ resets' \in [Ids -> Nat]
          /\ validated' \in [Ids -> BOOLEAN] /\ owner' \in [Ids -> Jobs \cup {Nobody}]
      BY <3>1, <3>2 DEF Statuses
    <3>4. /\ pc' \in [Jobs -> PcStates] /\ cur' \in [Jobs -> Ids \cup {Nobody}]
          /\ \A k \in Jobs : pc'[k] \notin {"idle", "done"} => cur'[k] # Nobody
          /\ tries' \in [Jobs -> Nat]
      BY <3>1, <3>2, SMTT(30) DEF Ids
    <3> QED
      BY <3>1, <3>2, <3>3, <3>4
  <2>2. ASSUME NEW j \in Jobs, Drive(j) PROVE TypeOK'
    BY <2>2, DriverTyped
  <2>2a. ASSUME NEW r \in DagRuns, Abandon(r) \/ RuntimeEnds(r) PROVE TypeOK'
    BY <2>2a, RunTyped
  <2>3. ASSUME NEW i \in Ids, Turn(i) PROVE TypeOK'
    <3>1. CASE TurnBegins(i)
      BY <3>1 DEF TurnBegins, TurnStates
    <3>2. CASE TurnEnds(i) \/ TurnKilled(i) \/ TurnPanics(i)
      BY <3>2 DEF TurnEnds, TurnKilled, TurnPanics, Release, TurnStates
    <3>3. CASE Settle(i)
      BY <3>3 DEF Settle, TurnStates, Statuses, Terminal
    <3> QED
      BY <2>3, <3>1, <3>2, <3>3 DEF Turn
  <2>4. CASE Kill
    <3>1. ASSUME NEW i \in Ids, KillBegins(i) PROVE TypeOK'
      <4>1. /\ killing' \in Ids /\ killing' # Nobody /\ killStep' = "publish"
            /\ UNCHANGED <<counter, registry, drivers, turn, dropped, tools, commands, ckpt,
                           restarts>>
        BY <3>1 DEF KillBegins, Ids
      <4> QED
        BY <4>1
    <3>2. CASE KillPublishes
      BY <3>2 DEF KillPublishes
    <3>3. CASE KillCancels
      BY <3>3, StatusTyped DEF KillCancels
    <3> QED
      BY <2>4, <3>1, <3>2, <3>3 DEF Kill
  <2>5. CASE Restart
    BY <2>5 DEF Restart, Restored, Revived, Statuses, TurnStates, Terminal
  <2>6. CASE UNCHANGED vars
    BY <2>6 DEF vars
  <2> QED
    BY <2>1, <2>2, <2>2a, <2>3, <2>4, <2>5, <2>6 DEF Next
<1> QED
  BY <1>1, <1>2, PTL DEF Spec

-----------------------------------------------------------------------------
(* The agreement of registry, drivers and turns.                           *)

\* A step of one driver disturbs what is known of its own job and sub-agent
\* only, because no two jobs share a sub-agent.
LEMMA StepOfOneDriver ==
  ASSUME TypeOK, LifecycleInv, NEW j \in Jobs, cur[j] # Nobody, pc[j] # "done",
         UNCHANGED <<counter, owner, cur, killing, dropped>>,
         \A i \in Ids \ {cur[j]} :
            /\ status'[i] = status[i] /\ turn'[i] = turn[i] /\ resets'[i] = resets[i]
            /\ validated'[i] = validated[i] /\ ckpt'[i] = ckpt[i],
         \A k \in Jobs \ {j} :
            pc'[k] = pc[k] /\ tries'[k] = tries[k] /\ outcome'[k] = outcome[k],
         AgentInv(cur[j])', JobInv(j)'
  PROVE  LifecycleInv'
<1>1. ASSUME NEW i \in Ids PROVE AgentInv(i)'
  <2>1. CASE i = cur[j]
    BY <2>1
  <2>2. CASE i # cur[j]
    <3>1. AgentInv(i) /\ owner[i] \in Jobs \cup {Nobody}
      BY DEF LifecycleInv, TypeOK
    <3>2. CASE owner[i] = j
      <4>1. status[i] # "Running" /\ i \notin dropped
        BY <2>2, <3>1, <3>2 DEF LifecycleInv, AgentInv
      <4> QED
        BY <2>2, <3>1, <4>1 DEF AgentInv
    <3>3. CASE owner[i] # j
      BY <2>2, <3>1, <3>3, JobsAssumption DEF AgentInv, JobsAssumption
    <3> QED
      BY <3>2, <3>3
  <2> QED
    BY <2>1, <2>2
<1>2. ASSUME NEW k \in Jobs PROVE JobInv(k)'
  <2>1. CASE k = j
    BY <2>1
  <2>2. CASE k # j
    <3>1. JobInv(k) /\ JobInv(j) /\ cur'[k] = cur[k]
      BY DEF LifecycleInv
    <3>2. cur[k] # Nobody => cur[k] \in Ids \ {cur[j]}
      BY <2>2, <3>1 DEF JobInv, TypeOK
    <3>3. /\ pc'[k] = pc[k] /\ tries'[k] = tries[k] /\ outcome'[k] = outcome[k]
          /\ pc[k] \notin {"idle", "done"} => cur[k] # Nobody
      BY <2>2 DEF TypeOK
    <3>4. CASE cur[k] = Nobody
      BY <3>1, <3>3, <3>4 DEF JobInv, DagDriverInv, SingleDriverInv
    <3>5. CASE cur[k] # Nobody
      BY <3>1, <3>2, <3>3, <3>5 DEF JobInv, DagDriverInv, SingleDriverInv
    <3> QED
      BY <3>4, <3>5
  <2> QED
    BY <2>1, <2>2
<1>3. (killing # Nobody => owner[killing] \notin Jobs \ DagJobs)'
  BY DEF LifecycleInv
<1> QED
  BY <1>1, <1>2, <1>3 DEF LifecycleInv

\* The steps of a driver, one by one.
LEMMA DriverKeeps ==
  ASSUME TypeOK, LifecycleInv, NEW j \in Jobs, Drive(j)
  PROVE  LifecycleInv'
<1> USE JobsAssumption, LimitsAssumption
    DEF JobsAssumption, LimitsAssumption, registry, drivers, killVars
<1>0. /\ JobInv(j)
      /\ pc[j] \notin {"idle", "done"} => cur[j] \in Ids /\ cur[j] # Nobody /\ AgentInv(cur[j])
  BY DEF LifecycleInv, TypeOK
<1>1. CASE Start(j)
  <2>1. AgentInv(cur[j])'
    BY <1>0, <1>1 DEF Start, Goto, NodeFailed, Finished, AgentInv, JobInv, DagDriverInv, SingleDriverInv, TypeOK, Terminal
  <2>2. JobInv(j)'
    BY <1>0, <1>1 DEF Start, Goto, NodeFailed, Finished, AgentInv, JobInv, DagDriverInv, SingleDriverInv, TypeOK, Terminal
  <2> QED
    BY <1>0, <1>1, <2>1, <2>2, StepOfOneDriver DEF Start, Goto, NodeFailed, Finished, TypeOK
<1>2. CASE Answered(j)
  <2>1. AgentInv(cur[j])'
    BY <1>0, <1>2 DEF Answered, Goto, NodeFailed, Finished, AgentInv, JobInv, DagDriverInv, SingleDriverInv, TypeOK, Terminal
  <2>2. JobInv(j)'
    BY <1>0, <1>2 DEF Answered, Goto, NodeFailed, Finished, AgentInv, JobInv, DagDriverInv, SingleDriverInv, TypeOK, Terminal
  <2> QED
    BY <1>0, <1>2, <2>1, <2>2, StepOfOneDriver DEF Answered, Goto, NodeFailed, Finished, TypeOK
<1>4. CASE SaveBegins(j)
  <2>1. AgentInv(cur[j])'
    BY <1>0, <1>4 DEF SaveBegins, Goto, AgentInv, JobInv, DagDriverInv, SingleDriverInv, TypeOK, Terminal
  <2>2. JobInv(j)'
    BY <1>0, <1>4 DEF SaveBegins, Goto, AgentInv, JobInv, DagDriverInv, SingleDriverInv, TypeOK, Terminal
  <2> QED
    BY <1>0, <1>4, <2>1, <2>2, StepOfOneDriver DEF SaveBegins, Goto, TypeOK
<1>5. CASE SaveEnds(j)
  <2>1. AgentInv(cur[j])'
    BY <1>0, <1>5 DEF SaveEnds, Goto, AgentInv, JobInv, DagDriverInv, SingleDriverInv, TypeOK, Terminal
  <2>2. JobInv(j)'
    BY <1>0, <1>5 DEF SaveEnds, Goto, AgentInv, JobInv, DagDriverInv, SingleDriverInv, TypeOK, Terminal
  <2> QED
    BY <1>0, <1>5, <2>1, <2>2, StepOfOneDriver DEF SaveEnds, Goto, TypeOK
<1>6. CASE RecordOk(j)
  <2>1. AgentInv(cur[j])'
    BY <1>0, <1>6 DEF RecordOk, Goto, Complete, MayComplete, AgentInv, JobInv, DagDriverInv, SingleDriverInv, TypeOK, Terminal
  <2>2. JobInv(j)'
    BY <1>0, <1>6 DEF RecordOk, Goto, Complete, MayComplete, AgentInv, JobInv, DagDriverInv, SingleDriverInv, TypeOK, Terminal
  <2> QED
    BY <1>0, <1>6, <2>1, <2>2, StepOfOneDriver DEF RecordOk, Goto, Complete, MayComplete, TypeOK
<1>7. CASE RecordError(j)
  <2>1. AgentInv(cur[j])'
    BY <1>0, <1>7 DEF RecordError, Goto, Finished, Fail, MayFail, AgentInv, JobInv, DagDriverInv, SingleDriverInv, TypeOK, Terminal
  <2>2. JobInv(j)'
    BY <1>0, <1>7 DEF RecordError, Goto, Finished, Fail, MayFail, AgentInv, JobInv, DagDriverInv, SingleDriverInv, TypeOK, Terminal
  <2> QED
    BY <1>0, <1>7, <2>1, <2>2, StepOfOneDriver DEF RecordError, Goto, Finished, Fail, MayFail, TypeOK
<1>8. CASE Validate(j)
  <2>1. AgentInv(cur[j])'
    BY <1>0, <1>8 DEF Validate, Goto, AgentInv, JobInv, DagDriverInv, SingleDriverInv, TypeOK, Terminal
  <2>2. JobInv(j)'
    BY <1>0, <1>8 DEF Validate, Goto, AgentInv, JobInv, DagDriverInv, SingleDriverInv, TypeOK, Terminal
  <2> QED
    BY <1>0, <1>8, <2>1, <2>2, StepOfOneDriver DEF Validate, Goto, TypeOK
<1>9. CASE GatesPass(j)
  <2>1. AgentInv(cur[j])'
    BY <1>0, <1>9 DEF GatesPass, Goto, Finished, AgentInv, JobInv, DagDriverInv, SingleDriverInv, TypeOK, Terminal
  <2>2. JobInv(j)'
    BY <1>0, <1>9 DEF GatesPass, Goto, Finished, AgentInv, JobInv, DagDriverInv, SingleDriverInv, TypeOK, Terminal
  <2> QED
    BY <1>0, <1>9, <2>1, <2>2, StepOfOneDriver DEF GatesPass, Goto, Finished, TypeOK
<1>10. CASE GatesFail(j)
  <2>1. AgentInv(cur[j])'
    BY <1>0, <1>10 DEF GatesFail, Goto, AgentInv, JobInv, DagDriverInv, SingleDriverInv, TypeOK, Terminal
  <2>2. JobInv(j)'
    BY <1>0, <1>10 DEF GatesFail, Goto, AgentInv, JobInv, DagDriverInv, SingleDriverInv, TypeOK, Terminal
  <2> QED
    BY <1>0, <1>10, <2>1, <2>2, StepOfOneDriver DEF GatesFail, Goto, TypeOK
<1>11. CASE Reject(j)
  <2>1. AgentInv(cur[j])'
    BY <1>0, <1>11 DEF Reject, Goto, Finished, NodeFailed, Fail, MayFail, AgentInv, JobInv, DagDriverInv, SingleDriverInv, TypeOK, Terminal
  <2>2. JobInv(j)'
    BY <1>0, <1>11 DEF Reject, Goto, Finished, NodeFailed, Fail, MayFail, AgentInv, JobInv, DagDriverInv, SingleDriverInv, TypeOK, Terminal
  <2> QED
    BY <1>0, <1>11, <2>1, <2>2, StepOfOneDriver DEF Reject, Goto, Finished, NodeFailed, Fail, MayFail, TypeOK
<1>12. CASE UpgradeRefused(j)
  <2>1. AgentInv(cur[j])'
    BY <1>0, <1>12 DEF UpgradeRefused, Goto, Finished, Fail, MayFail, AgentInv, JobInv, DagDriverInv, SingleDriverInv, TypeOK, Terminal
  <2>2. JobInv(j)'
    BY <1>0, <1>12 DEF UpgradeRefused, Goto, Finished, Fail, MayFail, AgentInv, JobInv, DagDriverInv, SingleDriverInv, TypeOK, Terminal
  <2> QED
    BY <1>0, <1>12, <2>1, <2>2, StepOfOneDriver DEF UpgradeRefused, Goto, Finished, Fail, MayFail, TypeOK
<1>13. CASE Upgrade(j)
  <2>1. AgentInv(cur[j])'
    BY <1>0, <1>13 DEF Upgrade, Goto, ResetAndStart, MayReset, AgentInv, JobInv, DagDriverInv, SingleDriverInv, TypeOK, Terminal
  <2>2. JobInv(j)'
    BY <1>0, <1>13 DEF Upgrade, Goto, ResetAndStart, MayReset, AgentInv, JobInv, DagDriverInv, SingleDriverInv, TypeOK, Terminal
  <2>3. \A i \in Ids \ {cur[j]} :
          status'[i] = status[i] /\ resets'[i] = resets[i] /\ validated'[i] = validated[i]
    BY <1>0, <1>13 DEF Upgrade, ResetAndStart, TypeOK
  <2> QED
    BY <1>0, <1>13, <2>1, <2>2, <2>3, StepOfOneDriver DEF Upgrade, Goto, TypeOK
<1> QED
  BY <1>1, <1>2, <1>4, <1>5, <1>6, <1>7, <1>8, <1>9, <1>10, <1>11, <1>12, <1>13 DEF Drive

\* The steps of a turn thread move no driver; a settled turn is one of a DAG.
LEMMA TurnKeeps ==
  ASSUME TypeOK, LifecycleInv, NEW i \in Ids, Turn(i)
  PROVE  LifecycleInv'
<1> USE JobsAssumption DEF JobsAssumption, registry, drivers, killVars
<1>1. /\ UNCHANGED <<counter, owner, resets, validated, drivers, dropped, killing, ckpt>>
      /\ \A k \in Ids \ {i} : status'[k] = status[k] /\ turn'[k] = turn[k]
  BY DEF Turn, TurnBegins, TurnEnds, TurnKilled, TurnPanics, Settle, TypeOK
<1>2. /\ turn[i] = "waiting" /\ turn'[i] \in {"running", "error"} /\ status' = status
      \/ /\ turn[i] = "running" /\ turn'[i] \in {"ok", "error"} /\ status' = status
      \/ /\ turn[i] \in {"ok", "error"} /\ owner[i] \in DagJobs
         /\ turn'[i] = IF turn[i] = "ok" THEN "settledOk" ELSE "settledError"
         /\ status'[i] = IF status[i] # "Running" THEN status[i]
                         ELSE IF turn[i] = "ok" THEN "Completed" ELSE "Failed"
  BY DEF Turn, TurnBegins, TurnEnds, TurnKilled, TurnPanics, Settle, TypeOK
<1>3. ASSUME NEW k \in Ids PROVE AgentInv(k)'
  <2>1. AgentInv(k)
    BY DEF LifecycleInv
  <2> QED
    BY <1>1, <1>2, <2>1 DEF AgentInv, Terminal
<1>4. ASSUME NEW j \in Jobs PROVE JobInv(j)'
  <2>1. JobInv(j) /\ AgentInv(i) /\ cur[j] \in Ids \cup {Nobody}
    BY DEF LifecycleInv, TypeOK
  <2>2. pc[j] \notin {"idle", "done"} => cur[j] # Nobody
    BY DEF TypeOK
  <2>3. CASE cur[j] # i
    BY <1>1, <2>1, <2>2, <2>3 DEF JobInv, DagDriverInv, SingleDriverInv
  <2>4. CASE cur[j] = i
    <3>1. owner[i] = j
      BY <2>1, <2>4 DEF JobInv, Ids
    <3>2. CASE j \in DagJobs
      BY <1>1, <1>2, <2>1, <2>2, <2>4, <3>1, <3>2 DEF JobInv, DagDriverInv, AgentInv
    <3>3. CASE j \notin DagJobs
      BY <1>1, <1>2, <2>1, <2>2, <2>4, <3>1, <3>3 DEF JobInv, SingleDriverInv, AgentInv
    <3> QED
      BY <3>2, <3>3
  <2> QED
    BY <2>3, <2>4
<1> QED
  BY <1>1, <1>3, <1>4 DEF LifecycleInv

\* A run that is cut short ends the jobs of its nodes and moves no sub-agent; the
\* end of its runtime takes recorders of jobs that are over.
LEMMA RunKeeps ==
  ASSUME TypeOK, LifecycleInv, NEW r \in DagRuns, Abandon(r) \/ RuntimeEnds(r)
  PROVE  LifecycleInv'
<1> USE JobsAssumption, RunsAssumption
    DEF JobsAssumption, RunsAssumption, registry, drivers, killVars
<1>0. r \subseteq DagJobs /\ r \subseteq Jobs
  OBVIOUS
<1>1. CASE Abandon(r)
  <2>1. UNCHANGED <<counter, registry, cur, tries, turn, killing, ckpt, dropped>>
    BY <1>1 DEF Abandon
  <2>2. /\ \A j \in Jobs \ r : pc'[j] = pc[j] /\ outcome'[j] = outcome[j]
        /\ \A j \in r : pc[j] \in {"idle", "turn", "done"} /\ pc'[j] = "done"
        /\ \A j \in r : outcome'[j] = IF pc[j] = "done" THEN outcome[j] ELSE "cancelled"
    BY <1>0, <1>1 DEF Abandon
  <2>3. ASSUME NEW i \in Ids PROVE AgentInv(i)'
    <3>1. AgentInv(i) /\ owner[i] \in Jobs \cup {Nobody}
      BY DEF LifecycleInv, TypeOK
    <3>2. status[i] = "Running" => owner[i] \in Jobs
      BY <3>1 DEF AgentInv
    <3>3. i \in dropped => owner[i] \in DagJobs /\ pc'[owner[i]] = "done"
      BY <2>2, <3>1 DEF AgentInv
    <3>4. status[i] = "Running" =>
            /\ cur[owner[i]] = i
            /\ pc'[owner[i]] \in {"turn", "saving", "record", "done"}
            /\ pc'[owner[i]] = "done" => outcome'[owner[i]] = "cancelled"
      BY <2>2, <3>1, <3>2 DEF AgentInv
    <3> QED
      BY <2>1, <3>1, <3>3, <3>4 DEF AgentInv
  <2>4. ASSUME NEW j \in Jobs PROVE JobInv(j)'
    <3>1. JobInv(j)
      BY DEF LifecycleInv
    <3>2. CASE j \in r
      BY <1>0, <2>1, <2>2, <3>1, <3>2 DEF JobInv, DagDriverInv
    <3>3. CASE j \notin r
      BY <2>1, <2>2, <3>1, <3>3 DEF JobInv, DagDriverInv, SingleDriverInv
    <3> QED
      BY <3>2, <3>3
  <2> QED
    BY <2>1, <2>3, <2>4 DEF LifecycleInv
<1>2. CASE RuntimeEnds(r)
  <2>1. /\ UNCHANGED <<counter, registry, drivers, turn, killing, ckpt>>
        /\ \A i \in dropped' \ dropped : owner[i] \in r /\ pc[owner[i]] = "done"
    BY <1>2 DEF RuntimeEnds
  <2>2. ASSUME NEW i \in Ids PROVE AgentInv(i)'
    BY <1>0, <2>1 DEF LifecycleInv, AgentInv
  <2>3. ASSUME NEW j \in Jobs PROVE JobInv(j)'
    BY <2>1 DEF LifecycleInv, JobInv, DagDriverInv, SingleDriverInv
  <2> QED
    BY <2>1, <2>2, <2>3 DEF LifecycleInv
<1> QED
  BY <1>1, <1>2

\* A new sub-agent takes an id nobody has, and no kill is under way that a
\* single job could run into.
LEMMA SpawnKeeps ==
  ASSUME TypeOK, LifecycleInv, NEW j \in Jobs, Spawn(j)
  PROVE  LifecycleInv'
<1> USE JobsAssumption, LimitsAssumption
    DEF JobsAssumption, LimitsAssumption, registry, drivers, killVars
<1> DEFINE i == counter + 1
<1>1. i \in Ids /\ counter' = i /\ owner[i] = Nobody /\ turn[i] = "none" /\ i # Nobody
  BY DEF Spawn, TypeOK, Ids, LifecycleInv, AgentInv
<1>2. /\ status' = [status EXCEPT ![i] = "Created"] /\ resets' = [resets EXCEPT ![i] = 0]
      /\ validated' = [validated EXCEPT ![i] = FALSE] /\ owner' = [owner EXCEPT ![i] = j]
      /\ cur' = [cur EXCEPT ![j] = i] /\ tries' = [tries EXCEPT ![j] = @ + 1]
      /\ pc' = [pc EXCEPT ![j] = "spawned"]
      /\ UNCHANGED <<outcome, turn, dropped, killing, killStep, ckpt>>
  BY <1>1 DEF Spawn, Goto
<1>3. ASSUME NEW k \in Ids PROVE AgentInv(k)'
  <2>1. AgentInv(k) /\ owner[k] \in Jobs \cup {Nobody}
    BY DEF LifecycleInv, TypeOK
  <2>2. CASE k = i
    BY <1>1, <1>2, <2>1, <2>2 DEF AgentInv, TypeOK, Ids
  <2>3. CASE k # i
    <3>1. /\ status'[k] = status[k] /\ owner'[k] = owner[k] /\ validated'[k] = validated[k]
          /\ turn' = turn /\ ckpt' = ckpt /\ dropped' = dropped
          /\ counter' < k => counter < k
      BY <1>1, <1>2, <2>3 DEF TypeOK, Ids
    <3>2. owner[k] = j => status[k] # "Running" /\ k \notin dropped
      BY <2>1 DEF AgentInv, Spawn
    <3>3. owner[k] # j =>
            /\ cur'[owner[k]] = cur[owner[k]] /\ pc'[owner[k]] = pc[owner[k]]
            /\ outcome'[owner[k]] = outcome[owner[k]]
      BY <1>2, <2>1 DEF TypeOK
    <3>4. status[k] = "Running" => owner[k] # j
      BY <3>2
    <3> QED
      BY <2>1, <3>1, <3>2, <3>3 DEF AgentInv
  <2> QED
    BY <2>2, <2>3
<1>4. ASSUME NEW k \in Jobs PROVE JobInv(k)'
  <2>1. JobInv(k) /\ (pc[k] \notin {"idle", "done"} => cur[k] # Nobody)
    BY DEF LifecycleInv, TypeOK
  <2>2. CASE k = j
    <3>1. /\ pc'[j] = "spawned" /\ cur'[j] = i /\ tries'[j] = tries[j] + 1
          /\ status'[i] = "Created" /\ resets'[i] = 0 /\ validated'[i] = FALSE
          /\ owner'[i] = j /\ turn'[i] = "none" /\ outcome' = outcome
      BY <1>1, <1>2 DEF TypeOK
    <3>2. pc[j] = "idle" /\ outcome[j] = "none"
      BY <2>1, <2>2 DEF Spawn, JobInv
    <3>3. j \notin DagJobs => tries[j] = 0 /\ 1 <= MaxTries[j]
      BY <2>1, <2>2, <3>2 DEF JobInv, SingleDriverInv
    <3> QED
      BY <1>1, <2>2, <3>1, <3>2, <3>3 DEF JobInv, DagDriverInv, SingleDriverInv
  <2>3. CASE k # j
    <3>1. cur'[k] = cur[k] /\ pc'[k] = pc[k] /\ tries'[k] = tries[k]
      BY <1>2, <2>3 DEF TypeOK
    <3>2. cur[k] # Nobody => cur[k] \in Ids \ {i}
      <4>1. cur[k] # Nobody => cur[k] \in Ids /\ cur[k] <= counter
        BY <2>1 DEF JobInv, TypeOK
      <4> QED
        BY <4>1 DEF TypeOK, Ids
    <3>3. cur[k] # Nobody =>
            /\ status'[cur[k]] = status[cur[k]] /\ resets'[cur[k]] = resets[cur[k]]
            /\ validated'[cur[k]] = validated[cur[k]] /\ owner'[cur[k]] = owner[cur[k]]
      BY <1>1, <1>2, <3>2, ZenonT(60) DEF TypeOK
    <3>4. cur[k] # Nobody => cur[k] <= counter /\ cur[k] <= counter'
      BY <1>1, <2>1, <3>2 DEF JobInv, TypeOK, Ids
    <3>5. turn' = turn /\ ckpt' = ckpt /\ outcome' = outcome
      BY <1>2
    <3>6. IF k \in DagJobs THEN DagDriverInv(k)' ELSE SingleDriverInv(k)'
      BY <2>1, <3>1, <3>3, <3>5 DEF JobInv, DagDriverInv, SingleDriverInv
    <3> HIDE DEF DagDriverInv, SingleDriverInv
    <3> QED
      BY <2>1, <3>1, <3>3, <3>4, <3>5, <3>6 DEF JobInv
  <2> QED
    BY <2>2, <2>3
<1>5. (killing # Nobody => owner[killing] \notin Jobs \ DagJobs)'
  BY <1>1, <1>2 DEF LifecycleInv, TypeOK, Spawn, MainFree
<1> QED
  BY <1>3, <1>4, <1>5 DEF LifecycleInv

\* A kill moves a sub-agent that has not ended to Cancelled, and never one of a
\* single job.
LEMMA KillKeeps ==
  ASSUME TypeOK, LifecycleInv, Kill
  PROVE  LifecycleInv'
<1> USE JobsAssumption DEF JobsAssumption, registry, drivers, killVars
<1>1. UNCHANGED <<counter, resets, validated, owner, drivers, turn, dropped, ckpt>>
  BY DEF Kill, KillBegins, KillPublishes, KillCancels
<1>2. CASE KillCancels
  <2>1. killing \in Ids /\ killing # Nobody /\ owner[killing] \notin Jobs \ DagJobs
    BY <1>2 DEF KillCancels, TypeOK, LifecycleInv
  <2>2. /\ \A k \in Ids \ {killing} : status'[k] = status[k]
        /\ \/ status'[killing] = status[killing]
           \/ status[killing] \notin Terminal /\ status'[killing] = "Cancelled"
    BY <1>2, <2>1 DEF KillCancels, CancelAgent, MayCancel, TypeOK
  <2>3. ASSUME NEW k \in Ids PROVE AgentInv(k)'
    BY <1>1, <2>2 DEF LifecycleInv, AgentInv, Terminal
  <2>4. ASSUME NEW j \in Jobs PROVE JobInv(j)'
    <3>1. JobInv(j) /\ (pc[j] \notin {"idle", "done"} => cur[j] # Nobody)
          /\ cur[j] \in Ids \cup {Nobody}
      BY DEF LifecycleInv, TypeOK
    <3>2. j \notin DagJobs => cur[j] # killing
      BY <2>1, <3>1 DEF JobInv
    <3>3. cur[j] = killing /\ turn[killing] = "settledOk" => status'[killing] = status[killing]
      BY <2>1, <2>2, <3>1, <3>2 DEF LifecycleInv, AgentInv, JobInv
    <3> QED
      BY <1>1, <2>2, <3>1, <3>2, <3>3 DEF JobInv, DagDriverInv, SingleDriverInv, Terminal
  <2> QED
    BY <1>2, <2>3, <2>4 DEF KillCancels, LifecycleInv
<1>3. CASE ~KillCancels
  <2>1. status' = status /\ (killing' # Nobody => owner[killing'] \notin Jobs \ DagJobs)
    BY <1>3 DEF Kill, KillBegins, KillPublishes, LifecycleInv
  <2>2. ASSUME NEW i \in Ids PROVE AgentInv(i)'
    BY <1>1, <2>1 DEF LifecycleInv, AgentInv
  <2>3. ASSUME NEW j \in Jobs PROVE JobInv(j)'
    BY <1>1, <2>1 DEF LifecycleInv, JobInv, DagDriverInv, SingleDriverInv
  <2> QED
    BY <1>1, <2>1, <2>2, <2>3 DEF LifecycleInv
<1> QED
  BY <1>2, <1>3

\* Nothing of a driver or a turn survives the process, and no file brings a
\* running or wrongly validated sub-agent back.
LEMMA RestartKeeps ==
  ASSUME TypeOK, LifecycleInv, Restart
  PROVE  LifecycleInv'
<1> USE JobsAssumption, LimitsAssumption DEF JobsAssumption, LimitsAssumption
<1>1. ASSUME NEW i \in Ids PROVE AgentInv(i)'
  <2>1. AgentInv(i)
    BY DEF LifecycleInv
  <2>2. /\ owner'[i] = Nobody /\ turn'[i] = "none" /\ dropped' = {} /\ ckpt' = ckpt
        /\ status'[i] # "Running"
        /\ validated'[i] => status'[i] = "Completed"
    BY <2>1 DEF Restart, AgentInv, Restored, Revived, TypeOK
  <2> QED
    BY <2>1, <2>2 DEF AgentInv
<1>2. ASSUME NEW j \in Jobs PROVE JobInv(j)'
  <2>1. pc[j] # "done" => outcome[j] = "none"
    BY DEF LifecycleInv, JobInv
  <2>2. /\ pc'[j] = IF pc[j] = "done" THEN "done" ELSE "idle"
        /\ cur'[j] = Nobody /\ tries'[j] = 0 /\ outcome' = outcome
    BY DEF Restart
  <2> QED
    BY <2>1, <2>2 DEF JobInv, DagDriverInv, SingleDriverInv
<1>3. killing' = Nobody
  BY DEF Restart
<1> QED
  BY <1>1, <1>2, <1>3 DEF LifecycleInv

LEMMA LifecycleInvHolds == Spec => []LifecycleInv
<1>1. Init => LifecycleInv
  BY JobsAssumption
  DEF JobsAssumption, Init, LifecycleInv, AgentInv, JobInv, DagDriverInv, SingleDriverInv, NoFile
<1>2. TypeOK /\ LifecycleInv /\ [Next]_vars => LifecycleInv'
  <2> SUFFICES ASSUME TypeOK, LifecycleInv, [Next]_vars PROVE LifecycleInv'
    OBVIOUS
  <2>1. CASE UNCHANGED vars
    BY <2>1 DEF vars, registry, drivers, killVars, LifecycleInv, AgentInv, JobInv, DagDriverInv,
                SingleDriverInv
  <2> QED
    BY <2>1, SpawnKeeps, DriverKeeps, RunKeeps, TurnKeeps, KillKeeps, RestartKeeps DEF Next
<1> QED
  BY <1>1, <1>2, TypeCorrect, PTL DEF Spec

\* What a driver reports, what the registry shows and what runs agree at every
\* moment between two methods.
THEOREM RegistryAgreesAlways == Spec => []RegistryAgrees
<1>1. TypeOK /\ LifecycleInv => RegistryAgrees
  BY DEF TypeOK, LifecycleInv, AgentInv, JobInv, SingleDriverInv, RegistryAgrees, VerdictMatches,
         ValidatedIsCompleted, RunningHasTurn, CountersAgree
<1> QED
  BY <1>1, TypeCorrect, LifecycleInvHolds, PTL

\* Nothing that was under way brings a cancelled sub-agent back.
THEOREM CancellationIsFinal == Spec => CancelledIsFinal
<1> DEFINE Kept == \A i \in Ids :
      status[i] = "Cancelled" /\ counter' = counter /\ restarts' = restarts =>
          status'[i] = "Cancelled"
<1>1. TypeOK /\ LifecycleInv /\ [Next]_vars => [Kept]_vars
  <2> SUFFICES ASSUME TypeOK, LifecycleInv, Next PROVE Kept
    OBVIOUS
  <2> SUFFICES ASSUME NEW i \in Ids, status[i] = "Cancelled", counter' = counter,
                      restarts' = restarts
               PROVE  status'[i] = "Cancelled"
    OBVIOUS
  <2> USE DEF registry, drivers, killVars, Terminal
  <2>1. ASSUME NEW j \in Jobs, Spawn(j) PROVE FALSE
    BY <2>1 DEF Spawn, TypeOK
  <2>2. ASSUME NEW j \in Jobs, Drive(j) PROVE status'[i] = "Cancelled"
    <3>1. JobInv(j)
      BY DEF LifecycleInv
    <3>2. CASE Start(j)
      BY <3>2 DEF Start, TypeOK
    <3>3. CASE RecordOk(j) \/ RecordError(j) \/ Reject(j) \/ UpgradeRefused(j)
      BY <3>3 DEF RecordOk, RecordError, Reject, UpgradeRefused, Complete, Fail, MayComplete,
                  MayFail, TypeOK
    <3>4. CASE Upgrade(j)
      BY <3>4 DEF Upgrade, ResetAndStart, MayReset, TypeOK
    <3>5. CASE Answered(j) \/ SaveBegins(j) \/ SaveEnds(j) \/ Validate(j) \/ GatesPass(j)
               \/ GatesFail(j)
      BY <3>5 DEF Answered, SaveBegins, SaveEnds, Validate, GatesPass, GatesFail
    <3> QED
      BY <2>2, <3>2, <3>3, <3>4, <3>5 DEF Drive
  <2>2a. ASSUME NEW r \in DagRuns, Abandon(r) \/ RuntimeEnds(r) PROVE status'[i] = "Cancelled"
    BY <2>2a DEF Abandon, RuntimeEnds
  <2>3. ASSUME NEW k \in Ids, Turn(k) PROVE status'[i] = "Cancelled"
    BY <2>3 DEF Turn, TurnBegins, TurnEnds, TurnKilled, TurnPanics, Settle, TypeOK
  <2>4. CASE Kill
    BY <2>4 DEF Kill, KillBegins, KillPublishes, KillCancels, CancelAgent, MayCancel, TypeOK
  <2>5. CASE Restart
    BY <2>5 DEF Restart, TypeOK
  <2> QED
    BY <2>1, <2>2, <2>2a, <2>3, <2>4, <2>5 DEF Next
<1> QED
  BY <1>1, TypeCorrect, LifecycleInvHolds, PTL DEF Spec, CancelledIsFinal
=============================================================================
