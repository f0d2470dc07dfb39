-------------------------- MODULE DagScheduler_proofs --------------------------
(***************************************************************************)
(* Type correctness of the DAG scheduler, the parallelism bound and the    *)
(* dependency order, for every graph, bound and retry budget.              *)
(***************************************************************************)
EXTENDS DagSchedulerProps, FiniteSetTheorems, TLAPS

\* The loop's variables keep their types through every action.
THEOREM TypeCorrect == Spec => []TypeOK
<1>1. Init => TypeOK
  <2> SUFFICES ASSUME Init PROVE TypeOK
    OBVIOUS
  <2>1. deps \in [Nodes -> SUBSET Nodes]
    BY GraphsAssumption DEF Init, GraphsAssumption
  <2> QED
    BY <2>1, NodesAssumption, ModeAssumption
    DEF Init, NodesAssumption, ModeAssumption, TypeOK, NodeStates, RunStates, Answers
<1>2. TypeOK /\ [Next]_vars => TypeOK'
  <2> SUFFICES ASSUME TypeOK, [Next]_vars PROVE TypeOK'
    OBVIOUS
  <2> USE NodesAssumption DEF NodesAssumption, TypeOK, NodeStates, RunStates, Answers, roundVars, localVars, dagRunVars
  <2>1. CASE Validate
    BY <2>1 DEF Validate
  <2>2. CASE CheckToken
    BY <2>2 DEF CheckToken
  <2>3. CASE CancelledAtHead
    BY <2>3 DEF CancelledAtHead, Abort, StampRun
  <2>4. ASSUME NEW L \in SUBSET Nodes, Dispatch(L) PROVE TypeOK'
    <3>1. NewlySkipped \subseteq Nodes
      BY DEF NewlySkipped, Candidates
    <3> QED
      BY <2>4, <3>1 DEF Dispatch
  <2>5. ASSUME NEW n \in Nodes, Join(n) PROVE TypeOK'
    <3>1. CASE JoinSuccess(n)
      BY <3>1 DEF JoinSuccess, Reap, StampNodes
    <3>2. CASE JoinCancelled(n)
      BY <3>2 DEF JoinCancelled, Abort, StampRun, StampNodes
    <3>3. CASE JoinRetry(n)
      BY <3>3 DEF JoinRetry, Reap
    <3>4. CASE JoinFailedOff(n)
      BY <3>4 DEF JoinFailedOff, Reap, StampNodes
    <3>5. CASE JoinFailedOn(n)
      BY <3>5 DEF JoinFailedOn, Abort, StampRun, StampNodes
    <3>6. CASE JoinPanicked(n)
      BY <3>6 DEF JoinPanicked, Abort, StampRun
    <3> QED
      BY <2>5, <3>1, <3>2, <3>3, <3>4, <3>5, <3>6 DEF Join
  <2>6. CASE BackoffElapsed
    BY <2>6 DEF BackoffElapsed, StampNodes
  <2>7. CASE BackoffCancelled
    BY <2>7 DEF BackoffCancelled, Abort, StampRun, StampNodes
  <2>8. CASE Finish
    BY <2>8 DEF Finish, StampRun, AppendAttempts
  <2>9. ASSUME NEW n \in Nodes, TaskStart(n) \/ TaskAnswer(n) \/ TaskCancelled(n)
        PROVE TypeOK'
    BY <2>9 DEF TaskStart, TaskAnswer, TaskCancelled
  <2>10. CASE Cancel
    BY <2>10, ZenonT(60) DEF Cancel
  <2>11. ASSUME NEW S \in SUBSET Nodes, Rerun(S) PROVE TypeOK'
    <3>1. /\ loop' = "start" /\ outcome' = "none" /\ round' \in Nat /\ scope' \in SUBSET Nodes
          /\ token' = FALSE /\ attempts' = [n \in Nodes |-> 0] /\ starts' = [n \in Nodes |-> 0]
          /\ completed' = {} /\ failed' = {} /\ skipped' = {} /\ results' = {}
          /\ loop = "returned"
      BY <2>11 DEF Rerun
    <3>2. UNCHANGED <<deps, override, inflight, retrying, stopRequested, task, dagRunVars>>
      BY <2>11 DEF Rerun
    <3> QED
      BY <3>1, <3>2
  <2>12. CASE UNCHANGED vars
    BY <2>12 DEF vars
  <2> QED
    BY <2>1, <2>2, <2>3, <2>4, <2>5, <2>6, <2>7, <2>8, <2>9, <2>10, <2>11, <2>12
    DEF Next, Scheduler
<1> QED
  BY <1>1, <1>2, PTL DEF Spec

-----------------------------------------------------------------------------
(* The parallelism bound.  The slot of a node in backoff stays counted.    *)

CapInv == Cardinality(Held) <= MaxParallelism

\* Nodes is finite, so every set the loop keeps has a cardinality.
LEMMA HeldFinite == ASSUME TypeOK PROVE IsFiniteSet(Held) /\ IsFiniteSet(inflight)
BY NodesAssumption, FS_Subset DEF NodesAssumption, TypeOK, Held

\* What Dispatch launches fits in the slots that inflight leaves free.
LEMMA LaunchFits ==
  ASSUME TypeOK, NEW L \in SUBSET Nodes, IsLaunch(L), Cardinality(inflight) <= MaxParallelism
  PROVE  Cardinality(inflight \cup L) <= MaxParallelism
<1>1. IsFiniteSet(inflight) /\ IsFiniteSet(L)
  BY HeldFinite, NodesAssumption, FS_Subset DEF NodesAssumption
<1>2. Cardinality(inflight) \in Nat /\ Cardinality(L) \in Nat
  BY <1>1, FS_CardinalityType
<1>3. inflight \cap L = {}
  BY DEF IsLaunch, Ready, Candidates
<1>4. Cardinality(inflight \cup L) = Cardinality(inflight) + Cardinality(L)
  <2>1. Cardinality(inflight \cup L) =
        Cardinality(inflight) + Cardinality(L) - Cardinality(inflight \cap L)
    BY <1>1, FS_Union
  <2> QED
    BY <2>1, <1>2, <1>3, FS_EmptySet
<1>5. Cardinality(L) <= MaxParallelism - Cardinality(inflight)
  BY <1>2, BoundsAssumption DEF IsLaunch, FreeSlots, BoundsAssumption
<1> QED
  BY <1>2, <1>4, <1>5, BoundsAssumption DEF BoundsAssumption

\* A step that holds no new node keeps the bound.
LEMMA HeldShrinks ==
  ASSUME TypeOK, CapInv, Held' \subseteq Held
  PROVE  CapInv'
<1>1. IsFiniteSet(Held) /\ IsFiniteSet(Held')
  BY HeldFinite, FS_Subset
<1>2. Cardinality(Held') <= Cardinality(Held)
  BY <1>1, FS_Subset
<1> QED
  BY <1>1, <1>2, FS_CardinalityType, BoundsAssumption DEF CapInv, BoundsAssumption

\* Spawned tasks and held slots never exceed the bound, through dispatches,
\* retries and aborts, and the loop's inflight set is the JoinSet.
THEOREM ParallelismBound == Spec => []ParallelismCap
<1>1. Init => ParallelismCap
  <2> SUFFICES ASSUME Init PROVE ParallelismCap
    OBVIOUS
  <2>1. Held = {} /\ inflight = JoinSet
    BY DEF Init, Held, JoinSet
  <2> QED
    BY <2>1, FS_EmptySet, BoundsAssumption DEF ParallelismCap, BoundsAssumption
<1>2. TypeOK /\ ParallelismCap /\ [Next]_vars => ParallelismCap'
  <2> SUFFICES ASSUME TypeOK, ParallelismCap, [Next]_vars PROVE ParallelismCap'
    OBVIOUS
  <2>0. CapInv /\ inflight = JoinSet
    BY DEF CapInv, ParallelismCap
  <2>a. ASSUME Held' \subseteq Held, inflight' = JoinSet' PROVE ParallelismCap'
    BY <2>a, <2>0, HeldShrinks DEF CapInv, ParallelismCap
  <2>b. ASSUME NEW result, NEW status, Abort(result, status) PROVE ParallelismCap'
    <3>1. Held' = {} /\ inflight' = JoinSet'
      BY <2>b DEF Abort, Held, JoinSet
    <3> QED
      BY <2>a, <3>1
  <2>c. ASSUME UNCHANGED <<inflight, retrying, task>> PROVE ParallelismCap'
    <3>1. Held' = Held /\ JoinSet' = JoinSet
      BY <2>c DEF Held, JoinSet
    <3> QED
      BY <2>a, <2>c, <3>1, <2>0
  <2>1. ASSUME NEW L \in SUBSET Nodes, Dispatch(L) PROVE ParallelismCap'
    <3>1. Held = inflight /\ Held' = inflight \cup L
      BY <2>1 DEF Dispatch, TypeOK, Held
    <3>2. Cardinality(inflight \cup L) <= MaxParallelism
      BY <2>0, <2>1, <3>1, LaunchFits DEF CapInv, Dispatch
    <3>3. inflight' = JoinSet'
      BY <2>0, <2>1 DEF Dispatch, JoinSet, TypeOK
    <3> QED
      BY <3>1, <3>2, <3>3 DEF ParallelismCap
  <2>2. ASSUME NEW n \in Nodes, Join(n) PROVE ParallelismCap'
    <3>1. ASSUME Reap(n), UNCHANGED retrying PROVE ParallelismCap'
      <4>1. Held' \subseteq Held /\ inflight' = JoinSet'
        BY <3>1, <2>0 DEF Reap, Held, JoinSet, TypeOK
      <4> QED
        BY <4>1, <2>a
    <3>2. CASE JoinRetry(n)
      <4>1. n \in inflight
        BY <3>2, <2>0 DEF JoinRetry, JoinSet
      <4>2. Held' \subseteq Held /\ inflight' = JoinSet'
        BY <3>2, <4>1, <2>0 DEF JoinRetry, Reap, Held, JoinSet, TypeOK
      <4> QED
        BY <4>2, <2>a
    <3>3. CASE JoinSuccess(n) \/ JoinFailedOff(n)
      BY <3>1, <3>3 DEF JoinSuccess, JoinFailedOff
    <3>4. CASE JoinCancelled(n) \/ JoinFailedOn(n) \/ JoinPanicked(n)
      BY <2>b, <3>4 DEF JoinCancelled, JoinFailedOn, JoinPanicked
    <3> QED
      BY <2>2, <3>2, <3>3, <3>4 DEF Join
  <2>3. CASE BackoffElapsed
    <3>1. retrying # NoNode /\ retrying \in Nodes
      BY <2>3 DEF BackoffElapsed, TypeOK
    <3>2. Held' \subseteq Held
      BY <2>3, <3>1 DEF BackoffElapsed, Held
    <3>3. inflight' = JoinSet'
      BY <2>3, <3>1, <2>0 DEF BackoffElapsed, JoinSet, TypeOK
    <3> QED
      BY <3>2, <3>3, <2>a
  <2>4. CASE CancelledAtHead \/ BackoffCancelled
    BY <2>b, <2>4 DEF CancelledAtHead, BackoffCancelled
  <2>5. CASE Validate \/ CheckToken \/ Finish \/ Cancel
    BY <2>c, <2>5 DEF Validate, CheckToken, Finish, Cancel
  <2>6. ASSUME NEW n \in Nodes, TaskStart(n) \/ TaskAnswer(n) \/ TaskCancelled(n)
        PROVE ParallelismCap'
    <3>1. UNCHANGED <<inflight, retrying>> /\ JoinSet' = JoinSet
      BY <2>6 DEF TaskStart, TaskAnswer, TaskCancelled, JoinSet, TypeOK
    <3>2. Held' = Held
      BY <3>1 DEF Held
    <3> QED
      BY <3>1, <3>2, <2>0, <2>a
  <2>7. ASSUME NEW S \in SUBSET Nodes, Rerun(S) PROVE ParallelismCap'
    BY <2>c, <2>7 DEF Rerun
  <2>8. CASE UNCHANGED vars
    BY <2>c, <2>8 DEF vars
  <2> QED
    BY <2>1, <2>2, <2>3, <2>4, <2>5, <2>6, <2>7, <2>8 DEF Next, Scheduler
<1> QED
  BY <1>1, <1>2, TypeCorrect, PTL DEF Spec

-----------------------------------------------------------------------------
(* The dependency order, for callers that keep recover_skipped's           *)
(* precondition.                                                           *)

\* Everything the strengthening reads of a state, so that a step that leaves
\* these alone leaves it alone.
orderVars == <<deps, override, scope, round, completed, failed, skipped, results, inflight,
               retrying, task, starts, nodeStatus>>

LEMMA OrderUnchanged ==
  ASSUME OrderInv, UNCHANGED orderVars, loop # "returned" \/ loop' = "returned"
  PROVE  OrderInv'
BY DEF orderVars, OrderInv, SetsInv, RunInv, RerunInv, JoinSet, Held, Succeeded, FailFast

\* The loop is left and entered with an empty pool.
LEMMA QuietOutside == Spec => []QuietInv
<1>1. Init => QuietInv
  BY DEF Init, QuietInv
<1>2. TypeOK /\ ParallelismCap /\ QuietInv /\ [Next]_vars => QuietInv'
  <2> SUFFICES ASSUME TypeOK, ParallelismCap, QuietInv, [Next]_vars PROVE QuietInv'
    OBVIOUS
  <2>1. ASSUME NEW L \in SUBSET Nodes, Dispatch(L) PROVE QuietInv'
    BY <2>1 DEF Dispatch, QuietInv, ParallelismCap
  <2>2. ASSUME NEW n \in Nodes, Join(n) PROVE QuietInv'
    BY <2>2 DEF Join, JoinSuccess, JoinCancelled, JoinRetry, JoinFailedOff, JoinFailedOn,
                JoinPanicked, Abort, QuietInv
  <2>3. CASE Validate \/ CheckToken \/ CancelledAtHead \/ BackoffElapsed
             \/ BackoffCancelled \/ Finish \/ Cancel \/ UNCHANGED vars
    BY <2>3 DEF Validate, CheckToken, CancelledAtHead, BackoffElapsed, BackoffCancelled,
                Finish, Cancel, Abort, QuietInv, vars
  <2>4. ASSUME NEW n \in Nodes, TaskStart(n) \/ TaskAnswer(n) \/ TaskCancelled(n)
        PROVE QuietInv'
    BY <2>4 DEF TaskStart, TaskAnswer, TaskCancelled, QuietInv
  <2>5. ASSUME NEW S \in SUBSET Nodes, Rerun(S) PROVE QuietInv'
    BY <2>5 DEF Rerun, QuietInv
  <2> QED
    BY <2>1, <2>2, <2>3, <2>4, <2>5 DEF Next, Scheduler
<1> QED
  BY <1>1, <1>2, TypeCorrect, ParallelismBound, PTL DEF Spec

\* A node the filter leaves in Ready has only succeeded dependencies.
LEMMA ReadyDepsSucceeded ==
  ASSUME TypeOK, OrderInv, NEW n \in Ready
  PROVE  deps[n] \subseteq Succeeded
<1>1. CASE round = 0
  <2>1. deps[n] \subseteq completed
    BY <1>1 DEF Ready, Candidates, Deps
  <2>2. deps[n] \cap (failed \cup skipped) = {}
    BY <1>1 DEF TypeOK, Ready, NewlySkipped, Deps, OrderInv, SetsInv, FailFast
  <2> QED
    BY <1>1, <2>1, <2>2 DEF OrderInv, SetsInv, RunInv
<1>2. CASE round # 0
  BY <1>2 DEF TypeOK, Ready, Candidates, OrderInv, RerunInv
<1> QED
  BY <1>1, <1>2

\* A held node is not a finished one, and in the run it is shown as Running.
LEMMA AbortKeepsOrder ==
  ASSUME TypeOK, OrderInv, NEW n \in Held,
         NEW result, NEW status, Abort(result, status), StampNodes({n}, "Failed"),
         UNCHANGED <<roundVars, localVars, starts>>
  PROVE  OrderInv'
<1> USE DEF roundVars, localVars
<1>1. JoinSet' = {} /\ Held' = {} /\ inflight' = {}
  BY DEF Abort, JoinSet, Held
<1>2. SetsInv'
  BY <1>1 DEF OrderInv, SetsInv, Abort, FailFast
<1>3. Succeeded' = Succeeded
  BY NodesAssumption DEF NodesAssumption, StampNodes, Succeeded, OrderInv, RunInv, TypeOK, Held
<1>4. RunInv'
  <2> SUFFICES ASSUME round' = 0 PROVE RunInv'
    BY DEF RunInv
  <2>1. nodeStatus' = [m \in Nodes |-> IF m = n THEN "Failed" ELSE nodeStatus[m]]
    BY DEF StampNodes
  <2> QED
    BY <1>1, <1>3, <2>1 DEF Abort, OrderInv, RunInv
<1>4a. RerunInv'
  BY <1>3 DEF OrderInv, RerunInv
<1>5. \A m \in Nodes : nodeStatus'[m] \in {"Running", "Succeeded", "Failed"} =>
                          deps[m] \subseteq Succeeded
  BY DEF OrderInv, RunInv, StampNodes, TypeOK
<1> QED
  BY <1>2, <1>3, <1>4, <1>4a, <1>5 DEF OrderInv

\* An abort that stamps no node.
LEMMA PlainAbortKeepsOrder ==
  ASSUME OrderInv, NEW result, NEW status, Abort(result, status),
         UNCHANGED <<roundVars, localVars, starts, nodeStatus>>
  PROVE  OrderInv'
<1> USE DEF roundVars, localVars
<1>1. JoinSet' = {} /\ Held' = {} /\ inflight' = {} /\ loop' = "returned"
  BY DEF Abort, JoinSet, Held
<1>2. Succeeded' = Succeeded
  BY DEF Succeeded
<1>3. SetsInv'
  BY <1>1 DEF OrderInv, SetsInv, Abort, FailFast
<1>4. RunInv'
  BY <1>1, <1>2 DEF OrderInv, RunInv
<1>5. RerunInv'
  BY <1>2 DEF OrderInv, RerunInv
<1> QED
  BY <1>2, <1>3, <1>4, <1>5 DEF OrderInv

\* The join branches: one step per branch.
LEMMA JoinKeepsOrder ==
  ASSUME TypeOK, OrderInv, NEW n \in Nodes, Join(n)
  PROVE  OrderInv'
<1> USE DEF roundVars, localVars, dagRunVars
<1>0. task[n] # "none" => n \in inflight /\ n \in Held /\ n \notin completed
  BY DEF OrderInv, SetsInv, JoinSet, Held
<1>a. ASSUME Reap(n), n \in inflight, UNCHANGED retrying
      PROVE  inflight' = JoinSet' /\ retrying' \notin inflight' /\ Held' = Held \ {n}
  BY <1>a, NodesAssumption DEF NodesAssumption, OrderInv, SetsInv, Reap, JoinSet, Held, TypeOK
<1>1. CASE JoinSuccess(n)
  <2>1. SetsInv'
    BY <1>1, <1>0, <1>a DEF OrderInv, SetsInv, JoinSuccess, FailFast
  <2>2. Succeeded \subseteq Succeeded'
    BY <1>1 DEF JoinSuccess, StampNodes, Succeeded, TypeOK
  <2>3. RunInv'
    <3> SUFFICES ASSUME round' = 0 PROVE RunInv'
      BY DEF RunInv
    <3>1. nodeStatus' = [m \in Nodes |-> IF m = n THEN "Succeeded" ELSE nodeStatus[m]]
      BY <1>1 DEF JoinSuccess, StampNodes
    <3>2. scope' = Nodes /\ Succeeded' = results'
      BY <1>1, <3>1 DEF JoinSuccess, Succeeded, OrderInv, RunInv
    <3>3. \A m \in Held' : nodeStatus'[m] = "Running"
      BY <1>1, <1>0, <1>a, <3>1 DEF JoinSuccess, OrderInv, RunInv, SetsInv, TypeOK
    <3>4. \A m \in Nodes :
            starts'[m] > 0 => nodeStatus'[m] \in {"Running", "Succeeded", "Failed"}
      BY <1>1, <3>1 DEF JoinSuccess, OrderInv, RunInv
    <3>5. \A m \in Nodes : starts'[m] > 0 => m \in Held' \cup completed'
      BY <1>1, <1>0, <1>a DEF JoinSuccess, OrderInv, RunInv
    <3> QED
      BY <3>2, <3>3, <3>4, <3>5 DEF RunInv
  <2>4. RerunInv'
    BY <1>1, <2>2 DEF OrderInv, RerunInv, JoinSuccess
  <2>5. \A m \in Nodes : nodeStatus'[m] \in {"Running", "Succeeded", "Failed"} =>
                            deps'[m] \subseteq Succeeded'
    BY <1>1, <1>0, <2>2 DEF OrderInv, RunInv, JoinSuccess, StampNodes, TypeOK
  <2> QED
    BY <2>1, <2>3, <2>4, <2>5 DEF OrderInv
<1>2. CASE JoinCancelled(n) \/ JoinFailedOn(n)
  BY <1>2, <1>0, AbortKeepsOrder DEF JoinCancelled, JoinFailedOn
<1>3. CASE JoinRetry(n)
  <2>1. inflight' = JoinSet' /\ retrying' \notin inflight'
    BY <1>3, <1>0 DEF JoinRetry, Reap, JoinSet, TypeOK, OrderInv, SetsInv
  <2>2. Held' = Held
    BY <1>3, <1>0, NodesAssumption
    DEF NodesAssumption, JoinRetry, Reap, Held, TypeOK
  <2>3. Succeeded' = Succeeded
    BY <1>3 DEF JoinRetry, Succeeded
  <2>4. SetsInv'
    BY <1>3, <2>1, <2>2 DEF OrderInv, SetsInv, JoinRetry, FailFast
  <2>5. RunInv'
    BY <1>3, <2>2, <2>3 DEF OrderInv, RunInv, JoinRetry
  <2>6. RerunInv'
    BY <1>3, <2>3 DEF OrderInv, RerunInv, JoinRetry
  <2> QED
    BY <1>3, <2>3, <2>4, <2>5, <2>6 DEF OrderInv, JoinRetry
<1>4. CASE JoinFailedOff(n)
  <2>1. SetsInv'
    BY <1>4, <1>0, <1>a DEF OrderInv, SetsInv, JoinFailedOff, FailFast
  <2>2. Succeeded' = Succeeded
    BY <1>4, <1>0 DEF JoinFailedOff, StampNodes, Succeeded, OrderInv, RunInv, TypeOK
  <2>3. RunInv'
    <3> SUFFICES ASSUME round' = 0 PROVE RunInv'
      BY DEF RunInv
    <3>1. nodeStatus' = [m \in Nodes |-> IF m = n THEN "Failed" ELSE nodeStatus[m]]
      BY <1>4 DEF JoinFailedOff, StampNodes
    <3>2. \A m \in Held' : nodeStatus'[m] = "Running"
      BY <1>4, <1>0, <1>a, <3>1 DEF JoinFailedOff, OrderInv, RunInv, SetsInv, TypeOK
    <3>3. \A m \in Nodes : starts'[m] > 0 => m \in Held' \cup completed'
      BY <1>4, <1>0, <1>a DEF JoinFailedOff, OrderInv, RunInv
    <3> QED
      BY <1>4, <2>2, <3>1, <3>2, <3>3 DEF JoinFailedOff, OrderInv, RunInv
  <2>3a. RerunInv'
    BY <1>4, <2>2 DEF OrderInv, RerunInv, JoinFailedOff
  <2>4. \A m \in Nodes : nodeStatus'[m] \in {"Running", "Succeeded", "Failed"} =>
                            deps'[m] \subseteq Succeeded'
    BY <1>4, <1>0, <2>2 DEF OrderInv, RunInv, JoinFailedOff, StampNodes, TypeOK
  <2> QED
    BY <2>1, <2>3, <2>3a, <2>4 DEF OrderInv
<1>5. CASE JoinPanicked(n)
  BY <1>5, PlainAbortKeepsOrder DEF JoinPanicked
<1> QED
  BY <1>1, <1>2, <1>3, <1>4, <1>5 DEF Join

\* Skipping and launching together.
LEMMA DispatchKeepsOrder ==
  ASSUME TypeOK, OrderInv, NEW L \in SUBSET Nodes, Dispatch(L)
  PROVE  OrderInv'
<1> USE DEF roundVars, localVars, dagRunVars
<1>1. L \subseteq Ready /\ L \cap NewlySkipped = {}
  BY DEF Dispatch, IsLaunch, Ready
<1>2. /\ L \cup NewlySkipped \subseteq scope \ (completed \cup inflight)
      /\ retrying = NoNode /\ Held = inflight /\ Held' = inflight \cup L
  BY <1>1 DEF Dispatch, Ready, NewlySkipped, Candidates, TypeOK, Held
<1>3. SetsInv'
  <2>1. inflight' = JoinSet'
    BY DEF Dispatch, OrderInv, SetsInv, JoinSet, TypeOK
  <2>2. FailFast = "On" => NewlySkipped = {}
    BY DEF NewlySkipped, FailFast
  <2> QED
    BY <1>1, <1>2, <2>1, <2>2, NodesAssumption
    DEF NodesAssumption, Dispatch, OrderInv, SetsInv, FailFast
<1>4. Succeeded' = Succeeded
  BY <1>2 DEF Dispatch, Succeeded, OrderInv, SetsInv, RunInv, TypeOK
<1>5. RunInv'
  <2> SUFFICES ASSUME round' = 0 PROVE RunInv'
    BY DEF RunInv
  <2>1. nodeStatus' = [m \in Nodes |-> IF m \in L THEN "Running"
                                       ELSE IF m \in NewlySkipped THEN "Skipped"
                                       ELSE nodeStatus[m]]
    BY DEF Dispatch
  <2>2. \A m \in Held' : nodeStatus'[m] = "Running"
    BY <1>2, <2>1 DEF Dispatch, OrderInv, RunInv, TypeOK
  <2>3. \A m \in NewlySkipped : ~(starts[m] > 0)
    BY <1>2 DEF Dispatch, OrderInv, RunInv, TypeOK
  <2>4. \A m \in Nodes : starts'[m] > 0 => m \in Held' \cup completed'
    BY <1>2 DEF Dispatch, OrderInv, RunInv
  <2>5. \A m \in Nodes :
          starts'[m] > 0 => nodeStatus'[m] \in {"Running", "Succeeded", "Failed"}
    BY <2>1, <2>3 DEF Dispatch, OrderInv, RunInv, TypeOK
  <2> QED
    BY <2>2, <2>4, <2>5, <1>4 DEF Dispatch, OrderInv, RunInv
<1>5a. RerunInv'
  BY <1>4 DEF Dispatch, OrderInv, RerunInv
<1>6. ASSUME NEW m \in Nodes, nodeStatus'[m] \in {"Running", "Succeeded", "Failed"}
      PROVE  deps'[m] \subseteq Succeeded'
  <2>1. CASE m \in L
    BY <2>1, <1>1, <1>4, ReadyDepsSucceeded DEF Dispatch
  <2>2. CASE m \notin L
    BY <2>2, <1>4, <1>6 DEF Dispatch, OrderInv, TypeOK
  <2> QED
    BY <2>1, <2>2
<1> QED
  BY <1>3, <1>5, <1>5a, <1>6 DEF OrderInv

\* Every step keeps the strengthening of the dependency order.
LEMMA OrderHolds ==
  ASSUME CallerChecks = TRUE
  PROVE  Spec => []OrderInv
<1> USE DEF roundVars, localVars, dagRunVars
<1>1. Init => OrderInv
  BY NodesAssumption
  DEF NodesAssumption, Init, OrderInv, SetsInv, RunInv, RerunInv, JoinSet, Held, Succeeded
<1>2. TypeOK /\ QuietInv /\ OrderInv /\ [Next]_vars => OrderInv'
  <2> SUFFICES ASSUME TypeOK, QuietInv, OrderInv, [Next]_vars PROVE OrderInv'
    OBVIOUS
  <2>1. ASSUME NEW L \in SUBSET Nodes, Dispatch(L) PROVE OrderInv'
    BY <2>1, DispatchKeepsOrder
  <2>2. ASSUME NEW n \in Nodes, Join(n) PROVE OrderInv'
    BY <2>2, JoinKeepsOrder
  <2>3. CASE Validate \/ CheckToken \/ Cancel \/ UNCHANGED vars
    BY <2>3, OrderUnchanged DEF Validate, CheckToken, Cancel, vars, orderVars
  <2>4. CASE CancelledAtHead
    BY <2>4, PlainAbortKeepsOrder DEF CancelledAtHead
  <2>5. CASE BackoffElapsed
    <3>1. retrying \in Nodes /\ retrying # NoNode
      BY <2>5 DEF BackoffElapsed, TypeOK
    <3>2. /\ Held' = Held /\ retrying \in Held
          /\ inflight' = JoinSet' /\ retrying' \notin inflight'
      BY <2>5, <3>1, NodesAssumption
      DEF NodesAssumption, BackoffElapsed, Held, OrderInv, SetsInv, JoinSet, TypeOK
    <3>3. Succeeded' = Succeeded
      BY <2>5, <3>2 DEF BackoffElapsed, StampNodes, Succeeded, OrderInv, RunInv, TypeOK
    <3>4. SetsInv'
      BY <2>5, <3>2 DEF BackoffElapsed, OrderInv, SetsInv, FailFast
    <3>4a. RunInv'
      <4> SUFFICES ASSUME round' = 0 PROVE RunInv'
        BY DEF RunInv
      <4>1. nodeStatus' = [m \in Nodes |-> IF m = retrying THEN "Running" ELSE nodeStatus[m]]
        BY <2>5 DEF BackoffElapsed, StampNodes
      <4>2. nodeStatus' = nodeStatus
        BY <2>5, <3>2, <4>1 DEF BackoffElapsed, OrderInv, RunInv, TypeOK
      <4> QED
        BY <2>5, <3>2, <3>3, <4>2 DEF BackoffElapsed, OrderInv, RunInv
    <3>4b. RerunInv'
      BY <2>5, <3>3 DEF BackoffElapsed, OrderInv, RerunInv
    <3>5. \A m \in Nodes : nodeStatus'[m] \in {"Running", "Succeeded", "Failed"} =>
                              deps'[m] \subseteq Succeeded'
      BY <2>5, <3>1, <3>2, <3>3 DEF BackoffElapsed, StampNodes, OrderInv, RunInv, TypeOK
    <3> QED
      BY <3>4, <3>4a, <3>4b, <3>5 DEF OrderInv
  <2>6. CASE BackoffCancelled
    <3>1. retrying \in Held
      BY <2>6 DEF BackoffCancelled, TypeOK, Held
    <3> QED
      BY <2>6, <3>1, AbortKeepsOrder DEF BackoffCancelled
  <2>7. CASE Finish
    <3>1. UNCHANGED <<deps, override, scope, round, completed, failed, skipped, results, inflight,
                      retrying, task, starts>>
      BY <2>7 DEF Finish, AppendAttempts
    <3>2. Held' = Held /\ JoinSet' = JoinSet
      BY <3>1 DEF Held, JoinSet
    <3>3. SetsInv'
      BY <3>1, <3>2 DEF OrderInv, SetsInv, FailFast
    <3>4. CASE round = 0
      <4>1. nodeStatus' = nodeStatus
        BY <2>7, <3>4 DEF Finish, AppendAttempts, TypeOK
      <4> QED
        BY <2>7, <3>1, <4>1, OrderUnchanged DEF orderVars, Finish
    <3>5. CASE round # 0
      <4>1. nodeStatus' = [n \in Nodes |-> IF n \in results THEN "Succeeded"
                                           ELSE nodeStatus[n]]
        BY <2>7, <3>5 DEF Finish, AppendAttempts
      <4>2. Succeeded \subseteq Succeeded' /\ results \subseteq scope
        BY <4>1 DEF Succeeded, OrderInv, SetsInv
      <4>3. RunInv' /\ RerunInv'
        BY <3>1, <3>5, <4>2 DEF OrderInv, RunInv, RerunInv
      <4>4. \A m \in Nodes : nodeStatus'[m] \in {"Running", "Succeeded", "Failed"} =>
                                deps'[m] \subseteq Succeeded'
        BY <3>1, <3>5, <4>1, <4>2 DEF OrderInv, RerunInv, TypeOK
      <4> QED
        BY <3>3, <4>3, <4>4 DEF OrderInv
    <3> QED
      BY <3>4, <3>5
  <2>8. ASSUME NEW n \in Nodes, TaskStart(n) \/ TaskAnswer(n) \/ TaskCancelled(n)
        PROVE OrderInv'
    <3>1. task[n] # "none" /\ JoinSet' = JoinSet
      BY <2>8 DEF TaskStart, TaskAnswer, TaskCancelled, JoinSet, TypeOK
    <3>2. n \in Held
      BY <3>1 DEF OrderInv, SetsInv, JoinSet, Held
    <3>3. UNCHANGED <<deps, override, scope, round, completed, failed, skipped, results, inflight,
                      retrying, nodeStatus>>
      BY <2>8 DEF TaskStart, TaskAnswer, TaskCancelled
    <3>4. \A m \in Nodes : starts'[m] > 0 => starts[m] > 0 \/ m = n
      BY <2>8 DEF TaskStart, TaskAnswer, TaskCancelled, TypeOK
    <3>5. Held' = Held /\ Succeeded' = Succeeded
      BY <3>3 DEF Held, Succeeded
    <3>6. SetsInv'
      BY <3>1, <3>3, <3>5 DEF OrderInv, SetsInv, FailFast
    <3>7. RunInv'
      BY <2>8, <3>2, <3>3, <3>4, <3>5
      DEF OrderInv, RunInv, TaskStart, TaskAnswer, TaskCancelled
    <3>8. RerunInv'
      BY <3>2, <3>3, <3>4, <3>5 DEF OrderInv, SetsInv, RerunInv
    <3> QED
      BY <3>3, <3>5, <3>6, <3>7, <3>8 DEF OrderInv
  <2>9. ASSUME NEW S \in SUBSET Nodes, Rerun(S) PROVE OrderInv'
    <3>1. /\ loop = "returned" /\ retrying = NoNode /\ round' > 0 /\ round' # 0
          /\ scope' = S /\ starts' = [n \in Nodes |-> 0]
          /\ completed' = {} /\ failed' = {} /\ skipped' = {} /\ results' = {}
          /\ UNCHANGED <<deps, override, inflight, retrying, task, nodeStatus>>
      BY <2>9 DEF Rerun, TypeOK
    <3>2. \A n \in S : deps[n] \subseteq Succeeded
      BY <2>9 DEF Rerun, OrderInv, TypeOK, Succeeded
    <3>3. Held' = {} /\ inflight' = {}
      BY <3>1 DEF QuietInv, Held
    <3>4. JoinSet' = JoinSet /\ Succeeded' = Succeeded
      BY <3>1 DEF JoinSet, Succeeded
    <3>5. SetsInv'
      BY <3>1, <3>3, <3>4, NodesAssumption DEF NodesAssumption, OrderInv, SetsInv, FailFast
    <3>6. RunInv' /\ RerunInv'
      BY <3>1, <3>2, <3>4 DEF RunInv, RerunInv
    <3> QED
      BY <3>1, <3>4, <3>5, <3>6 DEF OrderInv
  <2> QED
    BY <2>1, <2>2, <2>3, <2>4, <2>5, <2>6, <2>7, <2>8, <2>9 DEF Next, Scheduler
<1> QED
  BY <1>1, <1>2, TypeCorrect, QuietOutside, PTL DEF Spec

\* No executor runs a node whose dependencies have not all succeeded.
THEOREM DependenciesFirst ==
  ASSUME CallerChecks = TRUE
  PROVE  Spec => []DependencyOrder
<1>1. TypeOK /\ OrderInv => DependencyOrder
  BY DEF OrderInv, RunInv, RerunInv, DependencyOrder, Succeeded, TypeOK
<1>2. Spec => []OrderInv
  BY OrderHolds
<1> QED
  BY <1>1, <1>2, TypeCorrect, PTL
=============================================================================
