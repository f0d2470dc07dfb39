----------------------- MODULE EvolutionPipeline_proofs -----------------------
(***************************************************************************)
(* Self-evolution for every number of sessions, pipelines, proposals and   *)
(* mishaps: the lock excludes unless a stale verdict went wrong, and under *)
(* the lock nothing untested is installed, nothing is filed as processed   *)
(* that is not installed, and no proposal is tried too often.              *)
(***************************************************************************)
EXTENDS EvolutionPipelineProps, TLAPS

\* While no verdict has gone wrong, the file in place is the one its holder
\* created, and a file that is about to be reclaimed is still the dead file that
\* was judged, by one process only.
LockInv ==
    /\ LockType
    /\ slip \/ /\ \A p \in Procs : at[p] \in {"made", "in"} => lock.exists /\ lock.owner = p
               /\ \A p \in Procs : at[p] = "stale" => lock.exists /\ lock.owner = Nobody
               /\ \A p, q \in Procs : at[p] = "stale" /\ at[q] = "stale" => p = q

LEMMA LockTypeKept == ASSUME LockType, LockNext PROVE LockType'
<1> USE DEF LockType, Moves
<1>1. ASSUME NEW p \in Procs, TryCreate(p) PROVE LockType'
  <2>1. CASE lock.exists
    BY <1>1, <2>1 DEF TryCreate
  <2>2. CASE ~lock.exists
    <3>1. lock' = [owner |-> p, filled |-> FALSE, old |-> FALSE, exists |-> TRUE]
      BY <1>1, <2>2 DEF TryCreate
    <3> QED
      BY <1>1, <2>2, <3>1 DEF TryCreate
  <2> QED
    BY <2>1, <2>2
<1>2. ASSUME NEW p \in Procs, Fill(p) PROVE LockType'
  BY <1>2 DEF Fill
<1>3. ASSUME NEW p \in Procs, Judge(p) PROVE LockType'
  BY <1>3 DEF Judge, Dangerous, Stale
<1>4. ASSUME NEW p \in Procs, Reclaim(p) \/ Release(p) PROVE LockType'
  <2>1. NoFile \in [owner : Procs \cup {Nobody}, filled : BOOLEAN, old : BOOLEAN, exists : BOOLEAN]
    BY DEF NoFile
  <2> QED
    BY <1>4, <2>1 DEF Reclaim, Release
<1>5. ASSUME NEW p \in Procs, FillFails(p) \/ Die(p) PROVE LockType'
  BY <1>5 DEF FillFails, Die, Abandon
<1>6. CASE LockAges
  BY <1>6 DEF LockAges
<1> QED
  BY <1>1, <1>2, <1>3, <1>4, <1>5, <1>6 DEF LockNext, Acquire

LEMMA LockTypeInit == ASSUME LockInit PROVE LockType
BY DEF LockInit, LockType, NoFile

LEMMA LockInvHolds == LockSpec => []LockInv
<1>1. LockInit => LockInv
  <2> SUFFICES ASSUME LockInit PROVE LockInv
    OBVIOUS
  <2>1. LockType
    BY LockTypeInit
  <2>2. \A p \in Procs : at[p] = "out"
    BY DEF LockInit
  <2> QED
    BY <2>1, <2>2 DEF LockInv
<1>2. LockInv /\ [LockNext]_lockVars => LockInv'
  <2> SUFFICES ASSUME LockInv, [LockNext]_lockVars PROVE LockInv'
    OBVIOUS
  <2> USE ProcsAssumption DEF ProcsAssumption, LockInv, LockType, Moves
  <2>1. ASSUME NEW p \in Procs, TryCreate(p) PROVE LockInv'
    <3>1. CASE lock.exists
      BY <2>1, <3>1 DEF TryCreate
    <3>2. CASE ~lock.exists
      <4>1. lock' = [owner |-> p, filled |-> FALSE, old |-> FALSE, exists |-> TRUE]
        BY <2>1, <3>2 DEF TryCreate
      <4>2. slip \/ \A q \in Procs : at[q] \notin {"made", "in", "stale"}
        BY <3>2
      <4>3. lock'.exists /\ lock'.owner = p
        BY <4>1
      <4>4. \A q \in Procs : at'[q] = IF q = p THEN "made" ELSE at[q]
        BY <2>1, <3>2 DEF TryCreate
      <4> QED
        BY <2>1, <4>1, <4>2, <4>3, <4>4 DEF TryCreate
    <3> QED
      BY <3>1, <3>2
  <2>2. ASSUME NEW p \in Procs, Fill(p) PROVE LockInv'
    BY <2>2 DEF Fill
  <2>3. ASSUME NEW p \in Procs, Judge(p) PROVE LockInv'
    BY <2>3 DEF Judge, Dangerous, Stale
  <2>4. ASSUME NEW p \in Procs, Reclaim(p) PROVE LockInv'
    BY <2>4 DEF Reclaim, NoFile
  <2>5. ASSUME NEW p \in Procs, FillFails(p) \/ Die(p) PROVE LockInv'
    BY <2>5 DEF FillFails, Die, Abandon
  <2>6. ASSUME NEW p \in Procs, Release(p) PROVE LockInv'
    BY <2>6 DEF Release, NoFile
  <2>7. CASE LockAges
    BY <2>7 DEF LockAges
  <2>8. CASE UNCHANGED lockVars
    BY <2>8 DEF lockVars
  <2> QED
    BY <2>1, <2>2, <2>3, <2>4, <2>5, <2>6, <2>7, <2>8 DEF LockNext, Acquire
<1> QED
  BY <1>1, <1>2, PTL DEF LockSpec

\* The lock by itself, for any processes that use it.
THEOREM LockExcludes == LockSpec => []HoldersExclude
<1>1. LockInv => HoldersExclude
  BY DEF LockInv, HoldersExclude, Holders
<1> QED
  BY <1>1, LockInvHolds, PTL

\* The pipelines take and leave the lock only as the lock allows.
THEOREM PipelineUsesLock == Spec => LockSpec
<1>1. Init => LockInit
  BY DEF Init
<1>2. [Next]_vars => [LockNext]_lockVars
  <2> SUFFICES ASSUME [Next]_vars PROVE [LockNext]_lockVars
    OBVIOUS
  <2>1. ASSUME NEW s \in Sessions, Report(s) \/ LaterReport(s) \/ SessionStep(s)
        PROVE UNCHANGED lockVars
    BY <2>1 DEF Report, LaterReport, SessionStep, Gate, Stamp, Spawn
  <2>2. ASSUME NEW p \in Procs, Lock(p) PROVE LockNext
    BY <2>2 DEF Lock, LockNext
  <2>3. ASSUME NEW p \in Procs, Leave(p) \/ Crash(p) PROVE LockNext
    BY <2>3 DEF Leave, Crash, LockNext
  <2>4. ASSUME NEW p \in Procs,
               Pick(p) \/ Child(p) \/ Inspect(p) \/ Test(p) \/ Install(p) \/ Mark(p)
               \/ ClearAttempts(p) \/ Count(p) \/ Exile(p)
        PROVE UNCHANGED lockVars
    BY <2>4 DEF Pick, Child, Inspect, Test, Install, Mark, ClearAttempts, Count, Exile
  <2>5. CASE HourPasses
    BY <2>5 DEF HourPasses, LockNext
  <2>6. CASE CooldownEnds \/ UNCHANGED vars
    BY <2>6 DEF CooldownEnds, vars, lockVars
  <2> QED
    BY <2>1, <2>2, <2>3, <2>4, <2>5, <2>6 DEF Next, Run
<1> QED
  BY <1>1, <1>2, PTL DEF Spec, LockSpec

\* Two pipelines work at once only after a stale verdict that went wrong.
THEOREM PipelinesExclude == Spec => []HoldersExclude
BY PipelineUsesLock, LockExcludes, PTL

-----------------------------------------------------------------------------
(* The work on the queue, the tree and the program.                        *)

LEMMA ChildKeepsTree ==
  ASSUME TypeOK, NEW q \in Proposals, ChildWorks(q)
  PROVE  /\ tree' \in Trees
         /\ tree'.head = tree.head \/ q \in tree'.fixes
         /\ tree.fixes \subseteq tree'.fixes
<1>1. CASE UNCHANGED tree
  BY <1>1 DEF TypeOK, Trees
<1>2. ASSUME NEW a \in BOOLEAN, NEW g \in BOOLEAN, tree' = Edits(a, g)
      PROVE  /\ tree' \in Trees /\ tree'.head = tree.head /\ tree'.fixes = tree.fixes
  BY <1>2 DEF TypeOK, Trees, Edits
<1>3. ASSUME NEW a \in BOOLEAN, NEW g \in BOOLEAN, tree' = Commits(q, a, g)
      PROVE  /\ tree' \in Trees /\ tree'.fixes = tree.fixes \cup {q}
  <2>1. tree \in Trees /\ tree.head + 1 \in Nat /\ tree.fixes \cup {q} \in SUBSET Proposals
    BY DEF TypeOK, Trees
  <2> QED
    BY <1>3, <2>1 DEF Trees, Commits
<1> QED
  BY <1>1, <1>2, <1>3 DEF ChildWorks

\* Every variable of the pipelines keeps its type, and a pipeline works exactly
\* while it believes it holds the lock.
THEOREM TypeCorrect == Spec => []TypeOK
<1> USE ProcsAssumption, BoundsAssumption DEF ProcsAssumption, BoundsAssumption
<1>1. Init => TypeOK
  <2> SUFFICES ASSUME Init PROVE TypeOK
    OBVIOUS
  <2>1. lock = NoFile /\ at = [p \in Procs |-> "out"] /\ slip = FALSE
    BY DEF Init, LockInit
  <2>2. tree \in Trees /\ exe \in Programs
    BY DEF Init, FirstTree, Build, Trees, Programs
  <2> QED
    <3>1. LockType
      BY LockTypeInit DEF Init
    <3>2. /\ job \in [Procs -> Proposals \cup {NoProposal}] /\ base \in [Procs -> Nat]
          /\ step \in [Procs -> Steps] /\ attempts \in [Proposals -> Nat]
      BY DEF Init, Steps, NoHead
    <3>3. \A p \in Procs : at[p] = "out" /\ step[p] = "idle"
      BY <2>1 DEF Init
    <3>4. mishaps \in 0..MaxMishaps
      BY DEF Init
    <3>5. session \in [Sessions -> {"idle", "reported", "spawn", "stamp"}]
      BY DEF Init
    <3>6. cooling \in BOOLEAN /\ inbox = {} /\ torn = {} /\ processed = {} /\ exiled = {} /\ blind = {}
      BY DEF Init
    <3> QED
      BY <2>2, <3>1, <3>2, <3>3, <3>4, <3>5, <3>6 DEF TypeOK
<1>2. TypeOK /\ [Next]_vars => TypeOK'
  <2> SUFFICES ASSUME TypeOK, [Next]_vars PROVE TypeOK'
    OBVIOUS
  <2> USE DEF TypeOK, LockType, Steps, Goto, Smooth, Mishap, lockVars, queue, work, Moves
  <2>1. ASSUME NEW s \in Sessions, Report(s) PROVE TypeOK'
    BY <2>1 DEF Report, Leaves, Unmade
  <2>2. ASSUME NEW s \in Sessions, LaterReport(s) \/ SessionStep(s) PROVE TypeOK'
    BY <2>2, ZenonT(60) DEF LaterReport, SessionStep, Gate, Stamp, Spawn, Leaves
  <2>3. CASE CooldownEnds
    BY <2>3 DEF CooldownEnds
  <2>4. ASSUME NEW p \in Procs, Lock(p) PROVE TypeOK'
    <3>1. LockType'
      BY <2>4, LockTypeKept DEF Lock, LockType, LockNext
    <3>2. PICK w \in {"out", "found", "stale", "again", "made", "in"} :
             at' = [at EXCEPT ![p] = w]
      BY <2>4 DEF Lock, Acquire, TryCreate, Fill, FillFails, Judge, Reclaim
    <3>3. step' = [step EXCEPT ![p] = IF w = "in" THEN "pick"
                                      ELSE IF w = "out" THEN "idle" ELSE "start"]
      BY <2>4, <3>2 DEF Lock
    <3>4. mishaps' \in 0..MaxMishaps
      BY <2>4 DEF Lock
    <3> QED
      BY <2>4, <3>1, <3>2, <3>3, <3>4 DEF Lock, LockType
  <2>5. ASSUME NEW p \in Procs, Pick(p) PROVE TypeOK'
    <3>1. base' \in [Procs -> Nat] /\ mishaps' \in 0..MaxMishaps
      BY <2>5 DEF Pick, ReadsHead, NoHead, Trees
    <3> QED
      BY <2>5, <3>1 DEF Pick, Chosen
  <2>6. ASSUME NEW p \in Procs, Child(p) PROVE TypeOK'
    <3>1. job[p] \in Proposals
      BY <2>6 DEF Child
    <3>2. tree' \in Trees
      BY <2>6, <3>1, ChildKeepsTree DEF Child
    <3> QED
      BY <2>6, <3>2 DEF Child
  <2>7. ASSUME NEW p \in Procs, Inspect(p) \/ Test(p) PROVE TypeOK'
    BY <2>7 DEF Inspect, Test, NoHead
  <2>8. ASSUME NEW p \in Procs, Install(p) PROVE TypeOK'
    <3>1. exe' \in Programs
      BY <2>8 DEF Install, Build, Trees, Programs
    <3> QED
      BY <2>8, <3>1 DEF Install
  <2>9. ASSUME NEW p \in Procs, Mark(p) \/ Exile(p) PROVE TypeOK'
    BY <2>9 DEF Mark, Exile
  <2>10. ASSUME NEW p \in Procs, ClearAttempts(p) \/ Count(p) PROVE TypeOK'
    BY <2>10 DEF ClearAttempts, Count
  <2>11. ASSUME NEW p \in Procs, Leave(p) PROVE TypeOK'
    BY <2>11 DEF Leave, Release, NoFile, NoHead
  <2>12. ASSUME NEW p \in Procs, Crash(p) PROVE TypeOK'
    BY <2>12 DEF Crash, Die, Abandon, NoHead
  <2>13. CASE HourPasses
    <3>1. LockType' /\ at' = at
      BY <2>13, LockTypeKept DEF HourPasses, LockAges, LockType, LockNext
    <3>2. mishaps' \in 0..MaxMishaps
      BY <2>13 DEF HourPasses
    <3> QED
      BY <2>13, <3>1, <3>2 DEF HourPasses, LockType
  <2>14. CASE UNCHANGED vars
    BY <2>14 DEF vars
  <2> QED
    BY <2>1, <2>2, <2>3, <2>4, <2>5, <2>6, <2>7, <2>8, <2>9, <2>10, <2>11, <2>12, <2>13, <2>14
       DEF Next, Run
<1> QED
  BY <1>1, <1>2, PTL DEF Spec

\* Under the lock, what a pipeline found out about the tree at one step still
\* holds at the next: a head that has moved since it was read was moved by the
\* pipeline's own child.
WorkInv ==
    /\ exe.green /\ exe.fixes \subseteq tree.fixes
    /\ processed \ blind \subseteq exe.fixes
    /\ \A q \in Proposals : attempts[q] <= MaxAttempts
    /\ \A p \in Procs :
          /\ step[p] \in {"child", "inspect", "test", "install", "count"} => attempts[job[p]] < MaxAttempts
          /\ step[p] = "child" => base[p] \in {tree.head, NoHead}
          /\ step[p] = "inspect" => base[p] \in {tree.head, NoHead} \/ job[p] \in tree.fixes
          /\ step[p] \in {"test", "install"} => job[p] \in tree.fixes \cup blind
          /\ step[p] = "install" => tree.green
          /\ step[p] = "mark" => job[p] \in exe.fixes \cup blind

\* Two pipelines at work are one.
LEMMA Alone ==
  ASSUME TypeOK, LockInv, ~slip, NEW p \in Procs, NEW q \in Procs,
         step[p] \notin {"idle", "start"}, step[q] \notin {"idle", "start"}
  PROVE  p = q
<1>1. at[p] = "in" /\ at[q] = "in"
  BY DEF TypeOK
<1> QED
  BY <1>1 DEF LockInv

\* A step of the sessions, the clock or the lock is no concern of the work.
LEMMA WorkUntouched ==
  ASSUME TypeOK, WorkInv, UNCHANGED <<tree, exe, blind, processed, attempts>>,
         \A p \in Procs :
            step'[p] \in {"idle", "start", "pick", "leave", "exile", "veto", "clear"}
            \/ (step'[p] = step[p] /\ job'[p] = job[p] /\ base'[p] = base[p])
  PROVE  WorkInv'
<1>1. /\ exe'.green /\ exe'.fixes \subseteq tree'.fixes
      /\ processed' \ blind' \subseteq exe'.fixes
      /\ \A q \in Proposals : attempts'[q] <= MaxAttempts
  BY DEF WorkInv
<1>2. ASSUME NEW p \in Procs
      PROVE  /\ step'[p] \in {"child", "inspect", "test", "install", "count"}
                   => attempts'[job'[p]] < MaxAttempts
             /\ step'[p] = "child" => base'[p] \in {tree'.head, NoHead}
             /\ step'[p] = "inspect"
                   => base'[p] \in {tree'.head, NoHead} \/ job'[p] \in tree'.fixes
             /\ step'[p] \in {"test", "install"} => job'[p] \in tree'.fixes \cup blind'
             /\ step'[p] = "install" => tree'.green
             /\ step'[p] = "mark" => job'[p] \in exe'.fixes \cup blind'
  <2>1. CASE step'[p] \in {"idle", "start", "pick", "leave", "exile", "veto", "clear"}
    BY <2>1
  <2>2. CASE step'[p] = step[p] /\ job'[p] = job[p] /\ base'[p] = base[p]
    BY <2>2 DEF WorkInv
  <2> QED
    BY <2>1, <2>2
<1> QED
  BY <1>1, <1>2 DEF WorkInv

LEMMA WorkInvHolds == Spec => [](slip \/ WorkInv)
<1> USE ProcsAssumption, BoundsAssumption DEF ProcsAssumption, BoundsAssumption
<1>1. Init => WorkInv
  BY DEF Init, WorkInv, FirstTree, Build
<1>2. TypeOK /\ TypeOK' /\ LockInv /\ (slip \/ WorkInv) /\ [Next]_vars => (slip \/ WorkInv)'
  <2> SUFFICES ASSUME TypeOK, TypeOK', LockInv, WorkInv, ~slip, [Next]_vars PROVE WorkInv'
    <3>1. slip /\ [Next]_vars => slip'
      BY DEF Next, vars, lockVars, Report, LaterReport, SessionStep, Gate, Stamp, Spawn, Run,
             Lock, Acquire, TryCreate, Fill, FillFails, Judge, Reclaim, Pick, Child, Inspect,
             Test, Install, Mark, ClearAttempts, Count, Exile, Leave, Release, Crash, Die,
             CooldownEnds, HourPasses, LockAges
    <3> QED
      BY <3>1
  <2> USE DEF Goto, lockVars, queue, work
  <2>1. ASSUME NEW s \in Sessions, Report(s) \/ LaterReport(s) \/ SessionStep(s) PROVE WorkInv'
    BY <2>1, WorkUntouched DEF Report, LaterReport, SessionStep, Gate, Stamp, Spawn, TypeOK
  <2>2. ASSUME NEW p \in Procs, Lock(p) PROVE WorkInv'
    BY <2>2, WorkUntouched DEF Lock, TypeOK
  <2>3. ASSUME NEW p \in Procs, Leave(p) \/ Crash(p) PROVE WorkInv'
    BY <2>3, WorkUntouched DEF Leave, Crash, TypeOK
  <2>4. CASE CooldownEnds \/ HourPasses \/ UNCHANGED vars
    BY <2>4, WorkUntouched DEF CooldownEnds, HourPasses, vars
  <2>5. ASSUME NEW p \in Procs,
               Pick(p) \/ Child(p) \/ Inspect(p) \/ Test(p) \/ Install(p) \/ Mark(p)
               \/ ClearAttempts(p) \/ Count(p) \/ Exile(p)
        PROVE WorkInv'
    <3>1. \A q \in Procs : q # p => step[q] \in {"idle", "start"} /\ step'[q] = step[q]
      <4>1. step[p] \notin {"idle", "start"}
        BY <2>5 DEF Pick, Child, Inspect, Test, Install, Mark, ClearAttempts, Count, Exile
      <4>2. \A q \in Procs : q # p => step'[q] = step[q]
        BY <2>5 DEF Pick, Chosen, Child, Inspect, Test, Install, Mark, ClearAttempts, Count,
                    Exile, TypeOK
      <4> QED
        BY <4>1, <4>2, Alone
    <3>2. CASE Pick(p)
      BY <2>5, <3>1, <3>2 DEF Pick, ReadsHead, Chosen, NextAttemptable, Attemptable, WorkInv, TypeOK
    <3>3. CASE Child(p)
      <4>1. CASE UNCHANGED tree /\ Goto(p, "leave")
        BY <3>3, <4>1, WorkUntouched DEF Child, TypeOK
      <4>2. CASE ChildWorks(job[p]) /\ \E ok \in BOOLEAN : Goto(p, IF ok THEN "inspect" ELSE "count")
        <5>1. step[p] = "child" /\ job[p] \in Proposals
          BY <3>3 DEF Child, TypeOK
        <5>2. /\ tree'.head = tree.head \/ job[p] \in tree'.fixes
              /\ tree.fixes \subseteq tree'.fixes
          BY <4>2, <5>1, ChildKeepsTree
        <5>3. step'[p] \in {"inspect", "count"}
          BY <4>2 DEF TypeOK
        <5> QED
          BY <3>1, <3>3, <5>1, <5>2, <5>3 DEF Child, WorkInv
      <4> QED
        BY <3>3, <4>1, <4>2 DEF Child
    <3>4. CASE Inspect(p)
      BY <3>1, <3>4 DEF Inspect, WorkInv, TypeOK
    <3>5. CASE Test(p)
      BY <3>1, <3>5 DEF Test, WorkInv, TypeOK
    <3>6. CASE Install(p)
      BY <3>1, <3>6 DEF Install, Build, WorkInv, TypeOK
    <3>7. CASE Mark(p) \/ Exile(p)
      BY <3>1, <3>7 DEF Mark, Exile, WorkInv, TypeOK
    <3>8. CASE ClearAttempts(p)
      BY <3>1, <3>8 DEF ClearAttempts, WorkInv, TypeOK
    <3>9. CASE Count(p)
      BY <3>1, <3>9 DEF Count, WorkInv, TypeOK
    <3> QED
      BY <2>5, <3>2, <3>3, <3>4, <3>5, <3>6, <3>7, <3>8, <3>9
  <2> QED
    BY <2>1, <2>2, <2>3, <2>4, <2>5 DEF Next, Run
<1>3. Spec => []LockInv
  BY PipelineUsesLock, LockInvHolds, PTL
<1> QED
  BY <1>1, <1>2, <1>3, TypeCorrect, PTL DEF Spec

\* What is installed passed the test gate, unless two pipelines overlapped.
THEOREM InstalledIsTested == Spec => []InstalledPassedTests
<1>1. slip \/ WorkInv => InstalledPassedTests
  BY DEF WorkInv, InstalledPassedTests
<1> QED
  BY <1>1, WorkInvHolds, PTL

\* What is filed as processed is installed, unless two pipelines overlapped or
\* the head before the child was not known.
THEOREM ProcessedStaysInstalled == Spec => []ProcessedIsInstalled
<1>1. slip \/ WorkInv => ProcessedIsInstalled
  BY DEF WorkInv, ProcessedIsInstalled
<1> QED
  BY <1>1, WorkInvHolds, PTL

\* No proposal is tried too often, whatever crashes and fails, unless two
\* pipelines overlapped.
THEOREM AttemptsStayBounded == Spec => []AttemptsBounded
<1>1. slip \/ WorkInv => AttemptsBounded
  BY DEF WorkInv, AttemptsBounded
<1> QED
  BY <1>1, WorkInvHolds, PTL
=============================================================================
