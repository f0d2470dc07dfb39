--------------------------- MODULE McpManager_proofs ---------------------------
(***************************************************************************)
(* For every number of servers and every bound: the manager's types, that  *)
(* a tool call is sent once at most, that no answer outlives the call it   *)
(* belongs to, and that a call fails only for cause, a lost runtime never  *)
(* being the cause twice in a row.                                         *)
(***************************************************************************)
EXTENDS McpManagerProps, FiniteSetTheorems, WellFoundedInduction,
        TLAPS

-----------------------------------------------------------------------------
(* The operators.                                                          *)

\* The least of finitely many numbers, for the two places that use it.
LEMMA MinOfTwo ==
  ASSUME NEW k \in Nat
  PROVE  Min({2, k}) = IF k < 2 THEN k ELSE 2
<1>1. \A x \in {2, k} : (\A y \in {2, k} : x =< y) => x = IF k < 2 THEN k ELSE 2
  OBVIOUS
<1>2. \E x \in {2, k} : \A y \in {2, k} : x =< y
  <2>1. CASE k < 2
    BY <2>1
  <2>2. CASE ~(k < 2)
    BY <2>2
  <2> QED
    BY <2>1, <2>2
<1> QED
  BY <1>1, <1>2 DEF Min

\* Among one number more than there are ids in use, one is not in use.
LEMMA FreshIdExists ==
  ASSUME IsFiniteSet(UsedIds)
  PROVE  FreshId \in Nat /\ FreshId \notin UsedIds
<1> DEFINE n == Cardinality(UsedIds) + 1
           Free == {i \in 1..n : i \notin UsedIds}
<1>1. n \in Nat /\ Cardinality(UsedIds) \in Nat
  BY FS_CardinalityType
<1>2. IsFiniteSet(1..n) /\ Cardinality(1..n) = n
  BY <1>1, FS_Interval
<1>3. Free # {}
  <2> SUFFICES ASSUME 1..n \subseteq UsedIds PROVE FALSE
    OBVIOUS
  <2>1. Cardinality(1..n) <= Cardinality(UsedIds)
    BY FS_Subset
  <2> QED
    BY <1>1, <1>2, <2>1
<1>4. \E x \in Free : \A y \in Free : x =< y
  <2> DEFINE Less == {ss \in Nat \X Nat : ss[1] < ss[2]}
  <2>1. Free \subseteq Nat
    BY <1>1
  <2>2. IsWellFoundedOn(Less, Nat)
    BY NatLessThanWellFounded DEF OpToRel
  <2>3. PICK x \in Free : \A y \in Free : ~(<<y, x>> \in Less)
    <3> HIDE DEF Free, Less
    <3> QED
      BY <1>3, <2>1, <2>2, WFMin
  <2>4. \A y \in Free : ~(y < x)
    BY <2>1, <2>3
  <2>5. \A y \in Free : x =< y
    <3> HIDE DEF Free
    <3> QED
      BY <2>1, <2>4
  <2> QED
    BY <2>5
<1>5. FreshId \in Free
  BY <1>4 DEF FreshId, Min
<1> QED
  BY <1>5, <1>1

\* The next server of a call, and its end.
LEMMA TurnedTyped ==
  ASSUME NEW o \in CallSet, NEW s \in Servers, NEW stage \in {"discover", "call"}
  PROVE  Turned(o, stage, s) \in CallSet
BY DEF Turned, CallSet, Phases

LEMMA OverTyped ==
  ASSUME NEW o \in CallSet, NEW ok \in BOOLEAN
  PROVE  /\ Over(o, ok) \in CallSet /\ Over(o, ok).phase = "end" /\ Over(o, ok).ok = ok
         /\ \A field \in {"path", "stage", "sent", "shaking", "blows", "lost", "hard", "at"} :
               Over(o, ok)[field] = o[field]
BY DEF Over, CallSet, Phases

\* The four ways a call goes on after an error, and what becomes of the process.
LEMMA FailsCases ==
  ASSUME NEW o \in CallSet, o.path = "start" => o.stage = "discover",
         NEW e, NEW ps, Fails(o, e, ps)
  PROVE  /\ \/ Reset(ps, o.at)
            \/ proc' = ps /\ ready' = ready /\ ~Resets(e)
         /\ discovered' = discovered
         /\ \/ /\ Reshakes(o, e) /\ Reset(ps, o.at) /\ routes' = routes
               /\ op' = [o EXCEPT !.inits = 1, !.id = 0, !.phase = "prepare"]
            \/ /\ ~Reshakes(o, e) /\ Restarts(o, e) /\ routes' = routes
               /\ op' = [o EXCEPT !.tries = 1, !.inits = 0, !.pages = 0, !.id = 0,
                                  !.phase = "check"]
            \/ /\ o.path = "start" /\ routes' = routes \ {o.at}
               /\ \/ o.at < NumServers /\ op' = Turned(o, "discover", o.at + 1)
                  \/ op' = Over(o, TRUE)
            \/ /\ ~Reshakes(o, e) /\ ~Restarts(o, e) /\ o.path # "start" /\ routes' = routes
               /\ op' = Over(o, FALSE)
<1>1. \/ Reset(ps, o.at)
      \/ proc' = ps /\ ready' = ready /\ ~Resets(e)
  BY DEF Fails
<1>2. Reshakes(o, e) => Reset(ps, o.at)
  BY DEF Fails
<1>3. CASE ~Reshakes(o, e) /\ ~Restarts(o, e)
  <2>1. GiveUp(o)
    BY <1>3 DEF Fails
  <2>2. CASE o.path = "start"
    BY <1>1, <1>3, <2>1, <2>2 DEF GiveUp, NextServer
  <2>3. CASE o.path # "start"
    BY <1>1, <1>3, <2>1, <2>3 DEF GiveUp
  <2> QED
    BY <2>2, <2>3
<1>4. CASE Reshakes(o, e)
  BY <1>1, <1>2, <1>4 DEF Fails
<1>5. CASE ~Reshakes(o, e) /\ Restarts(o, e)
  BY <1>1, <1>5 DEF Fails
<1> QED
  BY <1>3, <1>4, <1>5

\* An error keeps the shape of a call, whatever it was busy with.
LEMMA FailsKeepsCall ==
  ASSUME NEW o \in CallSet, o.path # "none", o.path = "start" => o.stage = "discover",
         o.sent = 1 => o.stage = "call" /\ ~o.shaking, routes \in SUBSET Servers,
         NEW e, NEW ps, Fails(o, e, ps)
  PROVE  /\ CallOk(op') /\ routes' \in SUBSET Servers /\ discovered' = discovered
         /\ op'.phase \in {"prepare", "check", "end"} /\ op'.path = o.path
<1>0. routes' \in SUBSET Servers /\ discovered' = discovered
  BY FailsCases
<1>1. CASE Reshakes(o, e) /\ op' = [o EXCEPT !.inits = 1, !.id = 0, !.phase = "prepare"]
  <2>1. o.shaking /\ o.sent # 1
    BY <1>1 DEF Reshakes
  <2> QED
    BY <1>1, <2>1, <1>0 DEF CallOk, CallSet, Phases
<1>2. CASE Restarts(o, e) /\ op' = [o EXCEPT !.tries = 1, !.inits = 0, !.pages = 0, !.id = 0,
                                           !.phase = "check"]
  <2>1. o.stage # "call" /\ o.sent # 1
    BY <1>2 DEF Restarts
  <2> QED
    BY <1>2, <2>1, <1>0 DEF CallOk, CallSet, Phases
<1>3. ASSUME NEW ok \in BOOLEAN, op' = Over(o, ok)
      PROVE  CallOk(op') /\ op'.phase = "end" /\ op'.path = o.path
  BY <1>3, OverTyped DEF CallOk
<1>4. CASE o.path = "start" /\ o.at < NumServers /\ op' = Turned(o, "discover", o.at + 1)
  <2>1. o.at + 1 \in Servers /\ o.sent # 1
    BY <1>4, BoundsAssumption DEF CallSet, Servers, BoundsAssumption
  <2>2. op' \in CallSet
    BY <1>4, <2>1, TurnedTyped
  <2>3. op'.path = "start" /\ op'.stage = "discover" /\ op'.sent # 1 /\ op'.phase = "check"
    BY <1>4, <2>1 DEF Turned, CallSet
  <2> QED
    BY <1>0, <1>4, <2>2, <2>3 DEF CallOk
<1>5. op' = Over(o, TRUE) \/ op' = Over(o, FALSE) => CallOk(op') /\ op'.phase = "end"
                                                    /\ op'.path = o.path
  BY <1>3
<1> QED
  BY <1>0, <1>1, <1>2, <1>4, <1>5, FailsCases

-----------------------------------------------------------------------------
(* The processes.                                                          *)

\* A process that is as it should be on its own.
ProcOk(p) == /\ p \in ProcSet
             /\ p.state = "none" => p = NoProc
             /\ p.home = "none" => p.state = "none"

LEMMA ProcInvBy ==
  ProcInv <=> /\ \A s \in Servers : ProcOk(proc[s]) /\ (ready[s] => proc[s].state # "none")
              /\ proc = [s \in Servers |-> proc[s]]
              /\ ready \in [Servers -> BOOLEAN] /\ IsFiniteSet(UsedIds)
BY DEF ProcInv, ProcOk

LEMMA IdsOf ==
  ASSUME NEW p
  PROVE  Ids(p) = p.owes \cup {p.pipe[i].id : i \in DOMAIN p.pipe}
BY DEF Ids, ToSet

\* Processes ps are sound beside the present ones: each is, and they know at most
\* one id more.
PsOk(ps) ==
    /\ ps = [s \in Servers |-> ps[s]]
    /\ \A s \in Servers : ProcOk(ps[s])
    /\ \E x : \A s \in Servers : Ids(ps[s]) \subseteq UsedIds \cup {x}

LEMMA ProcStep ==
  ASSUME ProcInv, PsOk(proc'), ready' \in [Servers -> BOOLEAN],
         \A s \in Servers : ready'[s] => proc'[s].state # "none"
  PROVE  ProcInv'
<1>1. PICK x : \A s \in Servers : Ids(proc'[s]) \subseteq UsedIds \cup {x}
  BY DEF PsOk
<1>2. UsedIds' = UNION {Ids(proc'[s]) : s \in Servers}
  BY DEF UsedIds, Ids
<1>3. UsedIds' \subseteq UsedIds \cup {x}
  BY <1>1, <1>2
<1>4. IsFiniteSet(UsedIds')
  <2>1. IsFiniteSet(UsedIds \cup {x})
    BY FS_AddElement DEF ProcInv
  <2> QED
    BY <1>3, <2>1, FS_Subset
<1> QED
  BY <1>4 DEF PsOk, ProcOk, ProcInv

\* One server's process changes.
LEMMA OneProc ==
  ASSUME ProcInv, NEW s \in Servers, NEW p, ProcOk(p), NEW x, Ids(p) \subseteq UsedIds \cup {x}
  PROVE  PsOk([proc EXCEPT ![s] = p])
<1>1. \A t \in Servers : Ids(proc[t]) \subseteq UsedIds
  BY DEF UsedIds
<1> QED
  BY <1>1, ProcInvBy DEF PsOk

LEMMA NoProcOk == ProcOk(NoProc) /\ Ids(NoProc) = {} /\ NoProc.state = "none"
<1>1. NoProc \in ProcSet /\ NoProc.state = "none" /\ NoProc.owes = {} /\ NoProc.pipe = <<>>
  BY DEF NoProc, ProcSet, Homes
<1>2. Ids(NoProc) = {}
  BY <1>1, IdsOf
<1> QED
  BY <1>1, <1>2 DEF ProcOk

\* A reset, and no change at all, of sound processes.
LEMMA ResetStep ==
  ASSUME ProcInv, NEW ps, PsOk(ps), NEW s \in Servers,
         \A t \in Servers : ready[t] => ps[t].state # "none",
         Reset(ps, s) \/ (proc' = ps /\ ready' = ready)
  PROVE  ProcInv'
<1>1. CASE Reset(ps, s)
  <2>1. proc' = [ps EXCEPT ![s] = NoProc] /\ ready' = [ready EXCEPT ![s] = FALSE]
    BY <1>1 DEF Reset
  <2>2. PsOk(proc')
    BY <2>1, NoProcOk DEF PsOk
  <2>3. \A t \in Servers : ready'[t] => proc'[t].state # "none"
    BY <2>1 DEF PsOk, ProcInv
  <2>4. ready' \in [Servers -> BOOLEAN]
    BY <2>1 DEF ProcInv
  <2> QED
    BY <2>2, <2>3, <2>4, ProcStep
<1>2. CASE proc' = ps /\ ready' = ready
  BY <1>2, ProcStep DEF ProcInv
<1> QED
  BY <1>1, <1>2

LEMMA SamePs == ASSUME ProcInv PROVE PsOk(proc)
<1>1. \A t \in Servers : Ids(proc[t]) \subseteq UsedIds
  BY DEF UsedIds
<1> QED
  BY <1>1, ProcInvBy DEF PsOk

\* What a pipe holds after a frame is read from it or written to it.
LEMMA PipeFrames ==
  ASSUME NEW q \in Seq(FrameSet), NEW f \in FrameSet
  PROVE  /\ q # <<>> => /\ Tail(q) \in Seq(FrameSet) /\ ToSet(Tail(q)) \subseteq ToSet(q)
                        /\ Head(q) \in FrameSet
         /\ Append(q, f) \in Seq(FrameSet) /\ ToSet(Append(q, f)) \subseteq ToSet(q) \cup {f}
<1>1. ASSUME q # <<>>
      PROVE  /\ Tail(q) \in Seq(FrameSet) /\ Head(q) \in FrameSet
             /\ \A i \in DOMAIN Tail(q) : i + 1 \in DOMAIN q /\ Tail(q)[i] = q[i + 1]
  BY <1>1
<1>2. Append(q, f) \in Seq(FrameSet) /\ DOMAIN Append(q, f) = 1..(Len(q) + 1)
      /\ DOMAIN q = 1..Len(q) /\ Len(q) \in Nat
  OBVIOUS
<1>3. \A i \in DOMAIN Append(q, f) :
        (i \in DOMAIN q /\ Append(q, f)[i] = q[i]) \/ Append(q, f)[i] = f
  BY <1>2
<1> QED
  BY <1>1, <1>2, <1>3 DEF ToSet

\* A process that reads, is told of, or sends a frame, and one that dies.
LEMMA ReadProc ==
  ASSUME ProcInv, NEW s \in Servers, proc[s].pipe # <<>>
  PROVE  /\ PsOk([proc EXCEPT ![s].pipe = Tail(@)])
         /\ Head(proc[s].pipe) \in FrameSet
         /\ proc[s].state # "none"
<1> DEFINE p == [proc[s] EXCEPT !.pipe = Tail(@)]
<1>1. proc[s] \in ProcSet /\ proc[s].pipe \in Seq(FrameSet) /\ proc[s].state # "none"
  BY DEF ProcInv, ProcSet, NoProc
<1>2. /\ Tail(proc[s].pipe) \in Seq(FrameSet) /\ Head(proc[s].pipe) \in FrameSet
      /\ ToSet(Tail(proc[s].pipe)) \subseteq ToSet(proc[s].pipe)
  BY <1>1, PipeFrames
<1>3. /\ p \in ProcSet /\ p.state = proc[s].state /\ p.home = proc[s].home
      /\ p.pipe = Tail(proc[s].pipe) /\ p.owes = proc[s].owes
  BY <1>1, <1>2 DEF ProcSet
<1>4. Ids(p) \subseteq Ids(proc[s])
  BY <1>2, <1>3 DEF Ids
<1>5. ProcOk(p) /\ Ids(p) \subseteq UsedIds \cup {0}
  BY <1>1, <1>3, <1>4 DEF ProcOk, UsedIds, ProcInv
<1>6. PsOk([proc EXCEPT ![s] = p])
  BY <1>5, OneProc
<1> QED
  BY <1>1, <1>2, <1>6

LEMMA OwingProc ==
  ASSUME ProcInv, NEW s \in Servers, proc[s].state # "none", NEW n \in Nat
  PROVE  PsOk([proc EXCEPT ![s].owes = @ \cup {n}])
<1> DEFINE p == [proc[s] EXCEPT !.owes = @ \cup {n}]
<1>1. p \in ProcSet /\ p.state = proc[s].state /\ p.home = proc[s].home
      /\ p.owes = proc[s].owes \cup {n} /\ p.pipe = proc[s].pipe
  BY DEF ProcInv, ProcSet
<1>2. ProcOk(p) /\ Ids(p) \subseteq UsedIds \cup {n}
  BY <1>1 DEF ProcOk, UsedIds, ProcInv, Ids
<1> QED
  BY <1>2, OneProc

LEMMA SendingProc ==
  ASSUME ProcInv, NEW s \in Servers, proc[s].state # "none", NEW f \in FrameSet,
         NEW owes \in SUBSET proc[s].owes
  PROVE  PsOk([proc EXCEPT ![s].owes = owes, ![s].pipe = Append(@, f)])
<1> DEFINE p == [proc[s] EXCEPT !.owes = owes, !.pipe = Append(@, f)]
<1>1. proc[s] \in ProcSet /\ proc[s].pipe \in Seq(FrameSet) /\ owes \subseteq Nat
  BY DEF ProcInv, ProcSet
<1>2. /\ Append(proc[s].pipe, f) \in Seq(FrameSet)
      /\ ToSet(Append(proc[s].pipe, f)) \subseteq ToSet(proc[s].pipe) \cup {f}
  BY <1>1, PipeFrames
<1>3. p \in ProcSet /\ p.state = proc[s].state /\ p.home = proc[s].home
      /\ p.owes = owes /\ p.pipe = Append(proc[s].pipe, f)
  BY <1>1, <1>2 DEF ProcSet
<1>4. Ids(p) \subseteq Ids(proc[s]) \cup {f.id}
  BY <1>2, <1>3 DEF Ids
<1>5. ProcOk(p) /\ Ids(p) \subseteq UsedIds \cup {f.id}
  BY <1>3, <1>4 DEF ProcOk, UsedIds, ProcInv
<1>6. PsOk([proc EXCEPT ![s] = p])
  BY <1>5, OneProc
<1> QED
  BY <1>6

LEMMA DeadProc ==
  ASSUME ProcInv, NEW s \in Servers, proc[s].state = "up"
  PROVE  PsOk([proc EXCEPT ![s].state = "dead", ![s].owes = {}])
<1> DEFINE p == [proc[s] EXCEPT !.state = "dead", !.owes = {}]
<1>1. p \in ProcSet /\ p.state = "dead" /\ p.home = proc[s].home /\ p.home # "none"
      /\ p.owes = {} /\ p.pipe = proc[s].pipe
  BY DEF ProcInv, ProcSet
<1>2. ProcOk(p) /\ Ids(p) \subseteq UsedIds \cup {0}
  BY <1>1 DEF ProcOk, UsedIds, ProcInv, Ids
<1>3. PsOk([proc EXCEPT ![s] = p])
  BY <1>2, OneProc
<1> QED
  BY <1>3

LEMMA OrphanedProcs ==
  ASSUME ProcInv, NEW home \in {"own", "call"}
  PROVE  /\ PsOk(Orphaned(home))
         /\ \A s \in Servers : ready[s] => Orphaned(home)[s].state # "none"
<1>1. ASSUME NEW s \in Servers
      PROVE  /\ ProcOk(Orphaned(home)[s]) /\ Ids(Orphaned(home)[s]) = Ids(proc[s])
             /\ Orphaned(home)[s].state = proc[s].state
  <2>1. CASE proc[s].home = home
    <3>1. Orphaned(home)[s] = [proc[s] EXCEPT !.home = "gone"]
      BY <2>1 DEF Orphaned
    <3>2. proc[s].state # "none"
      BY <2>1 DEF ProcInv, NoProc
    <3>3. /\ Orphaned(home)[s] \in ProcSet /\ Orphaned(home)[s].home = "gone"
          /\ Orphaned(home)[s].state = proc[s].state /\ Orphaned(home)[s].owes = proc[s].owes
          /\ Orphaned(home)[s].pipe = proc[s].pipe
      <4>1. ASSUME NEW p \in ProcSet
            PROVE  LET g == [p EXCEPT !.home = "gone"] IN
                   /\ g \in ProcSet /\ g.home = "gone" /\ g.state = p.state
                   /\ g.owes = p.owes /\ g.pipe = p.pipe
        BY DEF ProcSet, Homes
      <4>2. proc[s] \in ProcSet
        BY DEF ProcInv
      <4> QED
        BY <3>1, <4>1, <4>2
    <3> QED
      BY <3>2, <3>3 DEF ProcOk, Ids
  <2>2. CASE proc[s].home # home
    BY <2>2 DEF Orphaned, ProcOk, ProcInv
  <2> QED
    BY <2>1, <2>2
<1>2. \A s \in Servers : Ids(Orphaned(home)[s]) \subseteq UsedIds \cup {0}
  BY <1>1 DEF UsedIds
<1>3. Orphaned(home) = [s \in Servers |-> Orphaned(home)[s]]
  BY DEF Orphaned
<1> QED
  BY <1>1, <1>2, <1>3 DEF PsOk, ProcInv

-----------------------------------------------------------------------------
(* The calls.                                                              *)

\* A call that turns to a server, from one that has sent nothing.
LEMMA TurnedOk ==
  ASSUME NEW o \in CallSet, o.path # "none", o.sent # 1, NEW s \in Servers,
         NEW stage \in {"discover", "call"}, o.path = "start" => stage = "discover"
  PROVE  /\ CallOk(Turned(o, stage, s))
         /\ Turned(o, stage, s).phase = "check" /\ Turned(o, stage, s).path = o.path
         /\ Turned(o, stage, s).tries = 0 /\ Turned(o, stage, s).inits = 0
         /\ Turned(o, stage, s).at = s
<1>1. Turned(o, stage, s) \in CallSet
  BY TurnedTyped
<1>2. /\ Turned(o, stage, s).phase = "check" /\ Turned(o, stage, s).path = o.path
      /\ Turned(o, stage, s).stage = stage /\ Turned(o, stage, s).sent = o.sent
      /\ Turned(o, stage, s).tries = 0 /\ Turned(o, stage, s).inits = 0
      /\ Turned(o, stage, s).at = s
  BY DEF Turned, CallSet
<1> QED
  BY <1>1, <1>2 DEF CallOk

LEMMA OverOk ==
  ASSUME NEW o \in CallSet, o.path # "none", o.path = "start" => o.stage = "discover",
         o.sent = 1 => o.stage = "call" /\ ~o.shaking, NEW ok \in BOOLEAN
  PROVE  CallOk(Over(o, ok)) /\ Over(o, ok).phase = "end"
BY OverTyped DEF CallOk

LEMMA NewCall ==
  ASSUME NEW path \in {"start", "bridge"}, NEW t \in Servers
  PROVE  /\ [NoCall EXCEPT !.path = path] \in CallSet
         /\ [NoCall EXCEPT !.path = path].path = path
         /\ [NoCall EXCEPT !.path = path].sent # 1
         /\ [NoCall EXCEPT !.path = path, !.target = t] \in CallSet
         /\ [NoCall EXCEPT !.path = path, !.target = t].path = path
         /\ [NoCall EXCEPT !.path = path, !.target = t].sent # 1
<1>1. 1 \in Servers
  BY BoundsAssumption DEF BoundsAssumption, Servers
<1>2. NoCall \in CallSet /\ NoCall.sent = 0
  BY <1>1 DEF NoCall, CallSet, Phases
<1> DEFINE o == [NoCall EXCEPT !.path = path]
           q == [NoCall EXCEPT !.path = path, !.target = t]
<1>3. o.path = path /\ o.sent = 0 /\ q.path = path /\ q.sent = 0
  BY <1>2 DEF CallSet
<1>4. o \in CallSet
  BY <1>2 DEF CallSet
<1>5. q = [o EXCEPT !.target = t] /\ q \in CallSet
  BY <1>4 DEF CallSet
<1>6. o.sent # 1 /\ q.sent # 1
  BY <1>3
<1> HIDE DEF o, q
<1>7. o \in CallSet /\ o.path = path /\ o.sent # 1 /\ q \in CallSet /\ q.path = path /\ q.sent # 1
  BY <1>3, <1>4, <1>5, <1>6
<1> QED
  BY <1>7 DEF o, q

LEMMA NoCallOk == CallOk(NoCall)
<1>1. 1 \in Servers
  BY BoundsAssumption DEF BoundsAssumption, Servers
<1>2. NoCall \in CallSet
  BY <1>1 DEF NoCall, CallSet, Phases
<1> QED
  BY <1>2 DEF CallOk, NoCall

\* The next server, or the end, of a discovery that has sent no tool call.
LEMMA NextServerOk ==
  ASSUME NEW o \in CallSet, o.path # "none", o.sent # 1, o.path = "start" => o.stage = "discover",
         discovered \in BOOLEAN, NextServer(o)
  PROVE  CallOk(op') /\ op'.phase \in {"check", "end"} /\ discovered' \in BOOLEAN
<1>1. CASE o.at < NumServers /\ op' = Turned(o, "discover", o.at + 1)
  <2>1. o.at + 1 \in Servers
    BY <1>1, BoundsAssumption DEF CallSet, Servers, BoundsAssumption
  <2> QED
    BY <1>1, <2>1, TurnedOk DEF NextServer
<1>2. CASE ~(o.at < NumServers) /\ o.path = "bridge"
  <2>1. o.target \in Servers /\ op' = Turned(o, "call", o.target) /\ discovered' = TRUE
    BY <1>2 DEF CallSet, NextServer
  <2> QED
    BY <1>2, <2>1, TurnedOk
<1>3. CASE ~(o.at < NumServers) /\ o.path # "bridge"
  BY <1>3, OverOk DEF NextServer
<1> QED
  BY <1>1, <1>2, <1>3 DEF NextServer

\* What Blow and Hard note of a call, and what they leave alone.
LEMMA BlowFields ==
  ASSUME NEW o \in CallSet, NEW n \in {0, 1}
  PROVE  /\ Blow(o, n) \in CallSet
         /\ \A field \in {"path", "stage", "at", "target", "phase", "shaking", "tries",
                          "inits", "id", "sent", "ok", "hard", "lost"} :
               Blow(o, n)[field] = o[field]
         /\ Blow(o, n).blows = IF o.blows + n < 2 THEN o.blows + n ELSE 2
<1>1. o.blows \in {0, 1, 2} /\ o.blows + n \in Nat
  BY DEF CallSet
<1>2. Min({2, o.blows + n}) = IF o.blows + n < 2 THEN o.blows + n ELSE 2
  BY <1>1, MinOfTwo
<1>3. Blow(o, n) = [o EXCEPT !.blows = IF o.blows + n < 2 THEN o.blows + n ELSE 2]
  BY <1>2 DEF Blow
<1> QED
  BY <1>1, <1>3 DEF CallSet

LEMMA HardFields ==
  ASSUME NEW o \in CallSet, NEW cause
  PROVE  /\ Hard(o, cause) \in CallSet
         /\ \A field \in {"path", "stage", "at", "target", "phase", "shaking", "tries",
                          "inits", "id", "sent", "ok", "blows", "lost"} :
               Hard(o, cause)[field] = o[field]
<1>1. Hard(o, cause) = [o EXCEPT !.hard = o.hard \/ cause]
  BY DEF Hard
<1> QED
  BY <1>1 DEF CallSet

LEMMA HardRaised ==
  ASSUME NEW o \in CallSet, NEW cause
  PROVE  Hard(o, cause).hard = (o.hard \/ cause)
<1>1. Hard(o, cause) = [o EXCEPT !.hard = o.hard \/ cause]
  BY DEF Hard
<1> QED
  BY <1>1 DEF CallSet

LEMMA StrandFields ==
  ASSUME NEW o \in CallSet
  PROVE  /\ Strand(o) \in CallSet
         /\ \A field \in {"path", "stage", "at", "target", "phase", "shaking", "tries",
                          "inits", "id", "sent", "ok", "blows", "hard"} :
               Strand(o)[field] = o[field]
<1>1. Strand(o) = [o EXCEPT !.lost = o.lost \/ proc[o.at].home = "gone"]
  BY DEF Strand
<1> QED
  BY <1>1 DEF CallSet

LEMMA StrandRaised ==
  ASSUME NEW o \in CallSet
  PROVE  Strand(o).lost = (o.lost \/ proc[o.at].home = "gone")
<1>1. Strand(o) = [o EXCEPT !.lost = o.lost \/ proc[o.at].home = "gone"]
  BY DEF Strand
<1> QED
  BY <1>1 DEF CallSet

-----------------------------------------------------------------------------
(* Types, and a tool call is sent once.                                    *)

TypeInd == ProcInv /\ CallOk(op) /\ RestInv

\* What an error does to the processes and to the call, with what the rest of
\* the actions that may fail have in common.
LEMMA FailsKeepsTypes ==
  ASSUME TypeInd, NEW o \in CallSet, o.path = op.path, o.stage = op.stage, o.path # "none",
         o.sent = 1 => o.stage = "call" /\ ~o.shaking,
         NEW e, NEW ps, PsOk(ps), \A t \in Servers : ready[t] => ps[t].state # "none",
         Fails(o, e, ps), UNCHANGED <<own, listed, poisoned, spoiled>>, mixed' \in BOOLEAN
  PROVE  TypeInd'
<1>1. o.path = "start" => o.stage = "discover"
  BY DEF TypeInd, CallOk
<1>2. CallOk(op') /\ routes' \in SUBSET Servers /\ discovered' = discovered
  BY <1>1, FailsKeepsCall DEF TypeInd, RestInv
<1>3. Reset(ps, o.at) \/ (proc' = ps /\ ready' = ready)
  BY <1>1, FailsCases
<1>4. o.at \in Servers
  BY DEF CallSet
<1>5. ProcInv'
  BY <1>3, <1>4, ResetStep DEF TypeInd
<1> QED
  BY <1>2, <1>5 DEF TypeInd, RestInv

\* A request is sent, or meets a pipe that is broken.
LEMMA RequestKeepsTypes ==
  ASSUME TypeInd, NEW o \in CallSet, o.path = op.path, o.stage = op.stage, o.path # "none",
         o.sent = 1 => o.stage = "call" /\ ~o.shaking, Request(o)
  PROVE  TypeInd'
<1>1. o.at \in Servers /\ (o.path = "start" => o.stage = "discover")
  BY DEF TypeInd, CallOk, CallSet
<1>2. CASE Writable(o.at)
  <2>1. /\ proc' = [proc EXCEPT ![o.at].owes = @ \cup {FreshId}]
        /\ op' = [o EXCEPT !.id = FreshId, !.phase = "wait"]
        /\ UNCHANGED <<ready, routes, discovered, own, listed, poisoned, past>>
    BY <1>2 DEF Request
  <2>2. FreshId \in Nat
    BY FreshIdExists DEF TypeInd, ProcInv
  <2>3. proc[o.at].state # "none"
    BY <1>2 DEF Writable
  <2>4. PsOk(proc')
    BY <1>1, <2>1, <2>2, <2>3, OwingProc DEF TypeInd
  <2>5. \A t \in Servers : proc'[t].state = proc[t].state
    BY <2>1 DEF TypeInd, ProcInv, ProcSet
  <2>6. ProcInv'
    BY <2>1, <2>4, <2>5, ProcStep DEF TypeInd, ProcInv
  <2>7. op' \in CallSet /\ op'.path = o.path /\ op'.stage = o.stage /\ op'.sent = o.sent
        /\ op'.shaking = o.shaking /\ op'.phase = "wait"
    BY <2>1, <2>2 DEF CallSet, Phases
  <2>8. CallOk(op')
    BY <1>1, <2>7 DEF CallOk
  <2> QED
    BY <2>1, <2>6, <2>8 DEF TypeInd, RestInv, past
<1>3. CASE ~Writable(o.at)
  <2>1. /\ Fails(Strand(o), "transport", proc)
        /\ UNCHANGED <<own, listed, poisoned, mixed, spoiled>>
    BY <1>3 DEF Request, past
  <2>2. Strand(o) \in CallSet
        /\ \A field \in {"path", "stage", "sent", "shaking"} : Strand(o)[field] = o[field]
    BY StrandFields
  <2> QED
    BY <2>1, <2>2, SamePs, FailsKeepsTypes DEF TypeInd, ProcInv, RestInv
<1> QED
  BY <1>2, <1>3

\* What is read from the pipe, and what is left of it.
Foremost == Head(proc[op.at].pipe)
Remains == [proc EXCEPT ![op.at].pipe = Tail(@)]

\* The ways a frame is taken: as an error, or as the answer to the handshake, to
\* a tool call, or to a discovery.
LEMMA ReceiveCases ==
  ASSUME Receive
  PROVE  /\ op.phase = "wait" /\ proc[op.at].home # "gone" /\ proc[op.at].pipe # <<>>
         /\ UNCHANGED <<own, broken, listed, poisoned, spoiled, calls, faults>>
         /\ \/ /\ Foremost.kind = "bad" \/ Foremost.id # op.id
               /\ Fails(Hard(op, Foremost.kind \in {"bad", "ask"}), "invalid", Remains)
               /\ mixed' = mixed
            \/ /\ Foremost.kind # "bad" /\ Foremost.id = op.id
               /\ mixed' = (mixed \/ (Foremost.kind = "ask" /\ op.stage = "call" /\ ~op.shaking))
               /\ \/ op.shaking /\ Shaken(Foremost.kind, Remains)
                  \/ ~op.shaking /\ op.stage = "call" /\ Called(Foremost.kind, Remains)
                  \/ ~op.shaking /\ op.stage # "call" /\ Served(Foremost.kind, Remains)
<1>1. CASE Foremost.kind = "bad" \/ Foremost.id # op.id
  BY <1>1 DEF Receive, Foremost, Remains
<1>2. CASE ~(Foremost.kind = "bad" \/ Foremost.id # op.id)
  <2>1. CASE op.shaking
    BY <1>2, <2>1 DEF Receive, Foremost, Remains
  <2>2. CASE ~op.shaking
    BY <1>2, <2>2 DEF Receive, Foremost, Remains
  <2> QED
    BY <2>1, <2>2
<1> QED
  BY <1>1, <1>2

\* The remaining pipes are sound, and the process read from is there.
LEMMA RemainsOk ==
  ASSUME ProcInv, op.at \in Servers, proc[op.at].pipe # <<>>
  PROVE  /\ PsOk(Remains) /\ Foremost \in FrameSet /\ proc[op.at].state # "none"
         /\ \A t \in Servers : Remains[t].state = proc[t].state
<1>1. \A t \in Servers : Remains[t].state = proc[t].state
  BY DEF Remains, ProcInv, ProcSet
<1> QED
  BY <1>1, ReadProc DEF Foremost, Remains

\* A frame is read.
LEMMA ReceiveKeepsTypes ==
  ASSUME TypeInd, Receive
  PROVE  TypeInd'
<1>1. /\ op.phase = "wait" /\ proc[op.at].pipe # <<>> /\ op \in CallSet /\ op.at \in Servers
      /\ op.path # "none" /\ (op.path = "start" => op.stage = "discover")
      /\ op.sent = 1 => op.stage = "call" /\ ~op.shaking
      /\ UNCHANGED <<own, listed, poisoned, spoiled>>
  BY ReceiveCases DEF TypeInd, CallOk, CallSet
<1>2. /\ PsOk(Remains) /\ proc[op.at].state # "none"
      /\ \A t \in Servers : Remains[t].state = proc[t].state
      /\ \A t \in Servers : ready[t] => Remains[t].state # "none"
  BY <1>1, RemainsOk DEF TypeInd, ProcInv
<1>3. mixed' \in BOOLEAN
  BY ReceiveCases DEF TypeInd, RestInv
<1>4. ASSUME NEW cause, NEW e, Fails(Hard(op, cause), e, Remains)
      PROVE  TypeInd'
  <2>1. Hard(op, cause) \in CallSet
        /\ \A field \in {"path", "stage", "sent", "shaking"} : Hard(op, cause)[field] = op[field]
    BY <1>1, HardFields
  <2> QED
    BY <1>1, <1>2, <1>3, <1>4, <2>1, FailsKeepsTypes
<1>5. ASSUME proc' = Remains, ready' = ready PROVE ProcInv'
  BY <1>2, <1>5, ProcStep DEF TypeInd, ProcInv
<1>6. CASE op.shaking /\ Shaken(Foremost.kind, Remains)
  <2>1. CASE Foremost.kind = "result"
    <3>1. /\ ready' = [ready EXCEPT ![op.at] = TRUE] /\ proc' = Remains
          /\ op' = [op EXCEPT !.id = 0, !.phase = "prepare"] /\ UNCHANGED <<routes, discovered>>
      BY <1>6, <2>1 DEF Shaken
    <3>2. ready' \in [Servers -> BOOLEAN] /\ \A t \in Servers : ready'[t] => proc'[t].state # "none"
      BY <1>1, <1>2, <3>1 DEF TypeInd, ProcInv
    <3>3. ProcInv'
      BY <1>2, <3>1, <3>2, ProcStep DEF TypeInd
    <3>4. op' \in CallSet /\ op'.path = op.path /\ op'.stage = op.stage /\ op'.sent = op.sent
          /\ op'.phase = "prepare"
      BY <1>1, <3>1 DEF CallSet, Phases
    <3>5. CallOk(op')
      BY <1>1, <1>6, <3>4 DEF CallOk
    <3> QED
      BY <1>1, <1>3, <3>1, <3>3, <3>5 DEF TypeInd, RestInv
  <2>2. CASE Foremost.kind # "result"
    BY <1>4, <1>6, <2>2 DEF Shaken
  <2> QED
    BY <2>1, <2>2
<1>7. CASE ~op.shaking /\ op.stage = "call" /\ Called(Foremost.kind, Remains)
  <2> DEFINE o == Hard(op, Foremost.kind # "result")
  <2>1. /\ op' = Over(o, Foremost.kind = "result") /\ proc' = Remains
        /\ UNCHANGED <<ready, routes, discovered>>
    BY <1>7 DEF Called
  <2>2. o \in CallSet
        /\ \A field \in {"path", "stage", "sent", "shaking"} : o[field] = op[field]
    BY <1>1, HardFields
  <2>3. CallOk(op')
    <3> HIDE DEF o
    <3> QED
      BY <1>1, <2>1, <2>2, OverOk
  <2> QED
    BY <1>1, <1>3, <1>5, <2>1, <2>3 DEF TypeInd, RestInv
<1>8. CASE ~op.shaking /\ op.stage # "call" /\ Served(Foremost.kind, Remains)
  <2>0. op.sent # 1
    BY <1>1, <1>8
  <2>1. CASE /\ op' = [op EXCEPT !.id = 0, !.pages = @ + 1, !.phase = "prepare"]
             /\ proc' = Remains /\ UNCHANGED <<ready, routes, discovered>>
    <3>0. op.pages + 1 \in Nat
      BY <1>1 DEF CallSet
    <3>1. op' \in CallSet /\ op'.path = op.path /\ op'.stage = op.stage /\ op'.sent = op.sent
          /\ op'.phase = "prepare"
      BY <1>1, <2>1, <3>0 DEF CallSet, Phases
    <3>2. CallOk(op')
      BY <1>1, <2>0, <3>1 DEF CallOk
    <3> QED
      BY <1>1, <1>3, <1>5, <2>1, <3>2 DEF TypeInd, RestInv
  <2>2. CASE /\ proc' = Remains /\ ready' = ready
             /\ routes' = routes \cup {op.at} /\ NextServer(op)
    <3>1. CallOk(op') /\ discovered' \in BOOLEAN /\ routes' \in SUBSET Servers
      BY <1>1, <2>0, <2>2, NextServerOk DEF TypeInd, RestInv
    <3> QED
      BY <1>1, <1>3, <1>5, <2>2, <3>1 DEF TypeInd, RestInv
  <2>3. CASE /\ Foremost.kind \notin {"more", "result"}
             /\ Fails(Hard(op, TRUE), IF Foremost.kind = "error" THEN "rpc" ELSE "invalid", Remains)
    BY <1>4, <2>3
  <2> QED
    BY <1>8, <2>1, <2>2, <2>3 DEF Served
<1> QED
  BY <1>4, <1>6, <1>7, <1>8, ReceiveCases

\* The start of a call, its end, and the steps that end in an error at once.
LEMMA CallStepsKeepTypes ==
  ASSUME TypeInd, NEW s \in Servers, Bridge(s) \/ Session \/ Return
  PROVE  TypeInd'
<1>1. 1 \in Servers
  BY BoundsAssumption DEF BoundsAssumption, Servers
<1>2. CASE Bridge(s)
  <2> DEFINE o == [NoCall EXCEPT !.path = "bridge", !.target = s]
  <2>1. o \in CallSet /\ o.path = "bridge" /\ o.sent # 1
    BY NewCall
  <2>2. op' = Turned(o, "call", s) \/ op' = Turned(o, "discover", 1) \/ op' = Over(o, FALSE)
    BY <1>2 DEF Bridge
  <2>3. CallOk(op')
    <3> HIDE DEF o
    <3> QED
      BY <1>1, <2>1, <2>2, TurnedOk, OverOk
  <2>4. UNCHANGED <<own, proc, ready, routes, listed, discovered, poisoned, mixed, spoiled>>
    BY <1>2 DEF Bridge, table, past
  <2> QED
    BY <2>3, <2>4, SamePs, ProcStep DEF TypeInd, RestInv, ProcInv
<1>3. CASE Session
  <2>1. /\ poisoned' = TRUE
        /\ UNCHANGED <<own, proc, ready, routes, listed, discovered, op, mixed, spoiled>>
    BY <1>3 DEF Session, table, past
  <2> QED
    BY <2>1, SamePs, ProcStep DEF TypeInd, RestInv, ProcInv
<1>4. CASE Return
  <2>1. /\ op' = NoCall /\ listed' \in {routes, listed}
        /\ UNCHANGED <<own, ready, routes, discovered, poisoned, mixed>>
        /\ spoiled' \in {spoiled, spoiled \cup {op.at}, spoiled \ {op.at}}
        /\ proc' = Orphaned("call") \/ proc' = proc
    BY <1>4 DEF Return
  <2>2. PsOk(proc') /\ \A t \in Servers : ready[t] => proc'[t].state # "none"
    BY <2>1, OrphanedProcs, SamePs DEF TypeInd, ProcInv
  <2>3. ProcInv'
    BY <2>1, <2>2, ProcStep DEF TypeInd, ProcInv
  <2>4. spoiled' \in SUBSET Servers
    BY <2>1 DEF TypeInd, RestInv, CallOk, CallSet
  <2> QED
    BY <2>1, <2>3, <2>4, NoCallOk DEF TypeInd, RestInv
<1> QED
  BY <1>2, <1>3, <1>4

\* The manager's steps within a call, but for what it reads.
LEMMA ManageKeepsTypes ==
  ASSUME TypeInd, Check \/ Spawn \/ Shake \/ Send \/ HangUp \/ Timeout
  PROVE  TypeInd'
<1>1. /\ op \in CallSet /\ op.at \in Servers /\ op.path # "none"
      /\ op.sent = 1 => op.stage = "call" /\ ~op.shaking /\ op.phase \in {"wait", "end"}
  BY DEF TypeInd, CallOk, CallSet, Check, Spawn, Shake, Send, HangUp, Timeout
<1>2. PsOk(proc) /\ \A t \in Servers : ready[t] => proc[t].state # "none"
  BY SamePs DEF TypeInd, ProcInv
<1>3. ASSUME NEW n \in {0, 1}, NEW e, Fails(Blow(op, n), e, proc),
             UNCHANGED <<own, listed, poisoned, mixed, spoiled>>
      PROVE  TypeInd'
  <2>1. Blow(op, n) \in CallSet
        /\ \A field \in {"path", "stage", "sent", "shaking"} : Blow(op, n)[field] = op[field]
    BY <1>1, BlowFields
  <2> QED
    BY <1>1, <1>2, <1>3, <2>1, FailsKeepsTypes DEF TypeInd, RestInv
<1>3a. ASSUME NEW cause, NEW e, Fails(Hard(op, cause), e, proc),
              UNCHANGED <<own, listed, poisoned, mixed, spoiled>>
       PROVE  TypeInd'
  <2>1. Hard(op, cause) \in CallSet
        /\ \A field \in {"path", "stage", "sent", "shaking"} : Hard(op, cause)[field] = op[field]
    BY <1>1, HardFields
  <2> QED
    BY <1>1, <1>2, <1>3a, <2>1, FailsKeepsTypes DEF TypeInd, RestInv
<1>3b. ASSUME NEW e, Fails(Strand(op), e, proc),
              UNCHANGED <<own, listed, poisoned, mixed, spoiled>>
       PROVE  TypeInd'
  <2>1. Strand(op) \in CallSet
        /\ \A field \in {"path", "stage", "sent", "shaking"} : Strand(op)[field] = op[field]
    BY <1>1, StrandFields
  <2> QED
    BY <1>1, <1>2, <1>3b, <2>1, FailsKeepsTypes DEF TypeInd, RestInv
<1>4. CASE Check
  <2>1. op' = [op EXCEPT !.phase = "prepare"] /\ UNCHANGED <<own, routes, listed, discovered, poisoned, mixed, spoiled>>
        /\ (Reset(proc, op.at) \/ (proc' = proc /\ ready' = ready))
    BY <1>4 DEF Check, table, past
  <2>2. ProcInv'
    BY <1>1, <1>2, <2>1, ResetStep DEF TypeInd
  <2>3. /\ op' \in CallSet /\ op'.path = op.path /\ op'.stage = op.stage /\ op'.sent = op.sent
        /\ op'.phase = "prepare"
    BY <1>1, <2>1 DEF CallSet, Phases
  <2>4. op.sent # 1
    BY <1>1, <1>4 DEF Check
  <2>5. CallOk(op')
    BY <1>1, <2>3, <2>4 DEF CallOk, TypeInd
  <2> QED
    BY <2>1, <2>2, <2>5 DEF TypeInd, RestInv
<1>5. CASE Spawn
  <2>1. CASE op.at \in broken
    <3>1. Fails(Hard(op, TRUE), "io", proc) /\ UNCHANGED <<own, listed, poisoned, mixed, spoiled>>
      BY <1>5, <2>1 DEF Spawn, past
    <3> QED
      BY <1>3a, <3>1
  <2>2. CASE op.at \notin broken
    <3>1. PICK home \in {"call", "own"} : proc' = [proc EXCEPT ![op.at] = NewProc(home)]
      BY <1>5, <2>2 DEF Spawn
    <3>2. ready' = [ready EXCEPT ![op.at] = FALSE]
          /\ UNCHANGED <<op, routes, discovered, own, listed, poisoned, mixed, spoiled>>
      BY <1>5, <2>2 DEF Spawn, past
    <3>3. /\ NewProc(home) \in ProcSet /\ NewProc(home).state = "up"
          /\ NewProc(home).home = home /\ NewProc(home).owes = {} /\ NewProc(home).pipe = <<>>
      <4>1. NoProc \in ProcSet /\ NoProc.owes = {} /\ NoProc.pipe = <<>>
        BY DEF NoProc, ProcSet, Homes
      <4>2. ASSUME NEW p \in ProcSet
            PROVE  LET q == [p EXCEPT !.state = "up", !.home = home] IN
                   /\ q \in ProcSet /\ q.state = "up" /\ q.home = home
                   /\ q.owes = p.owes /\ q.pipe = p.pipe
        BY DEF ProcSet, Homes
      <4> QED
        BY <4>1, <4>2 DEF NewProc
    <3>4. ProcOk(NewProc(home)) /\ Ids(NewProc(home)) = {}
      BY <3>3, IdsOf DEF ProcOk
    <3>5. PsOk(proc')
      BY <1>1, <3>1, <3>4, OneProc DEF TypeInd
    <3>6. ready' \in [Servers -> BOOLEAN] /\ \A t \in Servers : ready'[t] => proc'[t].state # "none"
      BY <1>1, <3>1, <3>2 DEF TypeInd, ProcInv
    <3>7. ProcInv'
      BY <3>5, <3>6, ProcStep DEF TypeInd
    <3> QED
      BY <3>2, <3>7 DEF TypeInd, RestInv
  <2> QED
    BY <2>1, <2>2
<1>6. CASE Shake
  <2> DEFINE o == [op EXCEPT !.shaking = TRUE]
  <2>1. o \in CallSet /\ o.path = op.path /\ o.stage = op.stage /\ o.sent = op.sent
    BY <1>1 DEF CallSet
  <2>2. Request(o) /\ op.sent # 1
    BY <1>1, <1>6 DEF Shake
  <2> HIDE DEF o
  <2> QED
    BY <1>1, <2>1, <2>2, RequestKeepsTypes
<1>7. CASE Send
  <2> DEFINE n == IF op.stage = "call" THEN op.sent + 1 ELSE op.sent
             o == [op EXCEPT !.shaking = FALSE, !.sent = n]
  <2>1. Request(o) /\ op.sent = 0
    BY <1>1, <1>7 DEF Send, CallSet
  <2>2. n \in {0, 1} /\ (n = 1 => op.stage = "call")
    BY <2>1
  <2>3. /\ o \in CallSet /\ o.path = op.path /\ o.stage = op.stage /\ o.sent = n
        /\ ~o.shaking
    <3> HIDE DEF n
    <3> QED
      BY <1>1, <2>2 DEF CallSet
  <2> HIDE DEF n, o
  <2> QED
    BY <1>1, <2>1, <2>2, <2>3, RequestKeepsTypes
<1>8. CASE HangUp
  BY <1>3b, <1>8 DEF HangUp, past
<1>9. CASE Timeout
  BY <1>3, <1>9 DEF Timeout, past
<1> QED
  BY <1>4, <1>5, <1>6, <1>7, <1>8, <1>9

\* What the servers do by themselves.
LEMMA ServersKeepTypes ==
  ASSUME TypeInd, NEW s \in Servers, NEW kind \in Replies,
         Answer(s, kind) \/ Ask(s) \/ Dies(s)
  PROVE  TypeInd'
<1>1. ASSUME PsOk(proc'), UNCHANGED <<own, ready, table, poisoned, op, past>>,
             \A t \in Servers : proc[t].state # "none" => proc'[t].state # "none"
      PROVE  TypeInd'
  <2>1. ProcInv'
    BY <1>1, ProcStep DEF TypeInd, ProcInv
  <2> QED
    BY <1>1, <2>1 DEF TypeInd, RestInv, table, past
<1>2. CASE Answer(s, kind)
  <2>1. PICK id \in proc[s].owes :
           proc' = [proc EXCEPT ![s].owes = @ \ {id}, ![s].pipe = Append(@, Frame(kind, id))]
    BY <1>2 DEF Answer
  <2>2. proc[s].state # "none" /\ UNCHANGED <<own, ready, table, poisoned, op, past>>
    BY <1>2 DEF Answer
  <2>3. Frame(kind, id) \in FrameSet /\ proc[s].owes \ {id} \subseteq proc[s].owes
    BY DEF Frame, FrameSet, TypeInd, ProcInv, ProcSet
  <2>4. PsOk(proc')
    BY <2>1, <2>2, <2>3, SendingProc DEF TypeInd
  <2>5. \A t \in Servers : proc'[t].state = proc[t].state
    BY <2>1 DEF TypeInd, ProcInv, ProcSet
  <2> QED
    BY <1>1, <2>2, <2>4, <2>5
<1>3. CASE Ask(s)
  <2>1. PICK id \in {0} \cup proc[s].owes :
           proc' = [proc EXCEPT ![s].pipe = Append(@, Frame("ask", id))]
    BY <1>3 DEF Ask
  <2>2. proc[s].state # "none" /\ UNCHANGED <<own, ready, table, poisoned, op, past>>
    BY <1>3 DEF Ask
  <2>3. proc[s] \in ProcSet /\ Frame("ask", id) \in FrameSet
    <3>1. proc[s] \in ProcSet
      BY DEF TypeInd, ProcInv
    <3>2. id \in Nat
      BY <3>1 DEF ProcSet
    <3> QED
      BY <3>1, <3>2 DEF Frame, FrameSet
  <2>4. proc' = [proc EXCEPT ![s].owes = proc[s].owes, ![s].pipe = Append(@, Frame("ask", id))]
    BY <2>1, <2>3 DEF ProcSet, TypeInd, ProcInv
  <2>5. PsOk(proc')
    BY <2>2, <2>3, <2>4, SendingProc DEF TypeInd
  <2>6. \A t \in Servers : proc'[t].state = proc[t].state
    BY <2>1 DEF TypeInd, ProcInv, ProcSet
  <2> QED
    BY <1>1, <2>2, <2>5, <2>6
<1>4. CASE Dies(s)
  <2>1. /\ proc[s].state = "up" /\ proc' = [proc EXCEPT ![s].state = "dead", ![s].owes = {}]
        /\ op' = Blow(op, 1) \/ op' = op
        /\ UNCHANGED <<own, ready, table, poisoned, past>>
    BY <1>4 DEF Dies
  <2>2. PsOk(proc')
    BY <2>1, DeadProc DEF TypeInd
  <2>3. \A t \in Servers : proc[t].state # "none" => proc'[t].state # "none"
    BY <2>1 DEF TypeInd, ProcInv, ProcSet
  <2>4. ProcInv'
    BY <2>1, <2>2, <2>3, ProcStep DEF TypeInd, ProcInv
  <2>5. CallOk(op')
    BY <2>1, BlowFields DEF TypeInd, CallOk
  <2> QED
    BY <2>1, <2>4, <2>5 DEF TypeInd, RestInv, table, past
<1> QED
  BY <1>2, <1>3, <1>4

\* The session is replaced, and its runtime goes.
LEMMA SessionKeepsTypes ==
  ASSUME TypeInd, Replace \/ Dropped
  PROVE  TypeInd'
<1>1. CASE Replace
  <2>1. PICK n \in 0..NumServers :
           /\ proc' = [s \in Servers |-> IF s <= n THEN NoProc ELSE proc[s]]
           /\ ready' = [s \in Servers |-> s > n /\ ready[s]]
    BY <1>1 DEF Replace
  <2>2. own' = "retired" /\ listed' \in SUBSET Servers
        /\ UNCHANGED <<routes, discovered, poisoned, op, mixed, spoiled>>
    BY <1>1 DEF Replace, past
  <2>3. \A s \in Servers : Ids(proc[s]) \subseteq UsedIds \cup {0}
    BY DEF UsedIds
  <2>4. PsOk(proc')
    BY <2>1, <2>3, NoProcOk, ProcInvBy DEF PsOk, TypeInd
  <2>5. ready' \in [Servers -> BOOLEAN]
    BY <2>1
  <2>6. ASSUME NEW s \in Servers, ready'[s] PROVE proc'[s].state # "none"
    <3>1. s > n /\ ready[s]
      BY <2>1, <2>6
    <3>2. ~(s <= n)
      BY <3>1, BoundsAssumption DEF BoundsAssumption, Servers
    <3>3. proc'[s] = proc[s]
      BY <2>1, <3>2
    <3> QED
      BY <3>1, <3>3 DEF TypeInd, ProcInv
  <2>7. ProcInv'
    BY <2>4, <2>5, <2>6, ProcStep DEF TypeInd
  <2> QED
    BY <2>2, <2>7 DEF TypeInd, RestInv
<1>2. CASE Dropped
  <2>1. proc' = Orphaned("own") /\ own' = "down" /\ UNCHANGED <<ready, table, poisoned, op, past>>
    BY <1>2 DEF Dropped
  <2>2. ProcInv'
    BY <2>1, OrphanedProcs, ProcStep DEF TypeInd, ProcInv
  <2> QED
    BY <2>1, <2>2 DEF TypeInd, RestInv, table, past
<1> QED
  BY <1>1, <1>2

\* The strengthened types hold of every state.
LEMMA TypeIndHolds == Spec => []TypeInd
<1>1. Init => TypeInd
  <2> SUFFICES ASSUME Init PROVE TypeInd
    OBVIOUS
  <2>1. 1 \in Servers
    BY BoundsAssumption DEF BoundsAssumption, Servers
  <2>2. CallOk(op)
    BY <2>1, NewCall, TurnedOk DEF Init
  <2>3. UsedIds = {}
    BY NoProcOk DEF Init, UsedIds
  <2>4. ProcInv
    BY <2>3, NoProcOk, FS_EmptySet DEF Init, ProcInv, ProcOk
  <2> QED
    BY <2>2, <2>4 DEF Init, TypeInd, RestInv
<1>2. TypeInd /\ [Next]_vars => TypeInd'
  <2> SUFFICES ASSUME TypeInd, [Next]_vars PROVE TypeInd'
    OBVIOUS
  <2>1. CASE UNCHANGED vars
    <3>1. UNCHANGED <<own, proc, ready, routes, listed, discovered, poisoned, op, mixed, spoiled>>
      BY <2>1 DEF vars, table, past
    <3> QED
      BY <3>1, SamePs, ProcStep DEF TypeInd, RestInv, ProcInv
  <2>2. CASE Manage
    BY <2>2, ManageKeepsTypes, ReceiveKeepsTypes, CallStepsKeepTypes, BoundsAssumption
    DEF Manage, BoundsAssumption, Servers
  <2>3. CASE Replace \/ Dropped
    BY <2>3, SessionKeepsTypes
  <2>4. ASSUME NEW s \in Servers, Bridge(s) PROVE TypeInd'
    BY <2>4, CallStepsKeepTypes
  <2>4a. CASE Session
    BY <2>4a, CallStepsKeepTypes, BoundsAssumption DEF BoundsAssumption, Servers
  <2>5. ASSUME NEW s \in Servers, (\E kind \in Replies : Answer(s, kind)) \/ Ask(s) \/ Dies(s)
        PROVE  TypeInd'
    <3>1. "bad" \in Replies
      BY DEF Replies
    <3> QED
      BY <2>5, <3>1, ServersKeepTypes
  <2> QED
    BY <2>1, <2>2, <2>3, <2>4, <2>4a, <2>5 DEF Next
<1> QED
  BY <1>1, <1>2, PTL DEF Spec

\* The manager's tables and calls keep their types, a server is only taken for
\* initialized while it has a process, and every process has a runtime.
THEOREM TypeCorrect == Spec => []TypeOK
<1>1. TypeInd => TypeOK
  BY DEF TypeInd, ProcInv, CallOk, RestInv, TypeOK, ProcSet, CallSet, NoProc
<1> QED
  BY <1>1, TypeIndHolds, PTL

\* However often the server is restarted for a call, tools/call is sent once.
THEOREM ToolCalledOnce == Spec => []CalledOnce
<1>1. TypeInd => CalledOnce
  BY DEF TypeInd, CallOk, CallSet, CalledOnce
<1> QED
  BY <1>1, TypeIndHolds, PTL

-----------------------------------------------------------------------------
(* No answer outlives its call.                                            *)

\* A process that owes no answer and has none under way.
Clear(p) == p.owes = {} /\ \A i \in DOMAIN p.pipe : p.pipe[i].kind = "ask"

LEMMA ClearIsOk ==
  ASSUME NEW p
  PROVE  /\ PipeOk(p, {}) <=> Clear(p)
         /\ Clear(p) => \A current : PipeOk(p, current)
BY DEF PipeOk, Clear

LEMMA FreshIsClear ==
  ASSUME NEW home
  PROVE  /\ NewProc(home).owes = {} /\ NewProc(home).pipe = <<>>
         /\ Clear(NoProc) /\ Clear(NewProc(home))
<1>1. NoProc.owes = {} /\ NoProc.pipe = <<>>
  BY DEF NoProc
<1>2. NewProc(home).owes = {} /\ NewProc(home).pipe = <<>>
  BY DEF NewProc, NoProc
<1> QED
  BY <1>1, <1>2 DEF Clear

\* The answer to the current request is the only one, so with it read nothing is
\* left.
LEMMA ReadOk ==
  ASSUME NEW p \in ProcSet, p.pipe # <<>>, NEW current, PipeOk(p, current)
  PROVE  LET q == [p EXCEPT !.pipe = Tail(@)] IN
         /\ PipeOk(q, current)
         /\ Head(p.pipe).kind # "ask" => Head(p.pipe).id \in current /\ Clear(q)
<1> DEFINE q == [p EXCEPT !.pipe = Tail(@)]
<1>1. p.pipe \in Seq(FrameSet) /\ q.owes = p.owes /\ q.pipe = Tail(p.pipe)
  BY DEF ProcSet
<1>2. /\ Head(p.pipe) = p.pipe[1] /\ 1 \in DOMAIN p.pipe
      /\ \A i \in DOMAIN q.pipe :
            /\ i \in Int /\ i + 1 # 1 /\ i + 1 \in DOMAIN p.pipe
            /\ q.pipe[i] = p.pipe[i + 1]
  BY <1>1
<1>3. PipeOk(q, current)
  <2>1. \A i \in DOMAIN q.pipe : q.pipe[i].kind # "ask" => q.pipe[i].id \in current /\ q.owes = {}
    BY <1>1, <1>2 DEF PipeOk
  <2>2. \A i, j \in DOMAIN q.pipe :
           q.pipe[i].kind # "ask" /\ q.pipe[j].kind # "ask" => i = j
    <3>1. \A i, j \in DOMAIN q.pipe :
             q.pipe[i].kind # "ask" /\ q.pipe[j].kind # "ask" => i + 1 = j + 1
      BY <1>2 DEF PipeOk
    <3> QED
      BY <1>2, <3>1
  <2> HIDE DEF q
  <2> QED
    BY <1>1, <2>1, <2>2 DEF PipeOk
<1>4. ASSUME Head(p.pipe).kind # "ask" PROVE Head(p.pipe).id \in current /\ Clear(q)
  <2>1. p.pipe[1].id \in current /\ p.owes = {}
    BY <1>2, <1>4 DEF PipeOk
  <2>2. \A i \in DOMAIN q.pipe : q.pipe[i].kind = "ask"
    BY <1>2, <1>4 DEF PipeOk
  <2> HIDE DEF q
  <2> QED
    BY <1>1, <1>2, <2>1, <2>2 DEF Clear
<1> QED
  BY <1>3, <1>4

\* What a server writes: an answer to what it owes, or a request of its own.
LEMMA WrittenOk ==
  ASSUME NEW p \in ProcSet, NEW f \in FrameSet, NEW current, PipeOk(p, current),
         \A x, y \in current : x = y, NEW q, q.pipe = Append(p.pipe, f),
         \/ f.kind = "ask" /\ q.owes = p.owes
         \/ f.id \in p.owes /\ q.owes = p.owes \ {f.id}
  PROVE  PipeOk(q, current)
<1>1. p.pipe \in Seq(FrameSet)
  BY DEF ProcSet
<1>2. \A i \in DOMAIN q.pipe :
         \/ i \in DOMAIN p.pipe /\ q.pipe[i] = p.pipe[i]
         \/ i = Len(p.pipe) + 1 /\ q.pipe[i] = f
  BY <1>1
<1>3. CASE f.kind = "ask" /\ q.owes = p.owes
  <2>1. \A i \in DOMAIN q.pipe :
           q.pipe[i].kind # "ask" => i \in DOMAIN p.pipe /\ q.pipe[i] = p.pipe[i]
    BY <1>2, <1>3
  <2> QED
    BY <1>1, <1>3, <2>1 DEF PipeOk
<1>4. CASE f.id \in p.owes /\ q.owes = p.owes \ {f.id}
  <2>1. q.owes = {} /\ f.id \in current
    BY <1>4 DEF PipeOk
  <2>2. \A i \in DOMAIN p.pipe : p.pipe[i].kind = "ask"
    BY <1>4 DEF PipeOk
  <2>3. \A i \in DOMAIN q.pipe :
           q.pipe[i].kind # "ask" => i = Len(p.pipe) + 1 /\ q.pipe[i] = f
    BY <1>2, <2>2
  <2> QED
    BY <1>1, <2>1, <2>3 DEF PipeOk
<1> QED
  BY <1>3, <1>4

\* Which pipes the invariant shows to be clear.
LEMMA ClearPipes ==
  ASSUME PipesInv, ~mixed
  PROVE  \A s \in Servers : op.phase # "wait" \/ op.at # s => Clear(proc[s])
BY ClearIsOk DEF PipesInv, Current

\* While no call waits, clear pipes are what the invariant asks for.
LEMMA ClearNext ==
  ASSUME op'.phase # "wait", \A s \in Servers : Clear(proc'[s])
  PROVE  PipesInv'
BY ClearIsOk DEF PipesInv, Current

\* An error leaves no pipe with an answer behind: either it resets the server, or
\* there was none.
LEMMA FailsLeaveClear ==
  ASSUME TypeInd, NEW o \in CallSet, o.path = op.path, o.stage = op.stage, o.path # "none",
         o.sent = 1 => o.stage = "call" /\ ~o.shaking,
         NEW e, NEW ps, PsOk(ps), \A t \in Servers : t # o.at => Clear(ps[t]),
         e \in {"transport", "timeout", "invalid"} \/ Clear(ps[o.at]),
         Fails(o, e, ps)
  PROVE  PipesInv'
<1>1. o.path = "start" => o.stage = "discover"
  BY DEF TypeInd, CallOk
<1>2. op'.phase # "wait"
  BY <1>1, FailsKeepsCall DEF TypeInd, RestInv
<1>3. \A t \in Servers : Clear(proc'[t])
  <2>1. CASE Reset(ps, o.at)
    BY <2>1, FreshIsClear DEF Reset, PsOk
  <2>2. CASE proc' = ps /\ ~Resets(e)
    <3>1. Clear(ps[o.at])
      BY <2>2 DEF Resets, Retryable
    <3> QED
      BY <2>2, <3>1
  <2> QED
    BY <1>1, <2>1, <2>2, FailsCases
<1> QED
  BY <1>2, <1>3, ClearNext

\* A request is owed by the server it is sent to, and by no other.
LEMMA RequestKeepsPipes ==
  ASSUME TypeInd, \A t \in Servers : Clear(proc[t]), NEW o \in CallSet, o.at = op.at,
         o.path = op.path, o.stage = op.stage, o.path # "none",
         o.sent = 1 => o.stage = "call" /\ ~o.shaking, Request(o)
  PROVE  PipesInv'
<1>1. CASE Writable(o.at)
  <2>1. /\ proc' = [proc EXCEPT ![o.at].owes = @ \cup {FreshId}]
        /\ op' = [o EXCEPT !.id = FreshId, !.phase = "wait"]
    BY <1>1 DEF Request
  <2>2. op'.phase = "wait" /\ op'.at = o.at /\ op'.id = FreshId
    BY <2>1 DEF CallSet
  <2>3. ASSUME NEW t \in Servers PROVE PipeOk(proc'[t], Current(t)')
    <3>1. CASE t = o.at
      <4>1. proc'[t].owes = {FreshId} /\ proc'[t].pipe = proc[t].pipe
        BY <2>1, <3>1 DEF TypeInd, ProcInv, ProcSet, Clear
      <4>2. Current(t)' = {FreshId}
        BY <2>2, <3>1 DEF Current
      <4> QED
        BY <4>1, <4>2 DEF PipeOk, Clear
    <3>2. CASE t # o.at
      <4>1. proc'[t] = proc[t]
        BY <2>1, <3>2 DEF TypeInd, ProcInv
      <4> QED
        BY <4>1, ClearIsOk
    <3> QED
      BY <3>1, <3>2
  <2> QED
    BY <2>3 DEF PipesInv
<1>2. CASE ~Writable(o.at)
  <2>1. Fails(Strand(o), "transport", proc)
    BY <1>2 DEF Request
  <2>2. Strand(o) \in CallSet
        /\ \A field \in {"path", "stage", "sent", "shaking", "at"} :
              Strand(o)[field] = o[field]
    BY StrandFields
  <2> QED
    BY <2>1, <2>2, SamePs, FailsLeaveClear DEF TypeInd
<1> QED
  BY <1>1, <1>2

\* What is read clears the pipe, unless it was a request of the server's own.
LEMMA ReceiveKeepsPipes ==
  ASSUME TypeInd, PipesInv, ~mixed, ~mixed', Receive
  PROVE  PipesInv'
<1>1. /\ op.phase = "wait" /\ proc[op.at].pipe # <<>> /\ op \in CallSet /\ op.at \in Servers
      /\ op.path # "none" /\ (op.path = "start" => op.stage = "discover")
      /\ op.sent = 1 => op.stage = "call" /\ ~op.shaking
  BY ReceiveCases DEF TypeInd, CallOk, CallSet
<1>2. PsOk(Remains) /\ Foremost \in FrameSet
  BY <1>1, RemainsOk DEF TypeInd
<1>3. /\ \A t \in Servers : t # op.at => Clear(Remains[t])
      /\ Foremost.kind # "ask" => Foremost.id = op.id /\ Clear(Remains[op.at])
  <2>1. \A t \in Servers : t # op.at => Remains[t] = proc[t]
    BY DEF Remains, TypeInd, ProcInv
  <2>2. Remains[op.at] = [proc[op.at] EXCEPT !.pipe = Tail(@)] /\ proc[op.at] \in ProcSet
    BY <1>1 DEF Remains, TypeInd, ProcInv
  <2>3. PipeOk(proc[op.at], {op.id})
    BY <1>1 DEF PipesInv, Current
  <2> QED
    BY <1>1, <2>1, <2>2, <2>3, ClearPipes, ReadOk DEF Foremost
<1>4. ASSUME NEW cause, NEW e, Fails(Hard(op, cause), e, Remains),
             e = "invalid" \/ Clear(Remains[op.at])
      PROVE  PipesInv'
  <2>1. Hard(op, cause) \in CallSet
        /\ \A field \in {"path", "stage", "sent", "shaking", "at"} : Hard(op, cause)[field] = op[field]
    <3>1. op \in CallSet
      BY <1>1
    <3>2. /\ Hard(op, cause) \in CallSet
          /\ Hard(op, cause).path = op.path /\ Hard(op, cause).stage = op.stage
          /\ Hard(op, cause).sent = op.sent /\ Hard(op, cause).shaking = op.shaking
          /\ Hard(op, cause).at = op.at
      BY <3>1, HardFields
    <3> QED
      BY <3>2
  <2> QED
    BY <1>1, <1>2, <1>3, <1>4, <2>1, FailsLeaveClear
<1>5. ASSUME proc' = Remains, op'.phase # "wait", Foremost.kind # "ask" PROVE PipesInv'
  BY <1>1, <1>3, <1>5, ClearNext
<1>6. CASE op.shaking /\ Shaken(Foremost.kind, Remains)
  <2>1. CASE Foremost.kind = "result"
    <3>1. proc' = Remains /\ op' = [op EXCEPT !.id = 0, !.phase = "prepare"]
      BY <1>6, <2>1 DEF Shaken
    <3>2. op'.phase = "prepare"
      BY <1>1, <3>1 DEF CallSet
    <3> QED
      BY <1>5, <2>1, <3>1, <3>2
  <2>2. CASE Foremost.kind # "result"
    <3>1. Fails(Hard(op, TRUE), IF Foremost.kind = "error" THEN "rpc" ELSE "invalid", Remains)
      BY <1>6, <2>2 DEF Shaken
    <3> QED
      BY <1>3, <1>4, <3>1
  <2> QED
    BY <2>1, <2>2
<1>7. CASE /\ ~op.shaking /\ op.stage = "call" /\ Called(Foremost.kind, Remains)
           /\ Foremost.kind # "ask"
  <2>1. op' = Over(Hard(op, Foremost.kind # "result"), Foremost.kind = "result") /\ proc' = Remains
    BY <1>7 DEF Called
  <2>2. op'.phase = "end"
    <3>1. Hard(op, Foremost.kind # "result") \in CallSet
      BY <1>1, HardFields
    <3> QED
      BY <2>1, <3>1, OverTyped
  <2> QED
    BY <1>5, <1>7, <2>1, <2>2
<1>8. CASE ~op.shaking /\ op.stage # "call" /\ Served(Foremost.kind, Remains)
  <2>1. CASE /\ op' = [op EXCEPT !.id = 0, !.pages = @ + 1, !.phase = "prepare"]
             /\ proc' = Remains /\ Foremost.kind = "more"
    <3>1. op'.phase = "prepare"
      BY <1>1, <2>1 DEF CallSet
    <3> QED
      BY <1>5, <2>1, <3>1
  <2>2. CASE /\ proc' = Remains /\ Foremost.kind = "result"
             /\ NextServer(op)
    <3>1. op'.phase \in {"check", "end"}
      <4>1. op.sent # 1
        BY <1>1, <1>8
      <4> QED
        BY <1>1, <2>2, <4>1, NextServerOk DEF TypeInd, RestInv
    <3> QED
      BY <1>5, <2>2, <3>1
  <2>3. CASE /\ Foremost.kind \notin {"more", "result"}
             /\ Fails(Hard(op, TRUE), IF Foremost.kind = "error" THEN "rpc" ELSE "invalid", Remains)
    BY <1>3, <1>4, <2>3
  <2> QED
    BY <1>8, <2>1, <2>2, <2>3 DEF Served
<1>9. CASE Fails(Hard(op, Foremost.kind \in {"bad", "ask"}), "invalid", Remains)
  BY <1>4, <1>9
<1> QED
  BY <1>6, <1>7, <1>8, <1>9, ReceiveCases

\* The runtime a process was started on may go, its pipe is as it was.
LEMMA OrphanedPipes ==
  ASSUME ProcInv, NEW home, NEW s \in Servers
  PROVE  Orphaned(home)[s].owes = proc[s].owes /\ Orphaned(home)[s].pipe = proc[s].pipe
<1>1. proc[s] \in ProcSet
  BY DEF ProcInv
<1>2. ASSUME NEW p \in ProcSet
      PROVE  LET q == [p EXCEPT !.home = "gone"] IN q.owes = p.owes /\ q.pipe = p.pipe
  BY DEF ProcSet
<1> QED
  BY <1>1, <1>2 DEF Orphaned

\* The manager's other steps within a call leave no answer to a request but the
\* one they wait for.
LEMMA ManageKeepsPipes ==
  ASSUME TypeInd, PipesInv, ~mixed, Check \/ Spawn \/ Shake \/ Send \/ HangUp \/ Timeout
  PROVE  PipesInv'
<1>1. /\ op \in CallSet /\ op.at \in Servers /\ op.path # "none"
      /\ op.sent = 1 => op.stage = "call" /\ ~op.shaking /\ op.phase \in {"wait", "end"}
  BY DEF TypeInd, CallOk, CallSet, Check, Spawn, Shake, Send, HangUp, Timeout
<1>2. PsOk(proc) /\ \A t \in Servers : t # op.at => Clear(proc[t])
  BY SamePs, ClearPipes DEF TypeInd
<1>3. op.phase # "wait" => \A t \in Servers : Clear(proc[t])
  BY ClearPipes
<1>4. ASSUME NEW o, o = Blow(op, 1) \/ o = Strand(op), NEW e \in {"transport", "timeout"},
             Fails(o, e, proc)
      PROVE  PipesInv'
  <2>1. /\ o \in CallSet /\ o.path = op.path /\ o.stage = op.stage
        /\ o.sent = op.sent /\ o.shaking = op.shaking /\ o.at = op.at
    <3>1. CASE o = Blow(op, 1)
      BY <1>1, <3>1, BlowFields
    <3>2. CASE o = Strand(op)
      BY <1>1, <3>2, StrandFields
    <3> QED
      BY <1>4, <3>1, <3>2
  <2> QED
    BY <1>1, <1>2, <1>4, <2>1, FailsLeaveClear
<1>5. CASE Check
  <2>1. op.phase = "check" /\ op' = [op EXCEPT !.phase = "prepare"]
        /\ (Reset(proc, op.at) \/ proc' = proc)
    BY <1>5 DEF Check
  <2>2. op'.phase = "prepare"
    BY <1>1, <2>1 DEF CallSet
  <2>3. \A t \in Servers : Clear(proc'[t])
    BY <1>2, <1>3, <2>1, FreshIsClear DEF Reset, PsOk
  <2> QED
    BY <2>2, <2>3, ClearNext
<1>6. CASE Spawn
  <2>1. op.phase = "prepare"
    BY <1>6 DEF Spawn
  <2>2. CASE op.at \in broken
    <3>1. Fails(Hard(op, TRUE), "io", proc)
      BY <1>6, <2>2 DEF Spawn
    <3>2. /\ Hard(op, TRUE) \in CallSet
          /\ Hard(op, TRUE).path = op.path /\ Hard(op, TRUE).stage = op.stage
          /\ Hard(op, TRUE).sent = op.sent /\ Hard(op, TRUE).shaking = op.shaking
          /\ Hard(op, TRUE).at = op.at
      BY <1>1, HardFields
    <3> QED
      BY <1>1, <1>2, <1>3, <2>1, <3>1, <3>2, FailsLeaveClear
  <2>3. CASE op.at \notin broken
    <3>1. PICK home \in {"call", "own"} : proc' = [proc EXCEPT ![op.at] = NewProc(home)]
      BY <1>6, <2>3 DEF Spawn
    <3>2. op' = op
      BY <1>6, <2>3 DEF Spawn
    <3>3. \A t \in Servers : Clear(proc'[t])
      BY <1>2, <1>3, <2>1, <3>1, FreshIsClear DEF PsOk
    <3> QED
      BY <2>1, <3>2, <3>3, ClearNext
  <2> QED
    BY <2>2, <2>3
<1>7. CASE Shake
  <2> DEFINE o == [op EXCEPT !.shaking = TRUE]
  <2>1. o \in CallSet /\ o.path = op.path /\ o.stage = op.stage /\ o.sent = op.sent
        /\ o.at = op.at
    BY <1>1 DEF CallSet
  <2>2. Request(o) /\ op.phase = "prepare"
    BY <1>7 DEF Shake
  <2> HIDE DEF o
  <2> QED
    BY <1>1, <1>3, <2>1, <2>2, RequestKeepsPipes
<1>8. CASE Send
  <2> DEFINE n == IF op.stage = "call" THEN op.sent + 1 ELSE op.sent
             o == [op EXCEPT !.shaking = FALSE, !.sent = n]
  <2>1. Request(o) /\ op.sent = 0 /\ op.phase = "prepare"
    BY <1>1, <1>8 DEF Send, CallSet
  <2>2. n \in {0, 1} /\ (n = 1 => op.stage = "call")
    BY <2>1
  <2>3. /\ o \in CallSet /\ o.path = op.path /\ o.stage = op.stage /\ o.sent = n
        /\ ~o.shaking /\ o.at = op.at
    <3> HIDE DEF n
    <3> QED
      BY <1>1, <2>2 DEF CallSet
  <2> HIDE DEF n, o
  <2> QED
    BY <1>1, <1>3, <2>1, <2>2, <2>3, RequestKeepsPipes
<1>9. CASE HangUp \/ Timeout
  BY <1>4, <1>9 DEF HangUp, Timeout
<1> QED
  BY <1>5, <1>6, <1>7, <1>8, <1>9

\* A call starts and ends with clear pipes.
LEMMA CallStepsKeepPipes ==
  ASSUME TypeInd, PipesInv, ~mixed, NEW s \in Servers, Bridge(s) \/ Session \/ Return
  PROVE  PipesInv'
<1>1. \A t \in Servers : Clear(proc[t])
  BY ClearPipes DEF Bridge, Session, Return, TypeInd, CallOk
<1>2. 1 \in Servers
  BY BoundsAssumption DEF BoundsAssumption, Servers
<1>3. CASE Bridge(s)
  <2> DEFINE o == [NoCall EXCEPT !.path = "bridge", !.target = s]
  <2>1. o \in CallSet /\ o.path = "bridge" /\ o.sent # 1
    BY NewCall
  <2>2. /\ op' = Turned(o, "call", s) \/ op' = Turned(o, "discover", 1) \/ op' = Over(o, FALSE)
        /\ proc' = proc
    BY <1>3 DEF Bridge
  <2>3. op'.phase # "wait"
    <3> HIDE DEF o
    <3> QED
      BY <1>2, <2>1, <2>2, TurnedOk, OverTyped
  <2> QED
    BY <1>1, <2>2, <2>3, ClearNext
<1>4. CASE Session
  <2>1. UNCHANGED <<proc, op, mixed>>
    BY <1>4 DEF Session, past
  <2> QED
    BY <2>1 DEF PipesInv, Current
<1>5. CASE Return
  <2>1. /\ op' = NoCall
        /\ proc' = Orphaned("call") \/ proc' = proc
    BY <1>5 DEF Return
  <2>2. op'.phase = "none"
    BY <2>1 DEF NoCall
  <2>3. \A t \in Servers : proc'[t].owes = proc[t].owes /\ proc'[t].pipe = proc[t].pipe
    BY <2>1, OrphanedPipes DEF TypeInd
  <2>4. \A t \in Servers : Clear(proc'[t])
    BY <1>1, <2>3 DEF Clear
  <2> QED
    BY <2>2, <2>4, ClearNext
<1> QED
  BY <1>3, <1>4, <1>5

\* What the servers and the session do by themselves.
LEMMA OthersKeepPipes ==
  ASSUME TypeInd, PipesInv, ~mixed,
         \/ \E s \in Servers : (\E kind \in Replies : Answer(s, kind)) \/ Ask(s) \/ Dies(s)
         \/ Replace \/ Dropped
  PROVE  PipesInv'
<1>1. \A t \in Servers : proc[t] \in ProcSet /\ PipeOk(proc[t], Current(t))
  BY DEF TypeInd, ProcInv, PipesInv
<1>2. ASSUME op' = op \/ (op'.phase = op.phase /\ op'.at = op.at /\ op'.id = op.id),
             \A t \in Servers : PipeOk(proc'[t], Current(t))
      PROVE  PipesInv'
  <2>1. \A t \in Servers : Current(t)' = Current(t)
    BY <1>2 DEF Current
  <2> QED
    BY <1>2, <2>1 DEF PipesInv
<1>3. ASSUME NEW s \in Servers, NEW f \in FrameSet, NEW owes, op' = op,
             proc' = [proc EXCEPT ![s].owes = owes, ![s].pipe = Append(@, f)],
             \/ f.kind = "ask" /\ owes = proc[s].owes
             \/ f.id \in proc[s].owes /\ owes = proc[s].owes \ {f.id}
      PROVE  PipesInv'
  <2>1. \A t \in Servers : t # s => proc'[t] = proc[t]
    BY <1>3 DEF TypeInd, ProcInv
  <2>2. proc'[s] = [proc[s] EXCEPT !.owes = owes, !.pipe = Append(@, f)]
    BY <1>3 DEF TypeInd, ProcInv
  <2>3. \A x, y \in Current(s) : x = y
    BY DEF Current
  <2>4. PipeOk(proc'[s], Current(s))
    <3>1. proc[s] \in ProcSet /\ PipeOk(proc[s], Current(s))
      BY <1>1
    <3>2. proc'[s].pipe = Append(proc[s].pipe, f) /\ proc'[s].owes = owes
      BY <2>2, <3>1 DEF ProcSet
    <3> QED
      BY <1>3, <2>3, <3>1, <3>2, WrittenOk
  <2> QED
    BY <1>1, <1>2, <1>3, <2>1, <2>4
<1>4. ASSUME NEW s \in Servers, NEW kind \in Replies, Answer(s, kind) PROVE PipesInv'
  <2>1. PICK id \in proc[s].owes :
           proc' = [proc EXCEPT ![s].owes = @ \ {id}, ![s].pipe = Append(@, Frame(kind, id))]
    BY <1>4 DEF Answer
  <2>2. proc' = [proc EXCEPT ![s].owes = proc[s].owes \ {id}, ![s].pipe = Append(@, Frame(kind, id))]
    BY <2>1 DEF TypeInd, ProcInv
  <2>3. Frame(kind, id) \in FrameSet /\ Frame(kind, id).id = id /\ op' = op
    BY <1>1, <1>4 DEF Frame, FrameSet, ProcSet, Answer
  <2> QED
    BY <1>3, <2>2, <2>3
<1>5. ASSUME NEW s \in Servers, Ask(s) PROVE PipesInv'
  <2>1. PICK id \in {0} \cup proc[s].owes :
           proc' = [proc EXCEPT ![s].pipe = Append(@, Frame("ask", id))]
    BY <1>5 DEF Ask
  <2>2. proc' = [proc EXCEPT ![s].owes = proc[s].owes, ![s].pipe = Append(@, Frame("ask", id))]
    BY <1>1, <2>1 DEF ProcSet, TypeInd, ProcInv
  <2>3. Frame("ask", id) \in FrameSet /\ Frame("ask", id).kind = "ask" /\ op' = op
    <3>1. id \in Nat
      BY <1>1 DEF ProcSet
    <3> QED
      BY <1>5, <3>1 DEF Frame, FrameSet, Ask
  <2> QED
    BY <1>3, <2>2, <2>3
<1>6. ASSUME NEW s \in Servers, Dies(s) PROVE PipesInv'
  <2>1. /\ proc' = [proc EXCEPT ![s].state = "dead", ![s].owes = {}]
        /\ op' = Blow(op, 1) \/ op' = op
    BY <1>6 DEF Dies
  <2>2. op'.phase = op.phase /\ op'.at = op.at /\ op'.id = op.id
    <3>1. /\ Blow(op, 1).phase = op.phase /\ Blow(op, 1).at = op.at
          /\ Blow(op, 1).id = op.id
      BY BlowFields DEF TypeInd, CallOk
    <3> QED
      BY <2>1, <3>1
  <2>3. \A t \in Servers : t # s => proc'[t] = proc[t]
    BY <2>1 DEF TypeInd, ProcInv
  <2>4. proc'[s].owes = {} /\ proc'[s].pipe = proc[s].pipe
    BY <1>1, <2>1 DEF TypeInd, ProcInv, ProcSet
  <2>5. PipeOk(proc'[s], Current(s))
    BY <1>1, <2>4 DEF PipeOk
  <2> QED
    BY <1>1, <1>2, <2>2, <2>3, <2>5
<1>7. CASE Replace
  <2>1. PICK n \in 0..NumServers : proc' = [s \in Servers |-> IF s <= n THEN NoProc ELSE proc[s]]
    BY <1>7 DEF Replace
  <2>2. op' = op /\ \A t \in Servers : proc'[t] = NoProc \/ proc'[t] = proc[t]
    BY <1>7, <2>1 DEF Replace
  <2>3. \A t \in Servers : PipeOk(proc'[t], Current(t))
    BY <1>1, <2>2, FreshIsClear, ClearIsOk
  <2> QED
    BY <1>2, <2>2, <2>3
<1>8. CASE Dropped
  <2>1. op' = op /\ proc' = Orphaned("own")
    BY <1>8 DEF Dropped
  <2>2. \A t \in Servers : proc'[t].owes = proc[t].owes /\ proc'[t].pipe = proc[t].pipe
    BY <2>1, OrphanedPipes DEF TypeInd
  <2>3. \A t \in Servers : PipeOk(proc'[t], Current(t))
    BY <1>1, <2>2 DEF PipeOk
  <2> QED
    BY <1>2, <2>1, <2>3
<1> QED
  BY <1>4, <1>5, <1>6, <1>7, <1>8

\* A server's own request that has passed for an answer is not forgotten.
LEMMA MixedStays == ASSUME TypeInd, [Next]_vars PROVE mixed => mixed'
<1>1. CASE Receive
  BY <1>1, ReceiveCases
<1>2. CASE ~Receive
  BY <1>2 DEF Next, Manage, Check, Spawn, Shake, Send, Request, HangUp, Timeout, Return,
              Bridge, Session, Answer, Ask, Dies, Replace, Dropped, vars, past
<1> QED
  BY <1>1, <1>2

LEMMA PipesHold == Spec => []PipesInv
<1>1. Init => PipesInv
  <2> SUFFICES ASSUME Init PROVE PipesInv
    OBVIOUS
  <2>1. \A s \in Servers : Clear(proc[s])
    BY FreshIsClear DEF Init
  <2> QED
    BY <2>1, ClearIsOk DEF PipesInv
<1>2. TypeInd /\ PipesInv /\ [Next]_vars => PipesInv'
  <2> SUFFICES ASSUME TypeInd, PipesInv, [Next]_vars, ~mixed' PROVE PipesInv'
    BY DEF PipesInv
  <2>1. ~mixed
    BY MixedStays
  <2>2. CASE UNCHANGED vars
    <3>1. UNCHANGED <<proc, op, mixed>>
      BY <2>2 DEF vars, past
    <3> QED
      BY <3>1 DEF PipesInv, Current
  <2>3. CASE Manage
    <3>1. 1 \in Servers
      BY BoundsAssumption DEF BoundsAssumption, Servers
    <3> QED
      BY <2>1, <2>3, <3>1, ManageKeepsPipes, ReceiveKeepsPipes, CallStepsKeepPipes DEF Manage
  <2>4. ASSUME NEW s \in Servers, Bridge(s) PROVE PipesInv'
    BY <2>1, <2>4, CallStepsKeepPipes
  <2>4a. CASE Session
    BY <2>1, <2>4a, CallStepsKeepPipes, BoundsAssumption DEF BoundsAssumption, Servers
  <2>5. CASE \/ \E s \in Servers : (\E kind \in Replies : Answer(s, kind)) \/ Ask(s) \/ Dies(s)
             \/ Replace \/ Dropped
    BY <2>1, <2>5, OthersKeepPipes
  <2> QED
    BY <2>2, <2>3, <2>4, <2>4a, <2>5 DEF Next
<1> QED
  BY <1>1, <1>2, TypeIndHolds, PTL DEF Spec

\* Unless a server's own request has passed for an answer, nothing is owed or
\* under way but the answer to the request the present call waits for.
THEOREM AnswersAreCurrent == Spec => []OnlyCurrentAnswers
<1>1. PipesInv => OnlyCurrentAnswers
  <2> SUFFICES ASSUME PipesInv, ~mixed, NEW s \in Servers
               PROVE  proc[s].owes \cup {f.id : f \in Answers(s)} \subseteq Current(s)
    BY DEF OnlyCurrentAnswers, Current
  <2>1. PipeOk(proc[s], Current(s))
    BY DEF PipesInv
  <2>2. \A f \in Answers(s) : f.id \in Current(s)
    BY <2>1 DEF Answers, ToSet, PipeOk
  <2> QED
    BY <2>1, <2>2 DEF PipeOk
<1> QED
  BY <1>1, PipesHold, PTL

-----------------------------------------------------------------------------
(* Which runtimes the processes are on, and what a call has lost.          *)

HomeInv == StageInv /\ LostInv /\ SpoiledInv

Busy == {"check", "prepare", "wait"}

\* A step at one server, which keeps its process's runtime or kills the process.
LEMMA HomeStep ==
  ASSUME HomeInv, own' = own, discovered' = discovered, spoiled' = spoiled,
         op'.path = op.path, op'.stage = op.stage, op'.at = op.at, op.at \in Servers,
         spoiled \in SUBSET Servers, op'.phase \in Busy => op.phase \in Busy,
         \A t \in Servers : proc'[t].home = proc[t].home \/ proc'[t].home = "none",
         op'.lost => \/ op.lost
                     \/ op.path = "bridge" /\ op.at \notin spoiled /\ proc'[op.at].home = "none"
  PROVE  HomeInv'
<1>1. StageInv'
  BY DEF HomeInv, StageInv, Busy
<1>2. LostInv'
  BY DEF HomeInv, LostInv
<1>3. SpoiledInv'
  BY DEF HomeInv, SpoiledInv
<1> QED
  BY <1>1, <1>2, <1>3 DEF HomeInv

\* A call turns to a server, or ends before it has.
LEMMA HomeTurned ==
  ASSUME HomeInv, own' = own, spoiled' = spoiled, spoiled \in SUBSET Servers,
         ~op'.lost, op'.path = "start" => op.path = "start",
         \A t \in Servers : proc'[t].home = proc[t].home \/ proc'[t].home = "none",
         \A t \in spoiled : proc[t].home = "none",
         \/ op'.stage = "discover" /\ ~discovered /\ discovered' = discovered
         \/ op'.stage = "call" /\ discovered' = TRUE /\ op'.path = "bridge"
         \/ op'.stage = "none" /\ op'.phase = "end" /\ discovered' = discovered
  PROVE  HomeInv'
<1>1. StageInv'
  BY DEF HomeInv, StageInv
<1>2. LostInv'
  BY DEF HomeInv, LostInv
<1>3. SpoiledInv'
  BY DEF HomeInv, SpoiledInv
<1> QED
  BY <1>1, <1>2, <1>3 DEF HomeInv

\* What a discovery and a call not yet begun have in common: no spoiled server has a
\* process.
LEMMA SpoiledHaveNone ==
  ASSUME HomeInv, ~discovered \/ op.stage # "call" \/ op.path # "bridge"
  PROVE  \A t \in spoiled : proc[t].home = "none"
BY DEF HomeInv, SpoiledInv, StageInv

\* A pipe is only lost to a call of the bridge, the first time, and not to one whose
\* predecessor at the server lost it.
LEMMA GoneIsNew ==
  ASSUME TypeInd, HomeInv, op.phase \in Busy, proc[op.at].home = "gone"
  PROVE  op.path = "bridge" /\ op.at \notin spoiled /\ ~op.lost
<1>1. op.path \in {"start", "bridge"} /\ op.at \in Servers
  BY DEF TypeInd, CallOk, CallSet, Busy
<1> QED
  BY <1>1 DEF HomeInv, LostInv, SpoiledInv

LEMMA FailsHome ==
  ASSUME TypeInd, HomeInv, op.phase \in Busy, NEW o \in CallSet, o.path = op.path,
         o.stage = op.stage, o.at = op.at, NEW e, NEW ps, PsOk(ps),
         \A t \in Servers : ps[t].home = proc[t].home, Fails(o, e, ps),
         o.lost => op.lost \/ (proc[op.at].home = "gone" /\ Retryable(e)),
         own' = own, spoiled' = spoiled
  PROVE  HomeInv'
<1>1. /\ op.at \in Servers /\ o.path \in {"start", "bridge"}
      /\ o.path = "start" => o.stage = "discover"
      /\ spoiled \in SUBSET Servers
  BY DEF TypeInd, CallOk, CallSet, RestInv, Busy
<1>2. /\ Reset(ps, op.at) \/ (proc' = ps /\ ~Resets(e))
      /\ discovered' = discovered
  BY <1>1, FailsCases
<1>3. \A t \in Servers : proc'[t].home = proc[t].home \/ proc'[t].home = "none"
  BY <1>2 DEF Reset, PsOk, NoProc
<1>4. o.lost => \/ op.lost
                \/ op.path = "bridge" /\ op.at \notin spoiled /\ proc'[op.at].home = "none"
  <2> SUFFICES ASSUME o.lost, ~op.lost
               PROVE  op.path = "bridge" /\ op.at \notin spoiled /\ proc'[op.at].home = "none"
    OBVIOUS
  <2>1. proc[op.at].home = "gone" /\ Resets(e)
    BY DEF Resets
  <2>2. proc'[op.at].home = "none"
    BY <1>1, <1>2, <2>1 DEF Reset, PsOk, NoProc
  <2> QED
    BY <2>1, <2>2, GoneIsNew
<1>5. ASSUME op'.path = o.path, op'.stage = o.stage, op'.at = o.at, op'.lost = o.lost
      PROVE  HomeInv'
  BY <1>1, <1>2, <1>3, <1>4, <1>5, HomeStep
<1>6. CASE op' = [o EXCEPT !.inits = 1, !.id = 0, !.phase = "prepare"]
  <2>1. op'.path = o.path /\ op'.stage = o.stage /\ op'.at = o.at /\ op'.lost = o.lost
    BY <1>6 DEF CallSet
  <2> QED
    BY <1>5, <2>1
<1>7. CASE op' = [o EXCEPT !.tries = 1, !.inits = 0, !.pages = 0, !.id = 0, !.phase = "check"]
  <2>1. op'.path = o.path /\ op'.stage = o.stage /\ op'.at = o.at /\ op'.lost = o.lost
    BY <1>7 DEF CallSet
  <2> QED
    BY <1>5, <2>1
<1>8. ASSUME NEW ok \in BOOLEAN, op' = Over(o, ok) PROVE HomeInv'
  <2>1. /\ Over(o, ok).path = o.path /\ Over(o, ok).stage = o.stage
        /\ Over(o, ok).at = o.at /\ Over(o, ok).lost = o.lost
    BY OverTyped
  <2> QED
    BY <1>5, <1>8, <2>1
<1>9. CASE o.path = "start" /\ op' = Turned(o, "discover", o.at + 1)
  <2>1. ~op'.lost /\ op'.path = o.path /\ op'.stage = "discover"
    BY <1>9 DEF Turned, CallSet
  <2>2. ~discovered
    BY <1>1, <1>9 DEF HomeInv, StageInv
  <2> QED
    BY <1>1, <1>2, <1>3, <1>9, <2>1, <2>2, SpoiledHaveNone, HomeTurned
<1> QED
  BY <1>1, <1>6, <1>7, <1>8, <1>9, FailsCases

LEMMA NextServerHome ==
  ASSUME TypeInd, HomeInv, op.phase \in Busy, op.stage # "call", NextServer(op),
         own' = own, spoiled' = spoiled,
         \A t \in Servers : proc'[t].home = proc[t].home
  PROVE  HomeInv'
<1>1. /\ op \in CallSet /\ op.path \in {"start", "bridge"} /\ op.stage = "discover" /\ ~discovered
      /\ spoiled \in SUBSET Servers /\ op.at \in Servers
  BY DEF TypeInd, CallOk, CallSet, RestInv, Busy, HomeInv, StageInv
<1>2. \A t \in spoiled : proc[t].home = "none"
  BY <1>1, SpoiledHaveNone
<1>3. ASSUME NEW n, op' = Turned(op, "discover", n), discovered' = discovered PROVE HomeInv'
  <2>1. ~op'.lost /\ op'.path = op.path /\ op'.stage = "discover"
    BY <1>1, <1>3 DEF Turned, CallSet
  <2> QED
    BY <1>1, <1>2, <1>3, <2>1, HomeTurned
<1>4. CASE op.path = "bridge" /\ op' = Turned(op, "call", op.target) /\ discovered' = TRUE
  <2>1. ~op'.lost /\ op'.path = op.path /\ op'.stage = "call"
    BY <1>1, <1>4 DEF Turned, CallSet
  <2> QED
    BY <1>1, <1>2, <1>4, <2>1, HomeTurned
<1>5. CASE op' = Over(op, TRUE) /\ discovered' = discovered
  <2>1. /\ Over(op, TRUE).path = op.path /\ Over(op, TRUE).stage = op.stage
        /\ Over(op, TRUE).at = op.at /\ Over(op, TRUE).lost = op.lost
    BY <1>1, OverTyped
  <2> QED
    BY <1>1, <1>5, <2>1, HomeStep
<1> QED
  BY <1>3, <1>4, <1>5 DEF NextServer

LEMMA ReceiveHome ==
  ASSUME TypeInd, HomeInv, Receive
  PROVE  HomeInv'
<1>1. /\ op.phase = "wait" /\ op.phase \in Busy /\ proc[op.at].pipe # <<>>
      /\ op \in CallSet /\ op.at \in Servers /\ spoiled \in SUBSET Servers
      /\ own' = own /\ spoiled' = spoiled
  BY ReceiveCases DEF TypeInd, CallOk, CallSet, RestInv, Busy
<1>2. PsOk(Remains) /\ \A t \in Servers : Remains[t].home = proc[t].home
  <2>1. \A t \in Servers : Remains[t].home = proc[t].home
    BY DEF Remains, TypeInd, ProcInv, ProcSet
  <2> QED
    BY <1>1, <2>1, RemainsOk DEF TypeInd
<1>3. ASSUME NEW cause, NEW e, Fails(Hard(op, cause), e, Remains) PROVE HomeInv'
  <2>1. /\ Hard(op, cause) \in CallSet
        /\ Hard(op, cause).path = op.path /\ Hard(op, cause).stage = op.stage
        /\ Hard(op, cause).at = op.at /\ Hard(op, cause).lost = op.lost
    BY <1>1, HardFields
  <2> QED
    BY <1>1, <1>2, <1>3, <2>1, FailsHome
<1>4. ASSUME proc' = Remains, discovered' = discovered, op'.path = op.path,
             op'.stage = op.stage, op'.at = op.at, op'.lost = op.lost
      PROVE  HomeInv'
  BY <1>1, <1>2, <1>4, HomeStep
<1>5. CASE op.shaking /\ Shaken(Foremost.kind, Remains)
  <2>1. CASE /\ op' = [op EXCEPT !.id = 0, !.phase = "prepare"]
             /\ proc' = Remains /\ discovered' = discovered
    <3>1. op'.path = op.path /\ op'.stage = op.stage /\ op'.at = op.at /\ op'.lost = op.lost
      BY <1>1, <2>1 DEF CallSet
    <3> QED
      BY <1>4, <2>1, <3>1
  <2>2. CASE Fails(Hard(op, TRUE), IF Foremost.kind = "error" THEN "rpc" ELSE "invalid", Remains)
    BY <1>3, <2>2
  <2> QED
    BY <1>5, <2>1, <2>2 DEF Shaken
<1>6. CASE Called(Foremost.kind, Remains)
  <2> DEFINE o == Hard(op, Foremost.kind # "result")
             ok == Foremost.kind = "result"
  <2>1. op' = Over(o, ok) /\ proc' = Remains /\ discovered' = discovered /\ ok \in BOOLEAN
    BY <1>6 DEF Called
  <2>2. /\ o \in CallSet /\ o.path = op.path /\ o.stage = op.stage
        /\ o.at = op.at /\ o.lost = op.lost
    BY <1>1, HardFields
  <2> HIDE DEF o, ok
  <2>3. /\ Over(o, ok).path = o.path /\ Over(o, ok).stage = o.stage
        /\ Over(o, ok).at = o.at /\ Over(o, ok).lost = o.lost
    BY <2>1, <2>2, OverTyped
  <2> QED
    BY <1>4, <2>1, <2>2, <2>3
<1>7. CASE op.stage # "call" /\ Served(Foremost.kind, Remains)
  <2>1. CASE /\ op' = [op EXCEPT !.id = 0, !.pages = @ + 1, !.phase = "prepare"]
             /\ proc' = Remains /\ discovered' = discovered
    <3>1. op'.path = op.path /\ op'.stage = op.stage /\ op'.at = op.at /\ op'.lost = op.lost
      BY <1>1, <2>1 DEF CallSet
    <3> QED
      BY <1>4, <2>1, <3>1
  <2>2. CASE NextServer(op) /\ proc' = Remains
    BY <1>1, <1>2, <1>7, <2>2, NextServerHome
  <2>3. CASE Fails(Hard(op, TRUE), IF Foremost.kind = "error" THEN "rpc" ELSE "invalid", Remains)
    BY <1>3, <2>3
  <2> QED
    BY <1>7, <2>1, <2>2, <2>3 DEF Served
<1>8. CASE Fails(Hard(op, Foremost.kind \in {"bad", "ask"}), "invalid", Remains)
  BY <1>3, <1>8
<1> QED
  BY <1>5, <1>6, <1>7, <1>8, ReceiveCases

LEMMA RequestHome ==
  ASSUME TypeInd, HomeInv, op.phase \in Busy, NEW o \in CallSet, o.path = op.path,
         o.stage = op.stage, o.at = op.at, o.lost = op.lost, Request(o)
  PROVE  HomeInv'
<1>1. op.at \in Servers /\ spoiled \in SUBSET Servers /\ own' = own /\ spoiled' = spoiled
  BY DEF TypeInd, CallOk, CallSet, RestInv, Request, past
<1>2. CASE Writable(o.at)
  <2>1. /\ proc' = [proc EXCEPT ![o.at].owes = @ \cup {FreshId}]
        /\ op' = [o EXCEPT !.id = FreshId, !.phase = "wait"] /\ discovered' = discovered
    BY <1>2 DEF Request
  <2>2. \A t \in Servers : proc'[t].home = proc[t].home
    BY <2>1 DEF TypeInd, ProcInv, ProcSet
  <2>3. op'.path = o.path /\ op'.stage = o.stage /\ op'.at = o.at /\ op'.lost = o.lost
    BY <2>1 DEF CallSet
  <2> QED
    BY <1>1, <2>1, <2>2, <2>3, HomeStep
<1>3. CASE ~Writable(o.at)
  <2>1. Fails(Strand(o), "transport", proc) /\ Retryable("transport")
    BY <1>3 DEF Request, Retryable
  <2>2. /\ Strand(o) \in CallSet
        /\ Strand(o).path = o.path /\ Strand(o).stage = o.stage /\ Strand(o).at = o.at
    BY StrandFields
  <2>3. Strand(o).lost = (op.lost \/ proc[op.at].home = "gone")
    BY StrandRaised
  <2> QED
    BY <1>1, <2>1, <2>2, <2>3, SamePs, FailsHome DEF TypeInd
<1> QED
  BY <1>2, <1>3

LEMMA ManageHome ==
  ASSUME TypeInd, HomeInv, Check \/ Spawn \/ Shake \/ Send \/ HangUp \/ Timeout
  PROVE  HomeInv'
<1>1. /\ op \in CallSet /\ op.at \in Servers /\ op.phase \in Busy
      /\ spoiled \in SUBSET Servers /\ PsOk(proc)
      /\ op.path \in {"start", "bridge"}
  BY SamePs DEF TypeInd, CallOk, CallSet, RestInv, Busy, Check, Spawn, Shake, Send, HangUp,
     Timeout
<1>2. CASE Check
  <2>1. /\ op' = [op EXCEPT !.phase = "prepare"]
        /\ own' = own /\ spoiled' = spoiled /\ discovered' = discovered
        /\ Reset(proc, op.at) \/ proc' = proc
    BY <1>2 DEF Check, past, table
  <2>2. op'.path = op.path /\ op'.stage = op.stage /\ op'.at = op.at /\ op'.lost = op.lost
    BY <1>1, <2>1 DEF CallSet
  <2>3. \A t \in Servers : proc'[t].home = proc[t].home \/ proc'[t].home = "none"
    BY <2>1 DEF Reset, TypeInd, ProcInv, NoProc
  <2> QED
    BY <1>1, <2>1, <2>2, <2>3, HomeStep
<1>3. CASE Spawn /\ op.at \in broken
  <2>1. Fails(Hard(op, TRUE), "io", proc) /\ own' = own /\ spoiled' = spoiled
    BY <1>3 DEF Spawn, past
  <2>2. /\ Hard(op, TRUE) \in CallSet
        /\ Hard(op, TRUE).path = op.path /\ Hard(op, TRUE).stage = op.stage
        /\ Hard(op, TRUE).at = op.at /\ Hard(op, TRUE).lost = op.lost
    BY <1>1, HardFields
  <2> QED
    BY <1>1, <2>1, <2>2, FailsHome
<1>4. CASE Spawn /\ op.at \notin broken
  <2> DEFINE home == IF op.path = "bridge" THEN "call" ELSE "own"
  <2>1. /\ proc' = [proc EXCEPT ![op.at] = NewProc(home)]
        /\ op' = op /\ own' = own /\ spoiled' = spoiled /\ discovered' = discovered
    BY <1>4 DEF Spawn, past
  <2>2. NewProc(home).home = home
    BY DEF NewProc, NoProc
  <2>3. /\ proc'[op.at].home = home
        /\ \A t \in Servers : t # op.at => proc'[t].home = proc[t].home
    BY <1>1, <2>1, <2>2 DEF TypeInd, ProcInv
  <2>4. StageInv'
    BY <2>1 DEF HomeInv, StageInv
  <2>5. LostInv'
    BY <1>1, <2>1, <2>3 DEF HomeInv, LostInv
  <2>6. SpoiledInv'
    <3>1. op.at \in spoiled => op.stage = "call" /\ op.path = "bridge"
      BY <1>1 DEF HomeInv, SpoiledInv, StageInv, TypeInd, CallOk, CallSet, Busy
    <3> QED
      BY <1>1, <2>1, <2>3, <3>1 DEF HomeInv, SpoiledInv
  <2> QED
    BY <2>4, <2>5, <2>6 DEF HomeInv
<1>5. CASE Shake
  <2> DEFINE o == [op EXCEPT !.shaking = TRUE]
  <2>1. /\ o \in CallSet /\ o.path = op.path /\ o.stage = op.stage /\ o.at = op.at
        /\ o.lost = op.lost
    BY <1>1 DEF CallSet
  <2>2. Request(o)
    BY <1>5 DEF Shake
  <2> HIDE DEF o
  <2> QED
    BY <1>1, <2>1, <2>2, RequestHome
<1>6. CASE Send
  <2> DEFINE n == IF op.stage = "call" THEN op.sent + 1 ELSE op.sent
             o == [op EXCEPT !.shaking = FALSE, !.sent = n]
  <2>1. Request(o) /\ op.phase = "prepare"
    BY <1>6 DEF Send
  <2>2. n \in {0, 1}
    BY <1>1, <2>1 DEF CallSet, TypeInd, CallOk
  <2>3. /\ o \in CallSet /\ o.path = op.path /\ o.stage = op.stage /\ o.at = op.at
        /\ o.lost = op.lost
    <3> HIDE DEF n
    <3> QED
      BY <1>1, <2>2 DEF CallSet
  <2> HIDE DEF n, o
  <2> QED
    BY <1>1, <2>1, <2>3, RequestHome
<1>7. CASE HangUp
  <2>1. /\ Fails(Strand(op), "transport", proc) /\ Retryable("transport")
        /\ own' = own /\ spoiled' = spoiled
    BY <1>7 DEF HangUp, Retryable, past
  <2>2. /\ Strand(op) \in CallSet
        /\ Strand(op).path = op.path /\ Strand(op).stage = op.stage /\ Strand(op).at = op.at
    BY <1>1, StrandFields
  <2>3. Strand(op).lost = (op.lost \/ proc[op.at].home = "gone")
    BY <1>1, StrandRaised
  <2> QED
    BY <1>1, <2>1, <2>2, <2>3, FailsHome
<1>8. CASE Timeout
  <2>1. Fails(Blow(op, 1), "timeout", proc) /\ own' = own /\ spoiled' = spoiled
    BY <1>8 DEF Timeout, past
  <2>2. /\ Blow(op, 1) \in CallSet
        /\ Blow(op, 1).path = op.path /\ Blow(op, 1).stage = op.stage
        /\ Blow(op, 1).at = op.at /\ Blow(op, 1).lost = op.lost
    BY <1>1, BlowFields
  <2> QED
    BY <1>1, <2>1, <2>2, FailsHome
<1> QED
  BY <1>2, <1>3, <1>4, <1>5, <1>6, <1>7, <1>8

\* Where the runtime home ends, no process without one gets one.
LEMMA OrphanedHomes ==
  ASSUME ProcInv, NEW home, NEW s \in Servers
  PROVE  Orphaned(home)[s].home = IF proc[s].home = home THEN "gone" ELSE proc[s].home
<1>1. proc[s] \in ProcSet
  BY DEF ProcInv
<1>2. ASSUME NEW p \in ProcSet PROVE [p EXCEPT !.home = "gone"].home = "gone"
  BY DEF ProcSet
<1> QED
  BY <1>1, <1>2 DEF Orphaned

\* The start and the end of a call, and a session's panic.
LEMMA CallStepsHome ==
  ASSUME TypeInd, HomeInv, NEW s \in Servers, Bridge(s) \/ Session \/ Return
  PROVE  HomeInv'
<1>1. op \in CallSet /\ op.at \in Servers /\ spoiled \in SUBSET Servers
  BY DEF TypeInd, CallOk, CallSet, RestInv
<1>2. CASE Bridge(s)
  <2> DEFINE o == [NoCall EXCEPT !.path = "bridge", !.target = s]
  <2>1. o \in CallSet /\ o.path = "bridge" /\ o.stage = "none" /\ ~o.lost
    <3>1. o \in CallSet /\ o.path = "bridge"
      BY NewCall
    <3>2. o.stage = "none" /\ ~o.lost
      BY DEF NoCall
    <3> QED
      BY <3>1, <3>2
  <2>2. /\ own' = own /\ spoiled' = spoiled /\ discovered' = discovered /\ proc' = proc
        /\ op.path = "none"
        /\ \/ op' = Over(o, FALSE)
           \/ op' = Turned(o, "call", s) /\ discovered
           \/ op' = Turned(o, "discover", 1) /\ ~discovered
    BY <1>2 DEF Bridge, past, table
  <2>3. \A t \in spoiled : proc[t].home = "none"
    BY <2>2, SpoiledHaveNone
  <2> HIDE DEF o
  <2>4. CASE op' = Over(o, FALSE)
    <3>1. /\ Over(o, FALSE).path = o.path /\ Over(o, FALSE).stage = o.stage
          /\ Over(o, FALSE).lost = o.lost /\ Over(o, FALSE).phase = "end"
      BY <2>1, OverTyped
    <3> QED
      BY <1>1, <2>1, <2>2, <2>3, <2>4, <3>1, HomeTurned
  <2>5. ASSUME NEW stage \in {"call", "discover"}, NEW t, op' = Turned(o, stage, t),
               stage = "call" <=> discovered
        PROVE  HomeInv'
    <3>1. ~op'.lost /\ op'.path = "bridge" /\ op'.stage = stage
      BY <2>1, <2>5 DEF Turned, CallSet
    <3>2. discovered \in BOOLEAN
      BY DEF TypeInd, RestInv
    <3> QED
      BY <1>1, <2>2, <2>3, <2>5, <3>1, <3>2, HomeTurned
  <2> QED
    BY <2>2, <2>4, <2>5
<1>3. CASE Session
  <2>1. UNCHANGED <<own, discovered, spoiled, op, proc>>
    BY <1>3 DEF Session, past, table
  <2> QED
    BY <1>1, <2>1, HomeStep
<1>4. CASE Return
  <2>1. /\ op.phase = "end" /\ op' = NoCall /\ UNCHANGED <<own, discovered>>
        /\ proc' = Orphaned("call") \/ proc' = proc
        /\ spoiled' = IF op.stage # "call" THEN spoiled
                      ELSE IF op.lost /\ proc[op.at] = NoProc THEN spoiled \cup {op.at}
                      ELSE spoiled \ {op.at}
    BY <1>4 DEF Return
  <2>2. /\ NoCall.path = "none" /\ NoCall.stage = "none" /\ ~NoCall.lost
        /\ NoCall.phase = "none" /\ NoProc.home = "none"
    BY DEF NoCall, NoProc
  <2>3. \A t \in Servers : proc[t].home = "none" => proc'[t].home = "none"
    BY <2>1, OrphanedHomes DEF TypeInd
  <2>4. \A t \in spoiled' : discovered /\ t \in Servers /\ proc[t].home = "none"
    <3>1. CASE op.stage # "call"
      BY <1>1, <2>1, <3>1, SpoiledHaveNone DEF HomeInv, SpoiledInv
    <3>2. CASE op.stage = "call"
      <4>1. \A t \in spoiled \ {op.at} : discovered /\ proc[t].home = "none"
        BY <1>1 DEF HomeInv, SpoiledInv
      <4>2. discovered
        BY <3>2 DEF HomeInv, StageInv
      <4> QED
        BY <1>1, <2>1, <2>2, <3>2, <4>1, <4>2
    <3> QED
      BY <3>1, <3>2
  <2>5. StageInv'
    BY <2>1, <2>2 DEF StageInv
  <2>6. LostInv'
    BY <2>1, <2>2 DEF LostInv
  <2>7. SpoiledInv'
    BY <2>1, <2>3, <2>4 DEF SpoiledInv
  <2> QED
    BY <2>5, <2>6, <2>7 DEF HomeInv
<1> QED
  BY <1>2, <1>3, <1>4

\* What the servers and the session do by themselves.
LEMMA OthersHome ==
  ASSUME TypeInd, HomeInv,
         \/ \E s \in Servers : (\E kind \in Replies : Answer(s, kind)) \/ Ask(s) \/ Dies(s)
         \/ Replace \/ Dropped
  PROVE  HomeInv'
<1>1. op \in CallSet /\ op.at \in Servers /\ spoiled \in SUBSET Servers
  BY DEF TypeInd, CallOk, CallSet, RestInv
<1>2. CASE \E s \in Servers : (\E kind \in Replies : Answer(s, kind)) \/ Ask(s) \/ Dies(s)
  <2>1. UNCHANGED <<own, discovered, spoiled>> /\ (op' = op \/ op' = Blow(op, 1))
    BY <1>2 DEF Answer, Ask, Dies, past, table
  <2>2. /\ op'.path = op.path /\ op'.stage = op.stage /\ op'.at = op.at
        /\ op'.lost = op.lost /\ op'.phase = op.phase
    <3>1. /\ Blow(op, 1).path = op.path /\ Blow(op, 1).stage = op.stage
          /\ Blow(op, 1).at = op.at /\ Blow(op, 1).lost = op.lost /\ Blow(op, 1).phase = op.phase
      BY <1>1, BlowFields
    <3> QED
      BY <2>1, <3>1
  <2>3. \A t \in Servers : proc'[t].home = proc[t].home
    <3>1. ASSUME NEW s \in Servers, NEW kind \in Replies, Answer(s, kind)
          PROVE  \A t \in Servers : proc'[t].home = proc[t].home
      <4>1. PICK id \in proc[s].owes :
               proc' = [proc EXCEPT ![s].owes = @ \ {id}, ![s].pipe = Append(@, Frame(kind, id))]
        BY <3>1 DEF Answer
      <4> QED
        BY <4>1 DEF TypeInd, ProcInv, ProcSet
    <3>2. ASSUME NEW s \in Servers, Ask(s)
          PROVE  \A t \in Servers : proc'[t].home = proc[t].home
      <4>1. PICK id : proc' = [proc EXCEPT ![s].pipe = Append(@, Frame("ask", id))]
        BY <3>2 DEF Ask
      <4> QED
        BY <4>1 DEF TypeInd, ProcInv, ProcSet
    <3>3. ASSUME NEW s \in Servers, Dies(s)
          PROVE  \A t \in Servers : proc'[t].home = proc[t].home
      <4>1. proc' = [proc EXCEPT ![s].state = "dead", ![s].owes = {}]
        BY <3>3 DEF Dies
      <4> QED
        BY <4>1 DEF TypeInd, ProcInv, ProcSet
    <3> QED
      BY <1>2, <3>1, <3>2, <3>3
  <2> QED
    BY <1>1, <2>1, <2>2, <2>3, HomeStep
<1>3. CASE Replace
  <2>1. PICK n \in 0..NumServers : proc' = [s \in Servers |-> IF s <= n THEN NoProc ELSE proc[s]]
    BY <1>3 DEF Replace
  <2>2. op.path = "none" /\ UNCHANGED <<discovered, op, spoiled>>
    BY <1>3 DEF Replace, past
  <2>3. \A t \in Servers : proc'[t].home = proc[t].home \/ proc'[t].home = "none"
    BY <2>1 DEF NoProc
  <2> QED
    BY <1>1, <2>2, <2>3 DEF HomeInv, StageInv, LostInv, SpoiledInv
<1>4. CASE Dropped
  <2>1. own = "retired" /\ proc' = Orphaned("own") /\ UNCHANGED <<discovered, op, spoiled>>
    BY <1>4 DEF Dropped, past, table
  <2>2. \A t \in Servers : proc[t].home \in {"none", "call"} => proc'[t].home = proc[t].home
    BY <2>1, OrphanedHomes DEF TypeInd
  <2> QED
    BY <1>1, <2>1, <2>2 DEF HomeInv, StageInv, LostInv, SpoiledInv
<1> QED
  BY <1>2, <1>3, <1>4

LEMMA HomeHolds == Spec => []HomeInv
<1>1. Init => HomeInv
  <2> SUFFICES ASSUME Init PROVE HomeInv
    OBVIOUS
  <2>1. op.stage = "discover" /\ op.path = "start" /\ ~op.lost
    BY DEF Init, Turned, NoCall
  <2>2. \A t \in Servers : proc[t].home = "none"
    BY DEF Init, NoProc
  <2> QED
    BY <2>1, <2>2 DEF Init, HomeInv, StageInv, LostInv, SpoiledInv
<1>2. TypeInd /\ HomeInv /\ [Next]_vars => HomeInv'
  <2> SUFFICES ASSUME TypeInd, HomeInv, [Next]_vars PROVE HomeInv'
    OBVIOUS
  <2>0. 1 \in Servers
    BY BoundsAssumption DEF BoundsAssumption, Servers
  <2>1. CASE UNCHANGED vars
    BY <2>1 DEF vars, table, past, HomeInv, StageInv, LostInv, SpoiledInv
  <2>2. CASE Manage
    BY <2>0, <2>2, ManageHome, ReceiveHome, CallStepsHome DEF Manage
  <2>3. CASE Session \/ \E s \in Servers : Bridge(s)
    BY <2>0, <2>3, CallStepsHome
  <2>4. CASE \/ \E s \in Servers : (\E kind \in Replies : Answer(s, kind)) \/ Ask(s) \/ Dies(s)
             \/ Replace \/ Dropped
    BY <2>4, OthersHome
  <2> QED
    BY <2>1, <2>2, <2>3, <2>4 DEF Next
<1> QED
  BY <1>1, <1>2, TypeIndHolds, PTL DEF Spec

-----------------------------------------------------------------------------
(* A call fails only for cause.                                            *)

\* The losses of a call pay for its restarts and n more.
Paid(o, n) == Losses(o) >= o.tries + o.inits + n \/ o.blows = 2

\* The process the call is working with has died.
Bereft == op.phase \in {"prepare", "wait"} /\ proc[op.at].state = "dead"

EarnInv == BlowInv /\ FailuresAreEarned

LEMMA LossesTyped ==
  ASSUME NEW o \in CallSet
  PROVE  /\ Losses(o) \in 0..3 /\ o.blows \in 0..2 /\ o.tries \in {0, 1} /\ o.inits \in {0, 1}
         /\ Losses(o) = IF o.lost THEN o.blows + 1 ELSE o.blows
BY DEF Losses, CallSet

LEMMA EarnInvBy ==
  ASSUME CallOk(op)
  PROVE  BlowInv <=> (op.phase # "end" => Paid(op, 0) /\ (Bereft => Paid(op, 1)))
<1>1. op \in CallSet
  BY DEF CallOk
<1> QED
  BY <1>1, LossesTyped DEF BlowInv, Due, Bereft, Paid

\* A call that is not over, with its losses and restarts those of a call that has paid.
LEMMA GoesOnEarns ==
  ASSUME NEW o \in CallSet, op'.phase # "end", op'.blows = o.blows, op'.lost = o.lost,
         op'.tries = o.tries, op'.inits = o.inits, Paid(o, 0), Bereft' => Paid(o, 1)
  PROVE  EarnInv'
<1>1. Losses(op)' = Losses(o)
  BY DEF Losses
<1> QED
  BY <1>1, LossesTyped DEF EarnInv, BlowInv, Due, Bereft, FailuresAreEarned, Paid

\* A call at the beginning of its work with a server, or over and well.
LEMMA StartEarns ==
  ASSUME CallOk(op)', op'.phase \in {"none", "check"}, op'.tries = 0, op'.inits = 0
  PROVE  EarnInv'
<1>1. op' \in CallSet
  BY DEF CallOk
<1>2. Losses(op)' = Losses(op')
  BY DEF Losses
<1> QED
  BY <1>1, <1>2, LossesTyped DEF EarnInv, BlowInv, Due, FailuresAreEarned

LEMMA EndEarns ==
  ASSUME op'.phase = "end", op'.ok \/ mixed' \/ op'.hard \/ poisoned'
  PROVE  EarnInv'
BY DEF EarnInv, BlowInv, FailuresAreEarned

\* An error, with its cause noted, or paid for where it is tried again.
LEMMA FailsEarn ==
  ASSUME NEW o \in CallSet, o.path # "none", o.path = "start" => o.stage = "discover",
         o.sent = 1 => o.stage = "call" /\ ~o.shaking, routes \in SUBSET Servers,
         NEW e, NEW ps, PsOk(ps), Fails(o, e, ps), o.lost => o.at \notin spoiled,
         spoiled' = spoiled,
         Retryable(e) => Paid(o, 1), ~Retryable(e) => o.hard \/ mixed'
  PROVE  EarnInv'
<1>1. /\ o.tries \in {0, 1} /\ o.inits \in {0, 1} /\ o.blows \in 0..2
      /\ o.shaking \in BOOLEAN /\ o.hard \in BOOLEAN /\ o.at \in Servers
      /\ Losses(o) \in 0..3 /\ Losses(o) = IF o.lost THEN o.blows + 1 ELSE o.blows
  BY LossesTyped DEF CallSet
<1>2. CallOk(op)'
  BY FailsKeepsCall DEF CallOk
<1>3. CASE /\ Reshakes(o, e) /\ Reset(ps, o.at)
           /\ op' = [o EXCEPT !.inits = 1, !.id = 0, !.phase = "prepare"]
  <2>1. /\ op'.tries = o.tries /\ op'.inits = 1 /\ op'.blows = o.blows /\ op'.lost = o.lost
        /\ op'.phase = "prepare" /\ op'.at = o.at
    BY <1>3 DEF CallSet
  <2>2. proc'[o.at].state = "none"
    BY <1>1, <1>3, NoProcOk DEF Reset, PsOk
  <2>3. o.inits = 0 /\ Paid(o, 1)
    BY <1>3 DEF Reshakes
  <2>4. Losses(op)' = Losses(o)
    BY <2>1 DEF Losses
  <2> QED
    BY <1>1, <2>1, <2>2, <2>3, <2>4 DEF EarnInv, BlowInv, Due, FailuresAreEarned, Paid
<1>4. CASE /\ Restarts(o, e)
           /\ op' = [o EXCEPT !.tries = 1, !.inits = 0, !.pages = 0, !.id = 0,
                              !.phase = "check"]
  <2>1. /\ op'.tries = 1 /\ op'.inits = 0 /\ op'.blows = o.blows /\ op'.lost = o.lost
        /\ op'.phase = "check"
    BY <1>4 DEF CallSet
  <2>2. Paid(o, 1) /\ o.tries = 0
    BY <1>4 DEF Restarts
  <2>3. Losses(op)' = Losses(o)
    BY <2>1 DEF Losses
  <2> QED
    BY <1>1, <2>1, <2>2, <2>3 DEF EarnInv, BlowInv, Due, FailuresAreEarned, Paid
<1>5. CASE o.path = "start" /\ o.at < NumServers /\ op' = Turned(o, "discover", o.at + 1)
  <2>1. op'.phase = "check" /\ op'.tries = 0 /\ op'.inits = 0
    BY <1>5 DEF Turned, CallSet
  <2> QED
    BY <1>2, <2>1, StartEarns
<1>6. CASE op' = Over(o, TRUE)
  <2>1. Over(o, TRUE).phase = "end" /\ Over(o, TRUE).ok = TRUE
    BY OverTyped
  <2> QED
    BY <1>6, <2>1, EndEarns
<1>7. CASE ~Reshakes(o, e) /\ ~Restarts(o, e) /\ op' = Over(o, FALSE)
  <2>1. /\ op'.phase = "end" /\ op'.hard = o.hard /\ op'.blows = o.blows
        /\ op'.stage = o.stage /\ op'.shaking = o.shaking /\ op'.lost = o.lost
        /\ op'.at = o.at
    <3>1. /\ Over(o, FALSE).phase = "end" /\ Over(o, FALSE).hard = o.hard
          /\ Over(o, FALSE).blows = o.blows /\ Over(o, FALSE).stage = o.stage
          /\ Over(o, FALSE).shaking = o.shaking /\ Over(o, FALSE).lost = o.lost
          /\ Over(o, FALSE).at = o.at
      BY OverTyped
    <3> QED
      BY <1>7, <3>1
  <2>2. CASE ~Retryable(e)
    BY <2>1, <2>2, EndEarns
  <2>3. CASE Retryable(e)
    <3>1. (o.shaking => o.inits = 1) /\ (o.stage # "call" => o.tries = 1) /\ Paid(o, 1)
      BY <1>1, <1>7, <2>3 DEF Reshakes, Restarts
    <3>2. o.blows >= Chances(o) \/ (o.lost /\ o.blows + 1 >= Chances(o))
      BY <1>1, <3>1 DEF Paid, Chances
    <3>3. Chances(op)' = Chances(o)
      BY <2>1 DEF Chances
    <3>4. proc'[o.at].state = "none"
      <4>1. Reset(ps, o.at)
        BY <2>3, FailsCases DEF Resets
      <4> QED
        BY <1>1, <4>1, NoProcOk DEF Reset, PsOk
    <3> QED
      BY <2>1, <3>2, <3>3, <3>4 DEF EarnInv, BlowInv, FailuresAreEarned
  <2> QED
    BY <2>2, <2>3
<1> QED
  BY <1>3, <1>4, <1>5, <1>6, <1>7, FailsCases

\* A step that leaves the call and the process it works with as they are.
LEMMA SameCallEarns ==
  ASSUME TypeInd, EarnInv, mixed => mixed', poisoned => poisoned', spoiled' = spoiled,
         op' = op, Bereft' => Bereft,
         op.phase # "none" /\ proc[op.at].state = "none" => proc'[op.at].state = "none"
  PROVE  EarnInv'
<1>1. op \in CallSet
  BY DEF TypeInd, CallOk
<1>2. BlowInv'
  <2>1. Losses(op)' = Losses(op) /\ Due' \in Nat /\ Due \in Nat /\ Due' <= Due
    BY <1>1, LossesTyped DEF Due, Losses, Bereft
  <2> QED
    BY <1>1, <2>1, LossesTyped DEF EarnInv, BlowInv
<1>3. FailuresAreEarned'
  BY DEF EarnInv, FailuresAreEarned, Chances
<1> QED
  BY <1>2, <1>3 DEF EarnInv

\* The next server, or the end, of a discovery is no failure.
LEMMA NextServerEarns ==
  ASSUME NEW o \in CallSet, o.path # "none", o.sent # 1, o.path = "start" => o.stage = "discover",
         discovered \in BOOLEAN, NextServer(o)
  PROVE  EarnInv'
<1>0. CallOk(op)'
  BY NextServerOk DEF CallOk
<1>1. ASSUME NEW s \in Servers, NEW stage \in {"discover", "call"}, op' = Turned(o, stage, s)
      PROVE  EarnInv'
  <2>1. op'.phase = "check" /\ op'.tries = 0 /\ op'.inits = 0
    BY <1>1 DEF Turned, CallSet
  <2> QED
    BY <1>0, <2>1, StartEarns
<1>2. CASE o.at < NumServers
  <2>1. o.at + 1 \in Servers
    BY <1>2, BoundsAssumption DEF CallSet, Servers, BoundsAssumption
  <2> QED
    BY <1>1, <1>2, <2>1 DEF NextServer
<1>3. CASE ~(o.at < NumServers) /\ o.path = "bridge"
  BY <1>1, <1>3 DEF NextServer, CallSet
<1>4. CASE op' = Over(o, TRUE)
  <2>1. Over(o, TRUE).phase = "end" /\ Over(o, TRUE).ok = TRUE
    BY OverTyped
  <2> QED
    BY <1>4, <2>1, EndEarns
<1> QED
  BY <1>2, <1>3, <1>4 DEF NextServer

\* What is read from a pipe ends in an error only for a cause, or when a server's
\* own request had been taken for an answer.
LEMMA ReceiveEarns ==
  ASSUME TypeInd, PipesInv, HomeInv, EarnInv, Receive
  PROVE  EarnInv'
<1>1. /\ op.phase = "wait" /\ proc[op.at].pipe # <<>> /\ op \in CallSet /\ op.at \in Servers
      /\ op.path # "none" /\ (op.path = "start" => op.stage = "discover")
      /\ op.sent = 1 => op.stage = "call" /\ ~op.shaking
      /\ spoiled' = spoiled /\ (op.lost => op.at \notin spoiled)
  BY ReceiveCases DEF TypeInd, CallOk, CallSet, HomeInv, LostInv
<1>2. PsOk(Remains) /\ \A t \in Servers : Remains[t].state = proc[t].state
  BY <1>1, RemainsOk DEF TypeInd
<1>3. Paid(op, 0) /\ (Bereft => Paid(op, 1))
  BY <1>1, EarnInvBy DEF TypeInd, EarnInv
<1>4. ASSUME NEW cause, NEW e \in {"rpc", "invalid"}, cause \/ mixed',
             Fails(Hard(op, cause), e, Remains)
      PROVE  EarnInv'
  <2>1. op \in CallSet
    BY <1>1
  <2>2. /\ Hard(op, cause) \in CallSet
        /\ Hard(op, cause).path = op.path /\ Hard(op, cause).stage = op.stage
        /\ Hard(op, cause).sent = op.sent /\ Hard(op, cause).shaking = op.shaking
        /\ Hard(op, cause).at = op.at /\ Hard(op, cause).lost = op.lost
    BY <2>1, HardFields
  <2>2a. Hard(op, cause).hard = (op.hard \/ cause)
    BY <2>1, HardRaised, Zenon
  <2>3. (Hard(op, cause).hard \/ mixed') /\ ~Retryable(e)
    BY <1>4, <2>2a DEF Retryable
  <2> QED
    BY <1>1, <1>2, <1>4, <2>2, <2>3, FailsEarn DEF TypeInd, RestInv
<1>5. ASSUME proc' = Remains, op'.phase = "prepare", op'.at = op.at, op'.tries = op.tries,
             op'.inits = op.inits, op'.blows = op.blows, op'.lost = op.lost
      PROVE  EarnInv'
  <2>1. Bereft' => Bereft
    BY <1>1, <1>2, <1>5 DEF Bereft
  <2> QED
    BY <1>1, <1>3, <1>5, <2>1, GoesOnEarns
<1>6. CASE op.shaking /\ Shaken(Foremost.kind, Remains)
  <2>1. CASE Foremost.kind = "result"
    <3>1. proc' = Remains /\ op' = [op EXCEPT !.id = 0, !.phase = "prepare"]
      BY <1>6, <2>1 DEF Shaken
    <3>2. /\ op'.phase = "prepare" /\ op'.at = op.at /\ op'.tries = op.tries
          /\ op'.inits = op.inits /\ op'.blows = op.blows /\ op'.lost = op.lost
      BY <1>1, <3>1 DEF CallSet
    <3> QED
      BY <1>5, <3>1, <3>2
  <2>2. CASE Foremost.kind # "result"
    <3>1. Fails(Hard(op, TRUE), IF Foremost.kind = "error" THEN "rpc" ELSE "invalid", Remains)
      BY <1>6, <2>2 DEF Shaken
    <3> QED
      BY <1>4, <3>1
  <2> QED
    BY <2>1, <2>2
<1>7. CASE ~op.shaking /\ op.stage = "call" /\ Called(Foremost.kind, Remains)
  <2> DEFINE cause == Foremost.kind # "result"
             ok == Foremost.kind = "result"
             o == Hard(op, cause)
  <2>1. op' = Over(o, ok)
    BY <1>7 DEF Called
  <2>2. o \in CallSet /\ (ok \/ o.hard) /\ ok \in BOOLEAN
    <3>1. o \in CallSet /\ o.hard = (op.hard \/ cause)
      <4>1. op \in CallSet
        BY <1>1
      <4> HIDE DEF cause
      <4>2. o \in CallSet
        BY <4>1, HardFields
      <4>3. o.hard = (op.hard \/ cause)
        BY <4>1, HardRaised, Zenon
      <4> QED
        BY <4>2, <4>3
    <3> QED
      BY <3>1
  <2>3. op'.phase = "end" /\ (op'.ok \/ op'.hard)
    <3> HIDE DEF o, cause, ok
    <3>1. Over(o, ok).phase = "end" /\ Over(o, ok).ok = ok
          /\ Over(o, ok).hard = o.hard
      BY <2>2, OverTyped
    <3> QED
      BY <2>1, <2>2, <3>1
  <2> QED
    BY <2>3, EndEarns
<1>8. CASE ~op.shaking /\ op.stage # "call" /\ Served(Foremost.kind, Remains)
  <2>0. op.sent # 1
    BY <1>1, <1>8
  <2>1. CASE /\ op' = [op EXCEPT !.id = 0, !.pages = @ + 1, !.phase = "prepare"]
             /\ proc' = Remains
    <3>1. /\ op'.phase = "prepare" /\ op'.at = op.at /\ op'.tries = op.tries
          /\ op'.inits = op.inits /\ op'.blows = op.blows /\ op'.lost = op.lost
      BY <1>1, <2>1 DEF CallSet
    <3> QED
      BY <1>5, <2>1, <3>1
  <2>2. CASE NextServer(op)
    BY <1>1, <2>0, <2>2, NextServerEarns DEF TypeInd, RestInv
  <2>4. CASE Fails(Hard(op, TRUE), IF Foremost.kind = "error" THEN "rpc" ELSE "invalid", Remains)
    BY <1>4, <2>4
  <2> QED
    BY <1>8, <2>1, <2>2, <2>4 DEF Served
<1>9. CASE /\ Foremost.kind = "bad" \/ Foremost.id # op.id
           /\ Fails(Hard(op, Foremost.kind \in {"bad", "ask"}), "invalid", Remains)
           /\ mixed' = mixed
  <2>1. Foremost.kind \in {"bad", "ask"} \/ mixed
    <3> SUFFICES ASSUME ~mixed, Foremost.kind # "ask" PROVE Foremost.id = op.id
      BY <1>9
    <3>1. PipeOk(proc[op.at], {op.id})
      BY <1>1 DEF PipesInv, Current
    <3>2. 1 \in DOMAIN proc[op.at].pipe /\ Foremost = proc[op.at].pipe[1]
      <4>1. proc[op.at].pipe \in Seq(FrameSet)
        BY <1>1 DEF TypeInd, ProcInv, ProcSet
      <4> QED
        BY <1>1, <4>1 DEF Foremost
    <3> QED
      BY <3>1, <3>2 DEF PipeOk
  <2> QED
    BY <1>4, <1>9, <2>1
<1> QED
  BY <1>6, <1>7, <1>8, <1>9, ReceiveCases

\* A breakdown is noted, or the loss of a pipe for the first time.
LEMMA BlowPays ==
  ASSUME NEW o \in CallSet, Paid(o, 0)
  PROVE  Paid(Blow(o, 1), 1)
<1>1. /\ Blow(o, 1).tries = o.tries /\ Blow(o, 1).inits = o.inits /\ Blow(o, 1).lost = o.lost
      /\ Blow(o, 1).blows = IF o.blows + 1 < 2 THEN o.blows + 1 ELSE 2
  BY BlowFields
<1>2. Losses(Blow(o, 1)) = IF o.lost THEN Blow(o, 1).blows + 1 ELSE Blow(o, 1).blows
  BY <1>1 DEF Losses, CallSet
<1> QED
  BY <1>1, <1>2, LossesTyped DEF Paid

LEMMA StrandPays ==
  ASSUME NEW o \in CallSet, Paid(o, 0), Paid(o, 1) \/ (proc[o.at].home = "gone" /\ ~o.lost)
  PROVE  Paid(Strand(o), 1)
<1>1. /\ Strand(o).tries = o.tries /\ Strand(o).inits = o.inits /\ Strand(o).blows = o.blows
      /\ Strand(o).lost = (o.lost \/ proc[o.at].home = "gone")
  <2>1. /\ Strand(o).tries = o.tries /\ Strand(o).inits = o.inits
        /\ Strand(o).blows = o.blows
    BY StrandFields
  <2> QED
    BY <2>1, StrandRaised
<1>2. Losses(Strand(o)) = IF o.lost \/ proc[o.at].home = "gone" THEN o.blows + 1 ELSE o.blows
  BY <1>1, LossesTyped DEF Losses
<1> QED
  BY <1>1, <1>2, LossesTyped DEF Paid

\* A breakdown or a lost pipe ends in an error that is tried again.
LEMMA BrokenEarns ==
  ASSUME TypeInd, HomeInv, op.phase \in Busy, NEW o \in CallSet, o.path = op.path,
         o.stage = op.stage, o.at = op.at, o.lost = op.lost,
         o.sent = 1 => o.stage = "call" /\ ~o.shaking, Paid(o, 0),
         NEW q, NEW e,
         \/ q = Strand(o) /\ e = "transport" /\ (proc[op.at].home = "gone" \/ Paid(o, 1))
         \/ q = Blow(o, 1) /\ e = "timeout",
         Fails(q, e, proc), spoiled' = spoiled
  PROVE  EarnInv'
<1>1. /\ op.at \in Servers /\ o.path # "none" /\ (o.path = "start" => o.stage = "discover")
      /\ routes \in SUBSET Servers /\ Retryable(e) /\ PsOk(proc)
      /\ op.lost => op.at \notin spoiled
  BY SamePs DEF TypeInd, CallOk, CallSet, RestInv, Busy, Retryable, HomeInv, LostInv
<1>2. proc[op.at].home = "gone" => op.at \notin spoiled /\ ~op.lost
  BY GoneIsNew
<1>3. /\ q \in CallSet /\ q.path = o.path /\ q.stage = o.stage /\ q.at = o.at
      /\ q.sent = o.sent /\ q.shaking = o.shaking /\ Paid(q, 1)
      /\ q.lost => op.at \notin spoiled
  <2>1. CASE q = Strand(o) /\ (proc[op.at].home = "gone" \/ Paid(o, 1))
    <3>1. /\ q \in CallSet /\ q.path = o.path /\ q.stage = o.stage /\ q.at = o.at
          /\ q.sent = o.sent /\ q.shaking = o.shaking
      BY <2>1, StrandFields
    <3>2. q.lost = (o.lost \/ proc[o.at].home = "gone")
      BY <2>1, StrandRaised
    <3>3. Paid(q, 1)
      BY <1>2, <2>1, StrandPays
    <3> QED
      BY <1>1, <1>2, <3>1, <3>2, <3>3
  <2>2. CASE q = Blow(o, 1)
    <3>1. /\ q \in CallSet /\ q.path = o.path /\ q.stage = o.stage /\ q.at = o.at
          /\ q.sent = o.sent /\ q.shaking = o.shaking /\ q.lost = o.lost
      BY <2>2, BlowFields
    <3> QED
      BY <1>1, <2>2, <3>1, BlowPays
  <2> QED
    BY <2>1, <2>2
<1> QED
  BY <1>1, <1>3, FailsEarn

LEMMA RequestEarns ==
  ASSUME TypeInd, HomeInv, EarnInv, op.phase = "prepare", proc[op.at].state # "none",
         NEW o \in CallSet, o.at = op.at, o.path = op.path, o.stage = op.stage,
         o.tries = op.tries, o.inits = op.inits, o.blows = op.blows, o.lost = op.lost,
         o.sent = 1 => o.stage = "call" /\ ~o.shaking, Request(o)
  PROVE  EarnInv'
<1>1. /\ Paid(op, 0) /\ (Bereft => Paid(op, 1)) /\ op.path # "none" /\ op.at \in Servers
      /\ op.phase \in Busy /\ spoiled' = spoiled
  BY EarnInvBy DEF TypeInd, CallOk, CallSet, EarnInv, Busy, Request, past
<1>2. Paid(o, 0) /\ (proc[op.at].state = "dead" => Paid(o, 1))
  <2>1. Losses(o) = Losses(op)
    BY DEF Losses
  <2> QED
    BY <1>1, <2>1 DEF Paid, Bereft
<1>3. CASE Writable(o.at)
  <2>1. /\ proc' = [proc EXCEPT ![o.at].owes = @ \cup {FreshId}]
        /\ op' = [o EXCEPT !.id = FreshId, !.phase = "wait"]
    BY <1>3 DEF Request
  <2>2. /\ op'.phase = "wait" /\ op'.at = o.at /\ op'.tries = o.tries
        /\ op'.inits = o.inits /\ op'.blows = o.blows /\ op'.lost = o.lost
    BY <2>1 DEF CallSet
  <2>3. proc'[op.at].state = "up"
    BY <1>1, <1>3, <2>1 DEF Writable, TypeInd, ProcInv, ProcSet
  <2>4. ~Bereft'
    BY <2>2, <2>3 DEF Bereft
  <2> QED
    BY <1>2, <2>2, <2>4, GoesOnEarns
<1>4. CASE ~Writable(o.at)
  <2>1. Fails(Strand(o), "transport", proc)
    BY <1>4 DEF Request
  <2>2. proc[op.at].home = "gone" \/ proc[op.at].state = "dead"
    BY <1>1, <1>4 DEF Writable, TypeInd, ProcInv, ProcSet
  <2> QED
    BY <1>1, <1>2, <2>1, <2>2, BrokenEarns
<1> QED
  BY <1>3, <1>4

\* The manager's other steps within a call.
LEMMA ManageEarns ==
  ASSUME TypeInd, HomeInv, EarnInv, Check \/ Spawn \/ Shake \/ Send \/ HangUp \/ Timeout
  PROVE  EarnInv'
<1>1. /\ op \in CallSet /\ op.at \in Servers /\ op.path # "none"
      /\ op.sent = 1 => op.stage = "call" /\ ~op.shaking /\ op.phase \in {"wait", "end"}
      /\ op.path = "start" => op.stage = "discover"
      /\ op.phase \in Busy /\ op.phase # "end"
      /\ op.lost => op.at \notin spoiled
  BY DEF TypeInd, CallOk, CallSet, Check, Spawn, Shake, Send, HangUp, Timeout, Busy,
     HomeInv, LostInv
<1>1a. spoiled' = spoiled
  BY DEF Check, Spawn, Shake, Send, Request, HangUp, Timeout, past
<1>2. Paid(op, 0) /\ (Bereft => Paid(op, 1))
  BY <1>1, EarnInvBy DEF TypeInd, EarnInv
<1>3. CASE Check
  <2>1. /\ op' = [op EXCEPT !.phase = "prepare"]
        /\ IF proc[op.at].state = "dead" THEN Reset(proc, op.at) ELSE proc' = proc
    BY <1>3 DEF Check
  <2>2. /\ op'.phase = "prepare" /\ op'.at = op.at /\ op'.tries = op.tries
        /\ op'.inits = op.inits /\ op'.blows = op.blows /\ op'.lost = op.lost
    BY <1>1, <2>1 DEF CallSet
  <2>3. proc'[op.at].state # "dead"
    BY <1>1, <2>1, NoProcOk DEF Reset, TypeInd, ProcInv
  <2>4. ~Bereft'
    BY <2>2, <2>3 DEF Bereft
  <2> QED
    BY <1>1, <1>2, <2>2, <2>4, GoesOnEarns
<1>4. CASE Spawn
  <2>1. CASE op.at \in broken
    <3>1. Fails(Hard(op, TRUE), "io", proc)
      BY <1>4, <2>1 DEF Spawn
    <3>2. /\ Hard(op, TRUE) \in CallSet
          /\ Hard(op, TRUE).path = op.path /\ Hard(op, TRUE).stage = op.stage
          /\ Hard(op, TRUE).sent = op.sent /\ Hard(op, TRUE).shaking = op.shaking
          /\ Hard(op, TRUE).at = op.at /\ Hard(op, TRUE).lost = op.lost
      BY <1>1, HardFields
    <3>2a. Hard(op, TRUE).hard
      BY <1>1, HardRaised
    <3>3. ~Retryable("io") /\ PsOk(proc) /\ routes \in SUBSET Servers
      BY SamePs DEF Retryable, TypeInd, RestInv
    <3> QED
      BY <1>1, <1>1a, <3>1, <3>2, <3>2a, <3>3, FailsEarn
  <2>2. CASE op.at \notin broken
    <3>1. /\ op' = op /\ mixed' = mixed /\ poisoned' = poisoned
          /\ proc' = [proc EXCEPT ![op.at] = NewProc(IF op.path = "bridge" THEN "call" ELSE "own")]
      BY <1>4, <2>2 DEF Spawn, past
    <3>2. proc'[op.at].state = "up"
      BY <1>1, <3>1 DEF NewProc, NoProc, TypeInd, ProcInv
    <3>3. ~Bereft'
      BY <3>1, <3>2 DEF Bereft
    <3>4. op'.phase # "end" /\ op'.blows = op.blows /\ op'.lost = op.lost
          /\ op'.tries = op.tries /\ op'.inits = op.inits
      BY <1>1, <3>1
    <3> QED
      BY <1>1, <1>2, <3>3, <3>4, GoesOnEarns
  <2> QED
    BY <2>1, <2>2
<1>5. CASE Shake
  <2> DEFINE o == [op EXCEPT !.shaking = TRUE]
  <2>1. /\ o \in CallSet /\ o.path = op.path /\ o.stage = op.stage /\ o.sent = op.sent
        /\ o.at = op.at /\ o.tries = op.tries /\ o.inits = op.inits /\ o.blows = op.blows
        /\ o.lost = op.lost
    BY <1>1 DEF CallSet
  <2>2. Request(o) /\ op.phase = "prepare" /\ proc[op.at].state # "none"
    BY <1>5 DEF Shake
  <2> HIDE DEF o
  <2> QED
    BY <1>1, <2>1, <2>2, RequestEarns
<1>6. CASE Send
  <2> DEFINE n == IF op.stage = "call" THEN op.sent + 1 ELSE op.sent
             o == [op EXCEPT !.shaking = FALSE, !.sent = n]
  <2>1. Request(o) /\ op.sent = 0 /\ op.phase = "prepare" /\ proc[op.at].state # "none"
    BY <1>1, <1>6 DEF Send, CallSet
  <2>2. n \in {0, 1} /\ (n = 1 => op.stage = "call")
    BY <2>1
  <2>3. /\ o \in CallSet /\ o.path = op.path /\ o.stage = op.stage /\ o.sent = n
        /\ ~o.shaking /\ o.at = op.at /\ o.tries = op.tries /\ o.inits = op.inits
        /\ o.blows = op.blows /\ o.lost = op.lost
    <3> HIDE DEF n
    <3> QED
      BY <1>1, <2>2 DEF CallSet
  <2> HIDE DEF n, o
  <2> QED
    BY <2>1, <2>2, <2>3, RequestEarns
<1>7. CASE HangUp
  <2>1. op.phase = "wait" /\ HungUp(op.at) /\ Fails(Strand(op), "transport", proc)
    BY <1>7 DEF HangUp
  <2>2. proc[op.at].home = "gone" \/ Bereft
    BY <2>1 DEF HungUp, Bereft
  <2> QED
    BY <1>1, <1>1a, <1>2, <2>1, <2>2, BrokenEarns
<1>8. CASE Timeout
  <2>1. Fails(Blow(op, 1), "timeout", proc)
    BY <1>8 DEF Timeout
  <2> QED
    BY <1>1, <1>1a, <1>2, <2>1, BrokenEarns
<1> QED
  BY <1>3, <1>4, <1>5, <1>6, <1>7, <1>8

\* The start and the end of a call.
LEMMA CallStepsEarn ==
  ASSUME TypeInd, EarnInv, NEW s \in Servers, Bridge(s) \/ Session \/ Return
  PROVE  EarnInv'
<1>1. 1 \in Servers
  BY BoundsAssumption DEF BoundsAssumption, Servers
<1>2. ASSUME NEW o \in CallSet, o.path # "none", o.path # "start", o.sent # 1,
             NEW t \in Servers, NEW st \in {"discover", "call"},
             op' = Turned(o, st, t)
      PROVE  EarnInv'
  <2>1. CallOk(op')
    BY <1>2, TurnedOk
  <2>2. op'.phase = "check" /\ op'.tries = 0 /\ op'.inits = 0
    BY <1>2 DEF Turned, CallSet
  <2> QED
    BY <2>1, <2>2, StartEarns DEF CallOk
<1>3. CASE Bridge(s)
  <2> DEFINE o == [NoCall EXCEPT !.path = "bridge", !.target = s]
  <2>1. o \in CallSet /\ o.path = "bridge" /\ o.sent # 1
    BY NewCall
  <2>2. \/ op' = Turned(o, "call", s)
        \/ op' = Turned(o, "discover", 1)
        \/ op' = Over(o, FALSE) /\ poisoned' = TRUE
    <3>1. poisoned' = poisoned /\ poisoned \in BOOLEAN
      BY <1>3 DEF Bridge, TypeInd, RestInv
    <3> QED
      BY <1>3, <3>1 DEF Bridge
  <2> HIDE DEF o
  <2>3. CASE op' = Over(o, FALSE) /\ poisoned' = TRUE
    <3>1. Over(o, FALSE).phase = "end"
      BY <2>1, OverTyped
    <3> QED
      BY <2>3, <3>1, EndEarns
  <2> QED
    BY <1>1, <1>2, <2>1, <2>2, <2>3
<1>4. CASE Session
  <2>1. /\ op' = op /\ proc' = proc /\ mixed' = mixed /\ spoiled' = spoiled
        /\ poisoned' = TRUE
    BY <1>4 DEF Session, past
  <2>2. Bereft' => Bereft
    BY <2>1 DEF Bereft
  <2> QED
    BY <2>1, <2>2, SameCallEarns
<1>5. CASE Return
  <2>1. op' = NoCall
    BY <1>5 DEF Return
  <2>2. CallOk(op')
    BY <2>1, NoCallOk
  <2>3. op'.phase = "none" /\ op'.tries = 0 /\ op'.inits = 0
    BY <2>1 DEF NoCall
  <2> QED
    BY <2>2, <2>3, StartEarns DEF CallOk
<1> QED
  BY <1>3, <1>4, <1>5

\* What the servers and the session do by themselves: a death is noted by the call
\* that it takes the process from.
LEMMA OthersEarn ==
  ASSUME TypeInd, EarnInv,
         \/ \E s \in Servers : (\E kind \in Replies : Answer(s, kind)) \/ Ask(s) \/ Dies(s)
         \/ Replace \/ Dropped
  PROVE  EarnInv'
<1>1. op \in CallSet /\ op.at \in Servers
  BY DEF TypeInd, CallOk, CallSet
<1>1a. UNCHANGED <<mixed, spoiled, poisoned>>
  BY DEF Answer, Ask, Dies, Replace, Dropped, past
<1>2. ASSUME op' = op, \A t \in Servers : proc'[t].state = proc[t].state
      PROVE  EarnInv'
  <2>1. Bereft' => Bereft
    BY <1>1, <1>2 DEF Bereft
  <2> QED
    BY <1>1, <1>1a, <1>2, <2>1, SameCallEarns
<1>3. ASSUME NEW s \in Servers, NEW kind \in Replies, Answer(s, kind) PROVE EarnInv'
  <2>1. op' = op
    BY <1>3 DEF Answer
  <2>2. PICK id \in proc[s].owes :
           proc' = [proc EXCEPT ![s].owes = @ \ {id}, ![s].pipe = Append(@, Frame(kind, id))]
    BY <1>3 DEF Answer
  <2>3. \A t \in Servers : proc'[t].state = proc[t].state
    BY <2>2 DEF TypeInd, ProcInv, ProcSet
  <2> QED
    BY <1>2, <2>1, <2>3
<1>4. ASSUME NEW s \in Servers, Ask(s) PROVE EarnInv'
  <2>1. op' = op
    BY <1>4 DEF Ask
  <2>2. PICK id : proc' = [proc EXCEPT ![s].pipe = Append(@, Frame("ask", id))]
    BY <1>4 DEF Ask
  <2>3. \A t \in Servers : proc'[t].state = proc[t].state
    BY <2>2 DEF TypeInd, ProcInv, ProcSet
  <2> QED
    BY <1>2, <2>1, <2>3
<1>5. ASSUME NEW s \in Servers, Dies(s) PROVE EarnInv'
  <2>1. /\ proc[s].state = "up" /\ proc' = [proc EXCEPT ![s].state = "dead", ![s].owes = {}]
        /\ op' = IF op.at = s /\ op.phase \in {"prepare", "wait"} THEN Blow(op, 1) ELSE op
    BY <1>5 DEF Dies
  <2>2. CASE op.at = s /\ op.phase \in {"prepare", "wait"}
    <3>1. op' = Blow(op, 1) /\ Paid(op, 0)
      BY <2>1, <2>2, EarnInvBy DEF TypeInd, EarnInv
    <3>2. Blow(op, 1) \in CallSet /\ Blow(op, 1).phase = op.phase
      BY <1>1, BlowFields
    <3>3. Paid(Blow(op, 1), 1)
      BY <1>1, <3>1, BlowPays
    <3>4. Paid(Blow(op, 1), 0)
      BY <3>2, <3>3, LossesTyped DEF Paid
    <3> HIDE DEF EarnInv
    <3>5. op'.phase # "end"
      BY <2>2, <3>1, <3>2
    <3> QED
      BY <3>1, <3>2, <3>3, <3>4, <3>5, GoesOnEarns
  <2>3. CASE ~(op.at = s /\ op.phase \in {"prepare", "wait"})
    <3>1. op' = op /\ (op.at # s => proc'[op.at] = proc[op.at])
      BY <1>1, <2>1, <2>3 DEF TypeInd, ProcInv
    <3>2. Bereft' => Bereft
      BY <2>3, <3>1 DEF Bereft
    <3>3. proc[op.at].state = "none" => proc'[op.at].state = "none"
      BY <1>1, <2>1 DEF TypeInd, ProcInv
    <3> QED
      BY <1>1a, <3>1, <3>2, <3>3, SameCallEarns
  <2> QED
    BY <2>2, <2>3
<1>6. CASE Replace
  <2>1. op' = op /\ op.phase = "none"
    BY <1>6 DEF Replace, TypeInd, CallOk
  <2>2. Bereft' => Bereft
    BY <2>1 DEF Bereft
  <2> QED
    BY <1>1a, <2>1, <2>2, SameCallEarns
<1>7. CASE Dropped
  <2>1. op' = op /\ proc' = Orphaned("own")
    BY <1>7 DEF Dropped
  <2>2. \A t \in Servers : proc'[t].state = proc[t].state
    BY <2>1 DEF Orphaned, TypeInd, ProcInv, ProcSet
  <2> QED
    BY <1>2, <2>1, <2>2
<1> QED
  BY <1>3, <1>4, <1>5, <1>6, <1>7

\* Every failure of a call has its cause: an answer of the server that is an error, cannot
\* be read or is its own request; as many breakdowns as the call is tried; the mutex a
\* session's panic has poisoned; or a pipe lost with the runtime of an earlier call, which
\* two tool calls to a server never meet one after the other.
THEOREM FailuresEarned == Spec => []FailuresAreEarned
<1>1. Init => EarnInv
  <2> SUFFICES ASSUME Init PROVE EarnInv
    OBVIOUS
  <2>1. op.phase = "check" /\ op.tries = 0 /\ op.inits = 0 /\ op.blows = 0 /\ op.lost = FALSE
    BY DEF Init, Turned, NoCall
  <2> QED
    BY <2>1 DEF EarnInv, BlowInv, Due, Losses, FailuresAreEarned
<1>2. TypeInd /\ PipesInv /\ HomeInv /\ EarnInv /\ [Next]_vars => EarnInv'
  <2> SUFFICES ASSUME TypeInd, PipesInv, HomeInv, EarnInv, [Next]_vars PROVE EarnInv'
    OBVIOUS
  <2>0. 1 \in Servers
    BY BoundsAssumption DEF BoundsAssumption, Servers
  <2>1. CASE UNCHANGED vars
    <3>1. UNCHANGED <<op, mixed, poisoned, spoiled, proc>>
      BY <2>1 DEF vars, past
    <3>2. Bereft' => Bereft
      BY <3>1 DEF Bereft
    <3> QED
      BY <3>1, <3>2, SameCallEarns
  <2>2. CASE Manage
    BY <2>0, <2>2, ManageEarns, ReceiveEarns, CallStepsEarn DEF Manage
  <2>3. CASE Session \/ \E s \in Servers : Bridge(s)
    BY <2>0, <2>3, CallStepsEarn
  <2>4. CASE \/ \E s \in Servers : (\E kind \in Replies : Answer(s, kind)) \/ Ask(s) \/ Dies(s)
             \/ Replace \/ Dropped
    BY <2>4, OthersEarn
  <2> QED
    BY <2>1, <2>2, <2>3, <2>4 DEF Next
<1>3. EarnInv => FailuresAreEarned
  BY DEF EarnInv
<1> QED
  BY <1>1, <1>2, <1>3, TypeIndHolds, PipesHold, HomeHolds, PTL DEF Spec
=============================================================================
