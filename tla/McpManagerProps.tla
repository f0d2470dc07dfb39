---------------------------- MODULE McpManagerProps ----------------------------
(***************************************************************************)
(* What those who call MCP servers may rely on.                            *)
(***************************************************************************)
EXTENDS McpManager

Homes == {"none", "own", "call", "gone"}
Phases == {"none", "check", "prepare", "wait", "end"}

\* No server is marked as initialized without a process, no call is in two
\* phases, and a process always has a runtime it was started on.
TypeOK ==
    /\ own \in {"up", "retired", "down"} /\ {poisoned, mixed} \subseteq BOOLEAN
    /\ \A s \in Servers :
          /\ proc[s].state \in {"none", "up", "dead"} /\ proc[s].home \in Homes
          /\ proc[s].owes \subseteq Nat
          /\ proc[s].state = "none" <=> proc[s].home = "none"
    /\ ready \in [Servers -> BOOLEAN]
    /\ \A s \in Servers : ready[s] => proc[s].state # "none"
    /\ {routes, listed, spoiled} \subseteq SUBSET Servers /\ discovered \in BOOLEAN
    /\ op.phase \in Phases /\ op.at \in Servers
    /\ op.phase = "none" <=> op.path = "none"

Answers(s) == {f \in ToSet(proc[s].pipe) : f.kind # "ask"}

\* Between two calls no pipe holds an answer and no server owes one, and while a
\* call waits it is the answer to its own request: what a call gives up on, by
\* its timeout or an error at any point of handshake, discovery or call, never
\* reaches the next one (reset_server after the errors of should_reset_server).
\* The exception is a request of the server's own that passed for the answer.
OnlyCurrentAnswers ==
    mixed \/ \A s \in Servers :
        proc[s].owes \cup {f.id : f \in Answers(s)} \subseteq
            IF op.phase = "wait" /\ op.at = s THEN {op.id} ELSE {}

\* The failures a call may meet at a server before it gives up: the handshake and a
\* discovery are tried again, a tool call is not.
Chances(o) == IF o.stage = "call" /\ ~o.shaking THEN 1 ELSE 2

\* A call fails for one of four reasons.  The server answered with an error or with
\* what cannot be read, or took a request of its own for the answer.  The server
\* broke down or timed out as often as it is given a chance; a process that has died
\* before the call or was left in half a handshake does not count, it is repaired
\* (ensure_server_ready).  A session's panic has poisoned the mutex.  Or the server
\* is well and its pipe was lost with the runtime of an earlier call: that process is
\* killed, and no two tool calls to one server in a row fail for it, so the bridge is
\* never cut off from a server that is well.
FailuresAreEarned ==
    op.phase = "end" /\ ~op.ok =>
        \/ op.hard \/ mixed
        \/ op.blows >= Chances(op)
        \/ poisoned
        \/ /\ op.lost /\ op.blows + 1 >= Chances(op)
           /\ proc[op.at].state = "none" /\ op.at \notin spoiled

\* A tool may change the world: tools/call is sent once at most per call,
\* however often the server is restarted for it (call_tool has no retry loop,
\* ensure_server_ready and the discovery before it have).
CalledOnce == op.sent <= 1

\* The discovery of a new session and every call through the bridge return and give
\* the manager's mutex back, although servers may die, fall silent or go on answering
\* wrongly at every attempt, and although a session's call has panicked with the
\* mutex in hand.  That call itself does not return (Session).
CallsReturn == op.path # "none" ~> op.path = "none"

-----------------------------------------------------------------------------
(* The inductive strengthenings.                                           *)

FrameSet == [kind : Replies \cup {"ask"}, id : Nat]
ProcSet == [state : {"none", "up", "dead"}, home : Homes, owes : SUBSET Nat,
            pipe : Seq(FrameSet)]
CallSet == [path : {"none", "start", "bridge"},
            stage : {"none", "discover", "call"},
            at : Servers, target : Servers, phase : Phases, shaking : BOOLEAN,
            tries : {0, 1}, inits : {0, 1}, pages : Nat, id : Nat, sent : {0, 1},
            blows : {0, 1, 2}, lost : BOOLEAN, hard : BOOLEAN, ok : BOOLEAN]

\* Of TypeOK: a server without a process has an empty one, so what is read from
\* a pipe comes from a process, and the ids in use are finitely many, so that a
\* request finds a fresh one.
ProcInv ==
    /\ proc \in [Servers -> ProcSet] /\ IsFiniteSet(UsedIds)
    /\ \A s \in Servers : /\ proc[s].state = "none" => proc[s] = NoProc
                          /\ proc[s].home = "none" => proc[s].state = "none"
    /\ ready \in [Servers -> BOOLEAN]
    /\ \A s \in Servers : ready[s] => proc[s].state # "none"

\* Of CalledOnce: a call that has sent its request waits for the answer, not for
\* that of a handshake, or is over.
CallOk(o) ==
    /\ o \in CallSet
    /\ o.phase = "none" <=> o.path = "none"
    /\ o.path = "start" => o.stage = "discover"
    /\ o.sent = 1 => o.stage = "call" /\ ~o.shaking /\ o.phase \in {"wait", "end"}

RestInv ==
    /\ own \in {"up", "retired", "down"}
    /\ {routes, listed, spoiled} \subseteq SUBSET Servers /\ discovered \in BOOLEAN
    /\ {poisoned, mixed} \subseteq BOOLEAN

\* Of OnlyCurrentAnswers: a request is owed or answered, not both, and answered
\* once; so with the answer read, nothing is left behind.
Current(s) == IF op.phase = "wait" /\ op.at = s THEN {op.id} ELSE {}

PipeOk(p, current) ==
    LET answered == {i \in DOMAIN p.pipe : p.pipe[i].kind # "ask"} IN
    /\ p.owes \subseteq current
    /\ \A i \in answered : p.pipe[i].id \in current /\ p.owes = {}
    /\ \A i, j \in answered : i = j

PipesInv == mixed \/ \A s \in Servers : PipeOk(proc[s], Current(s))

\* Of FailuresAreEarned: every restart of a call was paid with a breakdown or the one
\* lost pipe, and the death of the process it uses is one more.
Due == op.tries + op.inits
         + IF op.phase \in {"prepare", "wait"} /\ proc[op.at].state = "dead" THEN 1 ELSE 0

Losses(o) == o.blows + IF o.lost THEN 1 ELSE 0

BlowInv == op.phase # "end" => Losses(op) >= Due \/ op.blows = 2

\* A tool call comes after a discovery, which is not repeated.
StageInv ==
    /\ op.phase \in {"check", "prepare", "wait"} => op.stage # "none"
    /\ op.stage = "discover" => ~discovered
    /\ op.stage = "call" => discovered /\ op.path = "bridge"

\* A pipe is lost once per visit to a server: from then on the server has no process
\* or one on the runtime of the call.  The discovery of a session loses none.
LostInv ==
    /\ op.path = "start" => own = "up" /\ \A s \in Servers : proc[s].home # "gone"
    /\ op.lost => /\ op.path = "bridge" /\ op.at \notin spoiled
                  /\ proc[op.at].home \in {"none", "call"}

\* A server whose last tool call was lost with its process has none until the next
\* tool call starts it.
SpoiledInv ==
    \A s \in spoiled :
        /\ discovered
        /\ \/ proc[s].home = "none"
           \/ op.stage = "call" /\ op.at = s /\ proc[s].home = "call"

McpInv ==
    /\ ProcInv /\ CallOk(op) /\ RestInv
    /\ PipesInv
    /\ BlowInv /\ StageInv /\ LostInv /\ SpoiledInv /\ FailuresAreEarned
=============================================================================
