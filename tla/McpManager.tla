------------------------------ MODULE McpManager ------------------------------
(***************************************************************************)
(* The manager of stdio MCP servers (runtime/src/mcp_stdio.rs) and the two *)
(* ways to it.  The bridge of the base tool MCP                            *)
(* (runtime/src/mcp_tool_bridge.rs) runs every call on a thread with a     *)
(* runtime of its own; it keeps the first manager it was given, so the     *)
(* session that made it may be replaced under it.  The tools of a session  *)
(* (rusty-claude-cli/src/plugin_state.rs) call block_on inside the runtime *)
(* of the turn and panic with the manager in hand.                         *)
(*                                                                         *)
(* A mutex admits one call at a time.  What runs beside it are the server  *)
(* processes: they answer, answer late, die, or send requests of their own *)
(* at any time.  Notifications are skipped and left out.                   *)
(***************************************************************************)
EXTENDS Naturals, Sequences, SequencesExt, FiniteSetsExt

CONSTANTS
    NumServers,  \* configured stdio servers, numbered in the order of their names
    MaxCalls,    \* bound: calls after the first discovery
    MaxFaults,   \* bound: wrong answers, requests of servers, deaths, failed kills
    MaxPages     \* bound: pages a server gives before the last one

Servers == 1..NumServers

ASSUME BoundsAssumption ==
    /\ NumServers \in Nat \ {0}
    /\ {MaxCalls, MaxFaults, MaxPages} \subseteq Nat

VARIABLES
    own,         \* the runtime the manager was made on: up, retired, down
    broken,      \* servers whose command cannot be started
    proc,        \* the process of each server, and both ends of its pipes
    ready,       \* ManagedMcpServer::initialized
    routes,      \* servers with tools in tool_index
    listed,      \* servers the registry of the bridge shows as Connected
    discovered,  \* the flag of the bridge
    poisoned,    \* the manager's mutex: a panic has let go of it
    op,          \* the call under way
    mixed,       \* history: a server's own request passed for the answer to a call
    spoiled,     \* history: servers whose last tool call was lost with their process
    calls, faults

table == <<routes, listed, discovered>>
past == <<mixed, spoiled>>
vars == <<own, broken, proc, ready, table, poisoned, op, past, calls, faults>>

-----------------------------------------------------------------------------
(* Processes.  A pipe belongs to the runtime its process was started on,   *)
(* and fails for good when that runtime is gone.                           *)

NoProc == [state |-> "none", home |-> "none", owes |-> {}, pipe |-> <<>>]
NewProc(home) == [NoProc EXCEPT !.state = "up", !.home = home]

Frame(kind, id) == [kind |-> kind, id |-> id]

\* The request ids a process knows, and those any process knows.
Ids(p) == p.owes \cup {f.id : f \in ToSet(p.pipe)}
UsedIds == UNION {Ids(proc[s]) : s \in Servers}

Writable(s) == proc[s].state = "up" /\ proc[s].home # "gone"
HungUp(s) == proc[s].home = "gone" \/ (proc[s].state = "dead" /\ proc[s].pipe = <<>>)

\* A runtime ends, and takes the pipes registered with it along.
Orphaned(home) ==
    [s \in Servers |->
        IF proc[s].home = home THEN [proc[s] EXCEPT !.home = "gone"] ELSE proc[s]]

\* Operators named Mut_... are plausible bugs the checks are tried on; no
\* action of the specification uses one.
Mut_ResetKeepsFlag(ps, s) == proc' = [ps EXCEPT ![s] = NoProc] /\ UNCHANGED ready

\* reset_server, on the processes ps: the process is killed, whatever the kill
\* returns.
Reset(ps, s) == /\ proc' = [ps EXCEPT ![s] = NoProc]
                /\ ready' = [ready EXCEPT ![s] = FALSE]

-----------------------------------------------------------------------------
(* Calls.  tries counts the restarts of a discovery, inits those of the    *)
(* handshake inside it.                                                    *)

NoCall == [path |-> "none", stage |-> "none", at |-> 1, target |-> 1, phase |-> "none",
           shaking |-> FALSE, tries |-> 0, inits |-> 0, pages |-> 0, id |-> 0,
           sent |-> 0, blows |-> 0, lost |-> FALSE, hard |-> FALSE, ok |-> TRUE]

\* The call turns to server s, from the first step of ensure_server_ready.
Turned(o, stage, s) ==
    [o EXCEPT !.stage = stage, !.at = s, !.phase = "check", !.shaking = FALSE, !.id = 0,
              !.tries = 0, !.inits = 0, !.pages = 0, !.blows = 0, !.lost = FALSE,
              !.hard = FALSE]
Over(o, ok) == [o EXCEPT !.id = 0, !.phase = "end", !.ok = ok]

Init ==
    /\ own = "up"
    /\ broken \in SUBSET Servers
    /\ proc = [s \in Servers |-> NoProc] /\ ready = [s \in Servers |-> FALSE]
    /\ routes = {} /\ listed = {} /\ discovered = FALSE
    /\ poisoned = FALSE
    /\ op = Turned([NoCall EXCEPT !.path = "start"], "discover", 1)
    /\ mixed = FALSE /\ spoiled = {}
    /\ calls = 0 /\ faults = 0

Fault == faults < MaxFaults /\ faults' = faults + 1

\* A tool call through the bridge discovers first, until a discovery succeeds.  It
\* does not take a poisoned mutex.
Bridge(s) ==
    /\ op.path = "none" /\ calls < MaxCalls /\ s \in listed
    /\ op' = LET o == [NoCall EXCEPT !.path = "bridge", !.target = s] IN
             IF poisoned THEN Over(o, FALSE)
             ELSE IF discovered THEN Turned(o, "call", s)
             ELSE Turned(o, "discover", 1)
    /\ calls' = calls + 1
    /\ UNCHANGED <<own, broken, proc, ready, table, poisoned, past, faults>>

\* A tool call or a read of resources by the session, or by a turn that still has
\* its tools: the mutex is taken, poisoned or not, and block_on panics before
\* anything is sent.  The terminal interface catches the panic and goes on; what is
\* left is the poison.
Session ==
    /\ op.path = "none" /\ calls < MaxCalls /\ own # "down"
    /\ poisoned' = TRUE
    /\ calls' = calls + 1
    /\ UNCHANGED <<own, broken, proc, ready, table, op, past, faults>>

\* The next server of a discovery; the bridge goes on to its tool call.
NextServer(o) ==
    IF o.at < NumServers THEN op' = Turned(o, "discover", o.at + 1) /\ UNCHANGED discovered
    ELSE IF o.path = "bridge" THEN op' = Turned(o, "call", o.target) /\ discovered' = TRUE
    ELSE op' = Over(o, TRUE) /\ UNCHANGED discovered

\* is_retryable_error and should_reset_server; io is an error of spawning, rpc one
\* the server answers with.
Retryable(e) == e \in {"transport", "timeout"}

Mut_ResetsUnlessTimeout(e) == e \in {"transport", "invalid"}
Mut_ResetsUnlessTransport(e) == e \in {"timeout", "invalid"}
Resets(e) == Retryable(e) \/ e = "invalid"

\* The handshake is tried twice, and so is a whole discovery, but not a tool call.
Mut_ReshakesAlways(o, e) == Retryable(e) /\ o.shaking
Reshakes(o, e) == Retryable(e) /\ o.shaking /\ o.inits = 0

Mut_RestartsCallsToo(o, e) == Retryable(e) /\ o.tries = 0
Restarts(o, e) == Retryable(e) /\ o.stage # "call" /\ o.tries = 0

\* The discovery at startup notes the server that failed and goes on, that of
\* the bridge ends with its error.
GiveUp(o) ==
    IF o.path = "start"
    THEN routes' = routes \ {o.at} /\ NextServer(o)
    ELSE op' = Over(o, FALSE) /\ UNCHANGED <<routes, discovered>>

\* Call o meets error e, the processes being ps: what ensure_server_ready, the loop
\* of the discovery, and call_tool make of it.
Fails(o, e, ps) ==
    LET again == Reshakes(o, e)
        anew  == ~again /\ Restarts(o, e) IN
    /\ IF again \/ anew \/ Resets(e) THEN Reset(ps, o.at) ELSE proc' = ps /\ UNCHANGED ready
    /\ \/ /\ again
          /\ op' = [o EXCEPT !.inits = 1, !.id = 0, !.phase = "prepare"]
          /\ UNCHANGED <<routes, discovered>>
       \/ /\ anew
          /\ op' = [o EXCEPT !.tries = 1, !.inits = 0, !.pages = 0, !.id = 0,
                             !.phase = "check"]
          /\ UNCHANGED <<routes, discovered>>
       \/ ~again /\ ~anew /\ GiveUp(o)

\* History, of the server at hand: its breakdowns and timeouts, up to two, whether the
\* runtime of its pipe was lost, and whether it met an error that is fatal at once.
Blow(o, n) == [o EXCEPT !.blows = Min({2, @ + n})]
Strand(o) == [o EXCEPT !.lost = @ \/ proc[o.at].home = "gone"]
Hard(o, cause) == [o EXCEPT !.hard = @ \/ cause]

Mut_ExitUnnoticed ==
    /\ op.phase = "check"
    /\ op' = [op EXCEPT !.phase = "prepare"]
    /\ UNCHANGED <<own, broken, proc, ready, table, poisoned, past, calls, faults>>

\* The head of ensure_server_ready: a process that has exited is replaced.
Check ==
    /\ op.phase = "check"
    /\ IF proc[op.at].state = "dead" THEN Reset(proc, op.at) ELSE UNCHANGED <<proc, ready>>
    /\ op' = [op EXCEPT !.phase = "prepare"]
    /\ UNCHANGED <<own, broken, table, poisoned, past, calls, faults>>

\* A new process, on the runtime of this call; a command that cannot be started
\* is not tried again.
Spawn ==
    /\ op.phase = "prepare" /\ proc[op.at].state = "none"
    /\ IF op.at \in broken
       THEN Fails(Hard(op, TRUE), "io", proc)
       ELSE /\ proc' = [proc EXCEPT
                   ![op.at] = NewProc(IF op.path = "bridge" THEN "call" ELSE "own")]
            /\ ready' = [ready EXCEPT ![op.at] = FALSE]
            /\ UNCHANGED <<op, routes, discovered>>
    /\ UNCHANGED <<own, broken, listed, poisoned, past, calls, faults>>

\* next_request_id only grows; the least number no process knows is as fresh.
FreshId == Min({n \in 1..(Cardinality(UsedIds) + 1) : n \notin UsedIds})

\* Call o writes a request.
Request(o) ==
    /\ IF Writable(o.at)
       THEN /\ proc' = [proc EXCEPT ![o.at].owes = @ \cup {FreshId}]
            /\ op' = [o EXCEPT !.id = FreshId, !.phase = "wait"]
            /\ UNCHANGED <<ready, routes, discovered>>
       ELSE Fails(Strand(o), "transport", proc)
    /\ UNCHANGED <<own, broken, listed, poisoned, past, calls, faults>>

Shake ==
    /\ op.phase = "prepare" /\ proc[op.at].state # "none" /\ ~ready[op.at]
    /\ Request([op EXCEPT !.shaking = TRUE])

\* tools/call or tools/list.
Send ==
    /\ op.phase = "prepare" /\ proc[op.at].state # "none" /\ ready[op.at]
    /\ Request([op EXCEPT !.shaking = FALSE,
                          !.sent = IF op.stage = "call" THEN @ + 1 ELSE @])

\* The answer to the handshake.  An error leaves the process as it is.
Shaken(kind, ps) ==
    IF kind = "result"
    THEN /\ ready' = [ready EXCEPT ![op.at] = TRUE]
         /\ op' = [op EXCEPT !.id = 0, !.phase = "prepare"]
         /\ proc' = ps /\ UNCHANGED <<routes, discovered>>
    ELSE Fails(Hard(op, TRUE), IF kind = "error" THEN "rpc" ELSE "invalid", ps)

\* The answer to a discovery, of which there may be more.
Served(kind, ps) ==
    \/ /\ kind = "more"
       /\ op' = [op EXCEPT !.id = 0, !.pages = @ + 1, !.phase = "prepare"]
       /\ proc' = ps /\ UNCHANGED <<ready, routes, discovered>>
    \/ /\ kind = "result"
       /\ routes' = routes \cup {op.at} /\ NextServer(op)
       /\ proc' = ps /\ UNCHANGED ready
    \/ /\ kind \notin {"more", "result"}
       /\ Fails(Hard(op, TRUE), IF kind = "error" THEN "rpc" ELSE "invalid", ps)

\* The answer to a tool call goes to the caller, whatever is in it.
Called(kind, ps) ==
    /\ op' = Over(Hard(op, kind # "result"), kind = "result")
    /\ proc' = ps /\ UNCHANGED <<ready, routes, discovered>>

\* The next frame; one that cannot be read or has another id is an error.
Receive ==
    /\ op.phase = "wait" /\ proc[op.at].home # "gone" /\ proc[op.at].pipe # <<>>
    /\ LET f  == Head(proc[op.at].pipe)
           ps == [proc EXCEPT ![op.at].pipe = Tail(@)] IN
       /\ IF f.kind = "bad" \/ f.id # op.id
          THEN Fails(Hard(op, f.kind \in {"bad", "ask"}), "invalid", ps) /\ UNCHANGED mixed
          ELSE /\ mixed' = (mixed \/ (f.kind = "ask" /\ op.stage = "call" /\ ~op.shaking))
               /\ CASE op.shaking        -> Shaken(f.kind, ps)
                    [] ~op.shaking /\ op.stage = "call" -> Called(f.kind, ps)
                    [] OTHER             -> Served(f.kind, ps)
    /\ UNCHANGED <<own, broken, listed, poisoned, spoiled, calls, faults>>

\* The pipe is closed, or its runtime is gone.
HangUp ==
    /\ op.phase = "wait" /\ HungUp(op.at)
    /\ Fails(Strand(op), "transport", proc)
    /\ UNCHANGED <<own, broken, listed, poisoned, past, calls, faults>>

Timeout ==
    /\ op.phase = "wait"
    /\ Fails(Blow(op, 1), "timeout", proc)
    /\ UNCHANGED <<own, broken, listed, poisoned, past, calls, faults>>

\* The call returns; the runtime of a bridge call ends with its thread.
Return ==
    /\ op.phase = "end"
    /\ op' = NoCall
    /\ IF op.path = "start" THEN listed' = routes ELSE UNCHANGED listed
    /\ IF op.path = "bridge" THEN proc' = Orphaned("call") ELSE UNCHANGED proc
    /\ spoiled' = IF op.stage # "call" THEN spoiled
                  ELSE IF op.lost /\ proc[op.at] = NoProc THEN spoiled \cup {op.at}
                  ELSE spoiled \ {op.at}
    /\ UNCHANGED <<own, broken, ready, routes, discovered, poisoned, mixed, calls, faults>>

-----------------------------------------------------------------------------
(* The session.                                                            *)

\* The next session registers what its own manager found, and the old one shuts
\* its servers down in order, up to the first that cannot be killed.
Replace ==
    /\ own = "up" /\ op.path = "none"
    /\ listed' \in SUBSET Servers
    /\ \E n \in 0..NumServers :
          /\ IF n = NumServers THEN UNCHANGED faults
             ELSE proc[n + 1].state = "up" /\ Fault
          /\ proc' = [s \in Servers |-> IF s <= n THEN NoProc ELSE proc[s]]
          /\ ready' = [s \in Servers |-> s > n /\ ready[s]]
    /\ own' = "retired"
    /\ UNCHANGED <<broken, routes, discovered, poisoned, op, past, calls>>

\* The last turn that had its tools lets go of it.
Dropped ==
    /\ own = "retired"
    /\ own' = "down" /\ proc' = Orphaned("own")
    /\ UNCHANGED <<broken, ready, table, poisoned, op, past, calls, faults>>

-----------------------------------------------------------------------------
(* The servers.  A request is answered once, with its id.                  *)

Replies == {"result", "more", "error", "empty", "bad"}

Answer(s, kind) ==
    /\ proc[s].state = "up"
    /\ kind = "more" => op.stage # "call" /\ ~op.shaking /\ op.pages < MaxPages
    /\ IF kind \in {"result", "more"} THEN UNCHANGED faults ELSE Fault
    /\ \E id \in proc[s].owes :
          proc' = [proc EXCEPT ![s].owes = @ \ {id}, ![s].pipe = Append(@, Frame(kind, id))]
    /\ UNCHANGED <<own, broken, ready, table, poisoned, op, past, calls>>

\* A request of the server itself, such as ping, numbered by the server.
Ask(s) ==
    /\ proc[s].state = "up" /\ Fault
    /\ \E id \in {0} \cup proc[s].owes :
          proc' = [proc EXCEPT ![s].pipe = Append(@, Frame("ask", id))]
    /\ UNCHANGED <<own, broken, ready, table, poisoned, op, past, calls>>

Dies(s) ==
    /\ proc[s].state = "up" /\ Fault
    /\ proc' = [proc EXCEPT ![s].state = "dead", ![s].owes = {}]
    /\ op' = IF op.at = s /\ op.phase \in {"prepare", "wait"} THEN Blow(op, 1) ELSE op
    /\ UNCHANGED <<own, broken, ready, table, poisoned, past, calls>>

-----------------------------------------------------------------------------
Manage == Check \/ Spawn \/ Shake \/ Send \/ Receive \/ HangUp \/ Timeout \/ Return

Next ==
    \/ Manage
    \/ \E s \in Servers :
          \/ Bridge(s)
          \/ \E kind \in Replies : Answer(s, kind)
          \/ Ask(s) \/ Dies(s)
    \/ Session \/ Replace \/ Dropped

Spec == Init /\ [][Next]_vars

\* The thread of a call runs on, and its timer fires; nothing is assumed of servers.
FairSpec == Spec /\ WF_vars(Manage)
=============================================================================
