--------------------------- MODULE ConversationTurn ---------------------------
(***************************************************************************)
(* A session and the turns that extend it: run_turn_async and the pruning  *)
(* of unclosed tool uses (runtime/src/conversation.rs), the message list   *)
(* with its JSONL file (session.rs), compaction (compact.rs), and the      *)
(* three programs that own a session: the TUI and the REPL                 *)
(* (rusty-claude-cli/src/app.rs) and the ACP shell                         *)
(* (claw-shell/src/agent.rs).                                              *)
(*                                                                         *)
(* A message is a kind and a number.  The number of a tool result is that  *)
(* of the assistant message it answers; use counts the tool uses of an     *)
(* assistant message, or says which of them a result answers.              *)
(***************************************************************************)
EXTENDS Integers, Sequences, SequencesExt, FiniteSetsExt

CONSTANTS
    Hosts,          \* programs to look at, among AllHosts
    BaseMax,        \* hard limit of iterations of a turn, as triaged
    ComplexMax,     \* COMPLEX_MAX_ITERATIONS
    MaxPunchbacks,  \* CONVERGENCE_MAX_PUNCHBACKS
    PreserveRecent, \* messages a compaction keeps
    Recoveries,     \* recovery scenarios a runtime can still try
    ToolCounts,     \* bound: how many tools an answer may ask for
    MaxTurns,       \* bound: turns
    MaxNotes,       \* bound: interjections and notes of the runtime
    MaxMishaps      \* bound: failed writes, interrupts and crashes together

AllHosts == {"tui", "repl", "shell"}

ASSUME HostsAssumption == Hosts \subseteq AllHosts
ASSUME LimitsAssumption ==
    /\ BaseMax \in Nat \ {0} /\ ComplexMax \in Nat
    /\ {MaxPunchbacks, PreserveRecent, Recoveries} \subseteq Nat
ASSUME BoundsAssumption == ToolCounts \subseteq Nat /\ {MaxTurns, MaxNotes, MaxMishaps} \subseteq Nat

VARIABLES
    host,
    pc,
    held,     \* the session the host will start its next turn from
    mem,      \* the session of the running turn
    file,     \* the session file: does it exist, its lines, is the last one open
    turn,     \* the local variables of run_turn_async
    left,     \* what the runtime may still try: recoveries, one branch retry
    abort,    \* hook_abort_signal
    upgrade,  \* upgrade_signal
    inbox,    \* is there an interjection in steer_inbox
    next,     \* number of the next message
    cut,      \* history: assistant messages whose tool batch was broken off
    turns, notes, mishaps

session == <<held, mem, file>>
inputs  == <<abort, upgrade, inbox>>
bounds  == <<turns, notes, mishaps>>
vars == <<host, pc, session, turn, left, inputs, next, cut, bounds>>

-----------------------------------------------------------------------------
(* Messages.                                                               *)

Message(kind, n, use) == [kind |-> kind, no |-> n, use |-> use]
User(n) == Message("user", n, 0)
Asst(n, uses) == Message("asst", n, uses)
Result(n, i) == Message("tool", n, i)
Summary == Message("sum", 0, 0)
Broken  == Message("broken", 0, 0)   \* a line that does not parse

IsOpen(m) == m.kind = "asst" /\ m.use > 0

\* Assistant messages of which some tool use has no result.
Unanswered(ms) ==
    {m.no : m \in {x \in ToSet(ms) : IsOpen(x) /\
                      \E i \in 1..x.use : Result(x.no, i) \notin ToSet(ms)}}

Orphans(ms) ==
    {m \in ToSet(ms) : m.kind = "tool" /\
        ~\E x \in ToSet(ms) : x.kind = "asst" /\ x.no = m.no}

\* get_messages_after_compact_boundary: from the last summary on.
Request(ms) ==
    SubSeq(ms, Max({1} \cup {i \in DOMAIN ms : ms[i] = Summary}), Len(ms))

-----------------------------------------------------------------------------
(* Compaction.                                                             *)

Prefix(ms) == IF ms # <<>> /\ ms[1] = Summary THEN 1 ELSE 0

\* The part of should_compact that is not about tokens.
Compactable(ms) == Len(ms) - Prefix(ms) > PreserveRecent

Mut_KeepFromExact(ms) == Len(ms) - PreserveRecent

\* The recent messages, and further back until the first one is not a result.
KeepFrom(ms) ==
    Max({k \in Prefix(ms)..(Len(ms) - PreserveRecent) :
            k = Prefix(ms) \/ ms[k + 1].kind # "tool"})

Removed(ms) == IF Compactable(ms) THEN KeepFrom(ms) - Prefix(ms) ELSE 0
Compact(ms) == <<Summary>> \o SubSeq(ms, KeepFrom(ms) + 1, Len(ms))

\* The sessions a compaction at this point may leave: whether the tokens are
\* over the budget is open.
Compactions(ms) == {ms} \cup (IF Removed(ms) > 0 THEN {Compact(ms)} ELSE {})

-----------------------------------------------------------------------------
(* The session file.                                                       *)

Absent    == [here |-> FALSE, lines |-> <<>>, open |-> FALSE]
Whole(ms) == [here |-> TRUE, lines |-> ms, open |-> FALSE]

\* One line more; what is written after an open line becomes part of it.
Line(f, l, open) ==
    [f EXCEPT !.lines = IF f.open THEN Append(Front(@), Broken) ELSE Append(@, l),
              !.open = open]

Outcome(f, ok) == [file |-> f, ok |-> ok]

\* save_to_path: rotation, replacement, removal of old rotations.  It may fail
\* before the rotation, between the first two, and after them.
Saves(ms, f) ==
    {Outcome(Whole(ms), TRUE)}
        \cup {Outcome(g, FALSE) : g \in {f, Absent, Whole(ms)}}

\* append_persisted_message: a failing writeln! may have written nothing, a part
\* of the line, or all of it but the line feed.
Appends(ms, m) ==
    IF host = "shell" THEN {Outcome(file, TRUE)}
    ELSE IF ~file.here THEN Saves(Append(ms, m), file)
    ELSE {Outcome(Line(file, m, FALSE), TRUE)}
            \cup {Outcome(g, FALSE) : g \in {file, Line(file, Broken, TRUE), Line(file, m, TRUE)}}

Mut_LoadableSkipsBadLines(f) == f.here

\* from_jsonl rejects the whole file for one bad line.
Loadable(f) == f.here /\ Broken \notin ToSet(f.lines)

Goto(where) == pc' = where
Mishap == mishaps < MaxMishaps /\ mishaps' = mishaps + 1

\* push_message on the messages ms; a message that could not be written is dropped.
PushOk(ms, m) ==
    /\ \E o \in Appends(ms, m) : o.ok /\ file' = o.file
    /\ mem' = Append(ms, m)
    /\ UNCHANGED mishaps
PushFails(ms, m) ==
    /\ Mishap
    /\ \E o \in Appends(ms, m) : ~o.ok /\ file' = o.file

Mut_PushNotUndone(ms, m) ==
    \/ PushOk(ms, m)
    \/ PushFails(ms, m) /\ mem' = Append(ms, m)

\* A push whose error is ignored.
PushTried(ms, m) ==
    \/ PushOk(ms, m)
    \/ PushFails(ms, m) /\ mem' = ms

-----------------------------------------------------------------------------
(* Turns.                                                                  *)

NoTurn  == [iter |-> 0, hard |-> 0, reactive |-> "none", punch |-> 0,
            noticed |-> FALSE, asst |-> 0, uses |-> 0, at |-> 0]
NewTurn == [NoTurn EXCEPT !.hard = BaseMax]
NewLeft == [recoveries |-> Recoveries, retry |-> TRUE]

Running == pc \notin {"idle", "stopped"}

Init ==
    /\ host \in Hosts
    /\ pc = "idle"
    /\ held = <<>> /\ mem = <<>>
    /\ file = IF host = "shell" THEN Absent ELSE Whole(<<>>)   \* LiveCli::new persists
    /\ turn = NoTurn /\ left = NewLeft
    /\ abort = FALSE /\ upgrade = FALSE /\ inbox = FALSE
    /\ next = 1
    /\ cut = {}
    /\ turns = 0 /\ notes = 0 /\ mishaps = 0

\* The process is gone, and with it every session in memory.
Dies ==
    /\ Goto("stopped")
    /\ held' = <<>> /\ mem' = <<>> /\ turn' = NoTurn

\* run_turn returns an error.  The shell puts the runtime back, the TUI drops it
\* and keeps the session it had, the REPL leaves its loop.
Fail(ms) ==
    IF host = "repl" THEN Dies
    ELSE /\ Goto("idle")
         /\ held' = IF host = "shell" THEN ms ELSE held
         /\ mem' = held'
         /\ turn' = NoTurn

\* The user's text, or in the TUI the interjection the last turn left over.
TurnBegins ==
    /\ pc = "idle" /\ turns < MaxTurns
    /\ turns' = turns + 1
    /\ abort' = FALSE /\ inbox' = FALSE
    /\ left' = IF host = "shell" THEN left ELSE NewLeft
    /\ \/ /\ PushOk(held, User(next))
          /\ turn' = NewTurn /\ Goto("top") /\ UNCHANGED held
       \/ PushFails(held, User(next)) /\ Fail(held)
    /\ next' = next + 1
    /\ UNCHANGED <<host, upgrade, cut, notes>>

Mut_RetriesAreFree ==
    /\ pc = "top"
    /\ turn.iter < turn.hard
    /\ turn' = [turn EXCEPT !.iter = IF left = NewLeft THEN @ + 1 ELSE @]
    /\ left' = NewLeft
    /\ Goto("gate")
    /\ UNCHANGED <<host, session, inputs, next, cut, bounds>>

\* The top of the loop: the limit of iterations, then the interjections.
Iterate ==
    /\ pc = "top"
    /\ turn.iter < turn.hard
    /\ turn' = [turn EXCEPT !.iter = @ + 1]
    /\ Goto("gate")
    /\ inbox' = FALSE
    /\ IF inbox
       THEN PushTried(mem, User(next)) /\ next' = next + 1
       ELSE UNCHANGED <<mem, file, mishaps, next>>
    /\ UNCHANGED <<host, held, left, abort, upgrade, cut, turns, notes>>

\* Out of iterations, or stopped by the survey guard.
GiveUp ==
    /\ pc = "top"
    /\ Fail(mem)
    /\ UNCHANGED <<host, file, left, inputs, next, cut, bounds>>

\* The checks before a request: interrupt, then upgrade.
Interrupted ==
    /\ pc = "gate" /\ abort
    /\ Fail(mem)
    /\ UNCHANGED <<host, file, left, inputs, next, cut, bounds>>

UpgradeNotice ==
    /\ pc = "gate" /\ ~abort /\ upgrade /\ ~turn.noticed
    /\ PushTried(mem, User(next)) /\ next' = next + 1
    /\ turn' = [turn EXCEPT !.noticed = TRUE]
    /\ Goto("note")
    /\ UNCHANGED <<host, held, left, inputs, cut, turns, notes>>

PassGate ==
    /\ pc = "gate" /\ ~abort
    /\ upgrade => turn.noticed
    /\ Goto(IF upgrade THEN "review" ELSE "note")
    /\ UNCHANGED <<host, session, turn, left, inputs, next, cut, bounds>>

\* arbiter_note, then the request goes out.
Send ==
    /\ pc = "note"
    /\ \/ /\ notes < MaxNotes /\ notes' = notes + 1
          /\ PushTried(mem, User(next)) /\ next' = next + 1
       \/ UNCHANGED <<mem, file, mishaps, next, notes>>
    /\ Goto("send")
    /\ UNCHANGED <<host, held, turn, left, inputs, cut, turns>>

\* The API or the parser of its events fails: one recovery per scenario.
ApiFails ==
    /\ pc = "send"
    /\ \/ /\ left.recoveries > 0
          /\ left' = [left EXCEPT !.recoveries = @ - 1]
          /\ \/ Goto("top") /\ UNCHANGED <<held, mem, turn>>
             \/ Fail(mem)
       \/ left.recoveries = 0 /\ Fail(mem) /\ UNCHANGED left
    /\ UNCHANGED <<host, file, inputs, next, cut, bounds>>

\* The prompt is too long: shorten the tool results, then compact.
PromptTooLong ==
    /\ pc = "send"
    /\ \/ turn.reactive = "none" /\ turn' = [turn EXCEPT !.reactive = "micro"] /\ UNCHANGED mem
       \/ /\ turn.reactive = "micro" /\ Removed(mem) > 0
          /\ turn' = [turn EXCEPT !.reactive = "full"]
          /\ mem' = Compact(mem)
    /\ Goto("top")
    /\ UNCHANGED <<host, held, file, left, inputs, next, cut, bounds>>

\* The answer of the model, with uses tools.  An interrupt that came while it
\* streamed is looked at before anything else is done with it.
Reply(uses) ==
    /\ pc = "send"
    /\ \/ /\ PushOk(mem, Asst(next, uses))
          /\ turn' = [turn EXCEPT !.asst = next, !.uses = uses, !.at = 1]
          /\ Goto(IF abort THEN "closing" ELSE IF uses = 0 THEN "final" ELSE "tools")
          /\ UNCHANGED held
       \/ PushFails(mem, Asst(next, uses)) /\ Fail(mem)
    /\ next' = next + 1
    /\ UNCHANGED <<host, left, inputs, cut, turns, notes>>

Mut_CloseNothing ==
    /\ pc = "closing"
    /\ Fail(mem)
    /\ UNCHANGED <<host, file, left, inputs, next, cut, bounds>>

\* Results for the tools that are not run, then the error of the interrupt.
Close ==
    /\ pc = "closing"
    /\ IF turn.at > turn.uses
       THEN /\ Fail(mem)
            /\ UNCHANGED <<file, mishaps>>
       ELSE /\ \/ /\ PushOk(mem, Result(turn.asst, turn.at))
                  /\ turn' = [turn EXCEPT !.at = @ + 1]
                  /\ UNCHANGED <<pc, held>>
               \/ PushFails(mem, Result(turn.asst, turn.at)) /\ Fail(mem)
    /\ UNCHANGED <<host, left, inputs, next, cut, turns, notes>>

\* An answer without tools ends the loop, unless its declaration of completion
\* has no evidence.
Final ==
    /\ pc = "final"
    /\ \/ /\ turn.punch < MaxPunchbacks /\ notes < MaxNotes
          /\ PushTried(mem, User(next)) /\ next' = next + 1
          /\ turn' = [turn EXCEPT !.punch = @ + 1]
          /\ notes' = notes + 1
          /\ Goto("top")
       \/ Goto("review") /\ UNCHANGED <<mem, file, mishaps, next, turn, notes>>
    /\ UNCHANGED <<host, held, left, inputs, cut, turns>>

\* The interrupt is looked at before each tool, and the tools that are left get
\* no result.
ToolsInterrupted ==
    /\ pc = "tools" /\ abort
    /\ cut' = cut \cup {turn.asst}
    /\ Fail(mem)
    /\ UNCHANGED <<host, file, left, inputs, next, bounds>>

\* A tool runs or is denied; a file that was written raises the limit.
ToolDone ==
    /\ pc = "tools" /\ ~abort
    /\ \/ /\ PushOk(mem, Result(turn.asst, turn.at))
          /\ \E hard \in {turn.hard, Max({turn.hard, ComplexMax})} :
                turn' = [turn EXCEPT !.at = @ + 1, !.hard = hard]
          /\ Goto(IF turn.at = turn.uses THEN "top" ELSE "tools")
          /\ UNCHANGED held
       \/ PushFails(mem, Result(turn.asst, turn.at)) /\ Fail(mem)
    /\ UNCHANGED <<host, left, inputs, next, cut, turns, notes>>

\* prune_unclosed_tool_use_messages: in memory, the file keeps the line.
Prune(ms) == IF ms # <<>> /\ IsOpen(Last(ms)) THEN Front(ms) ELSE ms

\* The loop detector stops the batch.  The TUI and the REPL have a coordinator
\* and let a sub-agent try once more; its answer ends the turn.
LoopAbort ==
    /\ pc = "tools" /\ ~abort
    /\ cut' = IF turn.at > 1 THEN cut \cup {turn.asst} ELSE cut
    /\ LET ms == Prune(mem)
           retry == left.retry /\ host # "shell" IN
       /\ left' = [left EXCEPT !.retry = @ /\ ~retry]
       /\ \/ Fail(ms) /\ UNCHANGED <<file, mishaps, next>>
          \/ /\ retry /\ next' = next + 1
             /\ \/ /\ PushOk(ms, Asst(next, 0))
                   /\ Goto("review") /\ UNCHANGED <<held, turn>>
                \/ PushFails(ms, Asst(next, 0)) /\ Fail(ms)
    /\ UNCHANGED <<host, inputs, turns, notes>>

\* After the loop: the review of the plan, then compaction.
Review ==
    /\ pc = "review"
    /\ \/ Fail(mem)
       \/ \E ms \in Compactions(mem) :
             /\ held' = ms /\ mem' = ms /\ turn' = NoTurn
             /\ Goto(IF host = "shell" THEN "idle" ELSE "save")
    /\ UNCHANGED <<host, file, left, inputs, next, cut, bounds>>

\* persist_session.  Its error ends the REPL; the TUI shows it.
Save ==
    /\ pc = "save"
    /\ \E o \in Saves(held, file) :
          /\ file' = o.file
          /\ IF o.ok THEN UNCHANGED mishaps ELSE Mishap
          /\ IF ~o.ok /\ host = "repl" THEN Dies
             ELSE Goto("idle") /\ UNCHANGED <<held, mem, turn>>
    /\ UNCHANGED <<host, left, inputs, next, cut, turns, notes>>

-----------------------------------------------------------------------------
(* What the user and the machine do to it.                                 *)

\* At any time in a turn; an earlier moment than the next look at the signal
\* makes no difference.
Interrupt ==
    /\ pc \in {"gate", "send", "tools"} /\ ~abort /\ Mishap
    /\ abort' = TRUE
    /\ UNCHANGED <<host, pc, session, turn, left, upgrade, inbox, next, cut, turns, notes>>

\* In time for the next iteration, or after the last one.
Steer ==
    /\ host = "tui" /\ pc \in {"top", "review"} /\ ~inbox
    /\ notes < MaxNotes /\ notes' = notes + 1
    /\ inbox' = TRUE
    /\ UNCHANGED <<host, pc, session, turn, left, abort, upgrade, next, cut, turns, mishaps>>

\* /compact
CompactCommand ==
    /\ pc = "idle" /\ host # "shell" /\ Removed(held) > 0
    /\ held' = Compact(held) /\ mem' = Compact(held)
    /\ Goto("save")
    /\ UNCHANGED <<host, file, turn, left, inputs, next, cut, bounds>>

\* run_upgrade: the signal goes up and stays up.  The process exits at the end;
\* an error before that ends the REPL and leaves the TUI running.
RunUpgrade ==
    /\ pc = "idle" /\ host # "shell" /\ ~upgrade
    /\ upgrade' = TRUE
    /\ \/ UNCHANGED <<file, mishaps>>
       \/ \E o \in Saves(held, file) :
             /\ file' = o.file
             /\ IF o.ok THEN UNCHANGED mishaps ELSE Mishap
    /\ \/ Dies
       \/ host = "tui" /\ UNCHANGED <<pc, held, mem, turn>>
    /\ UNCHANGED <<host, left, abort, inbox, next, cut, turns, notes>>

Crash ==
    /\ pc # "stopped" /\ host # "shell" /\ Mishap
    /\ Dies
    /\ UNCHANGED <<host, file, left, inputs, next, cut, turns, notes>>

\* A new process resumes the session from its file: by /resume, which saves it,
\* by the session picker, which does not, or after an upgrade, which compacts it.
Restart ==
    /\ pc = "stopped" /\ Loadable(file)
    /\ \E ms \in Compactions(file.lines) :
          /\ held' = ms /\ mem' = ms
          /\ pc' \in IF ms = file.lines THEN {"idle", "save"} ELSE {"idle"}
    /\ left' = NewLeft
    /\ abort' = FALSE /\ upgrade' = FALSE /\ inbox' = FALSE
    /\ cut' = cut \cup Unanswered(file.lines)
    /\ UNCHANGED <<host, file, turn, next, bounds>>

TurnStep ==
    \/ Iterate \/ GiveUp \/ Interrupted \/ UpgradeNotice \/ PassGate \/ Send
    \/ ApiFails \/ PromptTooLong \/ \E uses \in ToolCounts : Reply(uses)
    \/ Close \/ Final \/ ToolsInterrupted \/ ToolDone \/ LoopAbort
    \/ Review \/ Save

Next ==
    \/ TurnBegins \/ TurnStep
    \/ Interrupt \/ Steer \/ CompactCommand \/ RunUpgrade \/ Crash \/ Restart

Spec == Init /\ [][Next]_vars

\* A turn that has begun is run by its thread; tools and requests return.
FairSpec == Spec /\ WF_vars(TurnStep)
=============================================================================
