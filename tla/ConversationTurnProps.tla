------------------------- MODULE ConversationTurnProps -------------------------
(***************************************************************************)
(* What a session guarantees to the model, to the user and to the next     *)
(* process, and what the code's own comments say it guarantees.            *)
(***************************************************************************)
EXTENDS ConversationTurn

Kinds == {"user", "asst", "tool", "sum", "broken"}
MessageSet == [kind : Kinds, no : Nat, use : Nat]

TypeOK ==
    /\ host \in Hosts
    /\ pc \in {"idle", "top", "gate", "note", "send", "closing", "final", "tools",
               "review", "save", "stopped"}
    /\ \A ms \in {held, mem, file.lines} : ms \in Seq(MessageSet)
    /\ Broken \notin ToSet(held) \cup ToSet(mem)
    /\ file.here \in BOOLEAN /\ file.open \in BOOLEAN
    /\ turn.hard \in {0, BaseMax, Max({BaseMax, ComplexMax})} /\ turn.iter \in 0..turn.hard
    /\ turn.reactive \in {"none", "micro", "full"}
    /\ pc \in {"tools", "closing"} => Asst(turn.asst, turn.uses) \in ToSet(mem)
    /\ {abort, upgrade, inbox} \subseteq BOOLEAN

\* A request shows the model a tool use without result only if the batch was
\* broken off between two tools, by the user or by the loop detector, or if the
\* session was resumed from a file in which it was: not because of an interrupt
\* during the stream, a loop abort at the first tool, a compaction or a write
\* that failed.
UnansweredOnlyAfterCut == pc = "send" => Unanswered(Request(mem)) \subseteq cut

\* A tool result is never without the message that asked for it: not in a request,
\* whatever was compacted or pruned before, and not in a session resumed from
\* the file.
NoOrphanResults ==
    /\ Orphans(Request(mem)) = {}
    /\ Orphans(held) = {}
    /\ Loadable(file) => Orphans(file.lines) = {}

\* lines has every message of ms but a summary, once and in the order of ms.
Within(ms, lines) ==
    LET said == {k \in DOMAIN ms : ms[k] # Summary}
        at == [k \in said |-> {p \in DOMAIN lines : lines[p] = ms[k]}] IN
    \A k \in said :
        /\ at[k] # {}
        /\ \A j \in said : \A p \in at[j], q \in at[k] : j < k <=> p < q

\* The file, as long as it can be loaded, holds every message of the session and
\* of the running turn, once and in their order: what a crash loses was never
\* said, and what failed turns left in the file stands between.
FileCoversSession ==
    host # "shell" /\ Loadable(file) =>
        \A ms \in {held, mem} : Within(ms, file.lines)

\* A turn ends, whatever the model answers and however often the API fails.
TurnEnds == Running ~> ~Running

-----------------------------------------------------------------------------
(* What keeps the pairs of tool use and result together, place by place.   *)

Wholesome == [kind : Kinds \ {"broken"}, no : Nat, use : Nat]
TurnSet == [iter : Nat, hard : Nat, reactive : {"none", "micro", "full"}, punch : Nat,
            noticed : BOOLEAN, asst : Nat, uses : Nat, at : Nat]
FileSet == [here : BOOLEAN, lines : Seq(Wholesome \cup {Broken}), open : BOOLEAN]

\* Between a tool result and the message it answers there is nothing but results.
Anchored(ms) ==
    \A t \in DOMAIN ms : ms[t].kind = "tool" =>
        \E j \in 1..(t - 1) : /\ ms[j].kind = "asst" /\ ms[j].no = ms[t].no
                              /\ \A l \in (j + 1)..t : ms[l].kind = "tool"

Distinct(ms) ==
    \A j, k \in DOMAIN ms :
        ms[j].kind = "asst" /\ ms[k].kind = "asst" /\ ms[j].no = ms[k].no => j = k

WellFormed(ms, n) == Anchored(ms) /\ Distinct(ms) /\ \A k \in DOMAIN ms : ms[k].no < n

\* Every tool use has its result behind it, but for those of the messages in C.
Paired(ms, C) ==
    \A j \in DOMAIN ms : IsOpen(ms[j]) /\ ms[j].no \notin C =>
        \A i \in 1..ms[j].use : \E t \in (j + 1)..Len(ms) : ms[t] = Result(ms[j].no, i)

\* The messages end in an answer with the results of its first tools, up to at.
Batch(ms, asst, uses, at) ==
    /\ at \in 1..Len(ms)
    /\ ms[Len(ms) - at + 1] = Asst(asst, uses)
    /\ \A i \in 1..(at - 1) : ms[Len(ms) - at + 1 + i] = Result(asst, i)

Busy == pc \in {"tools", "closing"}

ControlInv ==
    /\ host \in Hosts /\ next \in Nat \ {0}
    /\ pc \in {"idle", "top", "gate", "note", "send", "closing", "final", "tools",
               "review", "save", "stopped"}
    /\ pc = "save" => host # "shell"
    /\ {abort, upgrade, inbox} \subseteq BOOLEAN
    /\ turn \in TurnSet /\ turn.iter <= turn.hard
    /\ turn.hard \in {BaseMax, Max({BaseMax, ComplexMax})} \cup
                        (IF pc \in {"idle", "save", "stopped"} THEN {0} ELSE {})
FileInv ==
    /\ file \in FileSet
    /\ host = "shell" => ~file.here
    /\ Loadable(file) => WellFormed(file.lines, next)
HeldInv == held \in Seq(Wholesome) /\ WellFormed(held, next) /\ Paired(held, cut)
MemInv ==
    /\ mem \in Seq(Wholesome) /\ WellFormed(mem, next)
    /\ Paired(mem, cut \cup (IF Busy THEN {turn.asst} ELSE {}))
BatchInv ==
    Busy =>
        /\ \A ms \in {mem} \cup (IF Loadable(file) THEN {file.lines} ELSE {}) :
              Batch(ms, turn.asst, turn.uses, turn.at)
        /\ turn.at <= turn.uses + (IF pc = "tools" THEN 0 ELSE 1)

SessionInv == ControlInv /\ FileInv /\ HeldInv /\ MemInv /\ BatchInv

-----------------------------------------------------------------------------
(* What keeps the file and the session together.                           *)

\* The order in which messages are said: by number, and the results behind the
\* message they answer.
Precedes(a, b) ==
    \/ a.no < b.no
    \/ a.no = b.no /\ b.kind = "tool" /\ (a.kind # "tool" \/ a.use < b.use)

Ordered(ms) ==
    \A j, k \in DOMAIN ms :
        j < k /\ ms[j] # Summary /\ ms[k] # Summary => Precedes(ms[j], ms[k])

AtRest == pc \in {"idle", "save", "stopped"}

\* Between two turns there is one session; during a turn the file exists, so that a
\* push adds a line to it and never replaces it by the session of the turn.
CoverInv ==
    /\ Ordered(held) /\ Ordered(mem)
    /\ AtRest => mem = held
    /\ host # "shell" /\ ~AtRest => file.here
    /\ Loadable(file) =>
          /\ Ordered(file.lines)
          /\ ToSet(held) \cup ToSet(mem) \subseteq ToSet(file.lines) \cup {Summary}

-----------------------------------------------------------------------------
(* What the comments say.                                                  *)

\* conversation.rs:4811 and the comment on prune_unclosed_tool_use_messages:
\* the pairs of tool use and result are complete in the next turn's request.
RequestsArePaired == pc = "send" => Unanswered(Request(mem)) = {}
=============================================================================
