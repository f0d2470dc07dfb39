------------------------------- MODULE FileGuard -------------------------------
(***************************************************************************)
(* The per-file write locks of SubagentFileGuard                           *)
(* (runtime/src/multi_agent/file_guard.rs) and the two places that take    *)
(* them around edit_file and write_file: the tool loop of a sub-agent      *)
(* (process_tool_uses) and the tool loop of the main session, both in      *)
(* conversation.rs.                                                        *)
(*                                                                         *)
(* The lock is a compare-and-swap on a flag; the condition variable has a  *)
(* mutex of its own that nobody holds while the flag changes, so the flag, *)
(* the wait and the notification are separate steps.                       *)
(***************************************************************************)
EXTENDS Naturals, FiniteSets

CONSTANTS
    Writers,     \* threads that call write tools, all with capability Execute
    Scoped,      \* those that are sub-agents bound to a sub-directory
    Paths,       \* absolute paths of files, canonical or not
    FileOf,      \* the canonical path of the file a path leads to
    MaxCalls,    \* bound: write calls of each writer
    NoPath       \* no call yet, no lock taken

ASSUME WritersAssumption == IsFiniteSet(Writers) /\ Scoped \subseteq Writers
ASSUME PathsAssumption ==
    /\ FileOf \in [Paths -> Paths] /\ NoPath \notin Paths
    /\ \A p \in Paths : FileOf[FileOf[p]] = FileOf[p]
ASSUME CallsAssumption == MaxCalls \in Nat

Files == {FileOf[p] : p \in Paths}

VARIABLES
    pc, path, field, key,   \* the write call of a writer
    locked,                 \* LockInner::locked of a registry entry
    exists,                 \* the files that exist
    calls,
    early                   \* history: the file did not exist at a writer's call

call == <<path, field, key, early>>
vars == <<pc, call, locked, exists, calls>>

Init ==
    /\ pc = [w \in Writers |-> "idle"]
    /\ path = [w \in Writers |-> NoPath]
    /\ field = [w \in Writers |-> "path"]
    /\ key = [w \in Writers |-> NoPath]
    /\ locked = [k \in Paths |-> FALSE]
    /\ exists \in SUBSET Files
    /\ calls = [w \in Writers |-> 0]
    /\ early = [w \in Writers |-> FALSE]

Goto(w, where) == pc' = [pc EXCEPT ![w] = where]

\* Operators named Mut_... are plausible bugs the checks are tried on; no
\* action of the specification uses one.
Mut_KeyOfAsGiven(p) == p

\* normalize_path: canonicalize resolves a path only when its file exists.
KeyOf(p) == IF FileOf[p] \in exists THEN FileOf[p] ELSE p

\* The path handed to try_acquire: what Guard 3 resolved for a scoped sub-agent,
\* otherwise the input's file_path, and no lock without that field.
TakesLock(w, f) == w \in Scoped \/ f = "file_path"

Call(w, p, f) ==
    /\ pc[w] = "idle" /\ calls[w] < MaxCalls
    /\ calls' = [calls EXCEPT ![w] = @ + 1]
    /\ path' = [path EXCEPT ![w] = p]
    /\ field' = [field EXCEPT ![w] = f]
    /\ key' = [key EXCEPT ![w] = IF TakesLock(w, f) THEN KeyOf(p) ELSE NoPath]
    /\ early' = [early EXCEPT ![w] = FileOf[p] \notin exists]
    /\ Goto(w, IF TakesLock(w, f) THEN "try" ELSE "granted")
    /\ UNCHANGED <<locked, exists>>

\* compare_exchange(false, true)
Try(w) ==
    /\ pc[w] = "try"
    /\ IF locked[key[w]]
       THEN Goto(w, "park") /\ UNCHANGED locked
       ELSE Goto(w, "granted") /\ locked' = [locked EXCEPT ![key[w]] = TRUE]
    /\ UNCHANGED <<call, exists, calls>>

\* wait_mutex.lock and wait_timeout.
Park(w) ==
    /\ pc[w] = "park"
    /\ Goto(w, "sleeping")
    /\ UNCHANGED <<call, locked, exists, calls>>

\* A condition variable may wake without a notification.
SpuriousWake(w) ==
    /\ pc[w] = "sleeping"
    /\ Goto(w, "try")
    /\ UNCHANGED <<call, locked, exists, calls>>

Mut_NoTimeout(w) == pc[w] = "sleeping" /\ UNCHANGED vars
Mut_TimeoutReleases(w) ==
    /\ pc[w] = "sleeping"
    /\ Goto(w, "idle")
    /\ locked' = [locked EXCEPT ![key[w]] = FALSE]
    /\ UNCHANGED <<call, exists, calls>>

\* timed_out: an error, without another look at the flag.
Timeout(w) ==
    /\ pc[w] = "sleeping"
    /\ Goto(w, "idle")
    /\ UNCHANGED <<call, locked, exists, calls>>

\* The tool runs.  Its input has the field path and no other; with any other
\* input it fails before it touches the file.
WriteBegins(w) ==
    /\ pc[w] = "granted" /\ field[w] = "path"
    /\ exists' = exists \cup {FileOf[path[w]]}
    /\ Goto(w, "writing")
    /\ UNCHANGED <<call, locked, calls>>

Mut_ReleaseReadHandle(w) ==
    /\ pc[w] \in {"granted", "writing"}
    /\ pc[w] = "granted" => field[w] # "path"
    /\ locked' = IF key[w] = NoPath THEN locked ELSE [locked EXCEPT ![key[w]] = FALSE]
    /\ Goto(w, "notify")
    /\ UNCHANGED <<call, exists, calls>>

\* The tool is done or has failed, and LockHandle::drop stores the flag.
Release(w) ==
    /\ pc[w] \in {"granted", "writing"}
    /\ pc[w] = "granted" => field[w] # "path"
    /\ locked' = IF key[w] = NoPath THEN locked ELSE [locked EXCEPT ![key[w]] = FALSE]
    /\ Goto(w, IF key[w] = NoPath THEN "idle" ELSE "notify")
    /\ UNCHANGED <<call, exists, calls>>

Sleepers(k) == {v \in Writers : pc[v] = "sleeping" /\ key[v] = k}

\* notify_one
Notify(w) ==
    /\ pc[w] = "notify"
    /\ IF Sleepers(key[w]) = {}
       THEN Goto(w, "idle")
       ELSE \E v \in Sleepers(key[w]) : pc' = [pc EXCEPT ![w] = "idle", ![v] = "try"]
    /\ UNCHANGED <<call, locked, exists, calls>>

Acquire(w) == Try(w) \/ Park(w) \/ Timeout(w)

Next ==
    \E w \in Writers :
        \/ \E p \in Paths, f \in {"path", "file_path"} : Call(w, p, f)
        \/ Acquire(w) \/ SpuriousWake(w)
        \/ WriteBegins(w) \/ Release(w) \/ Notify(w)

Spec == Init /\ [][Next]_vars

\* Threads are scheduled, tools return, and a wait that is not ended by a
\* notification ends by its timer.
FairSpec ==
    /\ Spec
    /\ \A w \in Writers :
          WF_vars(Acquire(w)) /\ WF_vars(WriteBegins(w) \/ Release(w) \/ Notify(w))
=============================================================================
