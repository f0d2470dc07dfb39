---------------------------- MODULE EvolutionLock ----------------------------
(***************************************************************************)
(* The lock file of self-evolution (runtime/src/evolution_lock.rs): it is  *)
(* created with create_new, filled with the holder's pid and time by a     *)
(* second call, reclaimed when it is malformed or an hour old, and removed *)
(* by name when the holder is done.  Every call on the file system is a    *)
(* step of its own; a holder may crash between any two.                    *)
(***************************************************************************)
EXTENDS Naturals, FiniteSets

CONSTANTS
    Procs,   \* slots for processes that take the lock
    Slow,    \* whether a holder may work for more than STALE_LOCK_MS
    Nobody   \* the owner of a file whose process is gone

ASSUME ProcsAssumption == Nobody \notin Procs
ASSUME SlowAssumption == Slow \in BOOLEAN

NoFile == [owner |-> Nobody, filled |-> FALSE, old |-> FALSE, exists |-> FALSE]

VARIABLES
    lock,   \* the lock file; owner is the living process that created it
    at,     \* how far a process is in acquire
    slip    \* history: a stale verdict that may cost a living holder its file

lockVars == <<lock, at, slip>>

LockInit ==
    /\ lock = NoFile
    /\ at = [p \in Procs |-> "out"]
    /\ slip = FALSE

Moves(p, where) == at' = [at EXCEPT ![p] = where]

\* A malformed file counts as stale, and so does an empty one.
Stale == lock.exists /\ (~lock.filled \/ lock.old)
IsHeld == lock.exists /\ ~Stale

\* create_new.  The second time a refusal is final, the first time the file is
\* looked at.
TryCreate(p) ==
    /\ at[p] \in {"out", "again"}
    /\ IF lock.exists
       THEN Moves(p, IF at[p] = "out" THEN "found" ELSE "out") /\ UNCHANGED lock
       ELSE /\ lock' = [owner |-> p, filled |-> FALSE, old |-> FALSE, exists |-> TRUE]
            /\ Moves(p, "made")
    /\ UNCHANGED slip

\* writeln through the open handle: it reaches the file even when another file
\* has its name by now.
Fill(p) ==
    /\ at[p] = "made"
    /\ lock' = IF lock.owner = p THEN [lock EXCEPT !.filled = TRUE] ELSE lock
    /\ Moves(p, "in")
    /\ UNCHANGED slip

Abandon(p) == lock' = IF lock.owner = p THEN [lock EXCEPT !.owner = Nobody] ELSE lock

\* The write fails: acquire reports it and leaves the empty file behind.
FillFails(p) ==
    /\ at[p] = "made"
    /\ Abandon(p) /\ Moves(p, "out")
    /\ UNCHANGED slip

\* A stale verdict is dangerous when the file has a living owner, or when another
\* process is about to remove the same file.
Dangerous(p) ==
    at[p] = "found" /\ Stale /\ (lock.owner # Nobody \/ \E q \in Procs : at[q] = "stale")

\* Operators named Mut_... are plausible bugs the checks are tried on; no
\* action of the specification uses one.
Mut_JudgeUnreadable(p) ==
    /\ at[p] = "found"
    /\ Moves(p, IF Stale \/ ~lock.exists THEN "stale" ELSE "out")
    /\ slip' = (slip \/ Dangerous(p))
    /\ UNCHANGED lock

\* is_stale; a file that is gone cannot be read and counts as held.
Judge(p) ==
    /\ at[p] = "found"
    /\ Moves(p, IF Stale THEN "stale" ELSE "out")
    /\ slip' = (slip \/ Dangerous(p))
    /\ UNCHANGED lock

\* remove_file of whatever has the name by now.
Reclaim(p) ==
    /\ at[p] = "stale"
    /\ lock' = NoFile
    /\ Moves(p, "again")
    /\ UNCHANGED slip

Acquire(p) == TryCreate(p) \/ Fill(p) \/ Judge(p) \/ Reclaim(p)

\* Drop: the file is removed by name, whoever created it.
Release(p) ==
    /\ at[p] = "in"
    /\ lock' = NoFile
    /\ Moves(p, "out")
    /\ UNCHANGED slip

\* The process dies; its lock file stays.
Die(p) ==
    /\ Abandon(p) /\ Moves(p, "out")
    /\ UNCHANGED slip

LockAges ==
    /\ lock.exists /\ lock.filled /\ ~lock.old
    /\ Slow \/ lock.owner = Nobody
    /\ lock' = [lock EXCEPT !.old = TRUE]
    /\ UNCHANGED <<at, slip>>

LockNext ==
    \/ \E p \in Procs : Acquire(p) \/ FillFails(p) \/ Release(p) \/ Die(p)
    \/ LockAges

LockSpec == LockInit /\ [][LockNext]_lockVars

-----------------------------------------------------------------------------
LockType ==
    /\ lock \in [owner : Procs \cup {Nobody}, filled : BOOLEAN, old : BOOLEAN, exists : BOOLEAN]
    /\ at \in [Procs -> {"out", "found", "stale", "again", "made", "in"}]
    /\ slip \in BOOLEAN

Holders == {p \in Procs : at[p] \in {"made", "in"}}

\* Two processes evolve the source at once only after a stale verdict on the
\* file of a living holder (an hour old, or still empty), or after two processes
\* judged the same dead file.  Nothing else breaks the lock: no crash, failed
\* write, release or refused attempt.
HoldersExclude == slip \/ \A p, q \in Holders : p = q
=============================================================================
