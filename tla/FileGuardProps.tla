---------------------------- MODULE FileGuardProps ----------------------------
(***************************************************************************)
(* What the per-file write locks guarantee, and what they are documented   *)
(* to guarantee.                                                           *)
(***************************************************************************)
EXTENDS FileGuard

TypeOK ==
    /\ pc \in [Writers -> {"idle", "try", "park", "sleeping", "granted", "writing", "notify"}]
    /\ path \in [Writers -> Paths \cup {NoPath}]
    /\ \A w \in Writers : pc[w] # "idle" => path[w] \in Paths
    /\ field \in [Writers -> {"path", "file_path"}]
    /\ key \in [Writers -> Paths \cup {NoPath}]
    /\ \A w \in Writers : pc[w] \in {"try", "park", "sleeping", "notify"} => key[w] # NoPath
    /\ locked \in [Paths -> BOOLEAN]
    /\ exists \in SUBSET Files
    /\ calls \in [Writers -> Nat]
    /\ early \in [Writers -> BOOLEAN]

Holds(w, k) == pc[w] \in {"granted", "writing"} /\ key[w] = k

\* The flag of a lock is up exactly while one writer holds the lock: no two
\* holders, and no timeout, failed tool or refused wait leaves it up or takes
\* it down under somebody else.
FlagHasOneOwner ==
    \A k \in Paths :
        /\ locked[k] => \E w \in Writers : Holds(w, k)
        /\ \A w, v \in Writers : Holds(w, k) /\ Holds(v, k) => w = v
        /\ \A w \in Writers : Holds(w, k) => locked[k]

\* The key of a lock is computed once, at the call, and the file may come into
\* being later, under the very lock: two writers that both took a lock write one
\* file at once only if one of them named it by another path than its own at a
\* moment when it did not exist.  Once a file exists, every path of it that is
\* named from then on leads to one lock, whatever is still waiting or writing.
ConflictOnlyOnCreation ==
    \A w, v \in Writers :
        /\ w # v /\ pc[w] = "writing" /\ pc[v] = "writing"
        /\ FileOf[path[w]] = FileOf[path[v]]
        /\ key[w] # NoPath /\ key[v] # NoPath
        => \E u \in {w, v} : early[u] /\ path[u] # FileOf[path[u]]

\* For the proof: a lock is under the file's own path unless its writer named the
\* file by another one before it existed.
KeyIsCanonical ==
    \A w \in Writers :
        /\ pc[w] # "idle" /\ key[w] # NoPath
        /\ ~(early[w] /\ path[w] # FileOf[path[w]])
        => key[w] = FileOf[path[w]]

\* try_acquire always returns, with the lock or with a timeout, also when its
\* notification was lost.
AcquireReturns ==
    \A w \in Writers :
        pc[w] \in {"try", "park", "sleeping"} ~> pc[w] \in {"granted", "idle"}

-----------------------------------------------------------------------------
(* What the documentation says.                                            *)

\* conversation.rs:5432: the main session takes the same locks as the sub-agents,
\* so that parent and child never write one file at the same time.
ParentAndChildExclude ==
    \A w, v \in Writers :
        w \notin Scoped /\ v \in Scoped /\ pc[w] = "writing" /\ pc[v] = "writing"
            => path[w] # path[v]
=============================================================================
