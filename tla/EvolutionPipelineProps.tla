------------------------ MODULE EvolutionPipelineProps ------------------------
(***************************************************************************)
(* What self-evolution guarantees, and what it is documented to guarantee. *)
(***************************************************************************)
EXTENDS EvolutionPipeline

Steps == {"idle", "start", "pick", "child", "inspect", "test", "install", "mark", "clear",
          "count", "exile", "veto", "leave"}
Trees == [head : Nat, listed : BOOLEAN, touched : BOOLEAN, green : BOOLEAN,
          fixes : SUBSET Proposals]
Programs == [touched : BOOLEAN, green : BOOLEAN, fixes : SUBSET Proposals]

\* Every variable has its type, and a pipeline works on the tree exactly while
\* it believes it holds the lock.
TypeOK ==
    /\ LockType
    /\ session \in [Sessions -> {"idle", "reported", "spawn", "stamp"}] /\ cooling \in BOOLEAN
    /\ inbox \subseteq Proposals /\ attempts \in [Proposals -> Nat]
    /\ torn \subseteq Proposals /\ processed \subseteq Proposals /\ exiled \subseteq Proposals
    /\ step \in [Procs -> Steps]
    /\ job \in [Procs -> Proposals \cup {NoProposal}] /\ base \in [Procs -> Nat]
    /\ tree \in Trees /\ exe \in Programs
    /\ blind \subseteq Proposals /\ mishaps \in 0..MaxMishaps
    /\ \A p \in Procs :
          /\ at[p] = "in" <=> step[p] \notin {"idle", "start"}
          /\ step[p] = "idle" => at[p] = "out"
          /\ step[p] \notin {"idle", "start", "pick", "leave"} => job[p] \in Proposals

\* The installed program passed the test gate (step 2.5 of run_pipeline),
\* unless a second pipeline changed the tree between the gate and the build.
InstalledPassedTests == exe.green \/ slip

\* A proposal is filed as processed only when the program that repairs it has
\* been installed, whatever fails or crashes on the way, for as long as no second
\* pipeline's commit could be taken for the repair.  One kind of proposal is
\* excepted, and no other: when git did not tell the head before the child ran,
\* the check for a new commit lets a child through that made none.
ProcessedIsInstalled == processed \ blind \subseteq exe.fixes \/ slip

\* A proposal is not tried again once its attempts are used up, also when the
\* pipeline died between the count and the quarantine, or the move failed; unless
\* two pipelines overlapped, which count the attempts of one proposal together.
AttemptsBounded == slip \/ \A q \in Proposals : attempts[q] <= MaxAttempts

\* An unreadable proposal that next_attemptable goes on choosing.
Blocked == \E q \in inbox \cap torn : Attemptable(q)

\* No proposal waits for ever behind the others: with finitely many reported, all
\* of them are again and again settled, that is filed, quarantined or used up,
\* unless a file that cannot be read sits in the inbox, which no attempt counts
\* against.
EveryProposalSettles == []<>(Blocked \/ \A q \in inbox : ~Attemptable(q))

-----------------------------------------------------------------------------
(* What the documentation says.                                            *)

\* evolution_runner.rs:13: no change to a protected file is deployed; run_pipeline
\* checks the real diff before it deploys.
NothingProtectedInstalled == ~exe.touched
=============================================================================
