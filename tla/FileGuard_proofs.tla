---------------------------- MODULE FileGuard_proofs ----------------------------
(***************************************************************************)
(* The write locks exclude each other for every number of writers, paths   *)
(* and calls.                                                              *)
(***************************************************************************)
EXTENDS FileGuardProps, TLAPS

\* Every variable of the write locks keeps its type.
THEOREM TypeCorrect == Spec => []TypeOK
<1>1. Init => TypeOK
  BY DEF Init, TypeOK
<1>2. TypeOK /\ [Next]_vars => TypeOK'
  <2> SUFFICES ASSUME TypeOK, [Next]_vars PROVE TypeOK'
    OBVIOUS
  <2> USE PathsAssumption DEF PathsAssumption, TypeOK, Goto, call
  <2>1. ASSUME NEW w \in Writers, NEW p \in Paths, NEW f \in {"path", "file_path"},
               Call(w, p, f)
        PROVE TypeOK'
    <3>1. KeyOf(p) \in Paths
      BY DEF KeyOf
    <3> QED
      BY <2>1, <3>1 DEF Call
  <2>2. ASSUME NEW w \in Writers, Try(w) PROVE TypeOK'
    BY <2>2, ZenonT(60) DEF Try
  <2>3. ASSUME NEW w \in Writers, Park(w) \/ SpuriousWake(w) \/ Timeout(w) PROVE TypeOK'
    BY <2>3 DEF Park, SpuriousWake, Timeout
  <2>4. ASSUME NEW w \in Writers, WriteBegins(w) PROVE TypeOK'
    BY <2>4 DEF WriteBegins, Files
  <2>5. ASSUME NEW w \in Writers, Release(w) PROVE TypeOK'
    BY <2>5 DEF Release
  <2>6. ASSUME NEW w \in Writers, Notify(w) PROVE TypeOK'
    BY <2>6 DEF Notify, Sleepers
  <2>7. CASE UNCHANGED vars
    BY <2>7 DEF vars
  <2> QED
    BY <2>1, <2>2, <2>3, <2>4, <2>5, <2>6, <2>7 DEF Next, Acquire
<1> QED
  BY <1>1, <1>2, PTL DEF Spec

\* A step that moves no writer into or out of a lock and leaves the flags and
\* the keys alone keeps the flags with their owners.
LEMMA HoldersUnchanged ==
  ASSUME FlagHasOneOwner, UNCHANGED locked,
         \A w \in Writers, k \in Paths : Holds(w, k)' <=> Holds(w, k)
  PROVE  FlagHasOneOwner'
BY DEF FlagHasOneOwner

\* The compare-and-swap and the release together keep each flag with its one
\* owner, through waits, timeouts, spurious wakes and notifications.
THEOREM OneOwner == Spec => []FlagHasOneOwner
<1>1. Init => FlagHasOneOwner
  BY DEF Init, FlagHasOneOwner, Holds
<1>2. TypeOK /\ FlagHasOneOwner /\ [Next]_vars => FlagHasOneOwner'
  <2> SUFFICES ASSUME TypeOK, FlagHasOneOwner, [Next]_vars PROVE FlagHasOneOwner'
    OBVIOUS
  <2> USE PathsAssumption DEF PathsAssumption, TypeOK, Goto, call
  <2>1. ASSUME NEW w \in Writers, NEW p \in Paths, NEW f \in {"path", "file_path"},
               Call(w, p, f)
        PROVE FlagHasOneOwner'
    BY <2>1, HoldersUnchanged DEF Call, Holds
  <2>2. ASSUME NEW w \in Writers, Try(w) PROVE FlagHasOneOwner'
    <3>1. CASE locked[key[w]]
      BY <2>2, <3>1, HoldersUnchanged DEF Try, Holds
    <3>2. CASE ~locked[key[w]]
      <4>1. \A v \in Writers : ~Holds(v, key[w])
        BY <2>2, <3>2 DEF Try, FlagHasOneOwner
      <4>2. \A v \in Writers, k \in Paths :
               Holds(v, k)' <=> Holds(v, k) \/ (v = w /\ k = key[w])
        BY <2>2, <3>2 DEF Try, Holds
      <4>3. \A k \in Paths : locked'[k] <=> locked[k] \/ k = key[w]
        BY <2>2, <3>2 DEF Try
      <4> QED
        BY <4>1, <4>2, <4>3 DEF FlagHasOneOwner
    <3> QED
      BY <3>1, <3>2
  <2>3. ASSUME NEW w \in Writers, Park(w) \/ SpuriousWake(w) \/ Timeout(w)
        PROVE FlagHasOneOwner'
    BY <2>3, HoldersUnchanged DEF Park, SpuriousWake, Timeout, Holds
  <2>4. ASSUME NEW w \in Writers, WriteBegins(w) PROVE FlagHasOneOwner'
    BY <2>4, HoldersUnchanged DEF WriteBegins, Holds
  <2>5. ASSUME NEW w \in Writers, Release(w) PROVE FlagHasOneOwner'
    <3>1. CASE key[w] = NoPath
      BY <2>5, <3>1, HoldersUnchanged DEF Release, Holds
    <3>2. CASE key[w] # NoPath
      <4>1. Holds(w, key[w])
        BY <2>5 DEF Release, Holds
      <4>2. \A v \in Writers, k \in Paths : Holds(v, k)' <=> Holds(v, k) /\ v # w
        BY <2>5, <3>2 DEF Release, Holds
      <4>3. \A k \in Paths : locked'[k] <=> locked[k] /\ k # key[w]
        BY <2>5, <3>2 DEF Release
      <4> QED
        BY <4>1, <4>2, <4>3, <3>2 DEF FlagHasOneOwner, Holds
    <3> QED
      BY <3>1, <3>2
  <2>6. ASSUME NEW w \in Writers, Notify(w) PROVE FlagHasOneOwner'
    BY <2>6, HoldersUnchanged DEF Notify, Sleepers, Holds
  <2>7. CASE UNCHANGED vars
    BY <2>7, HoldersUnchanged DEF vars, Holds
  <2> QED
    BY <2>1, <2>2, <2>3, <2>4, <2>5, <2>6, <2>7 DEF Next, Acquire
<1> QED
  BY <1>1, <1>2, TypeCorrect, PTL DEF Spec

\* A key that is not the file's own path was taken under another path while the
\* file did not exist; no later creation of the file makes it so.
LEMMA KeysCanonical == Spec => []KeyIsCanonical
<1>1. Init => KeyIsCanonical
  BY DEF Init, KeyIsCanonical
<1>2. TypeOK /\ KeyIsCanonical /\ [Next]_vars => KeyIsCanonical'
  <2> SUFFICES ASSUME TypeOK, KeyIsCanonical, [Next]_vars PROVE KeyIsCanonical'
    OBVIOUS
  <2> USE PathsAssumption DEF PathsAssumption, TypeOK, Goto, call
  <2>1. ASSUME NEW w \in Writers, NEW p \in Paths, NEW f \in {"path", "file_path"},
               Call(w, p, f)
        PROVE KeyIsCanonical'
    <3> SUFFICES ASSUME NEW v \in Writers, pc'[v] # "idle", key'[v] # NoPath,
                        ~(early'[v] /\ path'[v] # FileOf[path'[v]])
                 PROVE  key'[v] = FileOf[path'[v]]
      BY DEF KeyIsCanonical
    <3>1. CASE v = w
      <4>1. key'[w] = KeyOf(p) /\ path'[w] = p /\ (early'[w] <=> FileOf[p] \notin exists)
        BY <2>1, <3>1 DEF Call
      <4> QED
        BY <3>1, <4>1 DEF KeyOf
    <3>2. CASE v # w
      BY <2>1, <3>2 DEF Call, KeyIsCanonical
    <3> QED
      BY <3>1, <3>2
  <2>2. ASSUME NEW w \in Writers,
               Try(w) \/ Park(w) \/ SpuriousWake(w) \/ Timeout(w)
                 \/ WriteBegins(w) \/ Release(w)
        PROVE KeyIsCanonical'
    <3>1. pc[w] # "idle" /\ \A v \in Writers : v # w => pc'[v] = pc[v]
      BY <2>2 DEF Try, Park, SpuriousWake, Timeout, WriteBegins, Release
    <3>2. UNCHANGED call
      BY <2>2 DEF Try, Park, SpuriousWake, Timeout, WriteBegins, Release
    <3> QED
      BY <3>1, <3>2 DEF KeyIsCanonical
  <2>3. ASSUME NEW w \in Writers, Notify(w) PROVE KeyIsCanonical'
    <3>1. \A v \in Writers : pc'[v] # "idle" => pc[v] # "idle"
      BY <2>3 DEF Notify, Sleepers
    <3>2. UNCHANGED call
      BY <2>3 DEF Notify
    <3> QED
      BY <3>1, <3>2 DEF KeyIsCanonical
  <2>4. CASE UNCHANGED vars
    BY <2>4 DEF vars, KeyIsCanonical
  <2> QED
    BY <2>1, <2>2, <2>3, <2>4 DEF Next, Acquire
<1> QED
  BY <1>1, <1>2, TypeCorrect, PTL DEF Spec

\* Of two writers with locks that write one file together, one named it by
\* another path before it existed: a file that exists is never written twice at
\* once by calls made since, whatever paths they use.
THEOREM ExistingFilesExclude == Spec => []ConflictOnlyOnCreation
<1>1. TypeOK /\ FlagHasOneOwner /\ KeyIsCanonical => ConflictOnlyOnCreation
  <2> SUFFICES ASSUME TypeOK, FlagHasOneOwner, KeyIsCanonical,
                      NEW w \in Writers, NEW v \in Writers,
                      w # v, pc[w] = "writing", pc[v] = "writing",
                      FileOf[path[w]] = FileOf[path[v]],
                      key[w] # NoPath, key[v] # NoPath,
                      \A u \in {w, v} : ~(early[u] /\ path[u] # FileOf[path[u]])
               PROVE FALSE
    BY DEF ConflictOnlyOnCreation
  <2>1. key[w] = FileOf[path[w]] /\ key[v] = FileOf[path[v]]
    BY DEF KeyIsCanonical
  <2>2. key[w] \in Paths
    BY DEF TypeOK
  <2>3. Holds(w, key[w]) /\ Holds(v, key[w])
    BY <2>1 DEF Holds
  <2> QED
    BY <2>2, <2>3 DEF FlagHasOneOwner
<1> QED
  BY <1>1, TypeCorrect, OneOwner, KeysCanonical, PTL
=============================================================================
