--------------------------- MODULE SessionBus_proofs ---------------------------
(***************************************************************************)
(* For every set of processes, sessions and permissions and every limit:   *)
(* the types of the bus, that no queue holds what its peer may not be      *)
(* sent, that nothing outlives the peer it belongs to, that a front is     *)
(* given every message once and those of a sender in order, and that a     *)
(* message leaves a queue for a reason.                                    *)
(***************************************************************************)
EXTENDS SessionBusProps, FiniteSetTheorems, WellFoundedInduction, TLAPS

-----------------------------------------------------------------------------
(* The operators.                                                          *)

\* A finite set as a sequence.
LEMMA SeqOfSet ==
  ASSUME NEW S, IsFiniteSet(S)
  PROVE  SetToSeq(S) \in Seq(S) /\ (SetToSeq(S) = <<>> <=> S = {})
<1> DEFINE n == Cardinality(S)
<1>1. n \in Nat /\ ExistsBijection(1..n, S)
  BY FS_CardinalityType
<1>2. PICK f \in [1..n -> S] : IsInjective(f)
  BY <1>1 DEF ExistsBijection, Bijection, Injection
<1>3. SetToSeq(S) \in [1..n -> S]
  BY <1>2 DEF SetToSeq
<1>4. n = 0 <=> S = {}
  BY FS_EmptySet
<1> HIDE DEF n
<1>5. SetToSeq(S) \in Seq(S) /\ Len(SetToSeq(S)) = n
  BY <1>1, <1>3
<1> QED
  BY <1>1, <1>4, <1>5

\* Finitely many places of a queue can be counted in order.
LEMMA PlacesInOrder ==
  ASSUME NEW b \in Nat, NEW places \in SUBSET (1..b)
  PROVE  /\ IsFiniteSet(places) /\ Cardinality(places) \in Nat
         /\ \E kept \in [1..Cardinality(places) -> places] :
               \A k, l \in 1..Cardinality(places) : k < l => kept[k] < kept[l]
<1> DEFINE InOrder(S, f) == /\ f \in [1..Cardinality(S) -> S]
                            /\ \A k, l \in 1..Cardinality(S) : k < l => f[k] < f[l]
           Bad == {c \in Nat : \E S \in SUBSET (1..c) : \A f : ~InOrder(S, f)}
           Less == {ss \in Nat \X Nat : ss[1] < ss[2]}
<1>1. ASSUME NEW c \in Nat, NEW S \in SUBSET (1..c)
      PROVE  IsFiniteSet(S) /\ Cardinality(S) \in Nat
  <2>1. IsFiniteSet(1..c)
    BY FS_Interval
  <2> QED
    BY <2>1, FS_Subset, FS_CardinalityType
<1>2. Bad = {}
  <2> SUFFICES ASSUME Bad # {} PROVE FALSE
    OBVIOUS
  <2>1. PICK c \in Bad : \A d \in Bad : ~(<<d, c>> \in Less)
    <3>1. Bad \subseteq Nat
      OBVIOUS
    <3>2. IsWellFoundedOn(Less, Nat)
      BY NatLessThanWellFounded DEF OpToRel
    <3> HIDE DEF Bad, Less
    <3> QED
      BY <3>1, <3>2, WFMin
  <2>2. \A d \in Nat : d < c => d \notin Bad
    BY <2>1
  <2>3. PICK S \in SUBSET (1..c) : \A f : ~InOrder(S, f)
    OBVIOUS
  <2>4. IsFiniteSet(S) /\ Cardinality(S) \in Nat
    BY <1>1
  <2>5. CASE c = 0
    <3>1. S = {}
      BY <2>5
    <3>1a. Cardinality(S) = 0
      BY <3>1, FS_EmptySet
    <3>2. InOrder(S, [k \in 1..0 |-> 0])
      BY <3>1, <3>1a
    <3> QED
      BY <2>3, <3>2
  <2>6. CASE c # 0
    <3> DEFINE T == S \ {c}
    <3>1. c - 1 \in Nat /\ c - 1 < c /\ T \in SUBSET (1..(c - 1))
      BY <2>6
    <3>2. PICK g : InOrder(T, g)
      BY <2>2, <3>1
    <3>3. CASE c \notin S
      BY <2>3, <3>2, <3>3
    <3>4. CASE c \in S
      <4> DEFINE n == Cardinality(T)
                 h == [k \in 1..(n + 1) |-> IF k = n + 1 THEN c ELSE g[k]]
      <4>1. n \in Nat /\ Cardinality(S) = n + 1
        <5>1. IsFiniteSet(T) /\ Cardinality(T) \in Nat
          BY <1>1, <3>1
        <5>2. S = T \cup {c} /\ c \notin T
          BY <3>4
        <5> HIDE DEF T
        <5> QED
          BY <5>1, <5>2, FS_AddElement
      <4>2. \A k \in 1..n : g[k] \in T /\ g[k] \in S /\ g[k] < c /\ g[k] \in Nat
        <5>1. g \in [1..n -> T]
          BY <3>2
        <5>2. \A i \in T : i \in S /\ i < c /\ i \in Nat
          BY <3>1
        <5> HIDE DEF T, n
        <5> QED
          BY <5>1, <5>2
      <4>3. \A k, l \in 1..n : k < l => g[k] < g[l]
        BY <3>2
      <4> HIDE DEF T, n
      <4>4. h \in [1..(n + 1) -> S]
        BY <3>4, <4>1, <4>2
      <4>5. ASSUME NEW k \in 1..(n + 1), NEW l \in 1..(n + 1), k < l PROVE h[k] < h[l]
        BY <4>1, <4>2, <4>3, <4>5
      <4>6. InOrder(S, h)
        BY <4>1, <4>4, <4>5
      <4> QED
        BY <2>3, <4>6
    <3> QED
      BY <3>3, <3>4
  <2> QED
    BY <2>5, <2>6
<1>3. \E f : InOrder(places, f)
  BY <1>2
<1> QED
  BY <1>1, <1>3

\* What is kept of a queue is what was at the places to keep.
LEMMA KeptPlaces ==
  ASSUME NEW T, NEW q \in Seq(T), NEW places \in SUBSET DOMAIN q
  PROVE  /\ KeepAt(q, places) \in Seq(T) /\ Len(KeepAt(q, places)) <= Len(q)
         /\ ToSet(KeepAt(q, places)) = {q[k] : k \in places}
<1> DEFINE n == Cardinality(places)
           InOrder(f) == \A k, l \in 1..n : k < l => f[k] < f[l]
           kept == CHOOSE f \in [1..n -> places] : InOrder(f)
<1>1. Len(q) \in Nat /\ DOMAIN q = 1..Len(q)
  OBVIOUS
<1>2. IsFiniteSet(places) /\ n \in Nat /\ \E f \in [1..n -> places] : InOrder(f)
  BY <1>1, PlacesInOrder
<1>3. kept \in [1..n -> places] /\ InOrder(kept)
  BY <1>2
<1>4. KeepAt(q, places) = [k \in 1..n |-> q[kept[k]]]
  BY DEF KeepAt
<1>5. n <= Len(q)
  <2>1. ASSUME NEW c \in Nat, places \subseteq 1..c PROVE n <= c
    <3>1. IsFiniteSet(1..c) /\ Cardinality(1..c) = c
      BY FS_Interval
    <3> QED
      BY <2>1, <3>1, FS_Subset
  <2> QED
    BY <1>1, <2>1
<1>6. \A i \in places : \E k \in 1..n : kept[k] = i
  <2>1. IsFiniteSet(1..n) /\ Cardinality(1..n) = n
    BY <1>2, FS_Interval
  <2>2. IsInjective(kept)
    <3>1. DOMAIN kept = 1..n /\ (\A k \in 1..n : kept[k] \in Int) /\ InOrder(kept)
      <4> HIDE DEF kept, InOrder
      <4> QED
        BY <1>1, <1>3
    <3>2. \A k, l \in 1..n : k = l \/ k < l \/ l < k
      BY <1>2
    <3> HIDE DEF kept
    <3>4. ASSUME NEW k \in 1..n, NEW l \in 1..n, kept[k] = kept[l] PROVE k = l
      <4>1. CASE k < l
        BY <3>1, <3>4, <4>1
      <4>2. CASE l < k
        BY <3>1, <3>4, <4>2
      <4> QED
        BY <3>2, <4>1, <4>2
    <3>5. \A k, l \in DOMAIN kept : kept[k] = kept[l] => k = l
      BY <3>1, <3>4
    <3> QED
      BY <3>5 DEF IsInjective
  <2>3. kept \in Injection(1..n, places)
    BY <1>3, <2>2 DEF Injection
  <2>4. kept \in Surjection(1..n, places)
    <3> HIDE DEF kept
    <3> QED
      BY <1>2, <2>1, <2>3, FS_Injection
  <2> QED
    BY <2>4 DEF Surjection
<1> HIDE DEF n, kept
<1>7. \A k \in 1..n : kept[k] \in places /\ q[kept[k]] \in T
  BY <1>3
<1>8. /\ KeepAt(q, places) \in Seq(T) /\ Len(KeepAt(q, places)) = n
      /\ DOMAIN KeepAt(q, places) = 1..n
      /\ \A k \in 1..n : KeepAt(q, places)[k] = q[kept[k]]
  BY <1>2, <1>4, <1>7
<1>9. ToSet(KeepAt(q, places)) = {q[k] : k \in places}
  <2>1. ToSet(KeepAt(q, places)) = {q[kept[k]] : k \in 1..n}
    BY <1>8 DEF ToSet
  <2>2. {q[kept[k]] : k \in 1..n} \subseteq {q[k] : k \in places}
    BY <1>7
  <2>3. ASSUME NEW i \in places PROVE q[i] \in {q[kept[k]] : k \in 1..n}
    BY <1>6
  <2> QED
    BY <2>1, <2>2, <2>3
<1> QED
  BY <1>5, <1>8, <1>9

\* A message put into a queue drops at most the oldest, and that only at the
\* limit.
LEMMA Pushed ==
  ASSUME NEW q \in Seq(Message), Len(q) <= MaxUnread, NEW m \in Message
  PROVE  /\ Push(q, m) \in Seq(Message) /\ Len(Push(q, m)) <= MaxUnread
         /\ ToSet(Push(q, m)) \subseteq ToSet(q) \cup {m}
         /\ \A k \in DOMAIN q :
               \/ q[k] \in ToSet(Push(q, m))
               \/ k = 1 /\ Len(q) = MaxUnread /\ Len(Push(q, m)) = MaxUnread
<1>0. MaxUnread \in Nat /\ MaxUnread > 0 /\ Len(q) \in Nat
  BY BusAssumption DEF BusAssumption
<1>1. CASE Len(q) = MaxUnread
  <2> DEFINE r == Append(Tail(q), m)
  <2>1. q # <<>> /\ Push(q, m) = r
    BY <1>0, <1>1 DEF Push
  <2>2. /\ r \in Seq(Message) /\ Len(r) = MaxUnread /\ DOMAIN r = 1..MaxUnread
        /\ r[MaxUnread] = m /\ \A k \in 1..(MaxUnread - 1) : r[k] = q[k + 1]
    BY <1>0, <1>1, <2>1
  <2>3. \A k \in 1..MaxUnread : k = MaxUnread \/ k \in 1..(MaxUnread - 1)
    BY <1>0
  <2>4. \A k \in 1..(MaxUnread - 1) : k + 1 \in DOMAIN q /\ k \in DOMAIN r
    BY <1>0, <1>1, <2>2
  <2>5. \A k \in DOMAIN q : k # 1 => k - 1 \in 1..(MaxUnread - 1) /\ (k - 1) + 1 = k
    BY <1>0, <1>1
  <2> HIDE DEF r
  <2>6. ToSet(r) \subseteq ToSet(q) \cup {m}
    BY <2>2, <2>3, <2>4 DEF ToSet
  <2>7. \A k \in DOMAIN q : k # 1 => q[k] \in ToSet(r)
    BY <2>2, <2>4, <2>5 DEF ToSet
  <2> QED
    BY <1>0, <1>1, <2>1, <2>2, <2>6, <2>7
<1>2. CASE Len(q) # MaxUnread
  <2> DEFINE r == Append(q, m)
  <2>1. Push(q, m) = r /\ Len(q) < MaxUnread
    BY <1>0, <1>2 DEF Push
  <2>2. /\ r \in Seq(Message) /\ Len(r) = Len(q) + 1 /\ DOMAIN r = 1..(Len(q) + 1)
        /\ r[Len(q) + 1] = m /\ \A k \in 1..Len(q) : r[k] = q[k] /\ k \in DOMAIN r
        /\ DOMAIN q = 1..Len(q)
    BY <1>0
  <2>3. \A k \in 1..(Len(q) + 1) : k = Len(q) + 1 \/ k \in 1..Len(q)
    BY <1>0
  <2> HIDE DEF r
  <2>4. ToSet(r) \subseteq ToSet(q) \cup {m}
    BY <2>2, <2>3 DEF ToSet
  <2>5. \A k \in DOMAIN q : q[k] \in ToSet(r)
    BY <2>2 DEF ToSet
  <2> QED
    <3>1. Len(r) <= MaxUnread
      BY <1>0, <2>1, <2>2
    <3> QED
      BY <2>1, <2>2, <2>4, <2>5, <3>1
<1> QED
  BY <1>1, <1>2

\* A message newer than what its front has of the sender keeps the order.
LEMMA AscendingAppend ==
  ASSUME NEW q \in Seq(Message), NEW m \in Message, Ascending(q),
         \A k \in DOMAIN q : q[k].from = m.from => q[k].n < m.n
  PROVE  Ascending(Append(q, m))
<1> DEFINE r == Append(q, m)
<1>1. /\ \A k \in DOMAIN r :
            \/ k \in DOMAIN q /\ r[k] = q[k] /\ k \in Int /\ k <= Len(q)
            \/ k = Len(q) + 1 /\ r[k] = m
      /\ Len(q) \in Nat
  OBVIOUS
<1> HIDE DEF r
<1>2. Ascending(r)
  <2> SUFFICES ASSUME NEW k \in DOMAIN r, NEW l \in DOMAIN r, k < l, r[k].from = r[l].from
               PROVE  r[k].n < r[l].n
    BY DEF Ascending
  <2>1. k \in DOMAIN q /\ r[k] = q[k]
    BY <1>1
  <2> QED
    BY <1>1, <2>1 DEF Ascending
<1> QED
  BY <1>2 DEF r

\* So does leaving out the first of what waits.
LEMMA AscendingTail ==
  ASSUME NEW s \in Seq(Message), NEW q \in Seq(Message), q # <<>>, Ascending(s \o q)
  PROVE  Ascending(s \o Tail(q))
<1> DEFINE r == s \o q
           t == s \o Tail(q)
<1>1. /\ Len(s) \in Nat /\ Len(q) \in Nat \ {0} /\ Tail(q) \in Seq(Message)
      /\ Len(Tail(q)) = Len(q) - 1
      /\ \A k \in 1..(Len(q) - 1) : Tail(q)[k] = q[k + 1]
  OBVIOUS
<1>2. /\ DOMAIN r = 1..(Len(s) + Len(q)) /\ DOMAIN t = 1..(Len(s) + Len(q) - 1)
      /\ \A k \in DOMAIN r : r[k] = IF k <= Len(s) THEN s[k] ELSE q[k - Len(s)]
      /\ \A k \in DOMAIN t : t[k] = IF k <= Len(s) THEN s[k] ELSE Tail(q)[k - Len(s)]
  BY <1>1
<1> DEFINE at(k) == IF k <= Len(s) THEN k ELSE k + 1
<1>3. ASSUME NEW k \in DOMAIN t PROVE at(k) \in DOMAIN r /\ t[k] = r[at(k)] /\ k \in Int
  <2>1. CASE k <= Len(s)
    BY <1>1, <1>2, <2>1
  <2>2. CASE ~(k <= Len(s))
    <3>1. /\ k \in Int /\ k - Len(s) \in 1..(Len(q) - 1) /\ k + 1 \in DOMAIN r
          /\ ~(k + 1 <= Len(s)) /\ (k + 1) - Len(s) = (k - Len(s)) + 1
      BY <1>1, <1>2, <2>2
    <3>2. t[k] = q[(k - Len(s)) + 1] /\ r[k + 1] = q[(k + 1) - Len(s)]
      BY <1>1, <1>2, <2>2, <3>1
    <3> QED
      BY <2>2, <3>1, <3>2
  <2> QED
    BY <2>1, <2>2
<1>4. \A k, l \in DOMAIN t : k < l => at(k) < at(l)
  BY <1>1, <1>3
<1> HIDE DEF r, t, at
<1>5. Ascending(t)
  BY <1>3, <1>4 DEF Ascending, r
<1> QED
  BY <1>5 DEF t

LEMMA AscendingPush ==
  ASSUME NEW s \in Seq(Message), NEW q \in Seq(Message), Len(q) <= MaxUnread, NEW m \in Message,
         Ascending(s \o q),
         \A x \in ToSet(s) \cup ToSet(q) : x.from = m.from => x.n < m.n
  PROVE  Ascending(s \o Push(q, m))
<1>1. ASSUME NEW u \in Seq(Message), ToSet(u) \subseteq ToSet(q), Ascending(s \o u)
      PROVE  Ascending(s \o Append(u, m))
  <2> DEFINE r == s \o u
  <2>1. r \in Seq(Message) /\ s \o Append(u, m) = Append(r, m)
    OBVIOUS
  <2>2. \A k \in DOMAIN r : r[k] \in ToSet(s) \cup ToSet(u)
    <3>1. \A k \in DOMAIN r : \/ k \in DOMAIN s /\ r[k] = s[k]
                              \/ k - Len(s) \in DOMAIN u /\ r[k] = u[k - Len(s)]
      OBVIOUS
    <3> HIDE DEF r
    <3> QED
      BY <3>1 DEF ToSet
  <2>3. \A k \in DOMAIN r : r[k].from = m.from => r[k].n < m.n
    BY <1>1, <2>2
  <2>4. Ascending(r)
    BY <1>1
  <2> HIDE DEF r
  <2> QED
    BY <2>1, <2>3, <2>4, AscendingAppend
<1>2. CASE Len(q) = MaxUnread
  <2>1. q # <<>>
    BY <1>2, BusAssumption DEF BusAssumption
  <2>2. Tail(q) \in Seq(Message) /\ ToSet(Tail(q)) \subseteq ToSet(q)
    <3>1. /\ Tail(q) \in Seq(Message)
          /\ \A k \in DOMAIN Tail(q) : k + 1 \in DOMAIN q /\ Tail(q)[k] = q[k + 1]
      BY <2>1
    <3> QED
      BY <3>1 DEF ToSet
  <2> QED
    BY <1>1, <1>2, <2>1, <2>2, AscendingTail DEF Push
<1>3. CASE Len(q) # MaxUnread
  BY <1>1, <1>3 DEF Push
<1> QED
  BY <1>2, <1>3

\* A dispatch puts a copy of the message into the queues of peers it is allowed to
\* reach, and leaves the others.
LEMMA Dispatched ==
  ASSUME TypeInv, NEW p \in Procs, NEW m \in Message, NEW enforce \in BOOLEAN,
         Dispatch(p, m, enforce)
  PROVE  /\ unread' \in [Procs -> [Ids -> Seq(Message)]]
         /\ \A r \in Procs, i \in Ids :
              /\ Len(unread'[r][i]) <= MaxUnread
              /\ \/ unread'[r][i] = unread[r][i]
                 \/ /\ r = p /\ i \in Registered(p)
                    /\ enforce => IsAllowed(KindAt(p, m.from), KindAt(p, i))
                    /\ \E c \in Message : /\ c.from = m.from /\ c.n = m.n
                                         /\ unread'[r][i] = Push(unread[r][i], c)
<1> DEFINE copy(i) == [m EXCEPT !.to = i, !.relay = TRUE]
<1>1. /\ unread \in [Procs -> [Ids -> Seq(Message)]]
      /\ \A r \in Procs, i \in Ids : unread[r][i] \in Seq(Message) /\ Len(unread[r][i]) <= MaxUnread
  BY DEF TypeInv
<1>2. ASSUME NEW i \in Ids
      PROVE  copy(i) \in Message /\ copy(i).from = m.from /\ copy(i).n = m.n
  BY DEF Message
<1>3. ASSUME NEW i \in Ids
      PROVE  unread'[p][i] = CASE i \in Direct(p, m, enforce) -> Push(unread[p][i], m)
                               [] i \in Mirrors(p, m, enforce) -> Push(unread[p][i], copy(i))
                               [] OTHER -> unread[p][i]
  BY <1>1 DEF Dispatch
<1>4. \A r \in Procs : r # p => unread'[r] = unread[r]
  BY <1>1 DEF Dispatch
<1>5. ASSUME NEW i \in Ids
      PROVE  \/ unread'[p][i] = unread[p][i]
             \/ /\ i \in Registered(p) /\ (enforce => IsAllowed(KindAt(p, m.from), KindAt(p, i)))
                /\ \E c \in Message : /\ c.from = m.from /\ c.n = m.n
                                     /\ unread'[p][i] = Push(unread[p][i], c)
  <2> HIDE DEF copy
  <2>1. CASE i \in Direct(p, m, enforce)
    <3>1. unread'[p][i] = Push(unread[p][i], m)
      BY <1>3, <2>1 DEF Mirrors
    <3> QED
      BY <2>1, <3>1 DEF Direct
  <2>2. CASE i \in Mirrors(p, m, enforce)
    <3>1. unread'[p][i] = Push(unread[p][i], copy(i)) /\ i \in Registered(p)
          /\ IsAllowed(KindAt(p, m.from), KindAt(p, i))
      BY <1>3, <2>2 DEF Mirrors
    <3> QED
      BY <1>2, <3>1
  <2>3. CASE i \notin Direct(p, m, enforce) /\ i \notin Mirrors(p, m, enforce)
    BY <1>3, <2>3
  <2> QED
    BY <2>1, <2>2, <2>3
<1>6. ASSUME NEW r \in Procs, NEW i \in Ids
      PROVE  unread'[r][i] \in Seq(Message) /\ Len(unread'[r][i]) <= MaxUnread
  <2>1. CASE unread'[r][i] = unread[r][i]
    BY <1>1, <2>1
  <2>2. CASE r = p /\ \E c \in Message : unread'[p][i] = Push(unread[p][i], c)
    <3>1. PICK c \in Message : unread'[r][i] = Push(unread[r][i], c)
      BY <2>2
    <3>2. unread[r][i] \in Seq(Message) /\ Len(unread[r][i]) <= MaxUnread
      BY <1>1
    <3> QED
      BY <3>1, <3>2, Pushed
  <2> QED
    BY <1>4, <1>5, <2>1, <2>2
<1>7. unread' \in [Procs -> [Ids -> Seq(Message)]]
  <2>1. /\ unread' = [r \in Procs |-> unread'[r]]
        /\ \A r \in Procs : unread'[r] = [i \in Ids |-> unread'[r][i]]
    <3> DEFINE new == [i \in Ids |-> CASE i \in Direct(p, m, enforce) -> Push(unread[p][i], m)
                                      [] i \in Mirrors(p, m, enforce) -> Push(unread[p][i], copy(i))
                                      [] OTHER -> unread[p][i]]
    <3>1. unread' = [unread EXCEPT ![p] = new]
      BY DEF Dispatch
    <3>2. new = [i \in Ids |-> new[i]]
      OBVIOUS
    <3> HIDE DEF new
    <3> QED
      BY <1>1, <3>1, <3>2
  <2> QED
    BY <1>6, <2>1
<1> QED
  BY <1>4, <1>5, <1>6, <1>7

-----------------------------------------------------------------------------
(* The threads.                                                            *)

LEMMA AtTyped ==
  ASSUME NEW place \in Places
  PROVE  /\ At(place) \in ThreadSet /\ At(place).at = place
         /\ At(place).msgs = <<>> /\ At(place).ids = <<>>
BY DEF At, ThreadSet

LEMMA SendingTyped ==
  ASSUME NEW m \in Message
  PROVE  /\ Sending(m) \in ThreadSet /\ Sending(m).at = "dispatch"
         /\ Sending(m).msgs # <<>> /\ Head(Sending(m).msgs) = m
<1>1. <<m>> \in Seq(Message) /\ <<m>> # <<>> /\ Head(<<m>>) = m /\ <<>> \in Seq(Ids)
  OBVIOUS
<1>2. Sending(m) = [at |-> "dispatch", msgs |-> <<m>>, ids |-> <<>>]
  BY DEF Sending, At
<1> QED
  BY <1>1, <1>2 DEF ThreadSet, Places

\* What is composed next.
LEMMA Composed ==
  ASSUME sent \in 0..MaxMessages, sent < MaxMessages,
         NEW i \in Ids, NEW to \in Ids \union {All}, NEW body \in Bodies
  PROVE  LET m == [n |-> sent + 1, from |-> i, to |-> to, body |-> body, relay |-> FALSE] IN
         m \in Message /\ m.from = i /\ m.n = sent + 1 /\ m.to = to
BY BusAssumption DEF BusAssumption, Message

\* A thread goes on.
LEMMA ThreadStep ==
  ASSUME TypeInv, ThreadInv, NEW i \in Ids, NEW t \in ThreadSet,
         thread' = [thread EXCEPT ![i] = t],
         sent' \in Nat, sent' >= sent, Carries(i, t, sent')
  PROVE  thread' \in [Ids -> ThreadSet] /\ ThreadInv'
<1>1. thread \in [Ids -> ThreadSet] /\ sent \in Nat
  BY BusAssumption DEF TypeInv, BusAssumption
<1>2. ASSUME NEW j \in Ids PROVE Carries(j, thread'[j], sent')
  <2>1. CASE j = i
    BY <1>1, <2>1
  <2>2. CASE j # i
    <3>1. thread'[j] = thread[j] /\ Carries(j, thread[j], sent) /\ thread[j] \in ThreadSet
      BY <1>1, <2>2 DEF ThreadInv
    <3>2. thread[j].at \in {"dispatch", "write"} => Head(thread[j].msgs).n \in Nat
      <4> SUFFICES ASSUME thread[j].at \in {"dispatch", "write"} PROVE Head(thread[j].msgs).n \in Nat
        OBVIOUS
      <4>1. thread[j].msgs \in Seq(Message) /\ thread[j].msgs # <<>>
        BY <3>1 DEF Carries, ThreadSet
      <4>2. Head(thread[j].msgs) \in Message
        BY <4>1
      <4> QED
        BY <4>2 DEF Message
    <3> QED
      BY <1>1, <3>1, <3>2 DEF Carries
  <2> QED
    BY <2>1, <2>2
<1> QED
  BY <1>1, <1>2 DEF ThreadInv

\* The first of a sequence, and the others.
LEMMA FirstAndRest ==
  ASSUME NEW S, NEW q \in Seq(S), q # <<>>
  PROVE  /\ Tail(q) \in Seq(S) /\ Head(q) \in S /\ Head(q) = q[1] /\ 1 \in DOMAIN q
         /\ \A k \in DOMAIN Tail(q) : k + 1 \in DOMAIN q /\ Tail(q)[k] = q[k + 1]
         /\ Head(q) \in ToSet(q) /\ ToSet(Tail(q)) \subseteq ToSet(q) /\ ToSet(q) \subseteq S
<1>1. /\ Tail(q) \in Seq(S) /\ Head(q) \in S /\ Head(q) = q[1] /\ 1 \in DOMAIN q
      /\ \A k \in DOMAIN Tail(q) : k + 1 \in DOMAIN q /\ Tail(q)[k] = q[k + 1]
  OBVIOUS
<1> QED
  BY <1>1 DEF ToSet

\* A thread that carries nothing.
LEMMA EmptyHanded ==
  ASSUME NEW i, NEW n, NEW place \in {"idle", "turn", "killed", "prune", "handoff"}
  PROVE  At(place) \in ThreadSet /\ Carries(i, At(place), n)
BY AtTyped DEF Carries, Places

\* The message a thread is about to publish or to write to files.
LEMMA CarriedMessage ==
  ASSUME TypeInv, ThreadInv, NEW i \in Ids, thread[i].at \in {"dispatch", "write"}
  PROVE  LET m == Head(thread[i].msgs) IN
         /\ thread[i].msgs \in Seq(Message) /\ thread[i].msgs # <<>> /\ m \in Message
         /\ m.from = i /\ m.n <= sent /\ (i \in Subs => m.to = All)
<1>1. thread[i] \in ThreadSet /\ Carries(i, thread[i], sent)
  BY DEF TypeInv, ThreadInv
<1>2. thread[i].msgs \in Seq(Message) /\ thread[i].msgs # <<>>
  BY <1>1 DEF ThreadSet, Carries
<1> QED
  BY <1>1, <1>2 DEF Carries

\* The mailboxes a message is routed to.
LEMMA RoutesOk ==
  ASSUME TypeInv, PeerInv, NEW i \in Ids, NEW m \in Message, m.from = i, i \in Subs => m.to = All
  PROVE  /\ IsFiniteSet(Routes(HomeOf[i], m, TRUE)) /\ Routes(HomeOf[i], m, TRUE) \subseteq Boxes
         /\ \A f \in Routes(HomeOf[i], m, TRUE) :
              IsAllowed(KindOf[i], "Ide") /\ (i \in Subs => HomeOf[f] # HomeOf[i])
<1>1. Routes(HomeOf[i], m, TRUE) \subseteq Boxes
  BY DEF Routes
<1>2. IsFiniteSet(Routes(HomeOf[i], m, TRUE))
  BY <1>1, FS_Subset, BusAssumption DEF BusAssumption
<1>3. ASSUME NEW f \in Routes(HomeOf[i], m, TRUE), i \in Subs PROVE HomeOf[f] # HomeOf[i]
  <2>1. f \notin Registered(HomeOf[i]) /\ f \in Fronts
    BY <1>3, BusAssumption DEF Routes, BusAssumption
  <2> QED
    BY <2>1 DEF Registered, PeerInv, Ids
<1>4. \A f \in Routes(HomeOf[i], m, TRUE) : IsAllowed(KindOf[i], "Ide")
  BY DEF Routes, KindAt
<1> QED
  BY <1>1, <1>2, <1>3, <1>4

\* The peers a sub-agent prunes.
LEMMA DoneOk ==
  ASSUME PeerInv, NEW s \in Subs
  PROVE  /\ IsFiniteSet(DonePeers(HomeOf[s])) /\ DonePeers(HomeOf[s]) \subseteq Subs
         /\ \A i \in DonePeers(HomeOf[s]) : HomeOf[i] = HomeOf[s]
<1>1. HomeOf[s] \in Procs
  BY BusAssumption DEF BusAssumption, Ids
<1>2. DonePeers(HomeOf[s]) \subseteq Subs
  BY <1>1 DEF DonePeers, Registered, PeerInv
<1>3. IsFiniteSet(DonePeers(HomeOf[s]))
  BY <1>2, FS_Subset, BusAssumption DEF BusAssumption
<1>4. \A i \in DonePeers(HomeOf[s]) : HomeOf[i] = HomeOf[s]
  BY DEF DonePeers, KindAt
<1> QED
  BY <1>2, <1>3, <1>4

\* Every step keeps what the threads carry.
LEMMA ThreadsKept ==
  ASSUME TypeInv, ThreadInv, PeerInv, [Next]_vars
  PROVE  /\ thread' \in [Ids -> ThreadSet] /\ ThreadInv'
         /\ sent' \in 0..MaxMessages /\ sent' >= sent
<1>1. /\ sent \in Nat /\ sent <= MaxMessages /\ MaxMessages \in Nat
      /\ thread \in [Ids -> ThreadSet]
      /\ Fronts \subseteq Ids /\ Subs \subseteq Ids /\ Readers \subseteq Fronts /\ Boxes \subseteq Fronts
  BY BusAssumption DEF TypeInv, BusAssumption, Ids
<1>2. ASSUME UNCHANGED <<thread, sent>>
      PROVE  thread' \in [Ids -> ThreadSet] /\ ThreadInv' /\ sent' \in 0..MaxMessages /\ sent' >= sent
  BY <1>1, <1>2 DEF ThreadInv, TypeInv
<1>3. ASSUME NEW i \in Ids, NEW t \in ThreadSet, thread' = [thread EXCEPT ![i] = t],
             sent' = sent \/ (sent < MaxMessages /\ sent' = sent + 1), Carries(i, t, sent')
      PROVE  thread' \in [Ids -> ThreadSet] /\ ThreadInv' /\ sent' \in 0..MaxMessages /\ sent' >= sent
  <2>1. sent' \in Nat /\ sent' >= sent /\ sent' <= MaxMessages
    BY <1>1, <1>3
  <2>2. thread' \in [Ids -> ThreadSet] /\ ThreadInv'
    BY <1>3, <2>1, ThreadStep
  <2> QED
    BY <2>1, <2>2
<1>4. ASSUME NEW i \in Ids, NEW place \in {"idle", "turn", "killed", "prune", "handoff"},
             thread' = [thread EXCEPT ![i] = At(place)],
             sent' = sent \/ (sent < MaxMessages /\ sent' = sent + 1)
      PROVE  thread' \in [Ids -> ThreadSet] /\ ThreadInv' /\ sent' \in 0..MaxMessages /\ sent' >= sent
  BY <1>3, <1>4, EmptyHanded
<1>5. ASSUME NEW i \in Ids, NEW to \in Ids \cup {All}, NEW body \in Bodies, i \in Subs => to = All,
             sent < MaxMessages, sent' = sent + 1,
             thread' = [thread EXCEPT ![i] = Sending(
                [n |-> sent + 1, from |-> i, to |-> to, body |-> body, relay |-> FALSE])]
      PROVE  thread' \in [Ids -> ThreadSet] /\ ThreadInv' /\ sent' \in 0..MaxMessages /\ sent' >= sent
  <2> DEFINE m == [n |-> sent + 1, from |-> i, to |-> to, body |-> body, relay |-> FALSE]
             t == Sending(m)
  <2>1. m \in Message /\ m.from = i /\ m.n = sent + 1 /\ m.to = to
    BY <1>1, <1>5, Composed DEF TypeInv
  <2> HIDE DEF m
  <2>2. t \in ThreadSet /\ t.at = "dispatch" /\ t.msgs # <<>> /\ Head(t.msgs) = m
    BY <2>1, SendingTyped
  <2>3. Carries(i, t, sent')
    <3> HIDE DEF t
    <3> QED
      BY <1>1, <1>5, <2>1, <2>2 DEF Carries
  <2>4. thread' = [thread EXCEPT ![i] = t]
    BY <1>5 DEF m
  <2> HIDE DEF t
  <2> QED
    BY <1>3, <1>5, <2>2, <2>3, <2>4
<1>6. ASSUME NEW f \in Fronts, NEW to \in Ids \cup {All}, Compose(f, to)
      PROVE  thread' \in [Ids -> ThreadSet] /\ ThreadInv' /\ sent' \in 0..MaxMessages /\ sent' >= sent
  <2>1. PICK body \in Bodies :
           thread' = [thread EXCEPT ![f] = Sending(
              [n |-> sent + 1, from |-> f, to |-> to, body |-> body, relay |-> FALSE])]
    BY <1>6 DEF Compose, Bodies
  <2>2. sent < MaxMessages /\ sent' = sent + 1 /\ f \notin Subs
    BY <1>6, BusAssumption DEF Compose, BusAssumption
  <2> QED
    BY <1>1, <1>5, <2>1, <2>2
<1>7. ASSUME NEW i \in Ids, Publish(i)
      PROVE  thread' \in [Ids -> ThreadSet] /\ ThreadInv' /\ sent' \in 0..MaxMessages /\ sent' >= sent
  <2> DEFINE m == Head(thread[i].msgs)
             R == Routes(HomeOf[i], m, TRUE)
             routes == SetToSeq(R)
             t == [at |-> "write", msgs |-> <<m>>, ids |-> routes]
  <2>1. thread[i].at = "dispatch" /\ sent' = sent
        /\ thread' = [thread EXCEPT ![i] = IF routes = <<>> THEN At("idle") ELSE t]
    BY <1>7 DEF Publish
  <2>2. m \in Message /\ m.from = i /\ m.n <= sent /\ (i \in Subs => m.to = All)
    BY <2>1, CarriedMessage
  <2>3. CASE routes = <<>>
    BY <1>4, <2>1, <2>3
  <2>4. CASE routes # <<>>
    <3> HIDE DEF m
    <3>1. /\ IsFiniteSet(R) /\ R \subseteq Boxes
          /\ \A f \in R : IsAllowed(KindOf[i], "Ide") /\ (i \in Subs => HomeOf[f] # HomeOf[i])
      BY <2>2, RoutesOk
    <3> HIDE DEF R
    <3>2. routes \in Seq(R)
      BY <3>1, SeqOfSet
    <3> HIDE DEF routes
    <3>3. routes \in Seq(Ids) /\ 1 \in DOMAIN routes /\ \A k \in DOMAIN routes : routes[k] \in R
      BY <1>1, <2>4, <3>1, <3>2
    <3>4. t \in ThreadSet
      BY <2>2, <3>3 DEF ThreadSet, Places
    <3>5. Carries(i, t, sent)
      BY <2>2, <2>4, <3>1, <3>3 DEF Carries
    <3> HIDE DEF t
    <3> QED
      BY <1>3, <2>1, <2>4, <3>4, <3>5
  <2> QED
    BY <2>3, <2>4
<1>8. ASSUME NEW i \in Ids, NEW fails \in BOOLEAN, WriteFile(i, fails)
      PROVE  thread' \in [Ids -> ThreadSet] /\ ThreadInv' /\ sent' \in 0..MaxMessages /\ sent' >= sent
  <2> DEFINE rest == Tail(thread[i].ids)
             t == [thread[i] EXCEPT !.ids = rest]
  <2>1. thread[i].at = "write" /\ sent' = sent
        /\ thread' = [thread EXCEPT ![i] = IF rest = <<>> THEN At("idle") ELSE t]
    BY <1>1, <1>8 DEF WriteFile
  <2>2. thread[i] \in ThreadSet /\ Carries(i, thread[i], sent)
    BY <1>1 DEF ThreadInv
  <2>3. thread[i].ids \in Seq(Ids) /\ thread[i].ids # <<>>
    BY <2>1, <2>2 DEF ThreadSet, Carries
  <2>4. /\ rest \in Seq(Ids)
        /\ \A k \in DOMAIN rest : k + 1 \in DOMAIN thread[i].ids /\ rest[k] = thread[i].ids[k + 1]
    BY <2>3, FirstAndRest
  <2>5. CASE rest = <<>>
    BY <1>4, <2>1, <2>5
  <2>6. CASE rest # <<>>
    <3> HIDE DEF rest
    <3>1. t \in ThreadSet /\ t.at = "write" /\ t.msgs = thread[i].msgs /\ t.ids = rest
      BY <2>1, <2>2, <2>4 DEF ThreadSet
    <3>2. Carries(i, t, sent)
      <4> HIDE DEF t
      <4> QED
        BY <2>1, <2>2, <2>4, <2>6, <3>1 DEF Carries
    <3> HIDE DEF t
    <3> QED
      BY <1>3, <2>1, <2>6, <3>1, <3>2
  <2> QED
    BY <2>5, <2>6
<1>9. ASSUME NEW s \in Subs, Register(s) \/ ConsumeCommands(s) \/ End(s) \/ Return(s)
      PROVE  thread' \in [Ids -> ThreadSet] /\ ThreadInv' /\ sent' \in 0..MaxMessages /\ sent' >= sent
  <2>1. sent' = sent /\ \E place \in {"idle", "turn", "killed", "prune"} :
           thread' = [thread EXCEPT ![s] = At(place)]
    BY <1>9 DEF Register, ConsumeCommands, End, Return
  <2> QED
    BY <1>1, <1>4, <2>1
<1>10. ASSUME NEW s \in Subs, Prune(s)
       PROVE  thread' \in [Ids -> ThreadSet] /\ ThreadInv' /\ sent' \in 0..MaxMessages /\ sent' >= sent
  <2>1. PICK stale \in SUBSET DonePeers(HomeOf[s]) :
           thread' = [thread EXCEPT ![s] =
              IF stale = {} THEN At("handoff") ELSE [At("leave") EXCEPT !.ids = SetToSeq(stale)]]
    BY <1>10 DEF Prune
  <2>2. sent' = sent
    BY <1>10 DEF Prune
  <2>3. CASE stale = {}
    BY <1>1, <1>4, <2>1, <2>2, <2>3
  <2>4. CASE stale # {}
    <3> DEFINE ids == SetToSeq(stale)
               t == [at |-> "leave", msgs |-> <<>>, ids |-> ids]
    <3>1. IsFiniteSet(stale) /\ \A i \in stale : i \in Subs /\ HomeOf[i] = HomeOf[s]
      BY DoneOk, FS_Subset
    <3>2. ids \in Seq(stale) /\ ids # <<>>
      BY <2>4, <3>1, SeqOfSet
    <3>3. thread' = [thread EXCEPT ![s] = t]
      <4>1. ASSUME NEW q PROVE [At("leave") EXCEPT !.ids = q] = [at |-> "leave", msgs |-> <<>>, ids |-> q]
        BY DEF At
      <4>2. [At("leave") EXCEPT !.ids = SetToSeq(stale)] = t
        BY <4>1
      <4> QED
        BY <2>1, <2>4, <4>2
    <3> HIDE DEF ids
    <3>4. ids \in Seq(Ids) /\ \A k \in DOMAIN ids : ids[k] \in stale
      BY <1>1, <3>1, <3>2
    <3>5. t \in ThreadSet /\ Carries(s, t, sent)
      BY <3>1, <3>2, <3>4 DEF ThreadSet, Carries, Places
    <3> HIDE DEF t
    <3> QED
      BY <1>1, <1>3, <2>2, <3>3, <3>5
  <2> QED
    BY <2>3, <2>4
<1>11. ASSUME NEW s \in Subs, LeavePeers(s) \/ LeaveUnread(s)
       PROVE  thread' \in [Ids -> ThreadSet] /\ ThreadInv' /\ sent' \in 0..MaxMessages /\ sent' >= sent
  <2>1. PICK place \in {"unqueue", "unwatch"} : thread' = [thread EXCEPT ![s].at = place]
    BY <1>11 DEF LeavePeers, LeaveUnread
  <2>2. sent' = sent /\ thread[s].at \in {"leave", "unqueue"}
    BY <1>11 DEF LeavePeers, LeaveUnread
  <2> DEFINE t == [thread[s] EXCEPT !.at = place]
  <2>3. thread[s] \in ThreadSet /\ Carries(s, thread[s], sent)
    BY <1>1 DEF ThreadInv
  <2>4. t \in ThreadSet /\ t.at = place /\ t.ids = thread[s].ids
    BY <2>3 DEF ThreadSet, Places
  <2>5. thread' = [thread EXCEPT ![s] = t]
    BY <1>1, <2>1
  <2> HIDE DEF t
  <2>6. Carries(s, t, sent)
    BY <2>2, <2>3, <2>4 DEF Carries
  <2> QED
    BY <1>1, <1>3, <2>2, <2>4, <2>5, <2>6
<1>12. ASSUME NEW s \in Subs, LeaveWatch(s)
       PROVE  thread' \in [Ids -> ThreadSet] /\ ThreadInv' /\ sent' \in 0..MaxMessages /\ sent' >= sent
  <2> DEFINE rest == Tail(thread[s].ids)
             t == [thread[s] EXCEPT !.at = "leave", !.ids = rest]
  <2>1. thread[s].at = "unwatch" /\ sent' = sent
        /\ thread' = [thread EXCEPT ![s] = IF rest = <<>> THEN At("handoff") ELSE t]
    BY <1>1, <1>12 DEF LeaveWatch
  <2>2. thread[s] \in ThreadSet /\ Carries(s, thread[s], sent)
    BY <1>1 DEF ThreadInv
  <2>3. thread[s].ids \in Seq(Ids) /\ thread[s].ids # <<>>
    BY <2>1, <2>2 DEF ThreadSet, Carries
  <2>4. /\ rest \in Seq(Ids)
        /\ \A k \in DOMAIN rest : k + 1 \in DOMAIN thread[s].ids /\ rest[k] = thread[s].ids[k + 1]
    BY <2>3, FirstAndRest
  <2>5. CASE rest = <<>>
    BY <1>1, <1>4, <2>1, <2>5
  <2>6. CASE rest # <<>>
    <3> HIDE DEF rest
    <3>1. t \in ThreadSet /\ t.at = "leave" /\ t.ids = rest
      BY <2>2, <2>4 DEF ThreadSet, Places
    <3>2. Carries(s, t, sent)
      <4> HIDE DEF t
      <4> QED
        BY <2>1, <2>2, <2>4, <2>6, <3>1 DEF Carries
    <3> HIDE DEF t
    <3> QED
      BY <1>1, <1>3, <2>1, <2>6, <3>1, <3>2
  <2> QED
    BY <2>5, <2>6
<1>13. ASSUME NEW s \in Subs, Handoff(s)
       PROVE  thread' \in [Ids -> ThreadSet] /\ ThreadInv' /\ sent' \in 0..MaxMessages /\ sent' >= sent
  <2>1. sent < MaxMessages /\ sent' = sent + 1
    BY <1>13 DEF Handoff
  <2>2. CASE status[HomeOf[s]][s] = "Absent"
    BY <1>1, <1>4, <1>13, <2>1, <2>2 DEF Handoff
  <2>3. CASE status[HomeOf[s]][s] # "Absent"
    <3>1. thread' = [thread EXCEPT ![s] = Sending(
             [n |-> sent + 1, from |-> s, to |-> All, body |-> "Handoff", relay |-> FALSE])]
      BY <1>13, <2>3 DEF Handoff
    <3> QED
      BY <1>1, <1>5, <2>1, <3>1 DEF Bodies
  <2> QED
    BY <2>2, <2>3
<1>14. ASSUME NEW f \in Fronts, \E target \in Ids : Watch(f, target) \/ Unwatch(f, target)
       PROVE  UNCHANGED <<thread, sent>>
  BY <1>14 DEF Watch, Unwatch
<1>15. ASSUME NEW f, Show(f) \/ Poll(f) PROVE UNCHANGED <<thread, sent>>
  BY <1>15 DEF Show, ReadUnread, MarkRead, Poll, ConsumeMailbox, Take, RegisterRemote, Inject
<1>16. CASE UNCHANGED vars
  BY <1>2, <1>16 DEF vars
<1> QED
  BY <1>2, <1>6, <1>7, <1>8, <1>9, <1>10, <1>11, <1>12, <1>13, <1>14, <1>15, <1>16
  DEF Next, Act, Send, Finish

-----------------------------------------------------------------------------
(* The peers, the mailboxes and their pollers.                             *)

\* The sets the sessions are from.
LEMMA Sessions ==
  /\ Fronts \subseteq Ids /\ Subs \subseteq Ids /\ Readers \subseteq Fronts /\ Boxes \subseteq Fronts
  /\ Fronts \cap Subs = {} /\ \A i \in Ids : HomeOf[i] \in Procs
BY BusAssumption DEF BusAssumption, Ids

\* What a poller has at hand, once it has taken it.
LEMMA BatchOk ==
  ASSUME BaseInv, NEW p \in Procs
  PROVE  /\ poller[p] \in PollerSet /\ poller[p].batch \in Seq(Message)
         /\ poller[p].batch # <<>> =>
              LET m == Head(poller[p].batch) IN
              /\ m \in Message /\ m.from \in Ids /\ Tail(poller[p].batch) \in Seq(Message)
              /\ ToSet(Tail(poller[p].batch)) \subseteq ToSet(poller[p].batch)
              /\ \E f \in Boxes : HomeOf[f] = p /\ FileOk(f, m)
         /\ poller[p].step # "take" =>
              poller[p].batch # <<>> /\ Incoming(p) = {Head(poller[p].batch).from}
<1>1. poller[p] \in PollerSet /\ poller[p].batch \in Seq(Message)
  BY DEF BaseInv, TypeInv, PollerSet
<1>2. ASSUME poller[p].batch # <<>>
      PROVE  /\ Head(poller[p].batch) \in Message /\ Head(poller[p].batch) \in ToSet(poller[p].batch)
             /\ Tail(poller[p].batch) \in Seq(Message)
             /\ ToSet(Tail(poller[p].batch)) \subseteq ToSet(poller[p].batch)
  BY <1>1, <1>2, FirstAndRest
<1>3. ASSUME poller[p].batch # <<>>
      PROVE  /\ Head(poller[p].batch).from \in Ids
             /\ \E f \in Boxes : HomeOf[f] = p /\ FileOk(f, Head(poller[p].batch))
  BY <1>2, <1>3 DEF BaseInv, FileInv, Message
<1>4. poller[p].step # "take" =>
         poller[p].batch # <<>> /\ Incoming(p) = {Head(poller[p].batch).from}
  BY DEF BaseInv, PollerInv, Incoming
<1> QED
  BY <1>1, <1>2, <1>3, <1>4

\* How a step changes what a process knows of the sessions: it registers,
\* marks and forgets its own sub-agents, and registers strangers.
LEMMA StatusSteps ==
  ASSUME BaseInv, [Next]_vars
  PROVE  /\ status' \in [Procs -> [Ids -> Statuses]]
         /\ \A p \in Procs, i \in Ids :
              \/ status'[p][i] = status[p][i]
              \/ HomeOf[i] = p /\ i \in Subs
              \/ HomeOf[i] # p /\ status'[p][i] = "Idle"
<1>1. status \in [Procs -> [Ids -> Statuses]]
  BY DEF BaseInv, TypeInv
<1>2. ASSUME NEW p \in Procs, NEW j \in Ids, NEW v \in Statuses, status' = [status EXCEPT ![p][j] = v],
             (HomeOf[j] = p /\ j \in Subs) \/ (HomeOf[j] # p /\ v = "Idle")
      PROVE  /\ status' \in [Procs -> [Ids -> Statuses]]
             /\ \A r \in Procs, i \in Ids :
                  \/ status'[r][i] = status[r][i]
                  \/ HomeOf[i] = r /\ i \in Subs
                  \/ HomeOf[i] # r /\ status'[r][i] = "Idle"
  BY <1>1, <1>2
<1>3. ASSUME status' = status
      PROVE  /\ status' \in [Procs -> [Ids -> Statuses]]
             /\ \A r \in Procs, i \in Ids : status'[r][i] = status[r][i]
  BY <1>1, <1>3
<1>4. ASSUME NEW s \in Subs, Register(s) \/ End(s) \/ Handoff(s)
      PROVE  \E v \in Statuses : status' = [status EXCEPT ![HomeOf[s]][s] = v]
  <2>1. HomeOf[s] \in Procs /\ s \in Ids
    BY Sessions
  <2>2. status[HomeOf[s]][s] \in Statuses
    BY <1>1, <2>1
  <2>3. CASE Register(s)
    BY <2>3 DEF Register, Statuses
  <2>4. CASE SetDone(HomeOf[s], s)
    <3>1. status' = [status EXCEPT ![HomeOf[s]][s] =
             IF status[HomeOf[s]][s] = "Absent" THEN status[HomeOf[s]][s] ELSE "Done"]
      BY <2>4 DEF SetDone
    <3> QED
      BY <2>2, <3>1 DEF Statuses
  <2> QED
    BY <1>4, <2>3, <2>4 DEF End, Handoff
<1>5. ASSUME NEW s \in Subs, LeavePeers(s)
      PROVE  /\ Head(thread[s].ids) \in Subs /\ HomeOf[Head(thread[s].ids)] = HomeOf[s]
             /\ status' = [status EXCEPT ![HomeOf[s]][Head(thread[s].ids)] = "Absent"]
  <2>1. thread[s].at = "leave" /\ s \in Ids
    BY <1>5, Sessions DEF LeavePeers
  <2>2. thread[s] \in ThreadSet /\ Carries(s, thread[s], sent)
    BY <2>1 DEF BaseInv, TypeInv, ThreadInv
  <2>3. thread[s].ids \in Seq(Ids) /\ thread[s].ids # <<>>
    BY <2>1, <2>2 DEF ThreadSet, Carries
  <2>4. 1 \in DOMAIN thread[s].ids /\ Head(thread[s].ids) = thread[s].ids[1]
    BY <2>3, FirstAndRest
  <2> QED
    BY <1>5, <2>1, <2>2, <2>4 DEF Carries, LeavePeers
<1>6. ASSUME NEW f \in Boxes, RegisterRemote(f)
      PROVE  \E j \in Ids : /\ HomeOf[j] # HomeOf[f]
                           /\ status' = [status EXCEPT ![HomeOf[f]][j] = "Idle"]
  <2> DEFINE p == HomeOf[f]
  <2>1. p \in Procs /\ poller[p].step = "register"
    BY <1>6, Sessions DEF RegisterRemote
  <2>2. Head(poller[p].batch).from \in Ids /\ Head(poller[p].batch).from \in Incoming(p)
    BY <2>1, BatchOk
  <2> QED
    BY <1>6, <2>1, <2>2 DEF RegisterRemote, BaseInv, PollerInv
<1>7. ASSUME NEW f, Act(f) \/ Show(f) PROVE status' = status
  BY <1>7 DEF Act, Compose, Watch, Unwatch, Show, ReadUnread, MarkRead
<1>8. ASSUME NEW i, NEW fails \in BOOLEAN, Publish(i) \/ WriteFile(i, fails) PROVE status' = status
  BY <1>8 DEF Publish, WriteFile
<1>9. ASSUME NEW s, ConsumeCommands(s) \/ Prune(s) \/ LeaveUnread(s) \/ LeaveWatch(s) \/ Return(s)
      PROVE  status' = status
  BY <1>9 DEF ConsumeCommands, Prune, LeaveUnread, LeaveWatch, Return
<1>10. ASSUME NEW f, ConsumeMailbox(f) \/ Take(f) \/ Inject(f) PROVE status' = status
  BY <1>10 DEF ConsumeMailbox, Take, Inject
<1>11. CASE UNCHANGED vars
  BY <1>3, <1>11 DEF vars
<1>12. CASE \E s \in Subs : Register(s) \/ End(s) \/ Handoff(s) \/ LeavePeers(s)
  <2>1. PICK s \in Subs : Register(s) \/ End(s) \/ Handoff(s) \/ LeavePeers(s)
    BY <1>12
  <2>2. \E j \in Subs, v \in Statuses :
           HomeOf[j] = HomeOf[s] /\ status' = [status EXCEPT ![HomeOf[s]][j] = v]
    BY <1>4, <1>5, <2>1 DEF Statuses
  <2>3. HomeOf[s] \in Procs /\ Subs \subseteq Ids
    BY Sessions
  <2>4. PICK j \in Subs, v \in Statuses :
           HomeOf[j] = HomeOf[s] /\ status' = [status EXCEPT ![HomeOf[s]][j] = v]
    BY <2>2
  <2> QED
    BY <1>2, <2>3, <2>4
<1>13. CASE \E f \in Boxes : RegisterRemote(f)
  <2>1. PICK f \in Boxes : RegisterRemote(f)
    BY <1>13
  <2>2. "Idle" \in Statuses /\ HomeOf[f] \in Procs
    BY Sessions DEF Statuses
  <2>3. PICK j \in Ids : /\ HomeOf[j] # HomeOf[f]
                         /\ status' = [status EXCEPT ![HomeOf[f]][j] = "Idle"]
    BY <1>6, <2>1
  <2> QED
    BY <1>2, <2>2, <2>3
<1> QED
  BY <1>3, <1>7, <1>8, <1>9, <1>10, <1>11, <1>12, <1>13 DEF Next, Send, Finish, Poll

LEMMA PeersKept ==
  ASSUME BaseInv, [Next]_vars
  PROVE  PeerInv'
<1>1. PeerInv /\ \A f \in Fronts : f \notin Subs /\ f \in Ids /\ HomeOf[f] \in Procs
  BY Sessions DEF BaseInv
<1> QED
  BY <1>1, StatusSteps DEF PeerInv

\* What a thread writes to a mailbox may go there; what a poller leaves was there.
LEMMA MailboxesKept ==
  ASSUME BaseInv, [Next]_vars
  PROVE  /\ mailbox' \in [Boxes -> Seq(Message)]
         /\ \A f \in Boxes : \A m \in ToSet(mailbox'[f]) : FileOk(f, m)
<1>1. /\ mailbox \in [Boxes -> Seq(Message)]
      /\ \A f \in Boxes : \A m \in ToSet(mailbox[f]) : FileOk(f, m)
  BY DEF BaseInv, TypeInv, FileInv
<1>2. ASSUME NEW f \in Boxes, NEW q \in Seq(Message), mailbox' = [mailbox EXCEPT ![f] = q],
             \A m \in ToSet(q) : FileOk(f, m)
      PROVE  /\ mailbox' \in [Boxes -> Seq(Message)]
             /\ \A g \in Boxes : \A m \in ToSet(mailbox'[g]) : FileOk(g, m)
  <2>1. mailbox' \in [Boxes -> Seq(Message)] /\ \A g \in Boxes : mailbox'[g] = IF g = f THEN q ELSE mailbox[g]
    BY <1>1, <1>2
  <2> QED
    BY <1>1, <1>2, <2>1
<1>3. ASSUME NEW i \in Ids, NEW fails \in BOOLEAN, WriteFile(i, fails), mailbox' # mailbox
      PROVE  \E f \in Boxes, q \in Seq(Message) :
                mailbox' = [mailbox EXCEPT ![f] = q] /\ \A m \in ToSet(q) : FileOk(f, m)
  <2> DEFINE to == Head(thread[i].ids)
             m == Head(thread[i].msgs)
             c == [m EXCEPT !.to = to]
  <2>1. thread[i].at = "write" /\ mailbox' = [mailbox EXCEPT ![to] = Append(mailbox[to], c)]
    BY <1>3 DEF WriteFile
  <2>2. thread[i] \in ThreadSet /\ Carries(i, thread[i], sent)
    BY DEF BaseInv, TypeInv, ThreadInv
  <2>3. thread[i].ids \in Seq(Ids) /\ thread[i].ids # <<>>
    BY <2>1, <2>2 DEF ThreadSet, Carries
  <2>4. 1 \in DOMAIN thread[i].ids /\ to = thread[i].ids[1] /\ to \in Ids
    BY <2>3, FirstAndRest
  <2>5. to \in Boxes /\ IsAllowed(KindOf[i], "Ide") /\ (i \in Subs => HomeOf[to] # HomeOf[i])
    BY <2>1, <2>2, <2>4 DEF Carries
  <2>6. m \in Message /\ m.from = i
    BY <2>1, CarriedMessage DEF BaseInv
  <2> HIDE DEF m, to
  <2>7. c \in Message /\ c.from = i /\ c.to = to
    BY <2>4, <2>6 DEF Message
  <2> HIDE DEF c
  <2>8. FileOk(to, c)
    BY <2>5, <2>7 DEF FileOk
  <2>9. Append(mailbox[to], c) \in Seq(Message)
        /\ ToSet(Append(mailbox[to], c)) \subseteq ToSet(mailbox[to]) \cup {c}
    <3>1. mailbox[to] \in Seq(Message)
      BY <1>1, <2>5
    <3>2. \A k \in DOMAIN Append(mailbox[to], c) :
             \/ k \in DOMAIN mailbox[to] /\ Append(mailbox[to], c)[k] = mailbox[to][k]
             \/ Append(mailbox[to], c)[k] = c
      BY <3>1
    <3> QED
      BY <2>7, <3>1, <3>2 DEF ToSet
  <2>10. \A x \in ToSet(Append(mailbox[to], c)) : FileOk(to, x)
    BY <1>1, <2>5, <2>8, <2>9
  <2> QED
    BY <2>1, <2>5, <2>9, <2>10
<1>4. ASSUME NEW f \in Boxes, ConsumeMailbox(f)
      PROVE  \E q \in Seq(Message) :
                mailbox' = [mailbox EXCEPT ![f] = q] /\ \A m \in ToSet(q) : FileOk(f, m)
  <2> DEFINE files == mailbox[f]
  <2>1. PICK stuck \in SUBSET DOMAIN files : mailbox' = [mailbox EXCEPT ![f] = KeepAt(files, stuck)]
    BY <1>4 DEF ConsumeMailbox
  <2>2. files \in Seq(Message) /\ \A m \in ToSet(files) : FileOk(f, m)
    BY <1>1
  <2> HIDE DEF files
  <2>3. KeepAt(files, stuck) \in Seq(Message) /\ ToSet(KeepAt(files, stuck)) \subseteq ToSet(files)
    <3>1. ToSet(KeepAt(files, stuck)) = {files[k] : k \in stuck} /\ KeepAt(files, stuck) \in Seq(Message)
      BY <2>2, KeptPlaces
    <3>2. {files[k] : k \in stuck} \subseteq ToSet(files)
      BY DEF ToSet
    <3> QED
      BY <3>1, <3>2
  <2> QED
    BY <2>1, <2>2, <2>3
<1>5. ASSUME NEW f, Act(f) \/ Show(f) PROVE mailbox' = mailbox
  BY <1>5 DEF Act, Compose, Watch, Unwatch, Show, ReadUnread, MarkRead
<1>6. ASSUME NEW s, Register(s) \/ ConsumeCommands(s) \/ Finish(s) PROVE mailbox' = mailbox
  BY <1>6 DEF Register, ConsumeCommands, Finish, End, Prune, LeavePeers, LeaveUnread, LeaveWatch,
              Handoff, Return
<1>7. ASSUME NEW i, Publish(i) PROVE mailbox' = mailbox
  BY <1>7 DEF Publish
<1>8. ASSUME NEW f, Take(f) \/ RegisterRemote(f) \/ Inject(f) PROVE mailbox' = mailbox
  BY <1>8 DEF Take, RegisterRemote, Inject
<1>9. CASE UNCHANGED vars
  BY <1>1, <1>9 DEF vars
<1>10. CASE mailbox' = mailbox
  BY <1>1, <1>10
<1>11. CASE \E i \in Ids, fails \in BOOLEAN : WriteFile(i, fails)
  BY <1>2, <1>3, <1>10, <1>11
<1>12. CASE \E f \in Boxes : ConsumeMailbox(f)
  BY <1>2, <1>4, <1>12
<1> QED
  BY <1>5, <1>6, <1>7, <1>8, <1>9, <1>10, <1>11, <1>12 DEF Next, Send, Poll

\* A poller is about to register and to deliver for a session of another process.
LEMMA PollersKept ==
  ASSUME BaseInv, [Next]_vars
  PROVE  /\ poller' \in [Procs -> PollerSet] /\ PollerInv'
         /\ \A p \in Procs : \A m \in ToSet(poller'[p].batch) :
              \E f \in Boxes : HomeOf[f] = p /\ FileOk(f, m)
<1> DEFINE Ok(p, t) ==
       /\ \A m \in ToSet(t.batch) : \E f \in Boxes : HomeOf[f] = p /\ FileOk(f, m)
       /\ t.step # "take" =>
            /\ t.batch # <<>> /\ Head(t.batch).from \in Ids /\ HomeOf[Head(t.batch).from] # p
            /\ t.step = "inject" => status'[p][Head(t.batch).from] # "Absent"
<1>1. poller \in [Procs -> PollerSet] /\ \A f \in Boxes : HomeOf[f] \in Procs /\ f \in Ids
  BY Sessions DEF BaseInv, TypeInv
<1>2. \A p \in Procs, i \in Ids : HomeOf[i] # p /\ status[p][i] # "Absent" => status'[p][i] # "Absent"
  BY StatusSteps
<1>3. ASSUME NEW p \in Procs PROVE Ok(p, poller[p])
  <2>1. \A m \in ToSet(poller[p].batch) : \E f \in Boxes : HomeOf[f] = p /\ FileOk(f, m)
    BY DEF BaseInv, FileInv
  <2>2. ASSUME poller[p].step # "take"
        PROVE  /\ poller[p].batch # <<>> /\ Head(poller[p].batch).from \in Ids
               /\ HomeOf[Head(poller[p].batch).from] # p
               /\ poller[p].step = "inject" => status'[p][Head(poller[p].batch).from] # "Absent"
    <3>1. /\ poller[p].batch # <<>> /\ Head(poller[p].batch).from \in Ids
          /\ Head(poller[p].batch).from \in Incoming(p)
      BY <2>2, BatchOk
    <3>2. /\ HomeOf[Head(poller[p].batch).from] # p
          /\ poller[p].step = "inject" => status[p][Head(poller[p].batch).from] # "Absent"
      BY <3>1 DEF BaseInv, PollerInv
    <3> QED
      BY <1>2, <3>1, <3>2
  <2> QED
    BY <2>1, <2>2
<1>4. ASSUME poller' \in [Procs -> PollerSet], \A p \in Procs : Ok(p, poller'[p])
      PROVE  /\ PollerInv'
             /\ \A p \in Procs : \A m \in ToSet(poller'[p].batch) :
                  \E f \in Boxes : HomeOf[f] = p /\ FileOk(f, m)
  BY <1>4 DEF PollerInv, Incoming
<1> HIDE DEF Ok
<1>5. ASSUME NEW p \in Procs, NEW t \in PollerSet, poller' = [poller EXCEPT ![p] = t], Ok(p, t)
      PROVE  poller' \in [Procs -> PollerSet] /\ \A r \in Procs : Ok(r, poller'[r])
  BY <1>1, <1>3, <1>5
<1>6. CASE poller' = poller
  BY <1>1, <1>3, <1>4, <1>6
<1>7. ASSUME NEW f \in Boxes, Poll(f)
      PROVE  \E t \in PollerSet : poller' = [poller EXCEPT ![HomeOf[f]] = t] /\ Ok(HomeOf[f], t)
  <2> DEFINE p == HomeOf[f]
             batch == poller[p].batch
  <2>0. p \in Procs /\ poller[p] \in PollerSet /\ batch \in Seq(Message) /\ Ok(p, poller[p])
    BY <1>1, <1>3 DEF PollerSet
  <2>1. ASSUME NEW step \in PollerSteps, NEW q \in Seq(Message)
        PROVE  /\ [step |-> step, batch |-> q] \in PollerSet
               /\ [step |-> step, batch |-> q].step = step /\ [step |-> step, batch |-> q].batch = q
    BY DEF PollerSet
  <2>2. poller[p] = [step |-> poller[p].step, batch |-> batch]
    BY <2>0 DEF PollerSet
  <2>3. batch # <<>> =>
          /\ Head(batch) \in Message /\ Head(batch).from \in Ids
          /\ Tail(batch) \in Seq(Message) /\ ToSet(Tail(batch)) \subseteq ToSet(batch)
          /\ \E g \in Boxes : HomeOf[g] = p /\ FileOk(g, Head(batch))
    BY <2>0, BatchOk
  <2>4. batch # <<>> => Ok(p, [step |-> "take", batch |-> Tail(batch)])
    BY <2>0, <2>3 DEF Ok
  <2>5. CASE ConsumeMailbox(f)
    <3> DEFINE t == [step |-> "take", batch |-> mailbox[f]]
    <3>1. poller[p].step = "take" /\ poller' = [poller EXCEPT ![p].batch = mailbox[f]]
      BY <2>5 DEF ConsumeMailbox
    <3>2. poller' = [poller EXCEPT ![p] = t]
      <4>1. poller' = [poller EXCEPT ![p] = [poller[p] EXCEPT !.batch = mailbox[f]]]
        BY <3>1
      <4>2. [poller[p] EXCEPT !.batch = mailbox[f]] = t
        BY <2>2, <3>1
      <4> QED
        BY <4>1, <4>2
    <3>3. mailbox[f] \in Seq(Message) /\ \A m \in ToSet(mailbox[f]) : FileOk(f, m)
      BY DEF BaseInv, TypeInv, FileInv
    <3>4. t \in PollerSet /\ Ok(p, t)
      BY <2>0, <3>3 DEF Ok, PollerSet, PollerSteps
    <3> QED
      BY <3>2, <3>4
  <2>6. CASE Take(f)
    <3>1. /\ poller[p].step = "take" /\ batch # <<>>
          /\ poller' = [poller EXCEPT ![p] =
               IF Skips(f) THEN [step |-> "take", batch |-> Tail(batch)]
               ELSE [poller[p] EXCEPT !.step = "register"]]
      BY <1>1, <2>0, <2>6 DEF Take
    <3>2. CASE Skips(f)
      <4>2. [step |-> "take", batch |-> Tail(batch)] \in PollerSet
        BY <2>3, <3>1 DEF PollerSet, PollerSteps
      <4> QED
        BY <2>4, <3>1, <3>2, <4>2
    <3>3. CASE ~Skips(f)
      <4> DEFINE t == [step |-> "register", batch |-> batch]
      <4>1. [poller[p] EXCEPT !.step = "register"] = t
        BY <2>2, <3>1
      <4>2. HomeOf[Head(batch).from] # p
        <5>1. Head(batch).from \notin Registered(p) /\ Head(batch).from \in Ids
          BY <2>3, <3>1, <3>3 DEF Skips
        <5>2. status[p][Head(batch).from] = "Absent"
          BY <5>1 DEF Registered
        <5>3. Head(batch).from \in Subs => HomeOf[Head(batch).from] # p
          BY <2>3, <3>1 DEF FileOk
        <5>4. Head(batch).from \in Fronts => HomeOf[Head(batch).from] # p
          BY <5>2 DEF BaseInv, PeerInv
        <5> QED
          BY <5>1, <5>3, <5>4 DEF Ids
      <4>3. t \in PollerSet
        BY <2>0 DEF PollerSet, PollerSteps
      <4>4. Ok(p, t)
        BY <2>0, <2>3, <3>1, <4>2 DEF Ok
      <4> QED
        BY <3>1, <3>3, <4>1, <4>3, <4>4
    <3> QED
      BY <3>2, <3>3
  <2>7. CASE RegisterRemote(f)
    <3> DEFINE t == [step |-> "inject", batch |-> batch]
    <3>1. /\ poller[p].step = "register"
          /\ poller' = [poller EXCEPT ![p].step = "inject"]
          /\ status' = [status EXCEPT ![p][Head(batch).from] = "Idle"]
      BY <2>7 DEF RegisterRemote
    <3>2. poller' = [poller EXCEPT ![p] = t]
      <4>1. poller' = [poller EXCEPT ![p] = [poller[p] EXCEPT !.step = "inject"]]
        BY <3>1
      <4>2. [poller[p] EXCEPT !.step = "inject"] = t
        BY <2>2
      <4> QED
        BY <4>1, <4>2
    <3>3. batch # <<>> /\ Head(batch).from \in Ids /\ HomeOf[Head(batch).from] # p
      BY <2>0, <3>1 DEF Ok
    <3>4. status'[p][Head(batch).from] # "Absent"
      BY <2>0, <3>1, <3>3 DEF BaseInv, TypeInv
    <3>5. t \in PollerSet
      BY <2>0 DEF PollerSet, PollerSteps
    <3>6. Ok(p, t)
      BY <2>0, <3>3, <3>4 DEF Ok
    <3> QED
      BY <3>2, <3>5, <3>6
  <2>8. CASE Inject(f)
    <3>1. /\ poller[p].step = "inject"
          /\ poller' = [poller EXCEPT ![p] = [step |-> "take", batch |-> Tail(batch)]]
      BY <1>1, <2>8 DEF Inject
    <3>2. batch # <<>>
      BY <2>0, <3>1 DEF Ok
    <3>3. [step |-> "take", batch |-> Tail(batch)] \in PollerSet
      BY <2>3, <3>2 DEF PollerSet, PollerSteps
    <3> QED
      BY <2>4, <3>1, <3>2, <3>3
  <2> QED
    BY <1>7, <2>5, <2>6, <2>7, <2>8 DEF Poll
<1>8. CASE \E f \in Boxes : Poll(f)
  BY <1>1, <1>4, <1>5, <1>7, <1>8
<1>9. ASSUME NEW f, Act(f) \/ Show(f) PROVE poller' = poller
  BY <1>9 DEF Act, Compose, Watch, Unwatch, Show, ReadUnread, MarkRead
<1>10. ASSUME NEW s, Register(s) \/ ConsumeCommands(s) \/ Finish(s) PROVE poller' = poller
  BY <1>10 DEF Register, ConsumeCommands, Finish, End, Prune, LeavePeers, LeaveUnread, LeaveWatch,
               Handoff, Return
<1>11. ASSUME NEW i, Send(i) \/ WriteFile(i, TRUE) PROVE poller' = poller
  BY <1>11 DEF Send, Publish, WriteFile
<1>12. CASE UNCHANGED vars
  BY <1>6, <1>12 DEF vars
<1> QED
  BY <1>6, <1>8, <1>9, <1>10, <1>11, <1>12 DEF Next

LEMMA FilesKept ==
  ASSUME BaseInv, [Next]_vars
  PROVE  FileInv' /\ PollerInv'
BY MailboxesKept, PollersKept DEF FileInv

-----------------------------------------------------------------------------
(* The queues.                                                             *)

\* A message of m's sender arrives: from the thread that published it, or from
\* the poller that brought it.
Arrives(p, i, m) ==
  IF HomeOf[m.from] = p
  THEN /\ IsAllowed(KindOf[m.from], KindAt(p, i))
       /\ thread[m.from].at = "dispatch" /\ m.n = Head(thread[m.from].msgs).n
       /\ thread'[m.from].at # "dispatch"
  ELSE /\ IsAllowed(KindOf[m.from], "Ide")
       /\ m.from \in Incoming(p) /\ m.from \notin Incoming(p)'
       /\ status[p][m.from] # "Absent" /\ status' = status

Queued(p, i) ==
  /\ i \in Registered(p)
  /\ UNCHANGED <<reader, shown>>
  /\ \E m \in Message : Arrives(p, i, m) /\ unread'[p][i] = Push(unread[p][i], m)

Consumed(p, i) ==
  /\ i \in Subs /\ HomeOf[i] = p /\ thread[i].at = "turn"
  /\ unread'[p][i] = KeepAt(unread[p][i], DOMAIN unread[p][i] \ CommandsIn(unread[p][i]))

Cleared(p, i) == i \in Fronts /\ HomeOf[i] = p /\ MarkRead(i) /\ unread'[p][i] = <<>>

Removed(p, i) == i \in Subs /\ HomeOf[i] = p /\ Removing(p, i, {"unqueue"}) /\ unread'[p][i] = <<>>

QueueStep(p, i) ==
  unread'[p][i] = unread[p][i] \/ Queued(p, i) \/ Consumed(p, i) \/ Cleared(p, i) \/ Removed(p, i)

UnreadOk ==
  /\ unread \in [Procs -> [Ids -> Seq(Message)]]
  /\ \A p \in Procs, i \in Ids : Len(unread[p][i]) <= MaxUnread

LEMMA PublishQueues ==
  ASSUME BaseInv, NEW i \in Ids, Publish(i)
  PROVE  UnreadOk' /\ \A p \in Procs, j \in Ids : QueueStep(p, j)
<1> DEFINE m == Head(thread[i].msgs)
           home == HomeOf[i]
<1>1. /\ thread[i].at = "dispatch" /\ Dispatch(home, m, TRUE) /\ UNCHANGED <<reader, shown>>
      /\ thread'[i].at # "dispatch" /\ home \in Procs
  <2>1. /\ thread[i].at = "dispatch" /\ Dispatch(home, m, TRUE) /\ UNCHANGED <<reader, shown>>
    BY DEF Publish
  <2>3. \E t : t.at # "dispatch" /\ thread' = [thread EXCEPT ![i] = t]
    <3> DEFINE routes == SetToSeq(Routes(home, m, TRUE))
    <3>1. thread' = [thread EXCEPT ![i] =
             IF routes = <<>> THEN At("idle") ELSE [at |-> "write", msgs |-> <<m>>, ids |-> routes]]
      BY DEF Publish
    <3> HIDE DEF routes, m
    <3>2. CASE routes = <<>>
      <4>1. At("idle").at # "dispatch"
        BY DEF At
      <4> QED
        BY <3>1, <3>2, <4>1
    <3>3. CASE routes # <<>>
      BY <3>1, <3>3
    <3> QED
      BY <3>2, <3>3
  <2>2. thread \in [Ids -> ThreadSet] /\ home \in Procs
    BY Sessions DEF BaseInv, TypeInv
  <2> QED
    BY <2>1, <2>2, <2>3
<1>2. m \in Message /\ m.from = i
  BY <1>1, CarriedMessage DEF BaseInv
<1> HIDE DEF m
<1>3. KindAt(home, m.from) = KindOf[i]
  BY <1>2 DEF KindAt
<1>4. /\ unread' \in [Procs -> [Ids -> Seq(Message)]]
      /\ \A p \in Procs, j \in Ids :
           /\ Len(unread'[p][j]) <= MaxUnread
           /\ \/ unread'[p][j] = unread[p][j]
              \/ /\ p = home /\ j \in Registered(home)
                 /\ IsAllowed(KindOf[i], KindAt(home, j))
                 /\ \E c \in Message : c.from = i /\ c.n = m.n /\ unread'[p][j] = Push(unread[p][j], c)
  <2>1. /\ unread' \in [Procs -> [Ids -> Seq(Message)]]
        /\ \A r \in Procs, j \in Ids :
             /\ Len(unread'[r][j]) <= MaxUnread
             /\ \/ unread'[r][j] = unread[r][j]
                \/ /\ r = home /\ j \in Registered(home)
                   /\ TRUE => IsAllowed(KindAt(home, m.from), KindAt(home, j))
                   /\ \E c \in Message : /\ c.from = m.from /\ c.n = m.n
                                        /\ unread'[r][j] = Push(unread[r][j], c)
    <3>1. TypeInv /\ home \in Procs /\ m \in Message /\ TRUE \in BOOLEAN /\ Dispatch(home, m, TRUE)
      BY <1>1, <1>2 DEF BaseInv
    <3> HIDE DEF home
    <3> QED
      BY <3>1, Dispatched, Zenon
  <2> QED
    BY <1>2, <1>3, <2>1
<1>5. ASSUME NEW p \in Procs, NEW j \in Ids PROVE QueueStep(p, j)
  <2> SUFFICES ASSUME unread'[p][j] # unread[p][j] PROVE Queued(p, j)
    BY DEF QueueStep
  <2>1. p = home /\ j \in Registered(home) /\ IsAllowed(KindOf[i], KindAt(home, j))
    BY <1>4
  <2>2. PICK c \in Message : c.from = i /\ c.n = m.n /\ unread'[p][j] = Push(unread[p][j], c)
    BY <1>4
  <2>3. Arrives(p, j, c)
    BY <1>1, <2>1, <2>2 DEF Arrives, m
  <2> QED
    BY <1>1, <2>1, <2>2, <2>3 DEF Queued
<1> QED
  BY <1>4, <1>5 DEF UnreadOk

LEMMA InjectQueues ==
  ASSUME BaseInv, NEW f \in Boxes, Inject(f)
  PROVE  UnreadOk' /\ \A p \in Procs, j \in Ids : QueueStep(p, j)
<1> DEFINE home == HomeOf[f]
           m == Head(poller[home].batch)
<1>1. /\ poller[home].step = "inject" /\ Dispatch(home, m, FALSE) /\ UNCHANGED <<reader, shown, status>>
      /\ poller'[home].step = "take" /\ home \in Procs
  <2>1. poller \in [Procs -> PollerSet] /\ home \in Procs
    BY Sessions DEF BaseInv, TypeInv
  <2> QED
    BY <2>1 DEF Inject
<1>2. /\ m \in Message /\ m.from \in Ids /\ Incoming(home) = {m.from}
      /\ IsAllowed(KindOf[m.from], "Ide") /\ HomeOf[m.from] # home /\ status[home][m.from] # "Absent"
  <2>1. /\ m \in Message /\ m.from \in Ids /\ Incoming(home) = {m.from}
        /\ \E g \in Boxes : HomeOf[g] = home /\ FileOk(g, m)
    BY <1>1, BatchOk
  <2> QED
    BY <1>1, <2>1 DEF FileOk, BaseInv, PollerInv
<1>3. Incoming(home)' = {}
  BY <1>1 DEF Incoming
<1> HIDE DEF m
<1>4. /\ unread' \in [Procs -> [Ids -> Seq(Message)]]
      /\ \A p \in Procs, j \in Ids :
           /\ Len(unread'[p][j]) <= MaxUnread
           /\ \/ unread'[p][j] = unread[p][j]
              \/ /\ p = home /\ j \in Registered(home)
                 /\ \E c \in Message : c.from = m.from /\ unread'[p][j] = Push(unread[p][j], c)
  <2>1. /\ unread' \in [Procs -> [Ids -> Seq(Message)]]
        /\ \A r \in Procs, j \in Ids :
             /\ Len(unread'[r][j]) <= MaxUnread
             /\ \/ unread'[r][j] = unread[r][j]
                \/ /\ r = home /\ j \in Registered(home)
                   /\ FALSE => IsAllowed(KindAt(home, m.from), KindAt(home, j))
                   /\ \E c \in Message : /\ c.from = m.from /\ c.n = m.n
                                        /\ unread'[r][j] = Push(unread[r][j], c)
    <3>1. TypeInv /\ home \in Procs /\ m \in Message /\ FALSE \in BOOLEAN /\ Dispatch(home, m, FALSE)
      BY <1>1, <1>2 DEF BaseInv
    <3> HIDE DEF home
    <3> QED
      BY <3>1, Dispatched, Zenon
  <2> QED
    BY <2>1
<1>5. ASSUME NEW p \in Procs, NEW j \in Ids PROVE QueueStep(p, j)
  <2> SUFFICES ASSUME unread'[p][j] # unread[p][j] PROVE Queued(p, j)
    BY DEF QueueStep
  <2>1. p = home /\ j \in Registered(home)
    BY <1>4
  <2>2. PICK c \in Message : c.from = m.from /\ unread'[p][j] = Push(unread[p][j], c)
    BY <1>4
  <2>3. Arrives(p, j, c)
    BY <1>1, <1>2, <1>3, <2>1, <2>2 DEF Arrives
  <2> QED
    BY <1>1, <2>1, <2>2, <2>3 DEF Queued
<1> QED
  BY <1>4, <1>5 DEF UnreadOk

\* Every step does one of five things to a queue.
LEMMA QueueSteps ==
  ASSUME BaseInv, [Next]_vars
  PROVE  UnreadOk' /\ \A p \in Procs, i \in Ids : QueueStep(p, i)
<1>1. unread \in [Procs -> [Ids -> Seq(Message)]] /\ UnreadOk
  BY DEF BaseInv, TypeInv, UnreadOk
<1>2. ASSUME unread' = unread
      PROVE  UnreadOk' /\ \A p \in Procs, i \in Ids : QueueStep(p, i)
  BY <1>1, <1>2 DEF UnreadOk, QueueStep
<1>3. ASSUME NEW p \in Procs, NEW i \in Ids, NEW q \in Seq(Message), Len(q) <= MaxUnread,
             unread' = [unread EXCEPT ![p][i] = q],
             unread'[p][i] = q => Consumed(p, i) \/ Cleared(p, i) \/ Removed(p, i)
      PROVE  UnreadOk' /\ \A r \in Procs, j \in Ids : QueueStep(r, j)
  <2>1. /\ unread' \in [Procs -> [Ids -> Seq(Message)]]
        /\ \A r \in Procs, j \in Ids :
             unread'[r][j] = IF r = p /\ j = i THEN q ELSE unread[r][j]
    BY <1>1, <1>3
  <2>2. UnreadOk'
    BY <1>1, <1>3, <2>1 DEF UnreadOk
  <2>3. ASSUME NEW r \in Procs, NEW j \in Ids PROVE QueueStep(r, j)
    BY <1>3, <2>1 DEF QueueStep
  <2> QED
    BY <2>2, <2>3
<1>4. Len(<<>>) <= MaxUnread /\ <<>> \in Seq(Message)
  BY BusAssumption DEF BusAssumption
<1>5. ASSUME NEW f \in Fronts, MarkRead(f)
      PROVE  UnreadOk' /\ \A p \in Procs, i \in Ids : QueueStep(p, i)
  <2>1. f \in Ids /\ HomeOf[f] \in Procs
    BY Sessions
  <2>2. unread' = [unread EXCEPT ![HomeOf[f]][f] = <<>>]
    BY <1>5 DEF MarkRead
  <2>3. unread'[HomeOf[f]][f] = <<>> => Cleared(HomeOf[f], f)
    BY <1>5 DEF Cleared
  <2> QED
    BY <1>3, <1>4, <2>1, <2>2, <2>3
<1>6. ASSUME NEW s \in Subs, LeaveUnread(s)
      PROVE  UnreadOk' /\ \A p \in Procs, i \in Ids : QueueStep(p, i)
  <2> DEFINE gone == Head(thread[s].ids)
  <2>1. thread[s].at = "unqueue" /\ unread' = [unread EXCEPT ![HomeOf[s]][gone] = <<>>]
        /\ s \in Ids /\ HomeOf[s] \in Procs
    BY <1>6, Sessions DEF LeaveUnread
  <2>2. gone \in Subs /\ HomeOf[gone] = HomeOf[s] /\ gone \in Ids
    <3>1. thread[s] \in ThreadSet /\ Carries(s, thread[s], sent)
      BY <2>1 DEF BaseInv, TypeInv, ThreadInv
    <3>2. thread[s].ids \in Seq(Ids) /\ thread[s].ids # <<>>
      BY <2>1, <3>1 DEF ThreadSet, Carries
    <3>3. 1 \in DOMAIN thread[s].ids /\ gone = thread[s].ids[1]
      BY <3>2, FirstAndRest
    <3> QED
      BY <2>1, <3>1, <3>3, Sessions DEF Carries
  <2>3. unread'[HomeOf[s]][gone] = <<>> => Removed(HomeOf[s], gone)
    BY <2>1, <2>2 DEF Removed, Removing
  <2> HIDE DEF gone
  <2> QED
    BY <1>3, <1>4, <2>1, <2>2, <2>3
<1>7. ASSUME NEW s \in Subs, ConsumeCommands(s)
      PROVE  UnreadOk' /\ \A p \in Procs, i \in Ids : QueueStep(p, i)
  <2> DEFINE p == HomeOf[s]
             q == unread[p][s]
             left == KeepAt(q, DOMAIN q \ CommandsIn(q))
  <2>1. s \in Ids /\ p \in Procs
    BY Sessions
  <2>2. thread[s].at = "turn" /\ unread' = [unread EXCEPT ![p][s] = left]
    BY <1>7 DEF ConsumeCommands
  <2>3. q \in Seq(Message) /\ Len(q) <= MaxUnread
    BY <1>1, <2>1 DEF UnreadOk
  <2>4. left \in Seq(Message) /\ Len(left) <= MaxUnread
    <3> HIDE DEF q
    <3>1. DOMAIN q \ CommandsIn(q) \in SUBSET DOMAIN q
      OBVIOUS
    <3>2. left \in Seq(Message) /\ Len(left) <= Len(q)
      BY <2>3, <3>1, KeptPlaces
    <3>3. Len(left) \in Nat /\ Len(q) \in Nat /\ MaxUnread \in Nat
      BY <2>3, <3>2, BusAssumption DEF BusAssumption
    <3> HIDE DEF left
    <3> QED
      BY <2>3, <3>2, <3>3
  <2>5. unread'[p][s] = left => Consumed(p, s)
    BY <2>2 DEF Consumed
  <2> HIDE DEF left, p
  <2> QED
    BY <1>3, <2>1, <2>2, <2>4, <2>5
<1>8. ASSUME NEW f, Act(f) \/ ReadUnread(f) PROVE unread' = unread
  BY <1>8 DEF Act, Compose, Watch, Unwatch, ReadUnread
<1>9. ASSUME NEW i, NEW fails \in BOOLEAN, WriteFile(i, fails) PROVE unread' = unread
  BY <1>9 DEF WriteFile
<1>10. ASSUME NEW s, Register(s) \/ End(s) \/ Prune(s) \/ LeavePeers(s) \/ LeaveWatch(s) \/ Handoff(s) \/ Return(s)
       PROVE  unread' = unread
  BY <1>10 DEF Register, End, Prune, LeavePeers, LeaveWatch, Handoff, Return
<1>11. ASSUME NEW f, ConsumeMailbox(f) \/ Take(f) \/ RegisterRemote(f) PROVE unread' = unread
  BY <1>11 DEF ConsumeMailbox, Take, RegisterRemote
<1>12. CASE UNCHANGED vars
  BY <1>2, <1>12 DEF vars
<1>13. CASE Next
  <2>1. CASE \E f \in Fronts : Act(f)
    BY <1>2, <1>8, <2>1
  <2>2. CASE \E f \in Readers : Show(f)
    BY <1>2, <1>5, <1>8, <2>2, Sessions DEF Show
  <2>3. CASE \E f \in Boxes : Poll(f)
    BY <1>2, <1>11, <2>3, InjectQueues DEF Poll
  <2>4. CASE \E s \in Subs : Register(s) \/ ConsumeCommands(s) \/ Finish(s)
    BY <1>2, <1>6, <1>7, <1>10, <2>4 DEF Finish
  <2>5. CASE \E i \in Ids : Send(i) \/ WriteFile(i, TRUE)
    BY <1>2, <1>9, <2>5, PublishQueues DEF Send
  <2> QED
    BY <1>13, <2>1, <2>2, <2>3, <2>4, <2>5 DEF Next
<1> QED
  BY <1>12, <1>13

\* A front reads its queue, clears it, or leaves what it has as it is.
Reads(f) ==
  /\ reader[f] = <<>> /\ reader'[f] = unread[HomeOf[f]][f]
  /\ shown'[f] = shown[f] /\ unread' = unread

ReaderStep(f) ==
  (reader'[f] = reader[f] /\ shown'[f] = shown[f]) \/ Reads(f) \/ MarkRead(f)

LEMMA ReaderSteps ==
  ASSUME BaseInv, [Next]_vars
  PROVE  /\ reader' \in [Fronts -> Seq(Message)] /\ shown' \in [Fronts -> Seq(Message)]
         /\ \A f \in Fronts : ReaderStep(f)
<1>1. /\ reader \in [Fronts -> Seq(Message)] /\ shown \in [Fronts -> Seq(Message)]
      /\ \A f \in Fronts : unread[HomeOf[f]][f] \in Seq(Message)
  BY Sessions DEF BaseInv, TypeInv
<1>2. ASSUME UNCHANGED <<reader, shown>>
      PROVE  /\ reader' \in [Fronts -> Seq(Message)] /\ shown' \in [Fronts -> Seq(Message)]
             /\ \A f \in Fronts : ReaderStep(f)
  BY <1>1, <1>2 DEF ReaderStep
<1>3. ASSUME NEW f \in Fronts, ReadUnread(f)
      PROVE  /\ reader' \in [Fronts -> Seq(Message)] /\ shown' \in [Fronts -> Seq(Message)]
             /\ \A g \in Fronts : ReaderStep(g)
  <2>1. /\ reader' = [reader EXCEPT ![f] = unread[HomeOf[f]][f]] /\ shown' = shown /\ unread' = unread
        /\ reader[f] = <<>>
    BY <1>3 DEF ReadUnread
  <2> QED
    BY <1>1, <2>1 DEF ReaderStep, Reads
<1>4. ASSUME NEW f \in Fronts, MarkRead(f)
      PROVE  /\ reader' \in [Fronts -> Seq(Message)] /\ shown' \in [Fronts -> Seq(Message)]
             /\ \A g \in Fronts : ReaderStep(g)
  <2>1. /\ reader' = [reader EXCEPT ![f] = <<>>] /\ shown' = [shown EXCEPT ![f] = shown[f] \o reader[f]]
    BY <1>4 DEF MarkRead
  <2>2. shown[f] \o reader[f] \in Seq(Message) /\ <<>> \in Seq(Message)
    BY <1>1
  <2>3. reader' \in [Fronts -> Seq(Message)] /\ shown' \in [Fronts -> Seq(Message)]
    BY <1>1, <2>1, <2>2
  <2>4. \A g \in Fronts : g = f \/ (reader'[g] = reader[g] /\ shown'[g] = shown[g])
    BY <1>1, <2>1
  <2> QED
    BY <1>4, <2>3, <2>4 DEF ReaderStep
<1>5. ASSUME NEW f, Act(f) \/ Poll(f) PROVE UNCHANGED <<reader, shown>>
  BY <1>5 DEF Act, Compose, Watch, Unwatch, Poll, ConsumeMailbox, Take, RegisterRemote, Inject
<1>6. ASSUME NEW i, Send(i) \/ WriteFile(i, TRUE) PROVE UNCHANGED <<reader, shown>>
  BY <1>6 DEF Send, Publish, WriteFile
<1>7. ASSUME NEW s, Register(s) \/ ConsumeCommands(s) \/ Finish(s) PROVE UNCHANGED <<reader, shown>>
  BY <1>7 DEF Register, ConsumeCommands, Finish, End, Prune, LeavePeers, LeaveUnread, LeaveWatch,
              Handoff, Return
<1>8. CASE UNCHANGED vars
  BY <1>2, <1>8 DEF vars
<1>9. CASE \E f \in Readers : Show(f)
  BY <1>3, <1>4, <1>9, Sessions DEF Show
<1> QED
  BY <1>2, <1>5, <1>6, <1>7, <1>8, <1>9 DEF Next

\* Who watches whom: a user adds a pair of sessions its process knows, and a
\* peer that leaves takes its pairs with it.
WatchStep(p) ==
  \/ watch'[p] \subseteq watch[p]
  \/ \E e \in Ids \X Ids : watch'[p] = watch[p] \cup {e} /\ {e[1], e[2]} \subseteq Registered(p)
                          /\ status' = status

LEMMA WatchSteps ==
  ASSUME BaseInv, [Next]_vars
  PROVE  watch' \in [Procs -> SUBSET (Ids \X Ids)] /\ \A p \in Procs : WatchStep(p)
<1>1. watch \in [Procs -> SUBSET (Ids \X Ids)]
  BY DEF BaseInv, TypeInv
<1>2. ASSUME watch' = watch
      PROVE  watch' \in [Procs -> SUBSET (Ids \X Ids)] /\ \A p \in Procs : WatchStep(p)
  BY <1>1, <1>2 DEF WatchStep
<1>3. ASSUME NEW p \in Procs, NEW w \in SUBSET (Ids \X Ids), watch' = [watch EXCEPT ![p] = w],
             \/ w \subseteq watch[p]
             \/ \E e \in Ids \X Ids : w = watch[p] \cup {e} /\ {e[1], e[2]} \subseteq Registered(p)
                                     /\ status' = status
      PROVE  watch' \in [Procs -> SUBSET (Ids \X Ids)] /\ \A r \in Procs : WatchStep(r)
  <2>1. watch' \in [Procs -> SUBSET (Ids \X Ids)] /\ \A r \in Procs : watch'[r] = IF r = p THEN w ELSE watch[r]
    BY <1>1, <1>3
  <2> QED
    BY <1>3, <2>1 DEF WatchStep
<1>4. ASSUME NEW f \in Fronts, NEW target \in Ids, Watch(f, target)
      PROVE  watch' \in [Procs -> SUBSET (Ids \X Ids)] /\ \A r \in Procs : WatchStep(r)
  <2> DEFINE p == HomeOf[f]
             e == <<f, target>>
  <2>1. p \in Procs /\ e \in Ids \X Ids /\ e[1] = f /\ e[2] = target /\ watch[p] \in SUBSET (Ids \X Ids)
    BY <1>1, Sessions
  <2>2. /\ watch' = [watch EXCEPT ![p] = watch[p] \cup {e}] /\ status' = status
        /\ {f, target} \subseteq Registered(p)
    BY <1>4 DEF Watch
  <2>3. watch[p] \cup {e} \in SUBSET (Ids \X Ids)
    BY <2>1
  <2> HIDE DEF p, e
  <2> QED
    BY <1>3, <2>1, <2>2, <2>3
<1>5. ASSUME NEW f \in Fronts, NEW target \in Ids, Unwatch(f, target)
      PROVE  watch' \in [Procs -> SUBSET (Ids \X Ids)] /\ \A r \in Procs : WatchStep(r)
  <2>1. HomeOf[f] \in Procs /\ watch' = [watch EXCEPT ![HomeOf[f]] = watch[HomeOf[f]] \ {<<f, target>>}]
    BY <1>5, Sessions DEF Unwatch
  <2>2. watch[HomeOf[f]] \ {<<f, target>>} \in SUBSET (Ids \X Ids)
    BY <1>1, <2>1
  <2> QED
    BY <1>3, <2>1, <2>2
<1>6. ASSUME NEW s \in Subs, LeaveWatch(s)
      PROVE  watch' \in [Procs -> SUBSET (Ids \X Ids)] /\ \A r \in Procs : WatchStep(r)
  <2> DEFINE w == {e \in watch[HomeOf[s]] : Head(thread[s].ids) \notin {e[1], e[2]}}
  <2>1. HomeOf[s] \in Procs /\ watch' = [watch EXCEPT ![HomeOf[s]] = w]
    BY <1>6, Sessions DEF LeaveWatch
  <2>2. w \in SUBSET (Ids \X Ids) /\ w \subseteq watch[HomeOf[s]]
    BY <1>1, <2>1
  <2> QED
    BY <1>3, <2>1, <2>2
<1>7. ASSUME NEW f, (\E to \in Ids \cup {All} : Compose(f, to)) \/ Show(f) \/ Poll(f) PROVE watch' = watch
  BY <1>7 DEF Compose, Show, ReadUnread, MarkRead, Poll, ConsumeMailbox, Take, RegisterRemote, Inject
<1>8. ASSUME NEW i, Send(i) \/ WriteFile(i, TRUE) PROVE watch' = watch
  BY <1>8 DEF Send, Publish, WriteFile
<1>9. ASSUME NEW s, Register(s) \/ ConsumeCommands(s) \/ End(s) \/ Prune(s) \/ LeavePeers(s)
                    \/ LeaveUnread(s) \/ Handoff(s) \/ Return(s)
      PROVE  watch' = watch
  BY <1>9 DEF Register, ConsumeCommands, End, Prune, LeavePeers, LeaveUnread, Handoff, Return
<1>10. CASE UNCHANGED vars
  BY <1>2, <1>10 DEF vars
<1> QED
  BY <1>2, <1>4, <1>5, <1>6, <1>7, <1>8, <1>9, <1>10 DEF Next, Act, Finish

-----------------------------------------------------------------------------
(* The base invariant and the types.                                       *)

LEMMA BaseInductive ==
  /\ Init => BaseInv
  /\ BaseInv /\ [Next]_vars => BaseInv'
<1>1. ASSUME Init PROVE BaseInv
  <2>1. TypeInv
    <3>1. status \in [Procs -> [Ids -> Statuses]] /\ watch \in [Procs -> SUBSET (Ids \X Ids)]
      BY <1>1 DEF Init, Statuses
    <3>2. unread \in [Procs -> [Ids -> Seq(Message)]] /\ \A p \in Procs, i \in Ids : Len(unread[p][i]) <= MaxUnread
      BY <1>1, BusAssumption DEF Init, BusAssumption
    <3>3. /\ mailbox \in [Boxes -> Seq(Message)] /\ reader \in [Fronts -> Seq(Message)]
          /\ shown \in [Fronts -> Seq(Message)] /\ poller \in [Procs -> PollerSet]
      BY <1>1 DEF Init, PollerSet, PollerSteps
    <3>4. thread \in [Ids -> ThreadSet]
      <4>1. At("idle") \in ThreadSet
        BY EmptyHanded
      <4> QED
        BY <1>1, <4>1 DEF Init
    <3>5. sent \in 0..MaxMessages /\ runs \in 0..MaxRuns
      BY <1>1, BusAssumption DEF Init, BusAssumption
    <3> QED
      BY <3>1, <3>2, <3>3, <3>4, <3>5 DEF TypeInv
  <2>2. ThreadInv
    <3>1. \A i \in Ids : thread[i] = At("idle")
      BY <1>1 DEF Init
    <3> QED
      BY <3>1, EmptyHanded DEF ThreadInv
  <2>3. PeerInv
    BY <1>1, Sessions DEF Init, PeerInv
  <2>4. FileInv /\ PollerInv
    <3>1. /\ \A f \in Boxes : mailbox[f] = <<>>
          /\ \A p \in Procs : poller[p].step = "take" /\ poller[p].batch = <<>>
      BY <1>1 DEF Init
    <3> QED
      BY <3>1 DEF FileInv, PollerInv, Incoming, ToSet
  <2> QED
    BY <2>1, <2>2, <2>3, <2>4 DEF BaseInv
<1>2. ASSUME BaseInv, [Next]_vars PROVE BaseInv'
  <2>1. thread' \in [Ids -> ThreadSet] /\ ThreadInv' /\ sent' \in 0..MaxMessages
    BY <1>2, ThreadsKept DEF BaseInv
  <2>2. status' \in [Procs -> [Ids -> Statuses]] /\ PeerInv'
    BY <1>2, StatusSteps, PeersKept
  <2>3. mailbox' \in [Boxes -> Seq(Message)] /\ poller' \in [Procs -> PollerSet] /\ FileInv' /\ PollerInv'
    BY <1>2, MailboxesKept, PollersKept, FilesKept
  <2>4. UnreadOk'
    BY <1>2, QueueSteps
  <2>5. reader' \in [Fronts -> Seq(Message)] /\ shown' \in [Fronts -> Seq(Message)]
    BY <1>2, ReaderSteps
  <2>6. watch' \in [Procs -> SUBSET (Ids \X Ids)]
    BY <1>2, WatchSteps
  <2>7. runs' \in 0..MaxRuns
    <3>1. runs' = runs \/ (runs < MaxRuns /\ runs' = runs + 1)
      <4>1. ASSUME NEW f, Act(f) \/ Show(f) \/ Poll(f) PROVE runs' = runs
        BY <4>1 DEF Act, Compose, Watch, Unwatch, Show, ReadUnread, MarkRead, Poll, ConsumeMailbox,
                    Take, RegisterRemote, Inject
      <4>2. ASSUME NEW i, Send(i) \/ WriteFile(i, TRUE) PROVE runs' = runs
        BY <4>2 DEF Send, Publish, WriteFile
      <4>3. ASSUME NEW s, ConsumeCommands(s) \/ Finish(s) PROVE runs' = runs
        BY <4>3 DEF ConsumeCommands, Finish, End, Prune, LeavePeers, LeaveUnread, LeaveWatch,
                    Handoff, Return
      <4>4. ASSUME NEW s, Register(s) PROVE runs < MaxRuns /\ runs' = runs + 1
        BY <4>4 DEF Register
      <4> QED
        BY <1>2, <4>1, <4>2, <4>3, <4>4 DEF Next, vars
    <3>2. runs \in 0..MaxRuns /\ MaxRuns \in Nat
      BY <1>2, BusAssumption DEF BaseInv, TypeInv, BusAssumption
    <3> QED
      BY <3>1, <3>2
  <2> QED
    BY <2>1, <2>2, <2>3, <2>4, <2>5, <2>6, <2>7 DEF BaseInv, TypeInv, UnreadOk
<1> QED
  BY <1>1, <1>2

LEMMA BaseAlways == Spec => []BaseInv
BY BaseInductive, PTL DEF Spec

\* Queues stay within their limit and everything on the bus is a message, whatever
\* the processes, the sessions and the permissions are.
THEOREM TypeCorrect == Spec => []TypeOK
<1>1. ASSUME BaseInv PROVE TypeOK
  <2>1. TypeInv
    BY <1>1 DEF BaseInv
  <2>2. /\ \A p \in Procs, i \in Ids : \A k \in DOMAIN unread[p][i] : unread[p][i][k] \in Message
        /\ \A f \in Boxes : \A k \in DOMAIN mailbox[f] : mailbox[f][k] \in Message
        /\ \A f \in Fronts : \A k \in DOMAIN reader[f] : reader[f][k] \in Message
        /\ \A f \in Fronts : \A k \in DOMAIN shown[f] : shown[f][k] \in Message
    <3>1. \A q \in Seq(Message) : \A k \in DOMAIN q : q[k] \in Message
      OBVIOUS
    <3>2. /\ \A p \in Procs, i \in Ids : unread[p][i] \in Seq(Message)
          /\ \A f \in Boxes : mailbox[f] \in Seq(Message)
          /\ \A f \in Fronts : reader[f] \in Seq(Message) /\ shown[f] \in Seq(Message)
      BY <2>1 DEF TypeInv
    <3> QED
      BY <3>1, <3>2
  <2>3. /\ \A i \in Ids : thread[i].at \in Places
        /\ \A p \in Procs : poller[p].step \in PollerSteps
    BY <2>1 DEF TypeInv, ThreadSet, PollerSet
  <2> QED
    BY <2>1, <2>2, <2>3 DEF TypeInv, TypeOK
<1> QED
  BY <1>1, BaseAlways, PTL

-----------------------------------------------------------------------------
(* What may be in a queue.                                                 *)

\* A queue holds what it held before and what has just arrived.
LEMMA QueueContents ==
  ASSUME BaseInv, NEW p \in Procs, NEW i \in Ids, QueueStep(p, i)
  PROVE  \A m \in ToSet(unread'[p][i]) : m \in ToSet(unread[p][i]) \/ Arrives(p, i, m)
<1> DEFINE q == unread[p][i]
<1>1. q \in Seq(Message) /\ Len(q) <= MaxUnread
  BY DEF BaseInv, TypeInv
<1>2. CASE Queued(p, i)
  <2>1. PICK c \in Message : Arrives(p, i, c) /\ unread'[p][i] = Push(q, c)
    BY <1>2 DEF Queued
  <2> HIDE DEF q
  <2>2. ToSet(Push(q, c)) \subseteq ToSet(q) \cup {c}
    BY <1>1, Pushed
  <2> QED
    BY <2>1, <2>2 DEF q
<1>3. CASE Consumed(p, i)
  <2> DEFINE left == DOMAIN q \ CommandsIn(q)
  <2>1. unread'[p][i] = KeepAt(q, left)
    BY <1>3 DEF Consumed
  <2> HIDE DEF q
  <2>2. left \in SUBSET DOMAIN q
    OBVIOUS
  <2> HIDE DEF left
  <2>3. ToSet(KeepAt(q, left)) = {q[k] : k \in left}
    BY <1>1, <2>2, KeptPlaces
  <2>4. {q[k] : k \in left} \subseteq ToSet(q)
    BY <2>2 DEF ToSet
  <2> QED
    BY <2>1, <2>3, <2>4 DEF q
<1>4. CASE unread'[p][i] = <<>>
  BY <1>4 DEF ToSet
<1> QED
  BY <1>2, <1>3, <1>4 DEF QueueStep, Cleared, Removed

\* Permissions hold whichever way a message takes, for its target and for those
\* who watch the target.
THEOREM PermissionsHold == Spec => []NothingReachesTheForbidden
<1> DEFINE MayReach(p, i, m) ==
       IF HomeOf[m.from] = p THEN IsAllowed(KindOf[m.from], KindAt(p, i)) ELSE IsAllowed(KindOf[m.from], "Ide")
           AllMayReach == \A p \in Procs, i \in Ids : \A m \in ToSet(unread[p][i]) : MayReach(p, i, m)
<1>1. Init => AllMayReach
  BY DEF Init, ToSet
<1>2. BaseInv /\ AllMayReach /\ [Next]_vars => AllMayReach'
  <2> SUFFICES ASSUME BaseInv, AllMayReach, [Next]_vars, NEW p \in Procs, NEW i \in Ids,
                      NEW m \in ToSet(unread'[p][i])
               PROVE  MayReach(p, i, m)
    BY DEF KindAt
  <2>1. m \in ToSet(unread[p][i]) \/ Arrives(p, i, m)
    BY QueueSteps, QueueContents
  <2>2. Arrives(p, i, m) => MayReach(p, i, m)
    BY DEF Arrives
  <2> QED
    BY <2>1, <2>2
<1>3. AllMayReach => NothingReachesTheForbidden
  BY DEF NothingReachesTheForbidden, ToSet
<1> QED
  BY <1>1, <1>2, <1>3, BaseAlways, PTL DEF Spec

\* A message leaves a queue for a reason: it is never dropped because two threads
\* of the process met.
THEOREM LossExplained == Spec => LossHasAReason
<1> DEFINE Explained ==
       \A p \in Procs, i \in Ids : \A k \in DOMAIN unread[p][i] :
         LET m == unread[p][i][k]
         IN m \notin ToSet(unread'[p][i]) =>
              \/ i \in Fronts /\ HomeOf[i] = p /\ reader[i] # <<>> /\ reader'[i] = <<>>
              \/ i \in Subs /\ m.body = "Command" /\ thread[i].at = "turn"
              \/ k = 1 /\ Len(unread[p][i]) = MaxUnread /\ Len(unread'[p][i]) = MaxUnread
              \/ Leaving(p, i)
<1>1. ASSUME BaseInv, [Next]_vars PROVE Explained
  <2> SUFFICES ASSUME NEW p \in Procs, NEW i \in Ids, NEW k \in DOMAIN unread[p][i],
                      unread[p][i][k] \notin ToSet(unread'[p][i])
               PROVE  \/ i \in Fronts /\ HomeOf[i] = p /\ reader[i] # <<>> /\ reader'[i] = <<>>
                      \/ i \in Subs /\ unread[p][i][k].body = "Command" /\ thread[i].at = "turn"
                      \/ k = 1 /\ Len(unread[p][i]) = MaxUnread /\ Len(unread'[p][i]) = MaxUnread
                      \/ Leaving(p, i)
    OBVIOUS
  <2> DEFINE q == unread[p][i]
  <2>1. q \in Seq(Message) /\ Len(q) <= MaxUnread /\ k \in DOMAIN q /\ q[k] \in ToSet(q)
    BY <1>1 DEF BaseInv, TypeInv, ToSet
  <2>2. QueueStep(p, i) /\ unread'[p][i] # q
    BY <1>1, <2>1, QueueSteps
  <2>3. CASE Queued(p, i)
    <3>1. PICK c \in Message : unread'[p][i] = Push(q, c)
      BY <2>3 DEF Queued
    <3>2. q[k] \notin ToSet(Push(q, c))
      BY <3>1
    <3> HIDE DEF q
    <3>3. k = 1 /\ Len(q) = MaxUnread /\ Len(Push(q, c)) = MaxUnread
      BY <2>1, <3>2, Pushed
    <3> QED
      BY <3>1, <3>3 DEF q
  <2>4. CASE Consumed(p, i)
    <3> DEFINE left == DOMAIN q \ CommandsIn(q)
    <3>1. i \in Subs /\ thread[i].at = "turn" /\ unread'[p][i] = KeepAt(q, left)
      BY <2>4 DEF Consumed
    <3>2. q[k] \notin ToSet(KeepAt(q, left))
      BY <3>1
    <3> HIDE DEF q
    <3>3. left \in SUBSET DOMAIN q
      OBVIOUS
    <3>4. ToSet(KeepAt(q, left)) = {q[l] : l \in left}
      <4> HIDE DEF left
      <4> QED
        BY <2>1, <3>3, KeptPlaces
    <3>5. k \in CommandsIn(q)
      BY <2>1, <3>2, <3>4
    <3>6. q[k].body = "Command"
      BY <3>5 DEF CommandsIn
    <3> QED
      BY <3>1, <3>6 DEF q
  <2>5. CASE Cleared(p, i)
    <3>1. i \in Fronts /\ HomeOf[i] = p /\ reader[i] # <<>> /\ reader' = [reader EXCEPT ![i] = <<>>]
      BY <2>5 DEF Cleared, MarkRead
    <3> QED
      BY <1>1, <3>1 DEF BaseInv, TypeInv
  <2>6. CASE Removed(p, i)
    BY <2>6 DEF Removed, Removing, Leaving
  <2> QED
    BY <2>2, <2>3, <2>4, <2>5, <2>6 DEF QueueStep
<1>2. BaseInv /\ [Next]_vars => [Explained]_vars
  BY <1>1
<1> HIDE DEF Explained
<1>3. Spec => [][Explained]_vars
  BY <1>2, BaseAlways, PTL DEF Spec
<1> QED
  BY <1>3 DEF LossHasAReason, Explained

-----------------------------------------------------------------------------
(* What a peer leaves behind.                                              *)

\* The steps of a thread of its own.
OwnStep(j) ==
  \/ j \in Fronts /\ \E to \in Ids \cup {All} : Compose(j, to)
  \/ Publish(j) \/ \E fails \in BOOLEAN : WriteFile(j, fails)
  \/ j \in Subs /\ (Register(j) \/ ConsumeCommands(j) \/ Finish(j))

LEMMA OwnSteps ==
  ASSUME BaseInv, [Next]_vars, NEW j \in Ids
  PROVE  thread'[j] = thread[j] \/ OwnStep(j)
<1>1. ASSUME NEW i \in Ids, NEW t, thread' = [thread EXCEPT ![i] = t], j # i PROVE thread'[j] = thread[j]
  BY <1>1 DEF BaseInv, TypeInv
<1>2. ASSUME NEW i \in Ids, \E t : thread' = [thread EXCEPT ![i] = t], OwnStep(i)
      PROVE  thread'[j] = thread[j] \/ OwnStep(j)
  BY <1>1, <1>2
<1>3. ASSUME thread' = thread PROVE thread'[j] = thread[j]
  BY <1>3
<1>4. ASSUME NEW f \in Fronts, NEW to \in Ids \cup {All}, Compose(f, to)
      PROVE  (\E t : thread' = [thread EXCEPT ![f] = t]) /\ OwnStep(f)
  BY <1>4 DEF Compose, OwnStep
<1>5. ASSUME NEW i \in Ids, Publish(i)
      PROVE  (\E t : thread' = [thread EXCEPT ![i] = t]) /\ OwnStep(i)
  BY <1>5 DEF Publish, OwnStep
<1>6. ASSUME NEW i \in Ids, NEW fails \in BOOLEAN, WriteFile(i, fails)
      PROVE  (\E t : thread' = [thread EXCEPT ![i] = t]) /\ OwnStep(i)
  <2>1. OwnStep(i)
    BY <1>6 DEF OwnStep
  <2>2. \E t : thread' = [thread EXCEPT ![i] = t]
    BY <1>6 DEF WriteFile
  <2> QED
    BY <2>1, <2>2
<1>7. ASSUME NEW s \in Subs, Register(s) \/ ConsumeCommands(s) \/ Finish(s)
      PROVE  (\E t : thread' = [thread EXCEPT ![s] = t]) /\ OwnStep(s)
  <2>1. OwnStep(s)
    BY <1>7 DEF OwnStep
  <2>2. CASE Register(s) \/ End(s) \/ Return(s)
    BY <2>1, <2>2 DEF Register, End, Return
  <2>3. CASE ConsumeCommands(s)
    BY <2>1, <2>3 DEF ConsumeCommands
  <2>4. CASE Prune(s)
    BY <2>1, <2>4 DEF Prune
  <2>5. CASE LeavePeers(s) \/ LeaveUnread(s)
    <3>1. \E place : thread' = [thread EXCEPT ![s].at = place]
      BY <2>5 DEF LeavePeers, LeaveUnread
    <3> QED
      BY <2>1, <3>1
  <2>6. CASE LeaveWatch(s)
    BY <2>1, <2>6 DEF LeaveWatch
  <2>7. CASE Handoff(s)
    BY <2>1, <2>7 DEF Handoff
  <2> QED
    BY <1>7, <2>1, <2>2, <2>3, <2>4, <2>5, <2>6, <2>7 DEF Finish
<1>8. ASSUME NEW f \in Fronts, \E target \in Ids : Watch(f, target) \/ Unwatch(f, target)
      PROVE  thread' = thread
  BY <1>8 DEF Watch, Unwatch
<1>9. ASSUME NEW f, Show(f) \/ Poll(f) PROVE thread' = thread
  BY <1>9 DEF Show, ReadUnread, MarkRead, Poll, ConsumeMailbox, Take, RegisterRemote, Inject
<1>10. CASE UNCHANGED vars
  BY <1>3, <1>10 DEF vars
<1>11. CASE \E f \in Fronts : Act(f)
  BY <1>2, <1>3, <1>4, <1>8, <1>11, Sessions DEF Act
<1>12. CASE \E i \in Ids : Send(i) \/ WriteFile(i, TRUE)
  BY <1>2, <1>5, <1>6, <1>12 DEF Send
<1>13. CASE \E s \in Subs : Register(s) \/ ConsumeCommands(s) \/ Finish(s)
  BY <1>2, <1>7, <1>13, Sessions
<1> QED
  BY <1>3, <1>9, <1>10, <1>11, <1>12, <1>13 DEF Next

\* A thread that removes a peer goes through the sections of leave in turn.
LEMMA LeaveInTurn ==
  ASSUME BaseInv, [Next]_vars, NEW s \in Subs
  PROVE  /\ thread[s].at = "unqueue" => thread'[s] = thread[s] \/ LeaveUnread(s)
         /\ thread[s].at = "unwatch" => thread'[s] = thread[s] \/ LeaveWatch(s)
<1>1. s \in Ids /\ s \notin Fronts
  BY Sessions
<1>2. thread'[s] = thread[s] \/ OwnStep(s)
  BY <1>1, OwnSteps
<1>3. ASSUME thread[s].at \in {"unqueue", "unwatch"}, OwnStep(s)
      PROVE  LeaveUnread(s) \/ LeaveWatch(s)
  BY <1>1, <1>3 DEF OwnStep, Publish, WriteFile, Register, ConsumeCommands, Finish, End, Prune,
                   LeavePeers, Handoff, Return
<1>4. /\ LeaveUnread(s) => thread[s].at = "unqueue"
      /\ LeaveWatch(s) => thread[s].at = "unwatch"
  BY DEF LeaveUnread, LeaveWatch
<1> QED
  BY <1>2, <1>3, <1>4

\* Only leave makes a peer unknown.
LEMMA GoneSteps ==
  ASSUME BaseInv, [Next]_vars, NEW p \in Procs, NEW i \in Ids,
         status[p][i] # "Absent", status'[p][i] = "Absent"
  PROVE  \E s \in Subs : HomeOf[s] = p /\ LeavePeers(s) /\ Head(thread[s].ids) = i
<1>1. status \in [Procs -> [Ids -> Statuses]]
  BY DEF BaseInv, TypeInv
<1>2. ASSUME NEW r, NEW j, NEW v, status' = [status EXCEPT ![r][j] = v] PROVE v = "Absent" /\ r = p /\ j = i
  BY <1>1, <1>2
<1>3. ~ \E s \in Subs : Register(s) \/ End(s) \/ Handoff(s)
  <2>1. ASSUME NEW s \in Subs PROVE ~ Register(s)
    <3> SUFFICES ASSUME Register(s) PROVE FALSE
      OBVIOUS
    <3>1. status' = [status EXCEPT ![HomeOf[s]][s] = "Streaming"]
      BY DEF Register
    <3> QED
      BY <1>2, <3>1
  <2>2. ASSUME NEW s \in Subs, SetDone(HomeOf[s], s) PROVE FALSE
    <3>1. status' = [status EXCEPT ![HomeOf[s]][s] =
             IF status[HomeOf[s]][s] = "Absent" THEN status[HomeOf[s]][s] ELSE "Done"]
      BY <2>2 DEF SetDone
    <3> QED
      BY <1>2, <3>1
  <2> QED
    BY <2>1, <2>2 DEF End, Handoff
<1>4. ~ \E f \in Boxes : RegisterRemote(f)
  <2> SUFFICES ASSUME NEW f \in Boxes, RegisterRemote(f) PROVE FALSE
    OBVIOUS
  <2>1. status' = [status EXCEPT ![HomeOf[f]][Head(poller[HomeOf[f]].batch).from] = "Idle"]
    BY DEF RegisterRemote
  <2> QED
    BY <1>2, <2>1
<1>5. ASSUME NEW f, Act(f) \/ Show(f) PROVE status' = status
  BY <1>5 DEF Act, Compose, Watch, Unwatch, Show, ReadUnread, MarkRead
<1>6. ASSUME NEW j, Send(j) \/ WriteFile(j, TRUE) PROVE status' = status
  BY <1>6 DEF Send, Publish, WriteFile
<1>7. ASSUME NEW s, ConsumeCommands(s) \/ Prune(s) \/ LeaveUnread(s) \/ LeaveWatch(s) \/ Return(s)
      PROVE  status' = status
  BY <1>7 DEF ConsumeCommands, Prune, LeaveUnread, LeaveWatch, Return
<1>8. ASSUME NEW f, ConsumeMailbox(f) \/ Take(f) \/ Inject(f) PROVE status' = status
  BY <1>8 DEF ConsumeMailbox, Take, Inject
<1>9. ASSUME NEW s \in Subs, LeavePeers(s) PROVE HomeOf[s] = p /\ Head(thread[s].ids) = i
  BY <1>2, <1>9 DEF LeavePeers
<1>10. status' # status
  OBVIOUS
<1>11. Next
  BY <1>10 DEF vars
<1>12. PICK s \in Subs : LeavePeers(s)
  BY <1>3, <1>4, <1>5, <1>6, <1>7, <1>8, <1>10, <1>11 DEF Next, Finish, Poll
<1> QED
  BY <1>9, <1>12

\* What is left of a peer that is gone is left for a thread that is removing it.
LEMMA GoneKept ==
  ASSUME BaseInv, GoneInv, [Next]_vars
  PROVE  GoneInv'
<1> SUFFICES ASSUME NEW p \in Procs, NEW i \in Ids, status'[p][i] = "Absent"
             PROVE  /\ unread'[p][i] = <<>> \/ Removing(p, i, {"unqueue"})'
                    /\ \/ \A e \in watch'[p] : i \notin {e[1], e[2]}
                       \/ Removing(p, i, {"unqueue", "unwatch"})'
  BY DEF GoneInv, Removing
<1>0. thread \in [Ids -> ThreadSet] /\ Subs \subseteq Ids
  BY Sessions DEF BaseInv, TypeInv
<1>1. CASE status[p][i] # "Absent"
  <2>1. PICK s \in Subs : HomeOf[s] = p /\ LeavePeers(s) /\ Head(thread[s].ids) = i
    BY <1>1, GoneSteps
  <2>2. thread' = [thread EXCEPT ![s].at = "unqueue"]
    BY <2>1 DEF LeavePeers
  <2>3. thread'[s].at = "unqueue" /\ thread'[s].ids = thread[s].ids
    BY <1>0, <2>2 DEF ThreadSet
  <2>4. Removing(p, i, {"unqueue"})' /\ Removing(p, i, {"unqueue", "unwatch"})'
    BY <2>1, <2>3 DEF Removing
  <2> QED
    BY <2>4
<1>2. CASE status[p][i] = "Absent"
  <2>1. /\ unread[p][i] = <<>> \/ Removing(p, i, {"unqueue"})
        /\ (\A e \in watch[p] : i \notin {e[1], e[2]}) \/ Removing(p, i, {"unqueue", "unwatch"})
    BY <1>2 DEF GoneInv
  <2>2. unread'[p][i] = <<>> \/ Removing(p, i, {"unqueue"})'
    <3>1. CASE unread[p][i] = <<>>
      <4>2. QueueStep(p, i)
        BY QueueSteps
      <4>3. CASE Consumed(p, i)
        <5>1. unread'[p][i] = KeepAt(<<>>, DOMAIN <<>> \ CommandsIn(<<>>))
          BY <3>1, <4>3 DEF Consumed
        <5>2. ASSUME NEW q \in Seq(Message), Len(q) = 0, NEW places \in SUBSET DOMAIN q
              PROVE  KeepAt(q, places) = <<>>
          <6>1. KeepAt(q, places) \in Seq(Message) /\ Len(KeepAt(q, places)) <= Len(q)
            BY KeptPlaces
          <6> QED
            BY <5>2, <6>1
        <5>3. <<>> \in Seq(Message) /\ Len(<<>>) = 0
          OBVIOUS
        <5>4. DOMAIN <<>> \ CommandsIn(<<>>) \in SUBSET DOMAIN <<>>
          OBVIOUS
        <5>5. KeepAt(<<>>, DOMAIN <<>> \ CommandsIn(<<>>)) = <<>>
          BY <5>2, <5>3, <5>4
        <5> QED
          BY <5>1, <5>5
      <4> QED
        BY <1>2, <3>1, <4>2, <4>3 DEF QueueStep, Queued, Registered, Cleared, Removed
    <3>2. ASSUME NEW s \in Subs, HomeOf[s] = p, thread[s].at = "unqueue", Head(thread[s].ids) = i
          PROVE  unread'[p][i] = <<>> \/ Removing(p, i, {"unqueue"})'
      <4>1. CASE thread'[s] = thread[s]
        BY <3>2, <4>1 DEF Removing
      <4>2. CASE LeaveUnread(s)
        <5>1. unread' = [unread EXCEPT ![p][i] = <<>>]
          BY <3>2, <4>2 DEF LeaveUnread
        <5> QED
          BY <5>1 DEF BaseInv, TypeInv
      <4> QED
        BY <3>2, <4>1, <4>2, LeaveInTurn
    <3> QED
      BY <2>1, <3>1, <3>2 DEF Removing
  <2>3. \/ \A e \in watch'[p] : i \notin {e[1], e[2]}
        \/ Removing(p, i, {"unqueue", "unwatch"})'
    <3>1. CASE \A e \in watch[p] : i \notin {e[1], e[2]}
      BY <1>2, <3>1, WatchSteps DEF WatchStep, Registered
    <3>2. ASSUME NEW s \in Subs, HomeOf[s] = p, thread[s].at \in {"unqueue", "unwatch"},
                 Head(thread[s].ids) = i
          PROVE  \/ \A e \in watch'[p] : i \notin {e[1], e[2]}
                 \/ Removing(p, i, {"unqueue", "unwatch"})'
      <4>1. CASE thread'[s] = thread[s]
        BY <3>2, <4>1 DEF Removing
      <4>2. CASE LeaveUnread(s)
        <5>1. thread' = [thread EXCEPT ![s].at = "unwatch"]
          BY <4>2 DEF LeaveUnread
        <5>2. thread'[s].at = "unwatch" /\ thread'[s].ids = thread[s].ids
          BY <1>0, <5>1 DEF ThreadSet
        <5> QED
          BY <3>2, <5>2 DEF Removing
      <4>3. CASE LeaveWatch(s)
        <5>1. watch' = [watch EXCEPT ![p] = {e \in watch[p] : i \notin {e[1], e[2]}}]
          BY <3>2, <4>3 DEF LeaveWatch
        <5> QED
          BY <5>1 DEF BaseInv, TypeInv
      <4> QED
        BY <3>2, <4>1, <4>2, <4>3, LeaveInTurn
    <3> QED
      BY <2>1, <3>1, <3>2 DEF Removing
  <2> QED
    BY <2>2, <2>3
<1> QED
  BY <1>1, <1>2

\* Leaving is complete: a peer that is gone has no queue and is in nobody's table.
THEOREM LeavingIsComplete == Spec => []NothingOutlivesItsPeer
<1>1. Init => GoneInv
  BY DEF Init, GoneInv
<1>2. BaseInv /\ GoneInv /\ [Next]_vars => GoneInv'
  BY GoneKept
<1>3. GoneInv => NothingOutlivesItsPeer
  BY DEF GoneInv, NothingOutlivesItsPeer, Removing, Leaving
<1> QED
  BY <1>1, <1>2, <1>3, BaseAlways, PTL DEF Spec

-----------------------------------------------------------------------------
(* The order in which a front is given the messages.                       *)

\* A thread comes to send only what it has just composed.
LEMMA DispatchStarts ==
  ASSUME BaseInv, [Next]_vars, NEW j \in Ids, thread'[j].at = "dispatch"
  PROVE  thread'[j] = thread[j] \/ Head(thread'[j].msgs).n = sent + 1
<1>1. thread \in [Ids -> ThreadSet] /\ sent \in 0..MaxMessages
  BY DEF BaseInv, TypeInv
<1>2. ASSUME NEW to \in Ids \cup {All}, NEW body \in Bodies, sent < MaxMessages,
             thread' = [thread EXCEPT ![j] = Sending(
                [n |-> sent + 1, from |-> j, to |-> to, body |-> body, relay |-> FALSE])]
      PROVE  Head(thread'[j].msgs).n = sent + 1
  <2> DEFINE m == [n |-> sent + 1, from |-> j, to |-> to, body |-> body, relay |-> FALSE]
  <2>1. m \in Message /\ m.n = sent + 1
    BY <1>1, <1>2, Composed
  <2>2. thread'[j] = Sending(m)
    BY <1>1, <1>2
  <2> HIDE DEF m
  <2>3. Head(Sending(m).msgs) = m
    BY <2>1, SendingTyped
  <2> QED
    BY <2>1, <2>2, <2>3
<1>3. ASSUME NEW place \in Places, place # "dispatch", thread' = [thread EXCEPT ![j] = At(place)]
      PROVE  FALSE
  BY <1>1, <1>3, AtTyped
<1>4. ASSUME NEW t, t.at # "dispatch", thread' = [thread EXCEPT ![j] = t]
      PROVE  FALSE
  BY <1>1, <1>4
<1>5. ASSUME NEW to \in Ids \cup {All}, Compose(j, to) PROVE Head(thread'[j].msgs).n = sent + 1
  <2>1. \E body \in Bodies :
           thread' = [thread EXCEPT ![j] = Sending(
              [n |-> sent + 1, from |-> j, to |-> to, body |-> body, relay |-> FALSE])]
    BY <1>5 DEF Compose, Bodies
  <2>2. sent < MaxMessages
    BY <1>5 DEF Compose
  <2> QED
    BY <1>2, <2>1, <2>2
<1>6. ~ Publish(j)
  <2> SUFFICES ASSUME Publish(j) PROVE FALSE
    OBVIOUS
  <2> DEFINE routes == SetToSeq(Routes(HomeOf[j], Head(thread[j].msgs), TRUE))
             t == [at |-> "write", msgs |-> <<Head(thread[j].msgs)>>, ids |-> routes]
  <2>1. thread' = [thread EXCEPT ![j] = IF routes = <<>> THEN At("idle") ELSE t]
    BY DEF Publish
  <2>2. t.at # "dispatch"
    OBVIOUS
  <2> HIDE DEF routes, t
  <2> QED
    BY <1>3, <1>4, <2>1, <2>2 DEF Places
<1>7. ASSUME NEW fails \in BOOLEAN, WriteFile(j, fails) PROVE FALSE
  <2> DEFINE t == [thread[j] EXCEPT !.ids = Tail(thread[j].ids)]
  <2>1. /\ thread[j].at = "write"
        /\ thread' = [thread EXCEPT ![j] = IF Tail(thread[j].ids) = <<>> THEN At("idle") ELSE t]
    BY <1>1, <1>7 DEF WriteFile
  <2>2. t.at # "dispatch"
    BY <1>1, <2>1 DEF ThreadSet
  <2> HIDE DEF t
  <2> QED
    BY <1>3, <1>4, <2>1, <2>2 DEF Places
<1>8. ~ (Register(j) \/ ConsumeCommands(j) \/ End(j) \/ Return(j))
  <2> SUFFICES ASSUME Register(j) \/ ConsumeCommands(j) \/ End(j) \/ Return(j) PROVE FALSE
    OBVIOUS
  <2>1. \E place \in {"idle", "turn", "killed", "prune"} : thread' = [thread EXCEPT ![j] = At(place)]
    BY DEF Register, ConsumeCommands, End, Return
  <2> QED
    BY <1>3, <2>1 DEF Places
<1>9. ~ Prune(j)
  <2> SUFFICES ASSUME Prune(j) PROVE FALSE
    OBVIOUS
  <2>1. PICK stale : thread' = [thread EXCEPT ![j] =
           IF stale = {} THEN At("handoff") ELSE [At("leave") EXCEPT !.ids = SetToSeq(stale)]]
    BY DEF Prune
  <2>2. \A q : [At("leave") EXCEPT !.ids = q].at # "dispatch"
    BY DEF At
  <2> QED
    BY <1>3, <1>4, <2>1, <2>2 DEF Places
<1>10. ~ (LeavePeers(j) \/ LeaveUnread(j))
  <2> SUFFICES ASSUME LeavePeers(j) \/ LeaveUnread(j) PROVE FALSE
    OBVIOUS
  <2>1. PICK place \in {"unqueue", "unwatch"} : thread' = [thread EXCEPT ![j].at = place]
    BY DEF LeavePeers, LeaveUnread
  <2> QED
    BY <1>1, <2>1 DEF ThreadSet
<1>11. ~ LeaveWatch(j)
  <2> SUFFICES ASSUME LeaveWatch(j) PROVE FALSE
    OBVIOUS
  <2> DEFINE t == [thread[j] EXCEPT !.at = "leave", !.ids = Tail(thread[j].ids)]
  <2>1. thread' = [thread EXCEPT ![j] = IF Tail(thread[j].ids) = <<>> THEN At("handoff") ELSE t]
    BY <1>1 DEF LeaveWatch
  <2>2. t.at # "dispatch"
    BY <1>1 DEF ThreadSet
  <2> HIDE DEF t
  <2> QED
    BY <1>3, <1>4, <2>1, <2>2 DEF Places
<1>12. ASSUME Handoff(j) PROVE Head(thread'[j].msgs).n = sent + 1
  <2>1. sent < MaxMessages /\ "Handoff" \in Bodies
    BY <1>12 DEF Handoff, Bodies
  <2>2. CASE status[HomeOf[j]][j] = "Absent"
    <3>1. thread' = [thread EXCEPT ![j] = At("idle")]
      BY <1>12, <2>2 DEF Handoff
    <3> QED
      BY <1>3, <3>1 DEF Places
  <2>3. CASE status[HomeOf[j]][j] # "Absent"
    <3>1. thread' = [thread EXCEPT ![j] = Sending(
             [n |-> sent + 1, from |-> j, to |-> All, body |-> "Handoff", relay |-> FALSE])]
      BY <1>12, <2>3 DEF Handoff
    <3> QED
      BY <1>2, <2>1, <3>1
  <2> QED
    BY <2>2, <2>3
<1> QED
  BY <1>5, <1>6, <1>7, <1>8, <1>9, <1>10, <1>11, <1>12, OwnSteps DEF OwnStep, Finish

\* A poller comes to deliver only for a session its process does not know.
LEMMA IncomingStarts ==
  ASSUME BaseInv, [Next]_vars, NEW p \in Procs, NEW j \in Incoming(p)'
  PROVE  j \in Incoming(p) \/ status[p][j] = "Absent"
<1>1. poller \in [Procs -> PollerSet] /\ \A f \in Boxes : HomeOf[f] \in Procs
  BY Sessions DEF BaseInv, TypeInv
<1>2. CASE poller'[p] = poller[p]
  BY <1>2 DEF Incoming
<1>3. ASSUME NEW f \in Boxes, Poll(f), HomeOf[f] = p, poller'[p] # poller[p]
      PROVE  j \in Incoming(p) \/ status[p][j] = "Absent"
  <2>1. ~ ConsumeMailbox(f)
    <3> SUFFICES ASSUME ConsumeMailbox(f) PROVE FALSE
      OBVIOUS
    <3>0. /\ poller[p] = [step |-> "take", batch |-> <<>>]
          /\ poller' = [poller EXCEPT ![p].batch = mailbox[f]]
      BY <1>3 DEF ConsumeMailbox
    <3>1. poller[p].step = "take" /\ poller' = [poller EXCEPT ![p].batch = mailbox[f]]
      BY <3>0
    <3>2. poller'[p].step = "take"
      BY <1>1, <3>1 DEF PollerSet
    <3> QED
      BY <3>2 DEF Incoming
  <2>2. ~ Inject(f)
    <3> SUFFICES ASSUME Inject(f) PROVE FALSE
      OBVIOUS
    <3>1. poller' = [poller EXCEPT ![p] = [step |-> "take", batch |-> Tail(poller[p].batch)]]
      BY <1>1, <1>3 DEF Inject
    <3>2. poller'[p].step = "take"
      BY <1>1, <3>1
    <3> QED
      BY <3>2 DEF Incoming
  <2>3. ASSUME Take(f) PROVE j \in Incoming(p) \/ status[p][j] = "Absent"
    <3>1. CASE Skips(f)
      <4>1. poller' = [poller EXCEPT ![p] = [step |-> "take", batch |-> Tail(poller[p].batch)]]
        BY <1>1, <1>3, <2>3, <3>1 DEF Take
      <4> QED
        BY <1>1, <4>1 DEF Incoming
    <3>2. CASE ~Skips(f)
      <4>1. poller' = [poller EXCEPT ![p] = [poller[p] EXCEPT !.step = "register"]] /\ poller[p].batch # <<>>
        BY <1>1, <1>3, <2>3, <3>2 DEF Take
      <4>2. poller'[p].batch = poller[p].batch /\ poller'[p].step = "register"
        BY <1>1, <4>1 DEF PollerSet
      <4>3. j = Head(poller[p].batch).from
        BY <4>2 DEF Incoming
      <4>4. j \notin Registered(p) /\ j \in Ids
        BY <1>3, <3>2, <4>1, <4>3, BatchOk DEF Skips
      <4> QED
        BY <4>4 DEF Registered
    <3> QED
      BY <3>1, <3>2
  <2>4. ASSUME RegisterRemote(f) PROVE j \in Incoming(p)
    <3>1. poller[p].step = "register" /\ poller' = [poller EXCEPT ![p].step = "inject"]
      BY <1>3, <2>4 DEF RegisterRemote
    <3>2. poller'[p].batch = poller[p].batch /\ poller'[p].step # "take"
      BY <1>1, <3>1 DEF PollerSet
    <3> QED
      BY <3>1, <3>2 DEF Incoming
  <2> QED
    BY <1>3, <2>1, <2>2, <2>3, <2>4 DEF Poll
<1>4. ASSUME NEW f \in Boxes, Poll(f), HomeOf[f] # p PROVE poller'[p] = poller[p]
  BY <1>1, <1>4 DEF Poll, ConsumeMailbox, Take, RegisterRemote, Inject
<1>5. ASSUME NEW f, Act(f) \/ Show(f) PROVE poller' = poller
  BY <1>5 DEF Act, Compose, Watch, Unwatch, Show, ReadUnread, MarkRead
<1>6. ASSUME NEW s, Register(s) \/ ConsumeCommands(s) \/ Finish(s) PROVE poller' = poller
  BY <1>6 DEF Register, ConsumeCommands, Finish, End, Prune, LeavePeers, LeaveUnread, LeaveWatch,
              Handoff, Return
<1>7. ASSUME NEW i, Send(i) \/ WriteFile(i, TRUE) PROVE poller' = poller
  BY <1>7 DEF Send, Publish, WriteFile
<1>8. UNCHANGED vars => poller' = poller
  BY DEF vars
<1> QED
  BY <1>2, <1>3, <1>4, <1>5, <1>6, <1>7, <1>8 DEF Next

\* A message that arrives at a front is newer than all it has of the sender.
LEMMA ArrivalIsNewer ==
  ASSUME BaseInv, [Next]_vars, NEW f \in Fronts, NEW c \in Message, Arrives(HomeOf[f], f, c)
  PROVE  /\ Older(f, c)'
         /\ \A m \in Message : Older(f, m) /\ m.from = c.from => m.n < c.n
<1>1. f \in Ids /\ HomeOf[f] \in Procs /\ c.from \in Ids
  BY Sessions DEF Message
<1>2. CASE HomeOf[c.from] = HomeOf[f]
  <2>1. /\ thread[c.from].at = "dispatch" /\ c.n = Head(thread[c.from].msgs).n
        /\ thread'[c.from].at # "dispatch"
    BY <1>2 DEF Arrives
  <2>2. c.n <= sent /\ sent' >= sent /\ sent \in Int /\ sent' \in Int /\ c.n \in Int
    <3>1. Carries(c.from, thread[c.from], sent)
      BY <1>1 DEF BaseInv, ThreadInv
    <3>2. sent' \in 0..MaxMessages /\ sent' >= sent
      BY ThreadsKept DEF BaseInv
    <3> QED
      <4>1. c.n <= sent
        BY <2>1, <3>1 DEF Carries
      <4>2. sent \in 0..MaxMessages /\ c.n \in 1..MaxMessages /\ MaxMessages \in Nat
        BY BusAssumption DEF Message, BaseInv, TypeInv, BusAssumption
      <4> QED
        BY <3>2, <4>1, <4>2
  <2>3. c.n <= sent'
    BY <2>2
  <2>4. Older(f, c)'
    BY <1>2, <2>1, <2>3 DEF Older
  <2>5. ASSUME NEW m \in Message, Older(f, m), m.from = c.from PROVE m.n < c.n
    BY <1>2, <2>1, <2>5 DEF Older
  <2> QED
    BY <2>4, <2>5
<1>3. CASE HomeOf[c.from] # HomeOf[f]
  <2>1. /\ c.from \in Incoming(HomeOf[f]) /\ c.from \notin Incoming(HomeOf[f])'
        /\ status[HomeOf[f]][c.from] # "Absent" /\ status' = status
    BY <1>3 DEF Arrives
  <2> QED
    BY <1>3, <2>1 DEF Older
<1> QED
  BY <1>2, <1>3

LEMMA OlderKept ==
  ASSUME BaseInv, [Next]_vars, NEW f \in Fronts, NEW m \in Message, Older(f, m)
  PROVE  Older(f, m)'
<1>1. f \in Ids /\ HomeOf[f] \in Procs /\ m.from \in Ids
  BY Sessions DEF Message
<1>2. CASE HomeOf[m.from] = HomeOf[f]
  <2>1. m.n <= sent /\ (thread[m.from].at = "dispatch" => m.n < Head(thread[m.from].msgs).n)
    BY <1>2 DEF Older
  <2>2. sent' >= sent /\ sent \in Int /\ sent' \in Int /\ m.n \in Int
    <3>1. sent' \in 0..MaxMessages /\ sent' >= sent
      BY ThreadsKept DEF BaseInv
    <3> QED
      BY <3>1, BusAssumption DEF Message, BaseInv, TypeInv, BusAssumption
  <2>3. m.n <= sent' /\ m.n < sent + 1
    BY <2>1, <2>2
  <2>4. ASSUME thread'[m.from].at = "dispatch" PROVE m.n < Head(thread'[m.from].msgs).n
    BY <1>1, <2>1, <2>3, <2>4, DispatchStarts
  <2> QED
    BY <1>2, <2>3, <2>4 DEF Older
<1>3. CASE HomeOf[m.from] # HomeOf[f]
  <2>1. status[HomeOf[f]][m.from] # "Absent" /\ m.from \notin Incoming(HomeOf[f])
    BY <1>3 DEF Older
  <2>2. status'[HomeOf[f]][m.from] # "Absent"
    BY <1>1, <1>3, <2>1, StatusSteps
  <2>3. m.from \notin Incoming(HomeOf[f])'
    BY <1>1, <2>1, IncomingStarts
  <2> QED
    BY <1>3, <2>2, <2>3 DEF Older
<1> QED
  BY <1>2, <1>3

\* Every step keeps what a front has in order.
LEMMA OrderKept ==
  ASSUME BaseInv, [Next]_vars, NEW f \in Fronts, OrderOk(f)
  PROVE  OrderOk(f)'
<1> DEFINE s == shown[f]
           r == reader[f]
           q == unread[HomeOf[f]][f]
<1>1. /\ s \in Seq(Message) /\ r \in Seq(Message) /\ q \in Seq(Message) /\ Len(q) <= MaxUnread
      /\ f \in Ids /\ HomeOf[f] \in Procs /\ f \notin Subs
  BY Sessions DEF BaseInv, TypeInv
<1>2. Got(f) = ToSet(s) \cup ToSet(r) \cup ToSet(q) /\ Got(f) \subseteq Message
  <2>1. \A x \in Seq(Message) : ToSet(x) \subseteq Message
    BY DEF ToSet
  <2> QED
    BY <1>1, <2>1 DEF Got
<1>3. \A m \in Got(f) : Older(f, m)'
  BY <1>2, OlderKept DEF OrderOk
<1>4. CASE /\ reader'[f] = r /\ shown'[f] = s
           /\ unread'[HomeOf[f]][f] = q
  BY <1>2, <1>3, <1>4 DEF OrderOk, Got
<1>5. CASE Queued(HomeOf[f], f)
  <2>1. PICK c \in Message : Arrives(HomeOf[f], f, c) /\ unread'[HomeOf[f]][f] = Push(q, c)
    BY <1>5 DEF Queued
  <2>2. reader'[f] = r /\ shown'[f] = s
    BY <1>5 DEF Queued
  <2>3. Older(f, c)' /\ \A m \in Got(f) : m.from = c.from => m.n < c.n
    BY <1>2, <2>1, ArrivalIsNewer DEF OrderOk
  <2>4. Ascending(s \o q) /\ Ascending(s \o r)
    BY DEF OrderOk
  <2> HIDE DEF s, r, q
  <2>5. Ascending(s \o Push(q, c))
    BY <1>1, <1>2, <2>3, <2>4, AscendingPush
  <2>6. ToSet(Push(q, c)) \subseteq ToSet(q) \cup {c}
    BY <1>1, Pushed
  <2>7. \A m \in Got(f)' : Older(f, m)'
    <3>1. Got(f)' = ToSet(s) \cup ToSet(r) \cup ToSet(Push(q, c))
      BY <2>1, <2>2 DEF Got
    <3> QED
      BY <1>2, <1>3, <2>3, <2>6, <3>1
  <2> QED
    BY <2>1, <2>2, <2>4, <2>5, <2>7 DEF OrderOk
<1>6. CASE Reads(f)
  <2>1. reader'[f] = q /\ shown'[f] = s /\ unread'[HomeOf[f]][f] = q
    BY <1>6 DEF Reads
  <2>2. Got(f)' \subseteq Got(f)
    BY <2>1 DEF Got
  <2> QED
    BY <1>3, <2>1, <2>2 DEF OrderOk
<1>7. CASE MarkRead(f)
  <2>1. shown'[f] = s \o r /\ reader'[f] = <<>> /\ unread'[HomeOf[f]][f] = <<>>
    BY <1>1, <1>7 DEF MarkRead, BaseInv, TypeInv
  <2>2. Ascending(s \o r)
    BY DEF OrderOk
  <2> HIDE DEF s, r
  <2>3. (s \o r) \o <<>> = s \o r /\ ToSet(<<>>) = {}
    <3>1. s \o r \in Seq(Message)
      BY <1>1
    <3> HIDE DEF s, r
    <3> QED
      BY <3>1 DEF ToSet
  <2>4. ToSet(s \o r) \subseteq ToSet(s) \cup ToSet(r)
    <3>1. \A k \in DOMAIN (s \o r) :
             \/ k \in DOMAIN s /\ (s \o r)[k] = s[k]
             \/ k - Len(s) \in DOMAIN r /\ (s \o r)[k] = r[k - Len(s)]
      BY <1>1
    <3> QED
      BY <3>1 DEF ToSet
  <2>5. Got(f)' \subseteq Got(f)
    BY <1>2, <2>1, <2>3, <2>4 DEF Got
  <2> QED
    BY <1>3, <2>1, <2>2, <2>3, <2>5 DEF OrderOk
<1>8. ReaderStep(f) /\ QueueStep(HomeOf[f], f)
  BY <1>1, ReaderSteps, QueueSteps
<1> QED
  BY <1>1, <1>4, <1>5, <1>6, <1>7, <1>8 DEF ReaderStep, QueueStep, Consumed, Cleared, Removed

\* A front is given every message once, and those of a sender in the order they
\* were sent.
THEOREM GivenOnceInOrder == Spec => []InOrderOnce
<1>1. Init => OrderInv
  <2> SUFFICES ASSUME Init, NEW f \in Fronts PROVE OrderOk(f)
    BY DEF OrderInv
  <2>1. shown[f] = <<>> /\ reader[f] = <<>> /\ unread[HomeOf[f]][f] = <<>>
    BY Sessions DEF Init
  <2>2. <<>> \o <<>> = <<>> /\ Ascending(<<>>) /\ ToSet(<<>>) = {}
    BY DEF Ascending, ToSet
  <2> QED
    BY <2>1, <2>2 DEF OrderOk, Got
<1>2. BaseInv /\ OrderInv /\ [Next]_vars => OrderInv'
  <2> SUFFICES ASSUME BaseInv, OrderInv, [Next]_vars PROVE OrderInv'
    OBVIOUS
  <2>1. \A f \in Fronts : OrderOk(f)'
    BY OrderKept DEF OrderInv
  <2> QED
    BY <2>1 DEF OrderInv
<1>3. OrderInv => InOrderOnce
  BY DEF OrderInv, OrderOk, InOrderOnce, Ascending
<1> QED
  BY <1>1, <1>2, <1>3, BaseAlways, PTL DEF Spec
=============================================================================
