------------------------ MODULE ConversationTurn_proofs ------------------------
(***************************************************************************)
(* For every program, every limit, every number of tools an answer asks    *)
(* for and every mishap: the types of a session, that its tool results     *)
(* are never without the message that asked for them, and that a request   *)
(* shows an unanswered tool use only after a batch that was broken off.    *)
(***************************************************************************)
EXTENDS ConversationTurnProps, WellFoundedInduction, TLAPS

-----------------------------------------------------------------------------
(* The greatest of a set, and the messages.                                *)

\* A set of integers with a bound has a greatest.
LEMMA MaxOf ==
  ASSUME NEW S \in SUBSET Int, NEW b \in Int, NEW x \in S, \A y \in S : y <= b
  PROVE  Max(S) \in S /\ \A y \in S : y <= Max(S)
<1> DEFINE D == {n \in Nat : b - n \in S}
           Less == {ss \in Nat \X Nat : ss[1] < ss[2]}
<1>1. b - x \in D
  <2>1. x \in Int /\ x <= b
    OBVIOUS
  <2>2. b - x \in Nat /\ b - (b - x) = x
    BY <2>1
  <2> QED
    BY <2>2
<1>2. PICK n \in D : \A d \in D : ~(<<d, n>> \in Less)
  <2>1. D \subseteq Nat
    OBVIOUS
  <2>2. IsWellFoundedOn(Less, Nat)
    BY NatLessThanWellFounded DEF OpToRel
  <2> HIDE DEF D, Less
  <2> QED
    BY <1>1, <2>1, <2>2, WFMin
<1>3. n \in Nat /\ b - n \in S /\ b - n \in Int
  BY <1>2
<1>4. ASSUME NEW y \in S PROVE b - n >= y
  <2>1. y \in Int /\ y <= b
    OBVIOUS
  <2>2. b - y \in Nat /\ b - (b - y) = y
    BY <2>1
  <2>3. b - y \in D
    BY <2>2
  <2>4. ~(b - y < n)
    BY <1>2, <1>3, <2>2, <2>3
  <2> QED
    BY <1>3, <2>1, <2>2, <2>4
<1>5. Max(S) \in S /\ \A y \in S : Max(S) >= y
  BY <1>3, <1>4 DEF Max
<1> QED
  BY <1>5

LEMMA MaxOfTwo ==
  ASSUME NEW a \in Nat, NEW b \in Nat
  PROVE  Max({a, b}) = IF a >= b THEN a ELSE b
<1>1. \A y \in {a, b} : y <= a + b
  OBVIOUS
<1>2. {a, b} \in SUBSET Int /\ a + b \in Int /\ a \in {a, b}
  OBVIOUS
<1>3. Max({a, b}) \in {a, b} /\ \A y \in {a, b} : y <= Max({a, b})
  BY <1>1, <1>2, MaxOf
<1> QED
  BY <1>3

AnyMessage == Wholesome \cup {Broken}

LEMMA AnyTyped == \A m \in AnyMessage : m.kind \in Kinds /\ m.no \in Nat /\ m.use \in Nat
BY DEF AnyMessage, Wholesome, Broken, Message, Kinds

LEMMA WholesomeAny ==
  /\ \A m \in Wholesome : m # Broken /\ m \in AnyMessage
  /\ \A ms \in Seq(Wholesome) : ms \in Seq(AnyMessage) /\ Broken \notin ToSet(ms)
<1>1. \A m \in Wholesome : m # Broken /\ m \in AnyMessage
  BY DEF AnyMessage, Wholesome, Broken, Message, Kinds
<1>2. ASSUME NEW ms \in Seq(Wholesome) PROVE ms \in Seq(AnyMessage) /\ Broken \notin ToSet(ms)
  <2>1. \A k \in DOMAIN ms : ms[k] \in Wholesome
    OBVIOUS
  <2>2. ms \in Seq(AnyMessage)
    BY <1>1, <2>1
  <2> QED
    BY <1>1, <2>1, <2>2 DEF ToSet
<1> QED
  BY <1>1, <1>2

LEMMA Messages ==
  ASSUME NEW n \in Nat, NEW u \in Nat
  PROVE  /\ User(n) \in Wholesome /\ User(n).kind = "user" /\ User(n).no = n
         /\ Asst(n, u) \in Wholesome /\ Asst(n, u).kind = "asst" /\ Asst(n, u).no = n
         /\ Asst(n, u).use = u
         /\ Result(n, u) \in Wholesome /\ Result(n, u).kind = "tool" /\ Result(n, u).no = n
         /\ Summary \in Wholesome /\ Summary.kind = "sum" /\ Summary.no = 0
         /\ ~IsOpen(User(n)) /\ ~IsOpen(Result(n, u)) /\ ~IsOpen(Summary)
         /\ ~IsOpen(Asst(n, 0))
BY DEF User, Asst, Result, Summary, Message, Wholesome, Kinds, IsOpen

-----------------------------------------------------------------------------
(* One message more.                                                       *)

LEMMA Appended ==
  ASSUME NEW T, NEW q \in Seq(T), NEW m \in T
  PROVE  /\ Append(q, m) \in Seq(T) /\ Len(Append(q, m)) = Len(q) + 1 /\ Len(q) \in Nat
         /\ DOMAIN q = 1..Len(q) /\ DOMAIN Append(q, m) = 1..(Len(q) + 1)
         /\ \A k \in DOMAIN q : k \in DOMAIN Append(q, m) /\ Append(q, m)[k] = q[k]
         /\ Append(q, m)[Len(q) + 1] = m
         /\ \A k \in DOMAIN Append(q, m) :
               \/ k \in DOMAIN q /\ k \in Int /\ k <= Len(q) /\ Append(q, m)[k] = q[k]
               \/ k = Len(q) + 1 /\ Append(q, m)[k] = m
OBVIOUS

\* What is anchored stays anchored in a list that goes on.
LEMMA AnchoredAppend ==
  ASSUME NEW ms \in Seq(AnyMessage), NEW m \in AnyMessage, Anchored(ms),
         m.kind = "tool" =>
            \E j \in 1..Len(ms) : /\ ms[j].kind = "asst" /\ ms[j].no = m.no
                                  /\ \A l \in (j + 1)..Len(ms) : ms[l].kind = "tool"
  PROVE  Anchored(Append(ms, m))
<1> DEFINE r == Append(ms, m)
<1>1. /\ Len(ms) \in Nat /\ DOMAIN ms = 1..Len(ms) /\ r[Len(ms) + 1] = m
      /\ \A k \in 1..Len(ms) : r[k] = ms[k]
      /\ \A k \in DOMAIN r : k \in 1..Len(ms) \/ k = Len(ms) + 1
  BY Appended
<1> HIDE DEF r
<1> SUFFICES ASSUME NEW t \in DOMAIN r, r[t].kind = "tool"
             PROVE  \E j \in 1..(t - 1) : /\ r[j].kind = "asst" /\ r[j].no = r[t].no
                                          /\ \A l \in (j + 1)..t : r[l].kind = "tool"
  BY DEF Anchored, r
<1>2. CASE t \in 1..Len(ms)
  <2>1. PICK j \in 1..(t - 1) : /\ ms[j].kind = "asst" /\ ms[j].no = ms[t].no
                                /\ \A l \in (j + 1)..t : ms[l].kind = "tool"
    BY <1>1, <1>2 DEF Anchored
  <2>2. \A l \in j..t : l \in 1..Len(ms)
    BY <1>1, <1>2
  <2> QED
    BY <1>1, <1>2, <2>1, <2>2
<1>3. CASE t = Len(ms) + 1
  <2>1. PICK j \in 1..Len(ms) : /\ ms[j].kind = "asst" /\ ms[j].no = m.no
                                /\ \A l \in (j + 1)..Len(ms) : ms[l].kind = "tool"
    BY <1>1, <1>3
  <2>2. j \in 1..(t - 1) /\ \A l \in (j + 1)..t : l \in (j + 1)..Len(ms) \/ l = t
    BY <1>1, <1>3
  <2>3. \A l \in (j + 1)..Len(ms) : l \in 1..Len(ms)
    BY <1>1
  <2> QED
    BY <1>1, <1>3, <2>1, <2>2, <2>3
<1> QED
  BY <1>1, <1>2, <1>3

\* A message with a new number.
LEMMA NewMessage ==
  ASSUME NEW n \in Nat, NEW ms \in Seq(AnyMessage), WellFormed(ms, n), NEW m \in AnyMessage,
         m.kind # "tool", m.no = n
  PROVE  WellFormed(Append(ms, m), n + 1)
<1> DEFINE r == Append(ms, m)
<1>1. Anchored(r)
  BY AnchoredAppend DEF WellFormed
<1>2. /\ \A k \in DOMAIN ms : ms[k].no \in Nat /\ ms[k].no < n
      /\ \A k \in DOMAIN r : (k \in DOMAIN ms /\ r[k] = ms[k]) \/ (k = Len(ms) + 1 /\ r[k] = m)
  BY AnyTyped, Appended DEF WellFormed
<1> HIDE DEF r
<1>3. Distinct(r)
  <2> SUFFICES ASSUME NEW j \in DOMAIN r, NEW k \in DOMAIN r, r[j].kind = "asst",
                      r[k].kind = "asst", r[j].no = r[k].no
               PROVE  j = k
    BY DEF Distinct
  <2>1. CASE j \in DOMAIN ms /\ r[j] = ms[j]
    BY <1>2, <2>1 DEF WellFormed, Distinct
  <2>2. CASE j = Len(ms) + 1 /\ r[j] = m
    BY <1>2, <2>2
  <2> QED
    BY <1>2, <2>1, <2>2
<1>4. \A k \in DOMAIN r : r[k].no < n + 1
  BY <1>2
<1> QED
  BY <1>1, <1>3, <1>4 DEF WellFormed, r

LEMMA LaterNumber ==
  ASSUME NEW n \in Nat, NEW ms \in Seq(AnyMessage), WellFormed(ms, n)
  PROVE  WellFormed(ms, n + 1)
<1>1. \A k \in DOMAIN ms : ms[k].no \in Nat
  BY AnyTyped
<1>2. \A k \in DOMAIN ms : ms[k].no < n + 1
  BY <1>1 DEF WellFormed
<1> QED
  BY <1>2 DEF WellFormed

\* The result of the next tool of the batch.
LEMMA NextResult ==
  ASSUME NEW n \in Nat, NEW ms \in Seq(AnyMessage), WellFormed(ms, n),
         NEW a \in Nat, NEW u \in Nat, NEW at \in Nat, Batch(ms, a, u, at)
  PROVE  /\ WellFormed(Append(ms, Result(a, at)), n)
         /\ Batch(Append(ms, Result(a, at)), a, u, at + 1)
<1> DEFINE m == Result(a, at)
           r == Append(ms, m)
           top == Len(ms) - at + 1
<1>1. m \in AnyMessage /\ m.kind = "tool" /\ m.no = a
  BY Messages, WholesomeAny
<1>2. /\ Len(ms) \in Nat /\ at \in 1..Len(ms) /\ top \in 1..Len(ms)
      /\ ms[top].kind = "asst" /\ ms[top].no = a /\ ms[top] = Asst(a, u)
      /\ \A i \in 1..(at - 1) : ms[top + i] = Result(a, i)
  BY Messages DEF Batch
<1>3. ASSUME NEW l \in (top + 1)..Len(ms) PROVE ms[l].kind = "tool"
  <2>1. l - top \in 1..(at - 1) /\ top + (l - top) = l
    <3>1. Len(ms) \in Nat /\ at \in 1..Len(ms)
      BY <1>2
    <3> QED
      BY <3>1
  <2>2. ms[l] = Result(a, l - top) /\ l - top \in Nat
    BY <1>2, <2>1
  <2> QED
    BY <2>2, Messages
<1>4. /\ Len(r) = Len(ms) + 1 /\ r[Len(ms) + 1] = m /\ DOMAIN ms = 1..Len(ms)
      /\ \A k \in 1..Len(ms) : r[k] = ms[k]
      /\ \A k \in DOMAIN r : (k \in DOMAIN ms /\ r[k] = ms[k]) \/ (k = Len(ms) + 1 /\ r[k] = m)
  <2> HIDE DEF m
  <2> QED
    BY <1>1, Appended
<1>5. Anchored(r)
  <2> HIDE DEF m, top
  <2> QED
    BY <1>1, <1>2, <1>3, AnchoredAppend DEF WellFormed
<1>6. Distinct(r) /\ \A k \in DOMAIN r : r[k].no < n
  <2>1. m.kind # "asst" /\ m.no < n
    <3>1. ms[top].no < n
      BY <1>2, <1>4 DEF WellFormed
    <3> QED
      BY <1>1, <1>2, <3>1
  <2> HIDE DEF m, r, top
  <2>2. /\ \A k \in DOMAIN ms : ms[k].no < n
        /\ \A j, k \in DOMAIN ms :
              ms[j].kind = "asst" /\ ms[k].kind = "asst" /\ ms[j].no = ms[k].no => j = k
    BY DEF WellFormed, Distinct
  <2>3. \A k \in DOMAIN r : r[k].no < n
    BY <1>4, <2>1, <2>2
  <2>4. \A j \in DOMAIN r : r[j].kind = "asst" => j \in DOMAIN ms /\ r[j] = ms[j]
    BY <1>4, <2>1
  <2> QED
    BY <2>2, <2>3, <2>4 DEF Distinct
<1>7. Batch(r, a, u, at + 1)
  <2> HIDE DEF m, r
  <2>1. /\ at + 1 \in 1..Len(r) /\ Len(r) - (at + 1) + 1 = top
        /\ top \in Nat /\ (at + 1) - 1 = at
    <3>1. Len(r) = Len(ms) + 1
      BY <1>4
    <3>2. Len(ms) \in Nat /\ at \in 1..Len(ms) /\ top = Len(ms) - at + 1
      BY <1>2
    <3> HIDE DEF top
    <3> QED
      BY <3>1, <3>2
  <2>2. r[top] = Asst(a, u)
    BY <1>2, <1>4
  <2>3. ASSUME NEW i \in 1..at PROVE r[top + i] = Result(a, i)
    <3>1. CASE i = at
      <4>1. top + i = Len(ms) + 1
        BY <1>2, <3>1
      <4> QED
        BY <1>4, <3>1, <4>1 DEF m
    <3>2. CASE i # at
      <4>1. i \in 1..(at - 1) /\ top + i \in 1..Len(ms)
        BY <1>2, <3>2
      <4> QED
        BY <1>2, <1>4, <4>1
    <3> QED
      BY <3>1, <3>2
  <2> HIDE DEF top
  <2> QED
    BY <2>1, <2>2, <2>3 DEF Batch
<1> QED
  BY <1>5, <1>6, <1>7 DEF WellFormed

LEMMA NewBatch ==
  ASSUME NEW ms \in Seq(AnyMessage), NEW a \in Nat, NEW u \in Nat
  PROVE  Batch(Append(ms, Asst(a, u)), a, u, 1)
<1> DEFINE m == Asst(a, u)
           r == Append(ms, m)
<1>1. m \in AnyMessage
  BY Messages, WholesomeAny
<1> HIDE DEF m
<1>2. Len(r) = Len(ms) + 1 /\ r[Len(ms) + 1] = m /\ Len(ms) \in Nat
  BY <1>1, Appended
<1> HIDE DEF r
<1>3. 1 \in 1..Len(r) /\ Len(r) - 1 + 1 = Len(ms) + 1 /\ 1..(1 - 1) = {}
  BY <1>2
<1>4. Batch(r, a, u, 1)
  BY <1>2, <1>3 DEF Batch, m
<1> QED
  BY <1>4 DEF r, m

\* A message that asks for nothing leaves the pairs alone, and so does one that is
\* to be answered.
LEMMA PairedAppend ==
  ASSUME NEW C, NEW ms \in Seq(AnyMessage), Paired(ms, C), NEW m \in AnyMessage,
         IsOpen(m) => m.no \in C
  PROVE  Paired(Append(ms, m), C)
<1> DEFINE r == Append(ms, m)
<1>1. /\ Len(r) = Len(ms) + 1 /\ Len(ms) \in Nat /\ DOMAIN ms = 1..Len(ms)
      /\ \A k \in 1..Len(ms) : r[k] = ms[k]
      /\ \A k \in DOMAIN r : k \in 1..Len(ms) \/ (k = Len(ms) + 1 /\ r[k] = m)
  BY Appended
<1> HIDE DEF r
<1>2. ASSUME NEW j \in DOMAIN r, IsOpen(r[j]), r[j].no \notin C, NEW i \in 1..r[j].use
      PROVE  \E t \in (j + 1)..Len(r) : r[t] = Result(r[j].no, i)
  <2>1. j \in 1..Len(ms) /\ r[j] = ms[j]
    BY <1>1, <1>2
  <2>2. PICK t \in (j + 1)..Len(ms) : ms[t] = Result(ms[j].no, i)
    BY <1>1, <1>2, <2>1 DEF Paired
  <2>3. t \in 1..Len(ms) /\ t \in (j + 1)..Len(r)
    BY <1>1, <2>1
  <2> QED
    BY <1>1, <2>1, <2>2, <2>3
<1> QED
  BY <1>2 DEF Paired, r

LEMMA PairedMore ==
  ASSUME NEW ms, NEW C, NEW D, C \subseteq D, Paired(ms, C)
  PROVE  Paired(ms, D)
BY DEF Paired

\* A batch whose tools all have their result.
LEMMA BatchDone ==
  ASSUME NEW C, NEW ms \in Seq(AnyMessage), Distinct(ms), NEW a \in Nat, NEW u \in Nat, NEW at \in Nat,
         Paired(ms, C \cup {a}), Batch(ms, a, u, at), u < at
  PROVE  Paired(ms, C)
<1> DEFINE top == Len(ms) - at + 1
<1>1. /\ Len(ms) \in Nat /\ at \in 1..Len(ms) /\ DOMAIN ms = 1..Len(ms)
      /\ ms[top] = Asst(a, u) /\ \A i \in 1..(at - 1) : ms[top + i] = Result(a, i)
  BY DEF Batch
<1>2. ASSUME NEW j \in DOMAIN ms, IsOpen(ms[j]), ms[j].no \notin C, NEW i \in 1..ms[j].use
      PROVE  \E t \in (j + 1)..Len(ms) : ms[t] = Result(ms[j].no, i)
  <2>1. CASE ms[j].no # a
    BY <1>2, <2>1 DEF Paired
  <2>2. CASE ms[j].no = a
    <3>1. top \in 1..Len(ms)
      BY <1>1
    <3> HIDE DEF top
    <3>2. ms[top].kind = "asst" /\ ms[top].no = a /\ ms[top].use = u
      BY <1>1, Messages
    <3>3. j = top
      BY <1>1, <1>2, <2>2, <3>1, <3>2 DEF Distinct, IsOpen
    <3>4. i \in 1..(at - 1) /\ ms[top + i] = Result(a, i)
      BY <1>1, <1>2, <3>2, <3>3
    <3>5. top + i \in (j + 1)..Len(ms)
      BY <1>1, <3>3, <3>4 DEF top
    <3> QED
      BY <2>2, <3>4, <3>5
  <2> QED
    BY <2>1, <2>2
<1> QED
  BY <1>2 DEF Paired

-----------------------------------------------------------------------------
(* Messages taken away.                                                    *)

\* What is left of a list that loses its beginning, a summary perhaps in its
\* place, when the first message that is left is not a result, or nothing that
\* could have asked for it is gone.
LEMMA Shortened ==
  ASSUME NEW n \in Nat \ {0}, NEW ms \in Seq(AnyMessage), WellFormed(ms, n),
         NEW r \in Seq(AnyMessage), NEW e \in {0, 1}, NEW d \in Int, Len(r) + d = Len(ms),
         e = 1 => r # <<>> /\ r[1] = Summary,
         \A k \in (e + 1)..Len(r) : k + d \in DOMAIN ms /\ r[k] = ms[k + d],
         \/ \A j \in 1..(d + e) : ms[j].kind # "asst"
         \/ (e + 1 \in DOMAIN r => r[e + 1].kind # "tool")
  PROVE  WellFormed(r, n) /\ \A C : Paired(ms, C) => Paired(r, C)
<1>1. /\ Len(ms) \in Nat /\ DOMAIN ms = 1..Len(ms) /\ Len(r) \in Nat /\ DOMAIN r = 1..Len(r)
      /\ \A k \in DOMAIN r : (k = 1 /\ e = 1 /\ r[k] = Summary) \/ k \in (e + 1)..Len(r)
  OBVIOUS
<1>2. Summary.kind = "sum" /\ Summary.no = 0 /\ ~IsOpen(Summary)
  BY Messages
<1>2a. /\ \A t \in DOMAIN ms : ms[t].kind = "tool" =>
            \E j \in 1..(t - 1) : /\ ms[j].kind = "asst" /\ ms[j].no = ms[t].no
                                  /\ \A l \in (j + 1)..t : ms[l].kind = "tool"
       /\ \A k \in DOMAIN ms : ms[k].no < n
  BY DEF WellFormed, Anchored
<1>3. ASSUME NEW t \in DOMAIN r, r[t].kind = "tool"
      PROVE  \E j \in 1..(t - 1) : /\ r[j].kind = "asst" /\ r[j].no = r[t].no
                                   /\ \A l \in (j + 1)..t : r[l].kind = "tool"
  <2>1. t \in (e + 1)..Len(r) /\ t + d \in DOMAIN ms /\ r[t] = ms[t + d]
    BY <1>1, <1>2, <1>3
  <2>1a. PICK s \in DOMAIN ms : s = t + d
    BY <2>1
  <2>2. PICK j \in 1..(s - 1) : /\ ms[j].kind = "asst" /\ ms[j].no = ms[s].no
                               /\ \A l \in (j + 1)..s : ms[l].kind = "tool"
    <3>1. ms[s].kind = "tool"
      BY <1>3, <2>1, <2>1a
    <3> QED
      BY <1>2a, <3>1
  <2>3. j > d + e
    <3> SUFFICES ASSUME ~(j > d + e) PROVE FALSE
      OBVIOUS
    <3>1. j \in 1..(d + e) /\ e + 1 + d \in (j + 1)..s /\ e + 1 \in (e + 1)..Len(r)
          /\ e + 1 \in DOMAIN r
      BY <1>1, <2>1, <2>1a, <2>2
    <3>2. r[e + 1] = ms[e + 1 + d] /\ ms[e + 1 + d].kind = "tool"
      BY <2>2, <3>1
    <3> QED
      BY <2>2, <3>1, <3>2
  <2>4. /\ j - d \in 1..(t - 1) /\ j - d \in (e + 1)..Len(r) /\ (j - d) + d = j
        /\ \A l \in (j - d + 1)..t : l \in (e + 1)..Len(r) /\ l + d \in (j + 1)..s
    BY <1>1, <2>1, <2>1a, <2>2, <2>3
  <2>5. r[j - d] = ms[j] /\ \A l \in (j - d + 1)..t : r[l] = ms[l + d]
    BY <2>4
  <2>6. r[j - d].kind = "asst" /\ r[j - d].no = r[t].no
    <3>1. r[t] = ms[s]
      BY <2>1, <2>1a
    <3> QED
      BY <2>2, <2>5, <3>1, Zenon
  <2>7. ASSUME NEW l \in (j - d + 1)..t PROVE r[l].kind = "tool"
    <3>1. r[l] = ms[l + d] /\ l + d \in (j + 1)..s
      BY <2>4, <2>5, Zenon
    <3> QED
      BY <2>2, <3>1, Zenon
  <2> QED
    BY <2>4, <2>6, <2>7
<1>4. ASSUME NEW j \in DOMAIN r, NEW k \in DOMAIN r, r[j].kind = "asst", r[k].kind = "asst",
             r[j].no = r[k].no
      PROVE  j = k
  <2>1. j \in (e + 1)..Len(r) /\ k \in (e + 1)..Len(r)
    BY <1>1, <1>2, <1>4
  <2>2. j + d = k + d
    BY <1>4, <2>1 DEF WellFormed, Distinct
  <2> QED
    BY <2>1, <2>2
<1>5. ASSUME NEW k \in DOMAIN r PROVE r[k].no < n
  <2>1. CASE k = 1 /\ e = 1 /\ r[k] = Summary
    BY <1>2, <2>1
  <2>2. CASE k \in (e + 1)..Len(r)
    <3>1. k + d \in DOMAIN ms /\ r[k] = ms[k + d]
      BY <2>2
    <3> QED
      BY <1>2a, <3>1
  <2> QED
    BY <1>1, <2>1, <2>2
<1>6. ASSUME NEW C, Paired(ms, C), NEW j \in DOMAIN r, IsOpen(r[j]), r[j].no \notin C,
             NEW i \in 1..r[j].use
      PROVE  \E t \in (j + 1)..Len(r) : r[t] = Result(r[j].no, i)
  <2>1. j \in (e + 1)..Len(r) /\ j + d \in DOMAIN ms /\ r[j] = ms[j + d]
    BY <1>1, <1>2, <1>6
  <2>2. PICK t \in (j + d + 1)..Len(ms) : ms[t] = Result(ms[j + d].no, i)
    BY <1>6, <2>1 DEF Paired
  <2>3. t - d \in (j + 1)..Len(r) /\ t - d \in (e + 1)..Len(r) /\ (t - d) + d = t
    BY <1>1, <2>1, <2>2
  <2> QED
    BY <2>1, <2>2, <2>3
<1>7. WellFormed(r, n)
  BY <1>3, <1>4, <1>5 DEF WellFormed, Anchored, Distinct
<1>8. \A C : Paired(ms, C) => Paired(r, C)
  BY <1>6 DEF Paired
<1> QED
  BY <1>7, <1>8

LEMMA CompactOk ==
  ASSUME NEW n \in Nat \ {0}, NEW ms \in Seq(AnyMessage), WellFormed(ms, n), Removed(ms) > 0
  PROVE  /\ Compact(ms) \in Seq(AnyMessage) /\ WellFormed(Compact(ms), n)
         /\ \A C : Paired(ms, C) => Paired(Compact(ms), C)
         /\ ms \in Seq(Wholesome) => Compact(ms) \in Seq(Wholesome)
         /\ \E d \in Int : \A k \in DOMAIN Compact(ms) :
               \/ Compact(ms)[k] = Summary
               \/ k + d \in DOMAIN ms /\ Compact(ms)[k] = ms[k + d]
<1> DEFINE S == {k \in Prefix(ms)..(Len(ms) - PreserveRecent) :
                    k = Prefix(ms) \/ ms[k + 1].kind # "tool"}
           from == KeepFrom(ms)
           rest == SubSeq(ms, from + 1, Len(ms))
           r == Compact(ms)
<1>1. Len(ms) \in Nat /\ PreserveRecent \in Nat /\ Prefix(ms) \in {0, 1}
  BY LimitsAssumption DEF LimitsAssumption, Prefix
<1>2. Prefix(ms) <= Len(ms) - PreserveRecent /\ Removed(ms) = from - Prefix(ms)
  BY <1>1 DEF Removed, Compactable
<1>3. from \in S
  <2>1. S \in SUBSET Int /\ Prefix(ms) \in S /\ Len(ms) - PreserveRecent \in Int
    BY <1>1, <1>2
  <2>2. \A y \in S : y <= Len(ms) - PreserveRecent
    BY <1>1
  <2>3. Max(S) \in S
    <3> HIDE DEF S
    <3> QED
      BY <2>1, <2>2, MaxOf
  <2> QED
    BY <2>3 DEF KeepFrom
<1>4. /\ from \in Nat /\ from > 0 /\ from <= Len(ms)
      /\ ms[from + 1].kind # "tool"
  BY <1>1, <1>2, <1>3
<1> HIDE DEF S, from
<1>5. ASSUME NEW T, ms \in Seq(T)
      PROVE  /\ rest \in Seq(T) /\ Len(rest) = Len(ms) - from
             /\ \A i \in 1..Len(rest) : rest[i] = ms[from + i]
  BY <1>1, <1>4, <1>5
<1>6. r = <<Summary>> \o rest
  BY DEF Compact, from
<1> HIDE DEF r, rest
<1>7. ASSUME NEW T, ms \in Seq(T), Summary \in T
      PROVE  /\ r \in Seq(T) /\ Len(r) = Len(ms) - from + 1 /\ r[1] = Summary
             /\ \A k \in 2..Len(r) : r[k] = ms[k + (from - 1)]
  <2>1. rest \in Seq(T) /\ Len(rest) = Len(ms) - from
        /\ \A i \in 1..Len(rest) : rest[i] = ms[from + i]
    BY <1>5, <1>7
  <2>2. /\ r \in Seq(T) /\ Len(r) = Len(rest) + 1 /\ r[1] = Summary
        /\ \A k \in 2..Len(r) : r[k] = rest[k - 1]
    BY <1>6, <1>7, <2>1
  <2>3. ASSUME NEW k \in 2..Len(r) PROVE r[k] = ms[k + (from - 1)]
    <3>1. k - 1 \in 1..Len(rest) /\ from + (k - 1) = k + (from - 1)
      <4>1. Len(r) = Len(rest) + 1 /\ Len(rest) \in Nat /\ from \in Nat
        BY <1>1, <1>4, <2>1, <2>2
      <4> QED
        BY <4>1
    <3> QED
      BY <2>1, <2>2, <3>1
  <2> QED
    BY <1>1, <1>4, <2>1, <2>2, <2>3
<1>8. /\ r \in Seq(AnyMessage) /\ Len(r) = Len(ms) - from + 1 /\ r[1] = Summary
      /\ \A k \in 2..Len(r) : r[k] = ms[k + (from - 1)]
  BY <1>7, Messages, WholesomeAny
<1>9. ms \in Seq(Wholesome) => r \in Seq(Wholesome)
  BY <1>7, Messages
<1>10. WellFormed(r, n) /\ \A C : Paired(ms, C) => Paired(r, C)
  <2> DEFINE d == from - 1
             e == 1
  <2>1. d \in Int /\ e \in {0, 1} /\ Len(r) + d = Len(ms) /\ r # <<>>
    BY <1>1, <1>4, <1>8
  <2>2. \A k \in (e + 1)..Len(r) : k + d \in DOMAIN ms /\ r[k] = ms[k + d]
    BY <1>1, <1>4, <1>8
  <2>3. e + 1 \in DOMAIN r => r[e + 1].kind # "tool"
    <3>1. 2 \in DOMAIN r => 2 \in 2..Len(r)
      BY <1>8
    <3>2. 2 + (from - 1) = from + 1
      BY <1>4
    <3> QED
      BY <1>4, <1>8, <3>1, <3>2
  <2> HIDE DEF d, e
  <2> QED
    BY <1>8, <2>1, <2>2, <2>3, Shortened
<1>11. \A k \in DOMAIN r : r[k] = Summary \/ (k + (from - 1) \in DOMAIN ms /\ r[k] = ms[k + (from - 1)])
  <2>1. \A k \in DOMAIN r : k = 1 \/ k \in 2..Len(r)
    BY <1>8
  <2>2. \A k \in 2..Len(r) : k + (from - 1) \in DOMAIN ms
    BY <1>1, <1>4, <1>8
  <2> QED
    BY <1>8, <2>1, <2>2
<1>12. from - 1 \in Int
  BY <1>4
<1> QED
  BY <1>8, <1>9, <1>10, <1>11, <1>12 DEF r

LEMMA CompactionsOk ==
  ASSUME NEW n \in Nat \ {0}, NEW ms \in Seq(Wholesome), WellFormed(ms, n),
         NEW r \in Compactions(ms)
  PROVE  r \in Seq(Wholesome) /\ WellFormed(r, n) /\ \A C : Paired(ms, C) => Paired(r, C)
<1>1. ms \in Seq(AnyMessage)
  BY WholesomeAny
<1>2. CASE Removed(ms) > 0
  BY <1>1, <1>2, CompactOk DEF Compactions
<1>3. CASE ~(Removed(ms) > 0)
  BY <1>3 DEF Compactions
<1> QED
  BY <1>2, <1>3

\* What a request shows of the session.
LEMMA RequestOk ==
  ASSUME NEW n \in Nat \ {0}, NEW ms \in Seq(AnyMessage), WellFormed(ms, n)
  PROVE  /\ Request(ms) \in Seq(AnyMessage) /\ WellFormed(Request(ms), n)
         /\ \A C : Paired(ms, C) => Paired(Request(ms), C)
<1> DEFINE S == {1} \cup {i \in DOMAIN ms : ms[i] = Summary}
           from == Max(S)
           r == Request(ms)
<1>1. Len(ms) \in Nat /\ DOMAIN ms = 1..Len(ms)
  OBVIOUS
<1>2. from \in S
  <2>1. S \in SUBSET Int /\ 1 \in S /\ Len(ms) + 1 \in Int /\ \A y \in S : y <= Len(ms) + 1
    BY <1>1
  <2> HIDE DEF S
  <2> QED
    BY <2>1, MaxOf
<1>3. r = SubSeq(ms, from, Len(ms))
  BY DEF Request
<1>4. /\ from \in Nat \ {0} /\ from <= Len(ms) + 1
      /\ from = 1 \/ (from \in DOMAIN ms /\ ms[from] = Summary)
  BY <1>1, <1>2
<1> HIDE DEF S, from, r
<1>5. /\ r \in Seq(AnyMessage) /\ Len(r) = Len(ms) - from + 1
      /\ \A k \in 1..Len(r) : k + (from - 1) \in DOMAIN ms /\ r[k] = ms[k + (from - 1)]
  BY <1>1, <1>3, <1>4
<1>6. WellFormed(r, n) /\ \A C : Paired(ms, C) => Paired(r, C)
  <2> DEFINE d == from - 1
             e == 0
  <2>1. d \in Int /\ e \in {0, 1} /\ Len(r) + d = Len(ms)
    BY <1>1, <1>4, <1>5
  <2>2. \A k \in (e + 1)..Len(r) : k + d \in DOMAIN ms /\ r[k] = ms[k + d]
    BY <1>5
  <2>3. \/ \A j \in 1..(d + e) : ms[j].kind # "asst"
        \/ (e + 1 \in DOMAIN r => r[e + 1].kind # "tool")
    <3>1. CASE from = 1
      BY <3>1
    <3>2. CASE from \in DOMAIN ms /\ ms[from] = Summary
      <4>1. Summary.kind # "tool" /\ 1 + (from - 1) = from
        BY <1>4, Messages
      <4>2. 1 \in DOMAIN r => r[1] = ms[from]
        BY <1>5, <4>1
      <4> QED
        BY <3>2, <4>1, <4>2
    <3> QED
      BY <1>4, <3>1, <3>2
  <2>4. r \in Seq(AnyMessage) /\ (e = 1 => r # <<>> /\ r[1] = Summary)
    BY <1>5
  <2> HIDE DEF d, e
  <2> QED
    BY <2>1, <2>2, <2>3, <2>4, Shortened
<1> QED
  BY <1>5, <1>6 DEF r

\* The last message is taken away if it asks for tools.
LEMMA PruneOk ==
  ASSUME NEW n \in Nat, NEW ms \in Seq(Wholesome), WellFormed(ms, n)
  PROVE  /\ Prune(ms) \in Seq(Wholesome) /\ WellFormed(Prune(ms), n)
         /\ \A C : Paired(ms, C) => Paired(Prune(ms), C)
         /\ \A C : \A a, u \in Nat :
               Batch(ms, a, u, 1) /\ u > 0 /\ Paired(ms, C \cup {a}) => Paired(Prune(ms), C)
<1>1. /\ Len(ms) \in Nat /\ DOMAIN ms = 1..Len(ms)
      /\ \A k \in DOMAIN ms : ms[k] \in Wholesome /\ ms[k].no \in Nat /\ ms[k].use \in Nat
  BY AnyTyped, WholesomeAny
<1>2. /\ \A t \in DOMAIN ms : ms[t].kind = "tool" =>
            \E j \in 1..(t - 1) : /\ ms[j].kind = "asst" /\ ms[j].no = ms[t].no
                                  /\ \A l \in (j + 1)..t : ms[l].kind = "tool"
      /\ \A j, k \in DOMAIN ms :
            ms[j].kind = "asst" /\ ms[k].kind = "asst" /\ ms[j].no = ms[k].no => j = k
      /\ \A k \in DOMAIN ms : ms[k].no < n
  BY DEF WellFormed, Anchored, Distinct
<1>3. CASE ms # <<>> /\ IsOpen(Last(ms))
  <2> DEFINE r == Prune(ms)
             end == Len(ms)
  <2>1. r = SubSeq(ms, 1, Len(ms) - 1)
    BY <1>3 DEF Prune, Front
  <2>2. /\ end \in DOMAIN ms /\ ms[end].kind = "asst" /\ ms[end].use > 0 /\ ms[end] = Last(ms)
        /\ end \in Nat \ {0}
    BY <1>1, <1>3 DEF Last, IsOpen
  <2> HIDE DEF r
  <2>3. /\ r \in Seq(Wholesome) /\ Len(r) = end - 1 /\ DOMAIN r = 1..(end - 1)
        /\ \A k \in 1..(end - 1) : k \in DOMAIN ms /\ r[k] = ms[k]
    BY <1>1, <2>1, <2>2
  <2>4. Anchored(r)
    <3> SUFFICES ASSUME NEW t \in DOMAIN r, r[t].kind = "tool"
                 PROVE  \E j \in 1..(t - 1) : /\ r[j].kind = "asst" /\ r[j].no = r[t].no
                                              /\ \A l \in (j + 1)..t : r[l].kind = "tool"
      BY DEF Anchored
    <3>1. t \in DOMAIN ms /\ r[t] = ms[t] /\ t \in 1..(end - 1)
      BY <2>3
    <3>2. PICK j \in 1..(t - 1) : /\ ms[j].kind = "asst" /\ ms[j].no = ms[t].no
                                  /\ \A l \in (j + 1)..t : ms[l].kind = "tool"
      BY <1>2, <3>1
    <3>3. j \in 1..(end - 1) /\ \A l \in (j + 1)..t : l \in 1..(end - 1)
      BY <2>2, <3>1, <3>2
    <3> QED
      BY <2>3, <3>1, <3>2, <3>3
  <2>5. WellFormed(r, n)
    <3>1. Distinct(r)
      BY <1>2, <2>3 DEF Distinct
    <3>2. \A k \in DOMAIN r : r[k].no < n
      BY <1>2, <2>3
    <3> QED
      BY <2>4, <3>1, <3>2 DEF WellFormed
  <2>6. ASSUME NEW j \in DOMAIN r, NEW i \in 1..r[j].use,
               \E t \in (j + 1)..Len(ms) : ms[t] = Result(ms[j].no, i)
        PROVE  \E t \in (j + 1)..Len(r) : r[t] = Result(r[j].no, i)
    <3>1. PICK t \in (j + 1)..Len(ms) : ms[t] = Result(ms[j].no, i)
      BY <2>6
    <3>2. j \in 1..(end - 1) /\ r[j] = ms[j] /\ ms[j].no \in Nat /\ i \in Nat
      BY <1>1, <2>3
    <3>3. ms[t].kind = "tool"
      BY <3>1, <3>2, Messages
    <3>4. t # end
      BY <2>2, <3>3
    <3>5. t \in 1..(end - 1) /\ t \in (j + 1)..Len(r)
      <4>1. Len(ms) \in Nat /\ Len(r) = Len(ms) - 1 /\ j \in 1..(Len(ms) - 1) /\ t # Len(ms)
        BY <1>1, <2>3, <3>2, <3>4
      <4> QED
        BY <4>1
    <3> QED
      BY <2>3, <3>1, <3>2, <3>5
  <2>7. ASSUME NEW C, Paired(ms, C) PROVE Paired(r, C)
    <3> SUFFICES ASSUME NEW j \in DOMAIN r, IsOpen(r[j]), r[j].no \notin C, NEW i \in 1..r[j].use
                 PROVE  \E t \in (j + 1)..Len(r) : r[t] = Result(r[j].no, i)
      BY DEF Paired
    <3>1. j \in DOMAIN ms /\ r[j] = ms[j]
      BY <2>3
    <3>2. \E t \in (j + 1)..Len(ms) : ms[t] = Result(ms[j].no, i)
      BY <2>7, <3>1 DEF Paired
    <3> QED
      BY <2>6, <3>2
  <2>8. ASSUME NEW C, NEW a \in Nat, NEW u \in Nat, Batch(ms, a, u, 1), u > 0,
               Paired(ms, C \cup {a})
        PROVE  Paired(r, C)
    <3> SUFFICES ASSUME NEW j \in DOMAIN r, IsOpen(r[j]), r[j].no \notin C, NEW i \in 1..r[j].use
                 PROVE  \E t \in (j + 1)..Len(r) : r[t] = Result(r[j].no, i)
      BY DEF Paired
    <3>1. j \in DOMAIN ms /\ r[j] = ms[j] /\ j \in 1..(end - 1)
      BY <2>3
    <3>2. ms[end].no = a
      <4>1. Len(ms) - 1 + 1 = end
        BY <2>2
      <4>2. ms[end] = Asst(a, u)
        BY <2>8, <4>1 DEF Batch
      <4>3. Asst(a, u).no = a
        BY Messages
      <4> QED
        BY <4>2, <4>3
    <3>3. j # end /\ ms[j].kind = "asst"
      BY <2>2, <3>1 DEF IsOpen
    <3>4. ms[j].no \notin C \cup {a}
      BY <1>2, <2>2, <3>1, <3>2, <3>3
    <3>5. \E t \in (j + 1)..Len(ms) : ms[t] = Result(ms[j].no, i)
      BY <2>8, <3>1, <3>4 DEF Paired
    <3> QED
      BY <2>6, <3>5
  <2> QED
    BY <2>3, <2>5, <2>7, <2>8 DEF r
<1>4. CASE ~(ms # <<>> /\ IsOpen(Last(ms)))
  <2>1. Prune(ms) = ms
    BY <1>4 DEF Prune
  <2>2. ASSUME NEW a \in Nat, NEW u \in Nat, Batch(ms, a, u, 1), u > 0 PROVE FALSE
    <3>1. Len(ms) - 1 + 1 = Len(ms) /\ 1 \in 1..Len(ms)
      BY <1>1, <2>2 DEF Batch
    <3>2. ms[Len(ms)] = Asst(a, u) /\ ms # <<>>
      BY <1>1, <2>2, <3>1 DEF Batch
    <3>3. IsOpen(Asst(a, u))
      BY <2>2, Messages DEF IsOpen
    <3> QED
      BY <1>4, <3>2, <3>3 DEF Last
  <2> QED
    BY <2>1, <2>2
<1> QED
  BY <1>3, <1>4

-----------------------------------------------------------------------------
(* What the form of a list says of its pairs.                              *)

LEMMA NoOrphans ==
  ASSUME NEW ms \in Seq(AnyMessage), Anchored(ms)
  PROVE  Orphans(ms) = {}
<1>1. ASSUME NEW m \in ToSet(ms), m.kind = "tool"
      PROVE  \E x \in ToSet(ms) : x.kind = "asst" /\ x.no = m.no
  <2>1. PICK t \in DOMAIN ms : ms[t] = m
    BY DEF ToSet
  <2>2. PICK j \in 1..(t - 1) : ms[j].kind = "asst" /\ ms[j].no = m.no
    BY <1>1, <2>1 DEF Anchored
  <2>3. j \in DOMAIN ms
    BY <2>1, <2>2
  <2> QED
    BY <2>2, <2>3 DEF ToSet
<1> QED
  BY <1>1 DEF Orphans

LEMMA AnsweredBut ==
  ASSUME NEW C, NEW ms \in Seq(AnyMessage), Paired(ms, C)
  PROVE  Unanswered(ms) \subseteq C
<1>1. ASSUME NEW x \in ToSet(ms), IsOpen(x), x.no \notin C, NEW i \in 1..x.use
      PROVE  Result(x.no, i) \in ToSet(ms)
  <2>1. PICK j \in DOMAIN ms : ms[j] = x
    BY DEF ToSet
  <2>2. PICK t \in (j + 1)..Len(ms) : ms[t] = Result(x.no, i)
    BY <1>1, <2>1 DEF Paired
  <2>3. t \in DOMAIN ms
    BY <2>1, <2>2
  <2> QED
    BY <2>2, <2>3 DEF ToSet
<1> QED
  BY <1>1 DEF Unanswered

LEMMA UnansweredAside ==
  ASSUME NEW n, NEW ms \in Seq(AnyMessage), WellFormed(ms, n)
  PROVE  Paired(ms, Unanswered(ms))
<1> SUFFICES ASSUME NEW j \in DOMAIN ms, IsOpen(ms[j]), ms[j].no \notin Unanswered(ms),
                    NEW i \in 1..ms[j].use
             PROVE  \E t \in (j + 1)..Len(ms) : ms[t] = Result(ms[j].no, i)
  BY DEF Paired
<1>1. Result(ms[j].no, i) \in ToSet(ms)
  <2>1. ms[j] \in ToSet(ms)
    BY DEF ToSet
  <2> QED
    BY <2>1 DEF Unanswered
<1>2. PICK t \in DOMAIN ms : ms[t] = Result(ms[j].no, i)
  BY <1>1 DEF ToSet
<1>3. ms[t].kind = "tool" /\ ms[t].no = ms[j].no
  BY <1>2, AnyTyped, Messages
<1>4. PICK k \in 1..(t - 1) : ms[k].kind = "asst" /\ ms[k].no = ms[t].no
  BY <1>3 DEF WellFormed, Anchored
<1>5. k \in DOMAIN ms /\ k \in Int /\ t \in Int /\ k < t
  BY <1>4
<1>6. k = j
  BY <1>3, <1>4, <1>5 DEF WellFormed, Distinct, IsOpen
<1>7. t \in (j + 1)..Len(ms)
  BY <1>5, <1>6
<1> QED
  BY <1>2, <1>7

-----------------------------------------------------------------------------
(* The file.                                                               *)

LEMMA LoadableLines ==
  ASSUME NEW f \in FileSet, Loadable(f)
  PROVE  f.lines \in Seq(Wholesome)
<1>1. f.lines \in Seq(AnyMessage)
  BY DEF FileSet, AnyMessage
<1>2. \A k \in DOMAIN f.lines : f.lines[k] \in AnyMessage /\ f.lines[k] # Broken
  BY <1>1 DEF Loadable, ToSet
<1>3. \A k \in DOMAIN f.lines : f.lines[k] \in Wholesome
  BY <1>2 DEF AnyMessage
<1> DEFINE q == f.lines
<1> HIDE DEF q
<1>4. q \in Seq(AnyMessage) /\ \A k \in DOMAIN q : q[k] \in Wholesome
  BY <1>1, <1>3 DEF q
<1>5. q \in Seq(Wholesome)
  BY <1>4
<1> QED
  BY <1>5 DEF q

LEMMA BrokenStays ==
  ASSUME NEW q \in Seq(AnyMessage), NEW l \in AnyMessage, Broken \notin ToSet(Append(q, l))
  PROVE  Broken \notin ToSet(q) /\ l # Broken
<1>1. /\ \A k \in DOMAIN q : k \in DOMAIN Append(q, l) /\ Append(q, l)[k] = q[k]
      /\ Append(q, l)[Len(q) + 1] = l /\ Len(q) + 1 \in DOMAIN Append(q, l)
  OBVIOUS
<1> QED
  BY <1>1 DEF ToSet

\* What can be loaded after one line more is what could be loaded, and the line.
LEMMA LineOk ==
  ASSUME NEW f \in FileSet, NEW l \in AnyMessage, NEW open \in BOOLEAN
  PROVE  /\ Line(f, l, open) \in FileSet /\ Line(f, l, open).here = f.here
         /\ Loadable(Line(f, l, open)) =>
               /\ Loadable(f) /\ l # Broken
               /\ Line(f, l, open).lines = Append(f.lines, l)
<1> DEFINE q == f.lines
           g == Line(f, l, open)
<1>1. q \in Seq(AnyMessage) /\ Broken \in AnyMessage /\ f.open \in BOOLEAN /\ f.here \in BOOLEAN
  BY DEF FileSet, AnyMessage
<1>2. Front(q) \in Seq(AnyMessage)
  <2> HIDE DEF q
  <2>1. Len(q) \in Nat /\ \A k \in 1..(Len(q) - 1) : q[k] \in AnyMessage
    BY <1>1
  <2> QED
    BY <1>1, <2>1 DEF Front
<1> DEFINE x == IF f.open THEN Append(Front(q), Broken) ELSE Append(q, l)
<1>3. g.lines = x /\ g.here = f.here /\ g.open = open
      /\ g = [here |-> g.here, lines |-> g.lines, open |-> g.open]
  <2>1. f = [here |-> f.here, lines |-> f.lines, open |-> f.open]
    BY DEF FileSet
  <2>2. g = [f EXCEPT !.lines = x, !.open = open]
    BY DEF Line
  <2> HIDE DEF g, x
  <2>3. g = [here |-> f.here, lines |-> x, open |-> open]
    BY <2>1, <2>2
  <2> QED
    BY <2>3
<1> HIDE DEF q, g
<1>4. g.lines \in Seq(AnyMessage)
  BY <1>1, <1>2, <1>3
<1>5. g \in FileSet
  <2>1. g.here \in BOOLEAN /\ g.open \in BOOLEAN
    BY <1>1, <1>3
  <2> QED
    BY <1>3, <1>4, <2>1 DEF FileSet, AnyMessage
<1>6. ASSUME Loadable(g) PROVE Loadable(f) /\ l # Broken /\ g.lines = Append(q, l)
  <2>1. CASE f.open
    <3>1. Broken \in ToSet(Append(Front(q), Broken))
      BY <1>1, <1>2, BrokenStays
    <3> QED
      BY <1>3, <1>6, <2>1, <3>1 DEF Loadable
  <2>2. CASE ~f.open
    <3>1. Broken \notin ToSet(Append(q, l)) /\ f.here
      BY <1>3, <1>6, <2>2 DEF Loadable
    <3> QED
      BY <1>1, <1>3, <2>2, <3>1, BrokenStays DEF Loadable, q
  <2> QED
    BY <2>1, <2>2
<1> QED
  BY <1>3, <1>5, <1>6 DEF g, q

LEMMA WholeOk ==
  ASSUME NEW ms \in Seq(Wholesome)
  PROVE  /\ Whole(ms) \in FileSet /\ Whole(ms).lines = ms
         /\ Absent \in FileSet /\ ~Absent.here
<1>1. ms \in Seq(Wholesome \cup {Broken})
  BY WholesomeAny DEF AnyMessage
<1>2. <<>> \in Seq(Wholesome \cup {Broken})
  OBVIOUS
<1> QED
  BY <1>1, <1>2 DEF Whole, Absent, FileSet

\* What can be loaded after a save is what could be loaded before, or what was
\* saved.
LEMMA SaveOk ==
  ASSUME NEW f \in FileSet, NEW ms \in Seq(Wholesome), NEW o \in Saves(ms, f)
  PROVE  /\ o.file \in FileSet
         /\ Loadable(o.file) => (~o.ok /\ o.file = f) \/ o.file.lines = ms
         /\ o.ok => o.file.here
<1>1. \/ o.file = Whole(ms)
      \/ ~o.ok /\ (o.file = f \/ o.file = Absent)
  BY DEF Saves, Outcome
<1>2. Whole(ms).here
  BY DEF Whole
<1> QED
  BY <1>1, <1>2, WholeOk DEF Loadable

\* So it is with a message that is appended.
LEMMA AppendsOk ==
  ASSUME FileInv, NEW ms \in Seq(Wholesome), NEW m \in Wholesome, NEW o \in Appends(ms, m)
  PROVE  /\ o.file \in FileSet
         /\ host = "shell" => o.ok /\ o.file = file
         /\ host # "shell" /\ (file.here \/ o.ok) => o.file.here
         /\ Loadable(o.file) /\ host # "shell" =>
               \/ ~o.ok /\ Loadable(file) /\ o.file.lines = file.lines
               \/ Loadable(file) /\ o.file.lines = Append(file.lines, m)
               \/ ~file.here /\ o.file.lines = Append(ms, m)
<1>1. file \in FileSet /\ m \in AnyMessage /\ Broken \in AnyMessage
      /\ Append(ms, m) \in Seq(Wholesome)
  BY WholesomeAny DEF FileInv, AnyMessage
<1>2. CASE host = "shell"
  BY <1>1, <1>2 DEF Appends, Outcome
<1>3. CASE host # "shell" /\ ~file.here
  <2> DEFINE q == Append(ms, m)
  <2>1. o \in Saves(q, file) /\ q \in Seq(Wholesome) /\ file \in FileSet
    BY <1>1, <1>3 DEF Appends
  <2> HIDE DEF q
  <2>2. /\ o.file \in FileSet /\ (o.ok => o.file.here)
        /\ Loadable(o.file) => (~o.ok /\ o.file = file) \/ o.file.lines = q
    BY <2>1, SaveOk
  <2> QED
    BY <1>3, <2>2 DEF Loadable, q
<1>4. CASE host # "shell" /\ file.here
  <2>1. \/ o.file = Line(file, m, FALSE)
        \/ ~o.ok /\ (o.file = file \/ o.file = Line(file, Broken, TRUE) \/ o.file = Line(file, m, TRUE))
    <3> DEFINE gs == {file, Line(file, Broken, TRUE), Line(file, m, TRUE)}
    <3>1. o \in {Outcome(Line(file, m, FALSE), TRUE)} \cup {Outcome(g, FALSE) : g \in gs}
      BY <1>4 DEF Appends
    <3>2. CASE o = Outcome(Line(file, m, FALSE), TRUE)
      BY <3>2 DEF Outcome
    <3>3. CASE \E g \in gs : o = Outcome(g, FALSE)
      <4>1. PICK g \in gs : o = Outcome(g, FALSE)
        BY <3>3
      <4> QED
        BY <4>1 DEF Outcome
    <3> HIDE DEF gs
    <3> QED
      BY <3>1, <3>2, <3>3
  <2>1a. ASSUME NEW l \in AnyMessage, NEW open \in BOOLEAN, o.file = Line(file, l, open)
        PROVE  /\ o.file \in FileSet /\ o.file.here
               /\ Loadable(o.file) =>
                     Loadable(file) /\ l # Broken /\ o.file.lines = Append(file.lines, l)
    <3>1. file \in FileSet
      BY <1>1
    <3>2. /\ Line(file, l, open) \in FileSet /\ Line(file, l, open).here = file.here
          /\ Loadable(Line(file, l, open)) =>
                Loadable(file) /\ l # Broken /\ Line(file, l, open).lines = Append(file.lines, l)
      BY <3>1, LineOk
    <3> QED
      BY <1>4, <2>1a, <3>2 DEF Loadable
  <2>2. CASE o.file = Line(file, m, FALSE)
    BY <1>1, <1>4, <2>2, <2>1a
  <2>3. CASE o.file = Line(file, Broken, TRUE)
    BY <1>1, <1>4, <2>3, <2>1a
  <2>4. CASE o.file = Line(file, m, TRUE)
    BY <1>1, <1>4, <2>4, <2>1a
  <2>5. CASE ~o.ok /\ o.file = file
    BY <1>1, <1>4, <2>5
  <2> QED
    BY <2>1, <2>2, <2>3, <2>4, <2>5
<1> QED
  BY <1>2, <1>3, <1>4

\* A message is pushed, or cannot be written.
LEMMA PushFile ==
  ASSUME FileInv, NEW ms \in Seq(Wholesome), NEW m \in Wholesome, host' = host,
         PushOk(ms, m) \/ PushFails(ms, m)
  PROVE  /\ file' \in FileSet /\ (host' = "shell" => ~file'.here)
         /\ PushFails(ms, m) => host # "shell"
         /\ host # "shell" /\ (file.here \/ PushOk(ms, m)) => file'.here
         /\ Loadable(file') =>
               \/ Loadable(file) /\ file'.lines = file.lines /\ ~PushOk(ms, m)
               \/ Loadable(file) /\ file'.lines = Append(file.lines, m)
               \/ ~file.here /\ file'.lines = Append(ms, m)
<1>1. file \in FileSet /\ (host = "shell" => ~file.here)
  BY DEF FileInv
<1>2. ASSUME PushOk(ms, m)
      PROVE  /\ file' \in FileSet /\ (host' = "shell" => ~file'.here)
             /\ host # "shell" => file'.here
             /\ Loadable(file') => \/ Loadable(file) /\ file'.lines = Append(file.lines, m)
                                   \/ ~file.here /\ file'.lines = Append(ms, m)
  <2>1. PICK o \in Appends(ms, m) : o.ok /\ file' = o.file
    BY <1>2 DEF PushOk
  <2> QED
    BY <1>1, <2>1, AppendsOk DEF Loadable
<1>3. ASSUME PushFails(ms, m)
      PROVE  /\ file' \in FileSet /\ host # "shell" /\ (file.here => file'.here)
             /\ Loadable(file') => \/ Loadable(file) /\ file'.lines = file.lines
                                   \/ Loadable(file) /\ file'.lines = Append(file.lines, m)
                                   \/ ~file.here /\ file'.lines = Append(ms, m)
  <2>1. PICK o \in Appends(ms, m) : ~o.ok /\ file' = o.file
    BY <1>3 DEF PushFails
  <2> QED
    BY <1>1, <2>1, AppendsOk DEF Loadable
<1> QED
  BY <1>2, <1>3

-----------------------------------------------------------------------------
(* What the steps of a turn have in common.                                *)

Numbered == next' \in {next, next + 1}

\* A message with a new number, or none, at the end of the session.
LEMMA PushNew ==
  ASSUME FileInv, next \in Nat \ {0}, host' = host, next' = next + 1,
         NEW ms \in Seq(Wholesome), WellFormed(ms, next),
         NEW m \in Wholesome, m.kind # "tool", m.no = next,
         PushOk(ms, m) \/ PushFails(ms, m)
  PROVE  /\ FileInv' /\ Append(ms, m) \in Seq(Wholesome)
         /\ WellFormed(ms, next') /\ WellFormed(Append(ms, m), next')
         /\ PushOk(ms, m) => mem' = Append(ms, m)
         /\ PushFails(ms, m) => host # "shell"
<1>1. file \in FileSet /\ (Loadable(file) => WellFormed(file.lines, next)) /\ next \in Nat
  BY DEF FileInv
<1>2. ms \in Seq(AnyMessage) /\ m \in AnyMessage /\ Append(ms, m) \in Seq(Wholesome)
  BY WholesomeAny
<1>3. WellFormed(ms, next + 1) /\ WellFormed(Append(ms, m), next + 1)
  BY <1>1, <1>2, NewMessage, LaterNumber
<1>4. ASSUME Loadable(file)
      PROVE  WellFormed(file.lines, next + 1) /\ WellFormed(Append(file.lines, m), next + 1)
  <2>1. file.lines \in Seq(AnyMessage)
    BY <1>1, <1>4, LoadableLines, WholesomeAny
  <2> QED
    BY <1>1, <1>2, <1>4, <2>1, NewMessage, LaterNumber
<1>5. /\ file' \in FileSet /\ (host' = "shell" => ~file'.here)
      /\ PushFails(ms, m) => host # "shell"
      /\ Loadable(file') =>
            \/ Loadable(file) /\ file'.lines = file.lines
            \/ Loadable(file) /\ file'.lines = Append(file.lines, m)
            \/ file'.lines = Append(ms, m)
  BY PushFile
<1>6. Loadable(file)' => WellFormed(file.lines, next)'
  <2>1. Loadable(file') => WellFormed(file'.lines, next + 1)
    BY <1>3, <1>4, <1>5
  <2> QED
    BY <2>1
<1> QED
  BY <1>2, <1>3, <1>5, <1>6 DEF FileInv, PushOk

\* The result of the next tool of the batch, or none.
LEMMA PushResult ==
  ASSUME SessionInv, Busy, host' = host, next' = next,
         PushOk(mem, Result(turn.asst, turn.at)) \/ PushFails(mem, Result(turn.asst, turn.at))
  PROVE  /\ FileInv'
         /\ PushFails(mem, Result(turn.asst, turn.at)) => host # "shell"
         /\ PushOk(mem, Result(turn.asst, turn.at)) =>
               /\ mem' \in Seq(Wholesome) /\ WellFormed(mem', next)
               /\ Paired(mem', cut \cup {turn.asst})
               /\ Batch(mem', turn.asst, turn.uses, turn.at + 1)
               /\ Loadable(file') => Batch(file'.lines, turn.asst, turn.uses, turn.at + 1)
<1> DEFINE m == Result(turn.asst, turn.at)
<1>1. /\ turn.asst \in Nat /\ turn.uses \in Nat /\ turn.at \in Nat /\ next \in Nat /\ FileInv
      /\ mem \in Seq(Wholesome) /\ WellFormed(mem, next) /\ Paired(mem, cut \cup {turn.asst})
      /\ Batch(mem, turn.asst, turn.uses, turn.at)
  BY DEF SessionInv, ControlInv, TurnSet, MemInv, BatchInv
<1>2. /\ file \in FileSet /\ (Loadable(file) => WellFormed(file.lines, next))
      /\ Loadable(file) => Batch(file.lines, turn.asst, turn.uses, turn.at)
  BY DEF SessionInv, FileInv, BatchInv
<1>3. m \in Wholesome /\ ~IsOpen(m) /\ m \in AnyMessage /\ mem \in Seq(AnyMessage)
      /\ Append(mem, m) \in Seq(Wholesome)
  BY <1>1, Messages, WholesomeAny
<1>4. /\ WellFormed(Append(mem, m), next) /\ Paired(Append(mem, m), cut \cup {turn.asst})
      /\ Batch(Append(mem, m), turn.asst, turn.uses, turn.at + 1)
  BY <1>1, <1>3, NextResult, PairedAppend
<1>5. ASSUME Loadable(file)
      PROVE  /\ WellFormed(Append(file.lines, m), next)
             /\ Batch(Append(file.lines, m), turn.asst, turn.uses, turn.at + 1)
  <2>1. file.lines \in Seq(AnyMessage)
    BY <1>2, <1>5, LoadableLines, WholesomeAny
  <2> QED
    BY <1>1, <1>2, <1>5, <2>1, NextResult
<1>6. /\ file' \in FileSet /\ (host' = "shell" => ~file'.here)
      /\ PushFails(mem, m) => host # "shell"
      /\ Loadable(file') =>
            \/ Loadable(file) /\ file'.lines = file.lines /\ ~PushOk(mem, m)
            \/ Loadable(file) /\ file'.lines = Append(file.lines, m)
            \/ file'.lines = Append(mem, m)
  <2> HIDE DEF m
  <2> QED
    BY <1>1, <1>3, PushFile DEF m
<1>7. Loadable(file)' => WellFormed(file.lines, next)'
  <2>1. Loadable(file') => WellFormed(file'.lines, next)
    BY <1>2, <1>4, <1>5, <1>6
  <2> QED
    BY <2>1
<1>8. FileInv'
  BY <1>6, <1>7 DEF FileInv
<1>9. ASSUME PushOk(mem, m) PROVE mem' = Append(mem, m)
  BY <1>9 DEF PushOk
<1> QED
  BY <1>3, <1>4, <1>5, <1>6, <1>8, <1>9

LEMMA Empty ==
  /\ <<>> \in Seq(Wholesome)
  /\ \A n : WellFormed(<<>>, n)
  /\ \A C : Paired(<<>>, C)
BY DEF WellFormed, Anchored, Distinct, Paired

\* The session the host holds is as good as it was.
LEMMA HeldStays ==
  ASSUME SessionInv, Numbered, held' = held, cut \subseteq cut'
  PROVE  HeldInv'
<1>1. /\ held \in Seq(Wholesome) /\ WellFormed(held, next) /\ Paired(held, cut) /\ next \in Nat
      /\ held \in Seq(AnyMessage)
  BY WholesomeAny DEF SessionInv, HeldInv, ControlInv
<1>2. WellFormed(held, next') /\ Paired(held, cut')
  BY <1>1, LaterNumber, PairedMore DEF Numbered
<1> QED
  BY <1>1, <1>2 DEF HeldInv

LEMMA NoTurnOk ==
  /\ NoTurn \in TurnSet /\ NoTurn.iter = 0 /\ NoTurn.hard = 0
  /\ NewTurn \in TurnSet /\ NewTurn.iter = 0 /\ NewTurn.hard = BaseMax
<1>1. BaseMax \in Nat
  BY LimitsAssumption DEF LimitsAssumption
<1> QED
  BY <1>1 DEF NoTurn, NewTurn, TurnSet

\* A turn that fails leaves the session the host held, or in the shell that of
\* the turn, or the process is gone.
LEMMA Failed ==
  ASSUME SessionInv, FileInv', Numbered, host' = host, cut \subseteq cut',
         {abort', upgrade', inbox'} \subseteq BOOLEAN, NEW ms, Fail(ms),
         host = "shell" =>
            ms \in Seq(Wholesome) /\ WellFormed(ms, next') /\ Paired(ms, cut')
  PROVE  SessionInv'
<1>1. /\ pc' \in {"idle", "stopped"} /\ turn' = NoTurn /\ mem' = held'
      /\ \/ held' = <<>> \/ held' = held \/ (host = "shell" /\ held' = ms)
  BY DEF Fail, Dies, Goto
<1>2. HeldInv'
  <2>1. CASE held' = <<>>
    <3>1. held' \in Seq(Wholesome) /\ WellFormed(held', next') /\ Paired(held', cut')
      BY <2>1, Empty
    <3> QED
      BY <3>1 DEF HeldInv
  <2>2. CASE held' = held
    BY <2>2, HeldStays
  <2>3. CASE host = "shell" /\ held' = ms
    <3>1. held' \in Seq(Wholesome) /\ WellFormed(held', next') /\ Paired(held', cut')
      BY <2>3
    <3> QED
      BY <3>1 DEF HeldInv
  <2> QED
    BY <1>1, <2>1, <2>2, <2>3
<1>3. ~Busy'
  BY <1>1 DEF Busy
<1>4. MemInv'
  <2>1. held' \in Seq(Wholesome) /\ WellFormed(held', next') /\ Paired(held', cut')
    BY <1>2 DEF HeldInv
  <2>2. Paired(mem', cut' \cup {})
    BY <1>1, <2>1, PairedMore
  <2>3. mem' \in Seq(Wholesome) /\ WellFormed(mem', next')
    BY <1>1, <2>1
  <2> QED
    BY <1>3, <2>2, <2>3 DEF MemInv
<1>5. ControlInv'
  <2>1. next' \in Nat \ {0} /\ host' \in Hosts
    BY DEF SessionInv, ControlInv, Numbered
  <2>2. turn' \in TurnSet /\ turn'.iter <= turn'.hard /\ turn'.hard = 0
    BY <1>1, NoTurnOk
  <2> QED
    BY <1>1, <2>1, <2>2 DEF ControlInv
<1>6. BatchInv'
  BY <1>3 DEF BatchInv
<1> QED
  BY <1>2, <1>4, <1>5, <1>6 DEF SessionInv

\* A step inside a turn, away from its tools.
LEMMA WentOn ==
  ASSUME SessionInv, FileInv', ControlInv', Numbered, held' = held, cut \subseteq cut',
         pc' \notin {"tools", "closing"},
         mem' \in Seq(Wholesome), WellFormed(mem', next'), Paired(mem', cut')
  PROVE  SessionInv'
<1>1. ~Busy'
  BY DEF Busy
<1>2. Paired(mem', cut' \cup {})
  BY PairedMore
<1>3. MemInv'
  BY <1>1, <1>2 DEF MemInv
<1>4. BatchInv'
  BY <1>1 DEF BatchInv
<1>5. HeldInv'
  BY HeldStays
<1> QED
  BY <1>3, <1>4, <1>5 DEF SessionInv

\* Nothing is said and nothing is written.
LEMMA Silent ==
  ASSUME SessionInv, ControlInv', UNCHANGED <<host, session, next, cut>>,
         pc \notin {"tools", "closing"}, pc' \notin {"tools", "closing"}
  PROVE  SessionInv'
<1>1. UNCHANGED <<host, held, mem, file, next, cut>>
  BY DEF session
<1>2. /\ FileInv /\ mem \in Seq(Wholesome) /\ WellFormed(mem, next)
      /\ Paired(mem, cut \cup {})
  BY DEF SessionInv, MemInv, Busy
<1>3. FileInv' /\ Paired(mem, cut)
  <2>1. FileInv'
    BY <1>1, <1>2 DEF FileInv, Loadable
  <2>2. cut \cup {} = cut
    OBVIOUS
  <2> QED
    BY <1>2, <2>1, <2>2
<1> QED
  BY <1>1, <1>2, <1>3, WentOn DEF Numbered

Resting == {"idle", "save", "stopped"}
Working == {"top", "gate", "note", "send", "closing", "final", "tools", "review"}

LEMMA RestControl ==
  ASSUME SessionInv, Numbered, host' = host, pc' \in Resting, pc' = "save" => host # "shell",
         turn' \in {turn, NoTurn}, {abort', upgrade', inbox'} \subseteq BOOLEAN
  PROVE  ControlInv'
<1>1. /\ next \in Nat \ {0} /\ host \in Hosts /\ turn \in TurnSet /\ turn.iter <= turn.hard
      /\ turn.hard \in {BaseMax, Max({BaseMax, ComplexMax})} \cup {0}
  BY DEF SessionInv, ControlInv
<1>2. /\ turn' \in TurnSet /\ turn'.iter <= turn'.hard
      /\ turn'.hard \in {BaseMax, Max({BaseMax, ComplexMax})} \cup {0}
  BY <1>1, NoTurnOk
<1>3. next' \in Nat \ {0}
  BY <1>1 DEF Numbered
<1> QED
  BY <1>1, <1>2, <1>3 DEF ControlInv, Resting

LEMMA WorkControl ==
  ASSUME SessionInv, Numbered, host' = host, pc' \in Working,
         turn' \in TurnSet, turn'.iter <= turn'.hard,
         turn'.hard \in {BaseMax, Max({BaseMax, ComplexMax})},
         {abort', upgrade', inbox'} \subseteq BOOLEAN
  PROVE  ControlInv'
<1>1. next \in Nat \ {0} /\ host \in Hosts
  BY DEF SessionInv, ControlInv
<1>2. next' \in Nat \ {0} /\ host' \in Hosts
  BY <1>1 DEF Numbered
<1> QED
  BY <1>2 DEF ControlInv, Working

\* What a step away from the tools starts from.
LEMMA AtWork ==
  ASSUME SessionInv, pc \in Working
  PROVE  /\ turn \in TurnSet /\ turn.iter <= turn.hard /\ turn.iter \in Nat /\ turn.hard \in Nat
         /\ turn.hard \in {BaseMax, Max({BaseMax, ComplexMax})}
         /\ {abort, upgrade, inbox} \subseteq BOOLEAN /\ next \in Nat \ {0} /\ FileInv
         /\ mem \in Seq(Wholesome) /\ WellFormed(mem, next)
         /\ pc \notin {"tools", "closing"} => Paired(mem, cut)
<1>1. /\ turn \in TurnSet /\ turn.iter <= turn.hard /\ next \in Nat \ {0} /\ FileInv
      /\ turn.hard \in {BaseMax, Max({BaseMax, ComplexMax})}
      /\ {abort, upgrade, inbox} \subseteq BOOLEAN
      /\ mem \in Seq(Wholesome) /\ WellFormed(mem, next)
  BY DEF SessionInv, ControlInv, MemInv, Working
<1>2. turn.iter \in Nat /\ turn.hard \in Nat
  BY <1>1 DEF TurnSet
<1>3. ASSUME pc \notin {"tools", "closing"} PROVE Paired(mem, cut)
  <2>1. Paired(mem, cut \cup {})
    BY <1>3 DEF SessionInv, MemInv, Busy
  <2>2. cut \cup {} = cut
    OBVIOUS
  <2> QED
    BY <2>1, <2>2
<1> QED
  BY <1>1, <1>2, <1>3

\* Between two turns.
LEMMA Rested ==
  ASSUME SessionInv, FileInv', ControlInv', pc' \in Resting, mem' = held',
         held' \in Seq(Wholesome), WellFormed(held', next'), Paired(held', cut')
  PROVE  SessionInv'
<1>1. ~Busy'
  BY DEF Busy, Resting
<1>2. Paired(mem', cut' \cup {})
  BY PairedMore
<1>3. MemInv' /\ BatchInv' /\ HeldInv'
  BY <1>1, <1>2 DEF MemInv, BatchInv, HeldInv
<1> QED
  BY <1>3 DEF SessionInv

LEMMA SameFile ==
  ASSUME SessionInv, file' = file, host' = host, Numbered
  PROVE  FileInv'
<1>1. /\ file \in FileSet /\ (host = "shell" => ~file.here) /\ next \in Nat
      /\ Loadable(file) => WellFormed(file.lines, next)
  BY DEF SessionInv, FileInv, ControlInv
<1>2. ASSUME Loadable(file) PROVE WellFormed(file.lines, next')
  <2>1. file.lines \in Seq(AnyMessage)
    BY <1>1, <1>2, LoadableLines, WholesomeAny
  <2> QED
    BY <1>1, <1>2, <2>1, LaterNumber DEF Numbered
<1>3. Loadable(file') => WellFormed(file'.lines, next')
  BY <1>2
<1> QED
  BY <1>1, <1>3 DEF FileInv

LEMMA SavedFile ==
  ASSUME SessionInv, host # "shell", NEW o \in Saves(held, file), file' = o.file,
         UNCHANGED <<host, next>>
  PROVE  FileInv'
<1>1. /\ file \in FileSet /\ held \in Seq(Wholesome) /\ WellFormed(held, next)
      /\ Loadable(file) => WellFormed(file.lines, next)
  BY DEF SessionInv, FileInv, HeldInv
<1>2. /\ o.file \in FileSet
      /\ Loadable(o.file) => (~o.ok /\ o.file = file) \/ o.file.lines = held
  BY <1>1, SaveOk
<1>3. Loadable(file') => WellFormed(file'.lines, next')
  BY <1>1, <1>2 DEF Loadable
<1> QED
  BY <1>2, <1>3 DEF FileInv

\* A turn that fails away from the tools.
LEMMA FailedAtWork ==
  ASSUME SessionInv, pc \in Working \ {"tools", "closing"}, Fail(mem),
         UNCHANGED <<host, file, next, cut>>, {abort', upgrade', inbox'} \subseteq BOOLEAN
  PROVE  SessionInv'
<1>1. mem \in Seq(Wholesome) /\ WellFormed(mem, next) /\ Paired(mem, cut)
  BY AtWork
<1>2. FileInv' /\ Numbered
  BY SameFile DEF Numbered
<1> QED
  BY <1>1, <1>2, Failed

\* The user or the runtime says something within a turn.
LEMMA Said ==
  ASSUME SessionInv, pc \in Working \ {"tools", "closing"}, pc' \notin {"tools", "closing"},
         ControlInv', PushTried(mem, User(next)), next' = next + 1, UNCHANGED <<host, held, cut>>
  PROVE  SessionInv'
<1> DEFINE m == User(next)
<1>1. mem \in Seq(Wholesome) /\ WellFormed(mem, next) /\ Paired(mem, cut) /\ FileInv
      /\ next \in Nat \ {0}
  BY AtWork
<1>2. m \in Wholesome /\ m.kind # "tool" /\ m.no = next /\ ~IsOpen(m)
  BY <1>1, Messages
<1> HIDE DEF m
<1>3. PushOk(mem, m) \/ (PushFails(mem, m) /\ mem' = mem)
  BY DEF PushTried, m
<1>4. /\ FileInv' /\ Append(mem, m) \in Seq(Wholesome)
      /\ WellFormed(mem, next') /\ WellFormed(Append(mem, m), next')
      /\ PushOk(mem, m) => mem' = Append(mem, m)
  BY <1>1, <1>2, <1>3, PushNew
<1>5. Paired(Append(mem, m), cut)
  BY <1>1, <1>2, PairedAppend, WholesomeAny
<1>6. mem' \in Seq(Wholesome) /\ WellFormed(mem', next') /\ Paired(mem', cut')
  BY <1>1, <1>3, <1>4, <1>5
<1> QED
  BY <1>4, <1>6, WentOn DEF Numbered

-----------------------------------------------------------------------------
(* The steps.                                                              *)

LEMMA Initially == Init => SessionInv
<1> SUFFICES ASSUME Init PROVE SessionInv
  OBVIOUS
<1>1. /\ held = <<>> /\ mem = <<>> /\ next = 1 /\ pc = "idle" /\ turn = NoTurn /\ cut = {}
      /\ {abort, upgrade, inbox} \subseteq BOOLEAN /\ host \in Hosts
      /\ file = (IF host = "shell" THEN Absent ELSE Whole(<<>>))
  BY DEF Init
<1>2. HeldInv /\ MemInv /\ BatchInv
  <2>1. HeldInv
    BY <1>1, Empty DEF HeldInv
  <2>2. MemInv
    BY <1>1, Empty DEF MemInv
  <2> QED
    BY <1>1, <2>1, <2>2 DEF BatchInv, Busy
<1>3. ControlInv
  BY <1>1, NoTurnOk DEF ControlInv
<1>4. FileInv
  <2>1. /\ Whole(<<>>) \in FileSet /\ Whole(<<>>).lines = <<>>
        /\ Absent \in FileSet /\ ~Absent.here
    BY Empty, WholeOk
  <2> QED
    BY <1>1, <2>1, Empty DEF FileInv, Loadable
<1> QED
  BY <1>2, <1>3, <1>4 DEF SessionInv

LEMMA TurnBeginsOk == ASSUME SessionInv, TurnBegins PROVE SessionInv'
<1> DEFINE m == User(next)
<1>1. /\ pc = "idle" /\ abort' = FALSE /\ inbox' = FALSE /\ next' = next + 1
      /\ UNCHANGED <<host, upgrade, cut>>
      /\ \/ /\ PushOk(held, m) /\ turn' = NewTurn /\ pc' = "top" /\ held' = held
         \/ PushFails(held, m) /\ Fail(held)
  BY DEF TurnBegins, Goto
<1>2. /\ held \in Seq(Wholesome) /\ WellFormed(held, next) /\ Paired(held, cut) /\ FileInv
      /\ next \in Nat \ {0} /\ upgrade \in BOOLEAN
  BY DEF SessionInv, HeldInv, ControlInv
<1>3. m \in Wholesome /\ m.kind # "tool" /\ m.no = next /\ ~IsOpen(m)
  BY <1>2, Messages
<1> HIDE DEF m
<1>4. /\ FileInv' /\ Append(held, m) \in Seq(Wholesome)
      /\ WellFormed(held, next') /\ WellFormed(Append(held, m), next')
      /\ PushOk(held, m) => mem' = Append(held, m)
  BY <1>1, <1>2, <1>3, PushNew
<1>5. Numbered /\ {abort', upgrade', inbox'} \subseteq BOOLEAN /\ cut \subseteq cut'
  BY <1>1, <1>2 DEF Numbered
<1>6. CASE PushOk(held, m) /\ turn' = NewTurn /\ pc' = "top" /\ held' = held
  <2>1. Paired(Append(held, m), cut)
    BY <1>2, <1>3, PairedAppend, WholesomeAny
  <2>2. turn' \in TurnSet /\ turn'.iter <= turn'.hard
        /\ turn'.hard \in {BaseMax, Max({BaseMax, ComplexMax})}
    <3>1. BaseMax \in Nat
      BY LimitsAssumption DEF LimitsAssumption
    <3> QED
      BY <1>6, <3>1, NoTurnOk
  <2>3. ControlInv'
    BY <1>1, <1>5, <1>6, <2>2, WorkControl DEF Working
  <2> QED
    BY <1>1, <1>4, <1>5, <1>6, <2>1, <2>3, WentOn
<1>7. CASE Fail(held)
  BY <1>1, <1>2, <1>4, <1>5, <1>7, Failed
<1> QED
  BY <1>1, <1>6, <1>7

LEMMA IterateOk == ASSUME SessionInv, Iterate PROVE SessionInv'
<1>1. /\ pc = "top" /\ turn.iter < turn.hard /\ turn' = [turn EXCEPT !.iter = @ + 1]
      /\ pc' = "gate" /\ inbox' = FALSE /\ UNCHANGED <<host, held, left, abort, upgrade, cut>>
      /\ \/ PushTried(mem, User(next)) /\ next' = next + 1
         \/ UNCHANGED <<mem, file, mishaps, next>>
  BY DEF Iterate, Goto
<1>2. /\ turn \in TurnSet /\ turn.iter \in Nat /\ turn.hard \in Nat
      /\ turn.hard \in {BaseMax, Max({BaseMax, ComplexMax})}
      /\ {abort, upgrade, inbox} \subseteq BOOLEAN
      /\ mem \in Seq(Wholesome) /\ WellFormed(mem, next) /\ Paired(mem, cut)
  BY <1>1, AtWork DEF Working
<1>3. turn' \in TurnSet /\ turn'.iter <= turn'.hard /\ turn'.hard = turn.hard
  <2>1. turn'.iter = turn.iter + 1 /\ turn'.hard = turn.hard
    BY <1>1, <1>2 DEF TurnSet
  <2>2. turn' \in TurnSet
    BY <1>1, <1>2 DEF TurnSet
  <2> QED
    BY <1>1, <1>2, <2>1, <2>2
<1>4. Numbered
  BY <1>1 DEF Numbered
<1>5. ControlInv'
  BY <1>1, <1>2, <1>3, <1>4, WorkControl DEF Working
<1>6. CASE PushTried(mem, User(next)) /\ next' = next + 1
  BY <1>1, <1>5, <1>6, Said DEF Working
<1>7. CASE UNCHANGED <<mem, file, mishaps, next>>
  <2>1. FileInv'
    BY <1>1, <1>4, <1>7, SameFile
  <2> QED
    BY <1>1, <1>2, <1>4, <1>5, <1>7, <2>1, WentOn
<1> QED
  BY <1>1, <1>6, <1>7

LEMMA StoppedOk == ASSUME SessionInv, GiveUp \/ Interrupted PROVE SessionInv'
<1>1. /\ pc \in {"top", "gate"} /\ Fail(mem) /\ UNCHANGED <<host, file, inputs, next, cut>>
  BY DEF GiveUp, Interrupted
<1>2. {abort, upgrade, inbox} \subseteq BOOLEAN
  BY <1>1, AtWork DEF Working
<1>3. {abort', upgrade', inbox'} \subseteq BOOLEAN
  BY <1>1, <1>2 DEF inputs
<1> QED
  BY <1>1, <1>3, FailedAtWork DEF Working

LEMMA GateOk == ASSUME SessionInv, UpgradeNotice \/ PassGate \/ Send PROVE SessionInv'
<1>1. /\ pc \in {"gate", "note"} /\ pc' \in {"note", "review", "send"}
      /\ UNCHANGED <<host, held, inputs, cut>>
      /\ turn' = turn \/ turn' = [turn EXCEPT !.noticed = TRUE]
      /\ \/ PushTried(mem, User(next)) /\ next' = next + 1
         \/ UNCHANGED <<mem, file, next>>
  BY DEF UpgradeNotice, PassGate, Send, Goto, session
<1>2. /\ turn \in TurnSet /\ turn.iter <= turn.hard
      /\ turn.hard \in {BaseMax, Max({BaseMax, ComplexMax})}
      /\ {abort, upgrade, inbox} \subseteq BOOLEAN
      /\ mem \in Seq(Wholesome) /\ WellFormed(mem, next) /\ Paired(mem, cut)
  BY <1>1, AtWork DEF Working
<1>3. turn' \in TurnSet /\ turn'.iter = turn.iter /\ turn'.hard = turn.hard
  BY <1>1, <1>2 DEF TurnSet
<1>4. Numbered
  BY <1>1 DEF Numbered
<1>5. ControlInv'
  BY <1>1, <1>2, <1>3, <1>4, WorkControl DEF Working, inputs
<1>6. CASE PushTried(mem, User(next)) /\ next' = next + 1
  BY <1>1, <1>5, <1>6, Said DEF Working
<1>7. CASE UNCHANGED <<mem, file, next>>
  <2>1. FileInv'
    BY <1>1, <1>4, <1>7, SameFile
  <2> QED
    BY <1>1, <1>2, <1>4, <1>5, <1>7, <2>1, WentOn
<1> QED
  BY <1>1, <1>6, <1>7

LEMMA ApiFailsOk == ASSUME SessionInv, ApiFails PROVE SessionInv'
<1>1. /\ pc = "send" /\ UNCHANGED <<host, file, inputs, next, cut>>
      /\ \/ pc' = "top" /\ UNCHANGED <<held, mem, turn>>
         \/ Fail(mem)
  BY DEF ApiFails, Goto
<1>2. /\ turn \in TurnSet /\ turn.iter <= turn.hard
      /\ turn.hard \in {BaseMax, Max({BaseMax, ComplexMax})}
      /\ {abort', upgrade', inbox'} \subseteq BOOLEAN
  BY <1>1, AtWork DEF Working, inputs
<1>3. CASE Fail(mem)
  BY <1>1, <1>2, <1>3, FailedAtWork DEF Working
<1>4. CASE pc' = "top" /\ UNCHANGED <<held, mem, turn>>
  <2>1. ControlInv'
    BY <1>1, <1>2, <1>4, WorkControl DEF Working, Numbered
  <2> QED
    BY <1>1, <1>4, <2>1, Silent DEF session
<1> QED
  BY <1>1, <1>3, <1>4

LEMMA PromptTooLongOk == ASSUME SessionInv, PromptTooLong PROVE SessionInv'
<1>1. /\ pc = "send" /\ pc' = "top" /\ UNCHANGED <<host, held, file, inputs, next, cut>>
      /\ \E v \in {"micro", "full"} : turn' = [turn EXCEPT !.reactive = v]
      /\ mem' = mem \/ (Removed(mem) > 0 /\ mem' = Compact(mem))
  BY DEF PromptTooLong, Goto
<1>2. /\ turn \in TurnSet /\ turn.iter <= turn.hard /\ next \in Nat \ {0}
      /\ turn.hard \in {BaseMax, Max({BaseMax, ComplexMax})}
      /\ {abort', upgrade', inbox'} \subseteq BOOLEAN
      /\ mem \in Seq(Wholesome) /\ WellFormed(mem, next) /\ Paired(mem, cut)
  BY <1>1, AtWork DEF Working, inputs
<1>3. turn' \in TurnSet /\ turn'.iter = turn.iter /\ turn'.hard = turn.hard
  BY <1>1, <1>2 DEF TurnSet
<1>4. Numbered
  BY <1>1 DEF Numbered
<1>5. ControlInv' /\ FileInv'
  BY <1>1, <1>2, <1>3, <1>4, WorkControl, SameFile DEF Working
<1>6. mem' \in Seq(Wholesome) /\ WellFormed(mem', next) /\ Paired(mem', cut)
  BY <1>1, <1>2, CompactOk, WholesomeAny
<1> QED
  BY <1>1, <1>4, <1>5, <1>6, WentOn

\* A step that leaves the turn at its tools.
LEMMA AtTools ==
  ASSUME SessionInv, ControlInv', FileInv', Numbered, pc' \in {"tools", "closing"},
         held' = held, cut \subseteq cut',
         mem' \in Seq(Wholesome), WellFormed(mem', next'), Paired(mem', cut' \cup {turn'.asst}),
         Batch(mem', turn'.asst, turn'.uses, turn'.at),
         Loadable(file') => Batch(file'.lines, turn'.asst, turn'.uses, turn'.at),
         turn'.at <= turn'.uses + (IF pc' = "tools" THEN 0 ELSE 1)
  PROVE  SessionInv'
<1>1. Busy'
  BY DEF Busy
<1>2. MemInv'
  BY <1>1 DEF MemInv
<1>3. \A ms \in {mem'} \cup (IF Loadable(file') THEN {file'.lines} ELSE {}) :
         Batch(ms, turn'.asst, turn'.uses, turn'.at)
  OBVIOUS
<1>4. BatchInv'
  BY <1>3 DEF BatchInv
<1>5. HeldInv'
  BY HeldStays
<1> QED
  BY <1>2, <1>4, <1>5 DEF SessionInv

LEMMA ReplyOk == ASSUME SessionInv, NEW uses \in ToolCounts, Reply(uses) PROVE SessionInv'
<1> DEFINE m == Asst(next, uses)
           t == [turn EXCEPT !.asst = next, !.uses = uses, !.at = 1]
<1>1. /\ pc = "send" /\ next' = next + 1 /\ UNCHANGED <<host, inputs, cut>>
      /\ \/ /\ PushOk(mem, m) /\ turn' = t /\ held' = held
            /\ pc' = IF abort THEN "closing" ELSE IF uses = 0 THEN "final" ELSE "tools"
         \/ PushFails(mem, m) /\ Fail(mem)
  BY DEF Reply, Goto
<1>2. /\ turn \in TurnSet /\ turn.iter <= turn.hard /\ next \in Nat \ {0} /\ FileInv
      /\ turn.hard \in {BaseMax, Max({BaseMax, ComplexMax})}
      /\ {abort', upgrade', inbox'} \subseteq BOOLEAN
      /\ mem \in Seq(Wholesome) /\ WellFormed(mem, next) /\ Paired(mem, cut)
  BY <1>1, AtWork DEF Working, inputs
<1>3. uses \in Nat /\ next \in Nat
  BY <1>2, BoundsAssumption DEF BoundsAssumption
<1>4. m \in Wholesome /\ m.kind # "tool" /\ m.no = next /\ (uses = 0 => ~IsOpen(m))
  BY <1>3, Messages
<1>5. /\ t \in TurnSet /\ t.iter = turn.iter /\ t.hard = turn.hard
      /\ t.asst = next /\ t.uses = uses /\ t.at = 1
  BY <1>2, <1>3 DEF TurnSet
<1> HIDE DEF m, t
<1>6. /\ FileInv' /\ Append(mem, m) \in Seq(Wholesome)
      /\ WellFormed(mem, next') /\ WellFormed(Append(mem, m), next')
      /\ PushOk(mem, m) => mem' = Append(mem, m)
      /\ PushFails(mem, m) => host # "shell"
  BY <1>1, <1>2, <1>4, PushNew
<1>7. Numbered /\ cut' = cut
  BY <1>1 DEF Numbered
<1>8. mem \in Seq(AnyMessage) /\ m \in AnyMessage
  BY <1>2, <1>4, WholesomeAny
<1>9. CASE PushFails(mem, m) /\ Fail(mem)
  BY <1>1, <1>2, <1>6, <1>7, <1>9, Failed
<1>10. CASE /\ PushOk(mem, m) /\ turn' = t /\ held' = held
            /\ pc' = IF abort THEN "closing" ELSE IF uses = 0 THEN "final" ELSE "tools"
  <2>1. ControlInv'
    BY <1>1, <1>2, <1>5, <1>7, <1>10, WorkControl DEF Working
  <2>2. CASE pc' = "final"
    <3>1. Paired(Append(mem, m), cut)
      BY <1>2, <1>4, <1>8, <1>10, <2>2, PairedAppend
    <3> QED
      BY <1>6, <1>7, <1>10, <2>1, <2>2, <3>1, WentOn
  <2>3. CASE pc' \in {"tools", "closing"}
    <3>1. Paired(Append(mem, m), cut \cup {next})
      <4>1. Paired(mem, cut \cup {next})
        BY <1>2, PairedMore
      <4> QED
        BY <1>4, <1>8, <4>1, PairedAppend
    <3>2. \A ms \in Seq(AnyMessage) : Batch(Append(ms, m), next, uses, 1)
      BY <1>3, NewBatch DEF m
    <3>3. Loadable(file') => Batch(file'.lines, next, uses, 1)
      <4>1. Loadable(file') => \/ Loadable(file) /\ file'.lines = Append(file.lines, m)
                               \/ file'.lines = Append(mem, m)
        BY <1>1, <1>2, <1>4, <1>10, PushFile
      <4>2. Loadable(file) => file.lines \in Seq(AnyMessage)
        BY <1>2, LoadableLines, WholesomeAny DEF FileInv
      <4> QED
        BY <1>8, <3>2, <4>1, <4>2
    <3>4. turn'.at <= turn'.uses + (IF pc' = "tools" THEN 0 ELSE 1)
      BY <1>3, <1>5, <1>10, <2>3
    <3>5. turn'.asst = next /\ turn'.uses = uses /\ turn'.at = 1
      BY <1>5, <1>10
    <3> QED
      BY <1>6, <1>7, <1>8, <1>10, <2>1, <2>3, <3>1, <3>2, <3>3, <3>4, <3>5, AtTools
  <2> QED
    BY <1>10, <2>2, <2>3
<1> QED
  BY <1>1, <1>9, <1>10

\* What a step at the tools starts from.
LEMMA WithTools ==
  ASSUME SessionInv, pc \in {"tools", "closing"}
  PROVE  /\ Busy /\ turn.asst \in Nat /\ turn.uses \in Nat /\ turn.at \in Nat \ {0}
         /\ Paired(mem, cut \cup {turn.asst})
         /\ Batch(mem, turn.asst, turn.uses, turn.at)
         /\ pc = "tools" => turn.at <= turn.uses
         /\ pc = "closing" => turn.at <= turn.uses + 1
<1>1. Busy
  BY DEF Busy
<1>2. /\ turn.asst \in Nat /\ turn.uses \in Nat /\ turn.at \in Nat
      /\ Paired(mem, cut \cup {turn.asst}) /\ Batch(mem, turn.asst, turn.uses, turn.at)
      /\ turn.at <= turn.uses + (IF pc = "tools" THEN 0 ELSE 1)
  BY <1>1 DEF SessionInv, ControlInv, TurnSet, MemInv, BatchInv
<1>3. turn.at # 0
  BY <1>2 DEF Batch
<1> QED
  BY <1>1, <1>2, <1>3

\* All its tools answered, a turn may go on or fail.
LEMMA AllAnswered ==
  ASSUME NEW n, NEW C, NEW ms \in Seq(Wholesome), WellFormed(ms, n), NEW a \in Nat, NEW u \in Nat,
         NEW at \in Nat, Paired(ms, C \cup {a}), Batch(ms, a, u, at), u < at
  PROVE  Paired(ms, C)
BY BatchDone, WholesomeAny DEF WellFormed

LEMMA CloseOk == ASSUME SessionInv, Close PROVE SessionInv'
<1> DEFINE m == Result(turn.asst, turn.at)
<1>1. /\ pc = "closing" /\ UNCHANGED <<host, inputs, next, cut>>
      /\ \/ turn.at > turn.uses /\ Fail(mem) /\ file' = file
         \/ /\ ~(turn.at > turn.uses) /\ PushOk(mem, m) /\ turn' = [turn EXCEPT !.at = @ + 1]
            /\ UNCHANGED <<pc, held>>
         \/ PushFails(mem, m) /\ Fail(mem)
  BY DEF Close
<1>2. /\ turn \in TurnSet /\ turn.iter <= turn.hard /\ next \in Nat \ {0}
      /\ turn.hard \in {BaseMax, Max({BaseMax, ComplexMax})}
      /\ {abort', upgrade', inbox'} \subseteq BOOLEAN
      /\ mem \in Seq(Wholesome) /\ WellFormed(mem, next)
  BY <1>1, AtWork DEF Working, inputs
<1>3. /\ Busy /\ turn.asst \in Nat /\ turn.uses \in Nat /\ turn.at \in Nat \ {0}
      /\ Paired(mem, cut \cup {turn.asst}) /\ Batch(mem, turn.asst, turn.uses, turn.at)
  BY <1>1, WithTools
<1>4. Numbered /\ cut' = cut /\ host' = host /\ next' = next
  BY <1>1 DEF Numbered
<1> HIDE DEF m
<1>5. CASE turn.at > turn.uses /\ Fail(mem) /\ file' = file
  <2>1. Paired(mem, cut)
    BY <1>2, <1>3, <1>5, AllAnswered
  <2>2. FileInv'
    BY <1>4, <1>5, SameFile
  <2> QED
    BY <1>2, <1>4, <1>5, <2>1, <2>2, Failed
<1>6. CASE PushFails(mem, m) /\ Fail(mem)
  <2>1. FileInv' /\ host # "shell"
    BY <1>3, <1>4, <1>6, PushResult DEF m
  <2> QED
    BY <1>2, <1>4, <1>6, <2>1, Failed
<1>7. CASE /\ ~(turn.at > turn.uses) /\ PushOk(mem, m) /\ turn' = [turn EXCEPT !.at = @ + 1]
           /\ UNCHANGED <<pc, held>>
  <2>1. /\ turn' \in TurnSet /\ turn'.iter = turn.iter /\ turn'.hard = turn.hard
        /\ turn'.asst = turn.asst /\ turn'.uses = turn.uses /\ turn'.at = turn.at + 1
    <3> DEFINE n == turn.at + 1
    <3>1. turn \in TurnSet /\ n \in Nat /\ turn' = [turn EXCEPT !.at = n]
      BY <1>2, <1>3, <1>7
    <3> HIDE DEF n
    <3>2. /\ turn' \in TurnSet /\ turn'.iter = turn.iter /\ turn'.hard = turn.hard
          /\ turn'.asst = turn.asst /\ turn'.uses = turn.uses /\ turn'.at = n
      BY <3>1 DEF TurnSet
    <3> QED
      BY <3>2 DEF n
  <2>2. ControlInv'
    BY <1>1, <1>2, <1>4, <1>7, <2>1, WorkControl DEF Working
  <2>3. /\ FileInv' /\ mem' \in Seq(Wholesome) /\ WellFormed(mem', next)
        /\ Paired(mem', cut \cup {turn.asst})
        /\ Batch(mem', turn.asst, turn.uses, turn.at + 1)
        /\ Loadable(file') => Batch(file'.lines, turn.asst, turn.uses, turn.at + 1)
    BY <1>3, <1>4, <1>7, PushResult DEF m
  <2>4. turn'.at <= turn'.uses + (IF pc' = "tools" THEN 0 ELSE 1)
    BY <1>1, <1>3, <1>7, <2>1
  <2> QED
    BY <1>1, <1>4, <1>7, <2>1, <2>2, <2>3, <2>4, AtTools
<1> QED
  BY <1>1, <1>5, <1>6, <1>7

LEMMA FinalOk == ASSUME SessionInv, Final PROVE SessionInv'
<1>1. /\ pc = "final" /\ pc' \in {"top", "review"} /\ UNCHANGED <<host, held, inputs, cut>>
      /\ \/ /\ PushTried(mem, User(next)) /\ next' = next + 1
            /\ turn' = [turn EXCEPT !.punch = @ + 1]
         \/ UNCHANGED <<mem, file, next, turn>>
  BY DEF Final, Goto
<1>2. /\ turn \in TurnSet /\ turn.iter <= turn.hard
      /\ turn.hard \in {BaseMax, Max({BaseMax, ComplexMax})}
      /\ {abort', upgrade', inbox'} \subseteq BOOLEAN
      /\ mem \in Seq(Wholesome) /\ WellFormed(mem, next) /\ Paired(mem, cut)
  BY <1>1, AtWork DEF Working, inputs
<1>3. turn' \in TurnSet /\ turn'.iter = turn.iter /\ turn'.hard = turn.hard
  BY <1>1, <1>2 DEF TurnSet
<1>4. Numbered
  BY <1>1 DEF Numbered
<1>5. ControlInv'
  BY <1>1, <1>2, <1>3, <1>4, WorkControl DEF Working
<1>6. CASE PushTried(mem, User(next)) /\ next' = next + 1
  BY <1>1, <1>5, <1>6, Said DEF Working
<1>7. CASE UNCHANGED <<mem, file, next, turn>>
  <2>1. FileInv'
    BY <1>1, <1>4, <1>7, SameFile
  <2> QED
    BY <1>1, <1>2, <1>4, <1>5, <1>7, <2>1, WentOn
<1> QED
  BY <1>1, <1>6, <1>7

LEMMA ToolsInterruptedOk == ASSUME SessionInv, ToolsInterrupted PROVE SessionInv'
<1>1. /\ pc = "tools" /\ cut' = cut \cup {turn.asst} /\ Fail(mem)
      /\ UNCHANGED <<host, file, inputs, next>>
  BY DEF ToolsInterrupted
<1>2. /\ mem \in Seq(Wholesome) /\ WellFormed(mem, next)
      /\ {abort', upgrade', inbox'} \subseteq BOOLEAN
  BY <1>1, AtWork DEF Working, inputs
<1>3. Paired(mem, cut')
  BY <1>1, WithTools
<1>4. Numbered /\ FileInv'
  BY <1>1, SameFile DEF Numbered
<1> QED
  BY <1>1, <1>2, <1>3, <1>4, Failed

LEMMA ToolDoneOk == ASSUME SessionInv, ToolDone PROVE SessionInv'
<1> DEFINE m == Result(turn.asst, turn.at)
<1>1. /\ pc = "tools" /\ UNCHANGED <<host, inputs, next, cut>>
      /\ \/ /\ PushOk(mem, m) /\ held' = held
            /\ \E hard \in {turn.hard, Max({turn.hard, ComplexMax})} :
                  turn' = [turn EXCEPT !.at = @ + 1, !.hard = hard]
            /\ pc' = IF turn.at = turn.uses THEN "top" ELSE "tools"
         \/ PushFails(mem, m) /\ Fail(mem)
  BY DEF ToolDone, Goto
<1>2. /\ turn \in TurnSet /\ turn.iter <= turn.hard /\ turn.iter \in Nat /\ turn.hard \in Nat
      /\ turn.hard \in {BaseMax, Max({BaseMax, ComplexMax})} /\ next \in Nat \ {0}
      /\ {abort', upgrade', inbox'} \subseteq BOOLEAN
      /\ mem \in Seq(Wholesome) /\ WellFormed(mem, next)
  BY <1>1, AtWork DEF Working, inputs
<1>3. /\ Busy /\ turn.asst \in Nat /\ turn.uses \in Nat /\ turn.at \in Nat \ {0}
      /\ turn.at <= turn.uses
  BY <1>1, WithTools
<1>4. Numbered /\ cut' = cut /\ host' = host /\ next' = next
  BY <1>1 DEF Numbered
<1> HIDE DEF m
<1>5. CASE PushFails(mem, m) /\ Fail(mem)
  <2>1. FileInv' /\ host # "shell"
    BY <1>3, <1>4, <1>5, PushResult DEF m
  <2> QED
    BY <1>2, <1>4, <1>5, <2>1, Failed
<1>6. CASE /\ PushOk(mem, m) /\ held' = held
           /\ \E hard \in {turn.hard, Max({turn.hard, ComplexMax})} :
                 turn' = [turn EXCEPT !.at = @ + 1, !.hard = hard]
           /\ pc' = IF turn.at = turn.uses THEN "top" ELSE "tools"
  <2>1. PICK hard \in {turn.hard, Max({turn.hard, ComplexMax})} :
               turn' = [turn EXCEPT !.at = @ + 1, !.hard = hard]
    BY <1>6
  <2>2. /\ hard \in {BaseMax, Max({BaseMax, ComplexMax})} /\ hard \in Nat /\ turn.hard <= hard
    <3>1. BaseMax \in Nat /\ ComplexMax \in Nat
      BY LimitsAssumption DEF LimitsAssumption
    <3>2. /\ Max({BaseMax, ComplexMax}) = IF BaseMax >= ComplexMax THEN BaseMax ELSE ComplexMax
          /\ Max({turn.hard, ComplexMax}) = IF turn.hard >= ComplexMax THEN turn.hard ELSE ComplexMax
      BY <1>2, <3>1, MaxOfTwo
    <3> QED
      BY <1>2, <3>1, <3>2
  <2>3. /\ turn' \in TurnSet /\ turn'.iter = turn.iter /\ turn'.hard = hard
        /\ turn'.asst = turn.asst /\ turn'.uses = turn.uses /\ turn'.at = turn.at + 1
    <3> DEFINE n == turn.at + 1
    <3>1. turn' = [turn EXCEPT !.at = n, !.hard = hard]
      BY <2>1
    <3>2. turn \in TurnSet /\ n \in Nat /\ hard \in Nat
      BY <1>2, <1>3, <2>2
    <3> HIDE DEF n
    <3>3. /\ turn' \in TurnSet /\ turn'.iter = turn.iter /\ turn'.hard = hard
          /\ turn'.asst = turn.asst /\ turn'.uses = turn.uses /\ turn'.at = n
      BY <3>1, <3>2 DEF TurnSet
    <3> QED
      BY <3>3 DEF n
  <2>4. turn'.iter <= turn'.hard
    BY <1>2, <2>2, <2>3
  <2>5. ControlInv'
    BY <1>1, <1>2, <1>4, <1>6, <2>2, <2>3, <2>4, WorkControl DEF Working
  <2>6. /\ FileInv' /\ mem' \in Seq(Wholesome) /\ WellFormed(mem', next)
        /\ Paired(mem', cut \cup {turn.asst})
        /\ Batch(mem', turn.asst, turn.uses, turn.at + 1)
        /\ Loadable(file') => Batch(file'.lines, turn.asst, turn.uses, turn.at + 1)
    BY <1>3, <1>4, <1>6, PushResult DEF m
  <2>7. CASE turn.at = turn.uses
    <3>1. turn.uses < turn.at + 1 /\ turn.at + 1 \in Nat
      BY <1>3, <2>7
    <3>2. Paired(mem', cut)
      BY <1>3, <2>6, <3>1, AllAnswered
    <3> QED
      BY <1>4, <1>6, <2>5, <2>6, <2>7, <3>2, WentOn
  <2>8. CASE turn.at # turn.uses
    <3>1. turn'.at <= turn'.uses + (IF pc' = "tools" THEN 0 ELSE 1)
      BY <1>3, <1>6, <2>3, <2>8
    <3> QED
      BY <1>4, <1>6, <2>3, <2>5, <2>6, <2>8, <3>1, AtTools
  <2> QED
    BY <2>7, <2>8
<1> QED
  BY <1>1, <1>5, <1>6

LEMMA LoopAbortOk == ASSUME SessionInv, LoopAbort PROVE SessionInv'
<1> DEFINE ms == Prune(mem)
           m == Asst(next, 0)
<1>1. /\ pc = "tools" /\ UNCHANGED <<host, inputs>>
      /\ cut' = IF turn.at > 1 THEN cut \cup {turn.asst} ELSE cut
      /\ \/ Fail(ms) /\ UNCHANGED <<file, next>>
         \/ /\ next' = next + 1
            /\ \/ PushOk(ms, m) /\ pc' = "review" /\ UNCHANGED <<held, turn>>
               \/ PushFails(ms, m) /\ Fail(ms)
  BY DEF LoopAbort, Goto
<1>2. /\ turn \in TurnSet /\ turn.iter <= turn.hard /\ FileInv
      /\ turn.hard \in {BaseMax, Max({BaseMax, ComplexMax})} /\ next \in Nat \ {0}
      /\ {abort', upgrade', inbox'} \subseteq BOOLEAN
      /\ mem \in Seq(Wholesome) /\ WellFormed(mem, next)
  BY <1>1, AtWork DEF Working, inputs
<1>3. /\ turn.asst \in Nat /\ turn.uses \in Nat /\ turn.at \in Nat \ {0} /\ turn.at <= turn.uses
      /\ Paired(mem, cut \cup {turn.asst}) /\ Batch(mem, turn.asst, turn.uses, turn.at)
  BY <1>1, WithTools
<1>4. cut \subseteq cut' /\ Numbered
  BY <1>1 DEF Numbered
<1>5. ms \in Seq(Wholesome) /\ WellFormed(ms, next) /\ Paired(ms, cut')
  <2>1. ms \in Seq(Wholesome) /\ WellFormed(ms, next)
    BY <1>2, PruneOk
  <2>2. CASE turn.at > 1
    <3>1. Paired(mem, cut')
      BY <1>1, <1>3, <2>2
    <3> QED
      BY <1>2, <2>1, <3>1, PruneOk
  <2>3. CASE ~(turn.at > 1)
    <3>1. turn.at = 1 /\ turn.uses > 0 /\ cut' = cut
      BY <1>1, <1>3, <2>3
    <3>2. Batch(mem, turn.asst, turn.uses, 1)
      BY <1>3, <3>1
    <3>3. Paired(ms, cut)
      BY <1>2, <1>3, <3>1, <3>2, PruneOk
    <3> QED
      BY <2>1, <3>1, <3>3
  <2> QED
    BY <2>2, <2>3
<1>6. m \in Wholesome /\ m.kind # "tool" /\ m.no = next /\ ~IsOpen(m)
  BY <1>2, Messages
<1> HIDE DEF ms, m
<1>7. CASE Fail(ms) /\ UNCHANGED <<file, next>>
  <2>1. FileInv'
    BY <1>1, <1>4, <1>7, SameFile
  <2> QED
    BY <1>1, <1>2, <1>4, <1>5, <1>7, <2>1, Failed
<1>8. CASE /\ next' = next + 1
           /\ \/ PushOk(ms, m) /\ pc' = "review" /\ UNCHANGED <<held, turn>>
              \/ PushFails(ms, m) /\ Fail(ms)
  <2>1. /\ FileInv' /\ Append(ms, m) \in Seq(Wholesome)
        /\ WellFormed(ms, next') /\ WellFormed(Append(ms, m), next')
        /\ PushOk(ms, m) => mem' = Append(ms, m)
    BY <1>1, <1>2, <1>5, <1>6, <1>8, PushNew
  <2>2. CASE PushOk(ms, m) /\ pc' = "review" /\ UNCHANGED <<held, turn>>
    <3>1. Paired(Append(ms, m), cut')
      BY <1>5, <1>6, PairedAppend, WholesomeAny
    <3>2. ControlInv'
      BY <1>1, <1>2, <1>4, <2>2, WorkControl DEF Working
    <3> QED
      BY <1>4, <2>1, <2>2, <3>1, <3>2, WentOn
  <2>3. CASE PushFails(ms, m) /\ Fail(ms)
    BY <1>1, <1>2, <1>4, <1>5, <2>1, <2>3, Failed
  <2> QED
    BY <1>8, <2>2, <2>3
<1> QED
  BY <1>1, <1>7, <1>8

LEMMA ReviewOk == ASSUME SessionInv, Review PROVE SessionInv'
<1>1. /\ pc = "review" /\ UNCHANGED <<host, file, inputs, next, cut>>
      /\ \/ Fail(mem)
         \/ \E ms \in Compactions(mem) :
               /\ held' = ms /\ mem' = ms /\ turn' = NoTurn
               /\ pc' = IF host = "shell" THEN "idle" ELSE "save"
  BY DEF Review, Goto
<1>2. /\ next \in Nat \ {0} /\ {abort', upgrade', inbox'} \subseteq BOOLEAN
      /\ mem \in Seq(Wholesome) /\ WellFormed(mem, next) /\ Paired(mem, cut)
  BY <1>1, AtWork DEF Working, inputs
<1>3. CASE Fail(mem)
  BY <1>1, <1>2, <1>3, FailedAtWork DEF Working
<1>4. ASSUME NEW ms \in Compactions(mem), held' = ms, mem' = ms, turn' = NoTurn,
             pc' = IF host = "shell" THEN "idle" ELSE "save"
      PROVE  SessionInv'
  <2>1. ms \in Seq(Wholesome) /\ WellFormed(ms, next) /\ Paired(ms, cut)
    BY <1>2, CompactionsOk
  <2>2. Numbered
    BY <1>1 DEF Numbered
  <2>3. FileInv'
    BY <1>1, <2>2, SameFile
  <2>4. pc' \in Resting /\ (pc' = "save" => host # "shell")
    BY <1>4 DEF Resting
  <2>5. ControlInv'
    BY <1>1, <1>2, <1>4, <2>2, <2>4, RestControl
  <2> QED
    BY <1>1, <1>4, <2>1, <2>3, <2>4, <2>5, Rested
<1> QED
  BY <1>1, <1>3, <1>4

LEMMA SaveStepOk == ASSUME SessionInv, Save PROVE SessionInv'
<1>1. /\ pc = "save" /\ UNCHANGED <<host, inputs, next, cut>>
      /\ \E o \in Saves(held, file) : file' = o.file
      /\ Dies \/ (pc' = "idle" /\ UNCHANGED <<held, mem, turn>>)
  BY DEF Save, Goto
<1>2. /\ host # "shell" /\ {abort', upgrade', inbox'} \subseteq BOOLEAN
      /\ mem \in Seq(Wholesome) /\ WellFormed(mem, next) /\ Paired(mem, cut \cup {})
  BY <1>1 DEF SessionInv, ControlInv, MemInv, Busy, inputs
<1>3. FileInv' /\ Numbered
  BY <1>1, <1>2, SavedFile DEF Numbered
<1>4. CASE Dies
  <2>1. pc' = "stopped" /\ held' = <<>> /\ mem' = <<>> /\ turn' = NoTurn
    BY <1>4 DEF Dies, Goto
  <2>2. ControlInv'
    BY <1>1, <1>2, <1>3, <2>1, RestControl DEF Resting
  <2> QED
    BY <1>3, <2>1, <2>2, Empty, Rested DEF Resting
<1>5. CASE pc' = "idle" /\ UNCHANGED <<held, mem, turn>>
  <2>1. ControlInv'
    BY <1>1, <1>2, <1>3, <1>5, RestControl DEF Resting
  <2>2. Paired(mem, cut)
    BY <1>2, PairedMore
  <2> QED
    BY <1>1, <1>2, <1>3, <1>5, <2>1, <2>2, WentOn
<1> QED
  BY <1>1, <1>4, <1>5

LEMMA InterruptOk == ASSUME SessionInv, Interrupt \/ Steer PROVE SessionInv'
<1>1. /\ pc \in {"gate", "send", "tools", "top", "review"}
      /\ UNCHANGED <<host, pc, session, turn, next, cut>>
      /\ {abort', upgrade', inbox'} \subseteq {TRUE, abort, upgrade, inbox}
  BY DEF Interrupt, Steer
<1>2. UNCHANGED <<held, mem, file>>
  BY <1>1 DEF session
<1>3. ControlInv'
  BY <1>1 DEF SessionInv, ControlInv
<1>4. FileInv' /\ HeldInv'
  BY <1>1, <1>2 DEF SessionInv, FileInv, HeldInv, Loadable
<1>5. Busy' = Busy
  BY <1>1 DEF Busy
<1>6. MemInv' /\ BatchInv'
  BY <1>1, <1>2, <1>5 DEF SessionInv, MemInv, BatchInv, Loadable
<1> QED
  BY <1>3, <1>4, <1>6 DEF SessionInv

LEMMA CompactCommandOk == ASSUME SessionInv, CompactCommand PROVE SessionInv'
<1>1. /\ pc = "idle" /\ host # "shell" /\ Removed(held) > 0 /\ pc' = "save"
      /\ held' = Compact(held) /\ mem' = Compact(held)
      /\ UNCHANGED <<host, file, turn, inputs, next, cut>>
  BY DEF CompactCommand, Goto
<1>2. /\ next \in Nat \ {0} /\ {abort', upgrade', inbox'} \subseteq BOOLEAN
      /\ held \in Seq(Wholesome) /\ WellFormed(held, next) /\ Paired(held, cut)
  BY <1>1 DEF SessionInv, ControlInv, HeldInv, inputs
<1>3. held' \in Seq(Wholesome) /\ WellFormed(held', next) /\ Paired(held', cut)
  BY <1>1, <1>2, CompactOk, WholesomeAny
<1>4. Numbered
  BY <1>1 DEF Numbered
<1>5. FileInv' /\ ControlInv'
  BY <1>1, <1>2, <1>4, SameFile, RestControl DEF Resting
<1> QED
  BY <1>1, <1>3, <1>5, Rested DEF Resting

LEMMA RunUpgradeOk == ASSUME SessionInv, RunUpgrade PROVE SessionInv'
<1>1. /\ pc = "idle" /\ host # "shell" /\ upgrade' = TRUE
      /\ file' = file \/ (\E o \in Saves(held, file) : file' = o.file)
      /\ Dies \/ UNCHANGED <<pc, held, mem, turn>>
      /\ UNCHANGED <<host, abort, inbox, next, cut>>
  BY DEF RunUpgrade
<1>2. /\ {abort', upgrade', inbox'} \subseteq BOOLEAN
      /\ mem \in Seq(Wholesome) /\ WellFormed(mem, next) /\ Paired(mem, cut \cup {})
  BY <1>1 DEF SessionInv, ControlInv, MemInv, Busy
<1>3. Numbered
  BY <1>1 DEF Numbered
<1>4. FileInv'
  BY <1>1, <1>3, SameFile, SavedFile
<1>5. CASE Dies
  <2>1. pc' = "stopped" /\ held' = <<>> /\ mem' = <<>> /\ turn' = NoTurn
    BY <1>5 DEF Dies, Goto
  <2>2. ControlInv'
    BY <1>1, <1>2, <1>3, <2>1, RestControl DEF Resting
  <2> QED
    BY <1>4, <2>1, <2>2, Empty, Rested DEF Resting
<1>6. CASE UNCHANGED <<pc, held, mem, turn>>
  <2>1. ControlInv'
    BY <1>1, <1>2, <1>3, <1>6, RestControl DEF Resting
  <2>2. Paired(mem, cut)
    BY <1>2, PairedMore
  <2> QED
    BY <1>1, <1>2, <1>3, <1>4, <1>6, <2>1, <2>2, WentOn
<1> QED
  BY <1>1, <1>5, <1>6

LEMMA CrashOk == ASSUME SessionInv, Crash PROVE SessionInv'
<1>1. /\ pc' = "stopped" /\ held' = <<>> /\ mem' = <<>> /\ turn' = NoTurn
      /\ UNCHANGED <<host, file, inputs, next, cut>>
  BY DEF Crash, Dies, Goto
<1>2. {abort', upgrade', inbox'} \subseteq BOOLEAN
  BY <1>1 DEF SessionInv, ControlInv, inputs
<1>3. Numbered
  BY <1>1 DEF Numbered
<1>4. FileInv' /\ ControlInv'
  BY <1>1, <1>2, <1>3, SameFile, RestControl DEF Resting
<1> QED
  BY <1>1, <1>4, Empty, Rested DEF Resting

LEMMA RestartOk == ASSUME SessionInv, Restart PROVE SessionInv'
<1> DEFINE lines == file.lines
<1>1. /\ pc = "stopped" /\ Loadable(file) /\ pc' \in {"idle", "save"}
      /\ \E ms \in Compactions(lines) : held' = ms /\ mem' = ms
      /\ abort' = FALSE /\ upgrade' = FALSE /\ inbox' = FALSE
      /\ cut' = cut \cup Unanswered(lines)
      /\ UNCHANGED <<host, file, turn, next>>
  BY DEF Restart
<1>2. /\ next \in Nat \ {0} /\ host # "shell"
      /\ lines \in Seq(Wholesome) /\ WellFormed(lines, next)
  BY <1>1, LoadableLines DEF SessionInv, ControlInv, FileInv, Loadable
<1> HIDE DEF lines
<1>3. Paired(lines, cut')
  <2>1. Paired(lines, Unanswered(lines))
    BY <1>2, UnansweredAside, WholesomeAny
  <2> QED
    BY <1>1, <2>1, PairedMore
<1>4. PICK ms \in Compactions(lines) : held' = ms /\ mem' = ms
  BY <1>1
<1>5. ms \in Seq(Wholesome) /\ WellFormed(ms, next) /\ Paired(ms, cut')
  BY <1>2, <1>3, CompactionsOk
<1>6. Numbered
  BY <1>1 DEF Numbered
<1>7. FileInv' /\ ControlInv'
  BY <1>1, <1>2, <1>6, SameFile, RestControl DEF Resting
<1> QED
  BY <1>1, <1>4, <1>5, <1>7, Rested DEF Resting

LEMMA SessionInductive == SessionInv /\ [Next]_vars => SessionInv'
<1> SUFFICES ASSUME SessionInv, [Next]_vars PROVE SessionInv'
  OBVIOUS
<1>1. CASE UNCHANGED vars
  <2>1. UNCHANGED <<host, pc, held, mem, file, turn, abort, upgrade, inbox, next, cut>>
    BY <1>1 DEF vars, session, inputs
  <2> QED
    BY <2>1 DEF SessionInv, ControlInv, FileInv, HeldInv, MemInv, BatchInv, Busy, Loadable
<1>2. CASE TurnStep
  BY <1>2, IterateOk, StoppedOk, GateOk, ApiFailsOk, PromptTooLongOk, ReplyOk, CloseOk, FinalOk,
     ToolsInterruptedOk, ToolDoneOk, LoopAbortOk, ReviewOk, SaveStepOk DEF TurnStep
<1>3. CASE Interrupt \/ Steer \/ CompactCommand \/ RunUpgrade \/ Crash \/ Restart
  BY <1>3, InterruptOk, CompactCommandOk, RunUpgradeOk, CrashOk, RestartOk
<1> QED
  BY <1>1, <1>2, <1>3, TurnBeginsOk DEF Next

LEMMA SessionHolds == Spec => []SessionInv
BY Initially, SessionInductive, PTL DEF Spec

-----------------------------------------------------------------------------
(* What the file covers.                                                   *)

LEMMA NeverBoth ==
  ASSUME NEW a \in Wholesome, NEW b \in Wholesome
  PROVE  /\ ~(Precedes(a, b) /\ Precedes(b, a))
         /\ ~Precedes(a, a)
<1>1. a.no \in Nat /\ b.no \in Nat /\ a.use \in Nat /\ b.use \in Nat
  BY DEF Wholesome
<1> QED
  BY <1>1 DEF Precedes

\* Cut down, a session keeps its order.
LEMMA FewerMessages ==
  ASSUME NEW ms \in Seq(AnyMessage), Ordered(ms), NEW r \in Seq(AnyMessage), NEW d \in Int,
         \A k \in DOMAIN r : r[k] = Summary \/ (k + d \in DOMAIN ms /\ r[k] = ms[k + d])
  PROVE  Ordered(r) /\ ToSet(r) \subseteq ToSet(ms) \cup {Summary}
<1>1. DOMAIN r = 1..Len(r) /\ Len(r) \in Nat
  OBVIOUS
<1>2. ASSUME NEW j \in DOMAIN r, NEW k \in DOMAIN r, j < k, r[j] # Summary, r[k] # Summary
      PROVE  Precedes(r[j], r[k])
  <2>1. /\ j + d \in DOMAIN ms /\ r[j] = ms[j + d] /\ k + d \in DOMAIN ms /\ r[k] = ms[k + d]
    BY <1>2
  <2>2. j + d < k + d
    BY <1>1, <1>2
  <2> QED
    BY <1>2, <2>1, <2>2 DEF Ordered
<1>3. ToSet(r) \subseteq ToSet(ms) \cup {Summary}
  BY DEF ToSet
<1> QED
  BY <1>2, <1>3 DEF Ordered

LEMMA CompactFewer ==
  ASSUME NEW n \in Nat \ {0}, NEW ms \in Seq(Wholesome), WellFormed(ms, n), Ordered(ms),
         NEW r, r = ms \/ (Removed(ms) > 0 /\ r = Compact(ms))
  PROVE  Ordered(r) /\ ToSet(r) \subseteq ToSet(ms) \cup {Summary}
<1>1. ms \in Seq(AnyMessage)
  BY WholesomeAny
<1>2. CASE Removed(ms) > 0 /\ r = Compact(ms)
  <2>1. PICK d \in Int : \A k \in DOMAIN r : r[k] = Summary \/ (k + d \in DOMAIN ms /\ r[k] = ms[k + d])
    BY <1>1, <1>2, CompactOk
  <2>2. r \in Seq(AnyMessage)
    BY <1>1, <1>2, CompactOk
  <2> QED
    BY <1>1, <2>1, <2>2, FewerMessages
<1> QED
  BY <1>2

LEMMA PruneFewer ==
  ASSUME NEW ms \in Seq(Wholesome), Ordered(ms)
  PROVE  Ordered(Prune(ms)) /\ ToSet(Prune(ms)) \subseteq ToSet(ms) \cup {Summary}
<1> DEFINE r == SubSeq(ms, 1, Len(ms) - 1)
<1>1. CASE ms # <<>> /\ Prune(ms) = r
  <2>1. ms \in Seq(AnyMessage) /\ Len(ms) \in Nat \ {0}
    BY <1>1, WholesomeAny
  <2>2. /\ r \in Seq(AnyMessage)
        /\ \A k \in DOMAIN r : k + 0 \in DOMAIN ms /\ r[k] = ms[k + 0]
    BY <2>1
  <2> HIDE DEF r
  <2>3. Ordered(r) /\ ToSet(r) \subseteq ToSet(ms) \cup {Summary}
    BY <2>1, <2>2, FewerMessages
  <2> QED
    BY <1>1, <2>3
<1>2. CASE Prune(ms) = ms
  BY <1>2
<1> QED
  BY <1>1, <1>2 DEF Prune, Front

\* What is said last is last in the order.
LEMMA OrderedAppend ==
  ASSUME NEW ms \in Seq(AnyMessage), NEW m \in AnyMessage, Ordered(ms),
         \A k \in DOMAIN ms : ms[k] # Summary => Precedes(ms[k], m)
  PROVE  Ordered(Append(ms, m))
<1> DEFINE r == Append(ms, m)
<1>1. /\ DOMAIN ms = 1..Len(ms) /\ Len(ms) \in Nat /\ DOMAIN r = 1..(Len(ms) + 1)
      /\ \A k \in DOMAIN ms : k \in DOMAIN r /\ r[k] = ms[k]
      /\ r[Len(ms) + 1] = m
      /\ \A k \in DOMAIN r : \/ k \in DOMAIN ms /\ r[k] = ms[k]
                             \/ k = Len(ms) + 1 /\ r[k] = m
  BY Appended
<1> HIDE DEF r
<1>2. ASSUME NEW j \in DOMAIN r, NEW k \in DOMAIN r, j < k, r[j] # Summary, r[k] # Summary
      PROVE  Precedes(r[j], r[k])
  <2>1. j \in DOMAIN ms /\ r[j] = ms[j]
    BY <1>1, <1>2
  <2>2. CASE k \in DOMAIN ms /\ r[k] = ms[k]
    BY <1>2, <2>1, <2>2 DEF Ordered
  <2>3. CASE r[k] = m
    BY <1>2, <2>1, <2>3
  <2> QED
    BY <1>1, <2>2, <2>3
<1> QED
  BY <1>2 DEF Ordered, r

LEMMA SetAppend ==
  ASSUME NEW q \in Seq(Wholesome), NEW m \in Wholesome
  PROVE  ToSet(Append(q, m)) = ToSet(q) \cup {m}
<1>1. /\ \A k \in DOMAIN q : k \in DOMAIN Append(q, m) /\ Append(q, m)[k] = q[k]
      /\ Len(q) + 1 \in DOMAIN Append(q, m) /\ Append(q, m)[Len(q) + 1] = m
      /\ \A k \in DOMAIN Append(q, m) : k \in DOMAIN q \/ k = Len(q) + 1
  BY Appended
<1> QED
  BY <1>1 DEF ToSet

LEMMA OrderedNew ==
  ASSUME NEW n \in Nat, NEW ms \in Seq(AnyMessage), WellFormed(ms, n), Ordered(ms),
         NEW m \in AnyMessage, m.no = n
  PROVE  Ordered(Append(ms, m))
<1>1. \A k \in DOMAIN ms : Precedes(ms[k], m)
  BY DEF WellFormed, Precedes
<1> QED
  BY <1>1, OrderedAppend

LEMMA OrderedResult ==
  ASSUME NEW n \in Nat, NEW ms \in Seq(AnyMessage), WellFormed(ms, n), Ordered(ms),
         NEW a \in Nat, NEW u \in Nat, NEW at \in Nat, Batch(ms, a, u, at)
  PROVE  Ordered(Append(ms, Result(a, at)))
<1> DEFINE m == Result(a, at)
           top == Len(ms) - at + 1
<1>1. /\ Len(ms) \in Nat /\ DOMAIN ms = 1..Len(ms) /\ at \in 1..Len(ms) /\ top \in DOMAIN ms
      /\ ms[top] = Asst(a, u) /\ \A i \in 1..(at - 1) : ms[top + i] = Result(a, i)
  BY DEF Batch
<1>2. /\ m \in AnyMessage /\ m.kind = "tool" /\ m.no = a /\ m.use = at
      /\ Asst(a, u).kind = "asst" /\ Asst(a, u).no = a
      /\ \A i \in 1..(at - 1) : /\ Result(a, i).kind = "tool" /\ Result(a, i).no = a
                               /\ Result(a, i).use = i
      /\ Summary.kind = "sum"
  <2>1. m \in AnyMessage
    BY Messages, WholesomeAny
  <2>2. \A i \in Nat : Result(a, i).kind = "tool" /\ Result(a, i).no = a /\ Result(a, i).use = i
    BY DEF Result, Message
  <2>3. Asst(a, u).kind = "asst" /\ Asst(a, u).no = a /\ Summary.kind = "sum"
    BY DEF Asst, Summary, Message
  <2>4. 1..(at - 1) \subseteq Nat
    OBVIOUS
  <2> QED
    BY <2>1, <2>2, <2>3, <2>4
<1> HIDE DEF m, top
<1>3. ASSUME NEW k \in DOMAIN ms, ms[k] # Summary PROVE Precedes(ms[k], m)
  <2>1. CASE k < top
    <3>1. Precedes(ms[k], ms[top])
      <4>1. ms[top] # Summary
        BY <1>1, <1>2
      <4> QED
        BY <1>1, <1>3, <2>1, <4>1 DEF Ordered
    <3>2. ms[k].no < a
      BY <1>1, <1>2, <3>1 DEF Precedes
    <3> QED
      BY <1>2, <3>2 DEF Precedes
  <2>2. CASE k = top
    BY <1>1, <1>2, <2>2 DEF Precedes
  <2>3. CASE k > top
    <3>1. k - top \in 1..(at - 1) /\ k = top + (k - top)
      BY <1>1, <2>3 DEF top
    <3>2. ms[k] = Result(a, k - top)
      BY <1>1, <3>1
    <3>3. k - top < at
      BY <1>1, <3>1
    <3> QED
      BY <1>2, <3>1, <3>2, <3>3 DEF Precedes
  <2> QED
    BY <1>1, <2>1, <2>2, <2>3
<1> QED
  BY <1>2, <1>3, OrderedAppend DEF m

Known == ToSet(held) \cup ToSet(mem) \cup {Summary}

\* What a step leaves in memory that says nothing new.
Kept(r) == Ordered(r) /\ ToSet(r) \subseteq Known

\* What is known of every state.
LEMMA Sessions ==
  ASSUME SessionInv, CoverInv
  PROVE  /\ next \in Nat \ {0} /\ FileInv /\ file \in FileSet
         /\ held \in Seq(Wholesome) /\ WellFormed(held, next) /\ Kept(held)
         /\ mem \in Seq(Wholesome) /\ WellFormed(mem, next) /\ Kept(mem)
         /\ Loadable(file) => /\ file.lines \in Seq(Wholesome) /\ WellFormed(file.lines, next)
                              /\ Ordered(file.lines) /\ Known \subseteq ToSet(file.lines) \cup {Summary}
         /\ host = "shell" => ~file.here
<1>1. /\ next \in Nat \ {0} /\ FileInv /\ file \in FileSet
      /\ held \in Seq(Wholesome) /\ WellFormed(held, next)
      /\ mem \in Seq(Wholesome) /\ WellFormed(mem, next)
      /\ Loadable(file) => WellFormed(file.lines, next)
      /\ host = "shell" => ~file.here
  BY DEF SessionInv, ControlInv, FileInv, HeldInv, MemInv
<1>2. Loadable(file) => file.lines \in Seq(Wholesome)
  BY <1>1, LoadableLines
<1> QED
  BY <1>1, <1>2 DEF CoverInv, Kept, Known

\* Nothing is written and nothing is said.
LEMMA CoverQuiet ==
  ASSUME SessionInv, CoverInv, file' = file, host' = host, Kept(held'), Kept(mem'),
         pc' \in Resting => mem' = held', pc' \notin Resting => pc \notin Resting
  PROVE  CoverInv'
<1>1. host # "shell" /\ ~AtRest' => file.here
  BY DEF CoverInv, AtRest, Resting
<1>2. ASSUME Loadable(file)
      PROVE  Ordered(file.lines) /\ ToSet(held') \cup ToSet(mem') \subseteq ToSet(file.lines) \cup {Summary}
  BY <1>2, Sessions DEF Kept
<1>3. Loadable(file)' => Loadable(file) /\ file'.lines = file.lines
  BY DEF Loadable
<1>4. AtRest' => mem' = held'
  BY DEF AtRest, Resting
<1> QED
  BY <1>1, <1>2, <1>3, <1>4 DEF CoverInv, Kept

\* A message is pushed or cannot be written, in a turn or at its beginning.
LEMMA CoverPush ==
  ASSUME SessionInv, CoverInv, host' = host, NEW ms \in Seq(Wholesome), NEW m \in Wholesome,
         PushOk(ms, m) \/ PushFails(ms, m),
         Ordered(Append(ms, m)), Loadable(file) => Ordered(Append(file.lines, m)),
         pc \notin Resting \/ (ms = held /\ mem = held),
         pc \in Resting /\ pc' \notin Resting => PushOk(ms, m),
         pc' \in Resting => mem' = held', Ordered(held'), Ordered(mem'),
         \A x \in ToSet(held') \cup ToSet(mem') : x \in Known \/ (x = m /\ PushOk(ms, m))
  PROVE  CoverInv'
<1>1. FileInv /\ (host = "shell" => ~file.here)
  BY Sessions
<1>2. /\ host' = "shell" => ~file'.here
      /\ host # "shell" /\ (file.here \/ PushOk(ms, m)) => file'.here
      /\ Loadable(file') =>
            \/ Loadable(file) /\ file'.lines = file.lines /\ ~PushOk(ms, m)
            \/ Loadable(file) /\ file'.lines = Append(file.lines, m)
            \/ ~file.here /\ file'.lines = Append(ms, m)
  BY <1>1, PushFile
<1>3. host' # "shell" /\ ~AtRest' => file'.here
  BY <1>2 DEF CoverInv, AtRest, Resting
<1>4. ASSUME Loadable(file')
      PROVE  /\ Ordered(file'.lines)
             /\ ToSet(held') \cup ToSet(mem') \subseteq ToSet(file'.lines) \cup {Summary}
  <2>1. CASE Loadable(file) /\ file'.lines = file.lines /\ ~PushOk(ms, m)
    BY <2>1, Sessions
  <2>2. CASE Loadable(file) /\ file'.lines = Append(file.lines, m)
    <3>1. file.lines \in Seq(Wholesome) /\ Known \subseteq ToSet(file.lines) \cup {Summary}
      BY <2>2, Sessions
    <3>2. ToSet(Append(file.lines, m)) = ToSet(file.lines) \cup {m}
      BY <3>1, SetAppend
    <3> QED
      BY <2>2, <3>1, <3>2
  <2>3. CASE ~file.here /\ file'.lines = Append(ms, m)
    <3>1. host # "shell"
      BY <1>2, <1>4 DEF Loadable
    <3>2. ms = held /\ mem = held
      BY <2>3, <3>1 DEF CoverInv, AtRest, Resting
    <3>3. ToSet(Append(ms, m)) = ToSet(ms) \cup {m}
      BY SetAppend
    <3> QED
      BY <2>3, <3>2, <3>3 DEF Known
  <2> QED
    BY <1>2, <1>4, <2>1, <2>2, <2>3
<1>5. AtRest' => mem' = held'
  BY DEF AtRest, Resting
<1>6. Loadable(file)' = Loadable(file')
  OBVIOUS
<1> QED
  BY <1>3, <1>4, <1>5, <1>6 DEF CoverInv

\* After a turn that failed, the host has one session, and none that is new.
LEMMA FailKept ==
  ASSUME SessionInv, CoverInv, NEW ms, Fail(ms), Kept(ms)
  PROVE  pc' \in Resting /\ mem' = held' /\ Kept(held')
<1>1. /\ pc' \in {"idle", "stopped"} /\ mem' = held'
      /\ held' = <<>> \/ held' = held \/ held' = ms
  BY DEF Fail, Dies, Goto
<1>2. Kept(<<>>)
  BY DEF Kept, Ordered, ToSet
<1> QED
  BY <1>1, <1>2, Sessions DEF Resting

\* How a push can end: the message is in the session, or cannot be written, which
\* fails the turn or is ignored.
LEMMA CoverSays ==
  ASSUME SessionInv, CoverInv, host' = host, NEW ms \in Seq(Wholesome), NEW m \in Wholesome,
         Kept(ms), Ordered(Append(ms, m)), Loadable(file) => Ordered(Append(file.lines, m)),
         pc \notin Resting \/ (ms = held /\ mem = held),
         \/ PushOk(ms, m) /\ held' = held /\ pc' \notin Resting
         \/ PushFails(ms, m) /\ Fail(ms)
         \/ PushFails(ms, m) /\ mem' = ms /\ held' = held /\ pc \notin Resting /\ pc' \notin Resting
  PROVE  CoverInv'
<1>1. Kept(held)
  BY Sessions
<1>2. CASE PushOk(ms, m) /\ held' = held /\ pc' \notin Resting
  <2>1. mem' = Append(ms, m)
    BY <1>2 DEF PushOk
  <2>2. ToSet(Append(ms, m)) = ToSet(ms) \cup {m}
    BY SetAppend
  <2>3. /\ Ordered(held') /\ Ordered(mem')
        /\ \A x \in ToSet(held') \cup ToSet(mem') : x \in Known \/ (x = m /\ PushOk(ms, m))
    BY <1>1, <1>2, <2>1, <2>2 DEF Kept
  <2> QED
    BY <1>2, <2>3, CoverPush
<1>3. CASE PushFails(ms, m) /\ Fail(ms)
  <2>1. pc' \in Resting /\ mem' = held' /\ Kept(held')
    BY <1>3, FailKept
  <2>2. /\ Ordered(held') /\ Ordered(mem')
        /\ \A x \in ToSet(held') \cup ToSet(mem') : x \in Known \/ (x = m /\ PushOk(ms, m))
    BY <2>1 DEF Kept
  <2> QED
    BY <1>3, <2>1, <2>2, CoverPush
<1>4. CASE PushFails(ms, m) /\ mem' = ms /\ held' = held /\ pc \notin Resting /\ pc' \notin Resting
  <2>1. /\ Ordered(held') /\ Ordered(mem')
        /\ \A x \in ToSet(held') \cup ToSet(mem') : x \in Known \/ (x = m /\ PushOk(ms, m))
    BY <1>1, <1>4 DEF Kept
  <2> QED
    BY <1>4, <2>1, CoverPush
<1> QED
  BY <1>2, <1>3, <1>4

\* A message with a new number may follow in memory and in the file.
LEMMA NewFits ==
  ASSUME SessionInv, CoverInv, NEW ms \in Seq(Wholesome), WellFormed(ms, next), Kept(ms),
         NEW m \in Wholesome, m.no = next
  PROVE  Ordered(Append(ms, m)) /\ (Loadable(file) => Ordered(Append(file.lines, m)))
<1>1. /\ next \in Nat /\ m \in AnyMessage /\ ms \in Seq(AnyMessage)
      /\ Loadable(file) => /\ file.lines \in Seq(AnyMessage) /\ WellFormed(file.lines, next)
                           /\ Ordered(file.lines)
  BY Sessions, WholesomeAny
<1> QED
  BY <1>1, OrderedNew DEF Kept

\* So may the next result of the batch under way.
LEMMA ResultFits ==
  ASSUME SessionInv, CoverInv, pc \in {"tools", "closing"}
  PROVE  /\ Result(turn.asst, turn.at) \in Wholesome
         /\ Ordered(Append(mem, Result(turn.asst, turn.at)))
         /\ Loadable(file) => Ordered(Append(file.lines, Result(turn.asst, turn.at)))
<1>1. /\ next \in Nat /\ mem \in Seq(AnyMessage) /\ WellFormed(mem, next) /\ Ordered(mem)
      /\ Loadable(file) => /\ file.lines \in Seq(AnyMessage) /\ WellFormed(file.lines, next)
                           /\ Ordered(file.lines)
  BY Sessions, WholesomeAny DEF Kept
<1>2. /\ turn.asst \in Nat /\ turn.uses \in Nat /\ turn.at \in Nat
      /\ Batch(mem, turn.asst, turn.uses, turn.at)
      /\ Loadable(file) => Batch(file.lines, turn.asst, turn.uses, turn.at)
  BY WithTools DEF SessionInv, BatchInv
<1> QED
  BY <1>1, <1>2, OrderedResult, Messages

\* The steps of a turn that push.
LEMMA CoverTalk ==
  ASSUME SessionInv, CoverInv,
         TurnBegins \/ Iterate \/ UpgradeNotice \/ Send \/ Final \/ \E uses \in ToolCounts : Reply(uses)
  PROVE  CoverInv'
<1>1. next \in Nat /\ User(next) \in Wholesome /\ User(next).no = next
  BY Sessions, Messages
<1>2. /\ mem \in Seq(Wholesome) /\ WellFormed(mem, next) /\ Kept(mem)
      /\ held \in Seq(Wholesome) /\ WellFormed(held, next) /\ Kept(held)
  BY Sessions
<1>3. CASE TurnBegins
  <2>1. /\ pc = "idle" /\ host' = host
        /\ \/ PushOk(held, User(next)) /\ pc' = "top" /\ held' = held
           \/ PushFails(held, User(next)) /\ Fail(held)
    BY <1>3 DEF TurnBegins, Goto
  <2>2. mem = held
    BY <2>1 DEF CoverInv, AtRest
  <2>3. Ordered(Append(held, User(next))) /\ (Loadable(file) => Ordered(Append(file.lines, User(next))))
    BY <1>1, <1>2, NewFits
  <2> QED
    BY <1>1, <1>2, <2>1, <2>2, <2>3, CoverSays DEF Resting
<1>4. CASE Iterate \/ UpgradeNotice \/ Send \/ Final
  <2>1. /\ pc \in {"top", "gate", "note", "final"} /\ pc' \in {"gate", "note", "send", "top", "review"}
        /\ host' = host /\ held' = held
        /\ PushTried(mem, User(next)) \/ UNCHANGED <<mem, file>>
    BY <1>4 DEF Iterate, UpgradeNotice, Send, Final, Goto
  <2>2. CASE PushTried(mem, User(next))
    <3>1. PushOk(mem, User(next)) \/ (PushFails(mem, User(next)) /\ mem' = mem)
      BY <2>2 DEF PushTried
    <3>2. Ordered(Append(mem, User(next))) /\ (Loadable(file) => Ordered(Append(file.lines, User(next))))
      BY <1>1, <1>2, NewFits
    <3> QED
      BY <1>1, <1>2, <2>1, <3>1, <3>2, CoverSays DEF Resting
  <2>3. CASE UNCHANGED <<mem, file>>
    BY <1>2, <2>1, <2>3, CoverQuiet DEF Resting, Kept
  <2> QED
    BY <2>1, <2>2, <2>3
<1>5. ASSUME NEW uses \in ToolCounts, Reply(uses) PROVE CoverInv'
  <2> DEFINE m == Asst(next, uses)
  <2>1. /\ pc = "send" /\ host' = host
        /\ \/ PushOk(mem, m) /\ held' = held /\ pc' \in {"closing", "final", "tools"}
           \/ PushFails(mem, m) /\ Fail(mem)
    BY <1>5 DEF Reply, Goto
  <2>2. m \in Wholesome /\ m.no = next
    <3>1. uses \in Nat
      BY BoundsAssumption DEF BoundsAssumption
    <3> QED
      BY <1>1, <3>1, Messages
  <2> HIDE DEF m
  <2>3. Ordered(Append(mem, m)) /\ (Loadable(file) => Ordered(Append(file.lines, m)))
    BY <1>2, <2>2, NewFits
  <2> QED
    BY <1>2, <2>1, <2>2, <2>3, CoverSays DEF Resting
<1> QED
  BY <1>3, <1>4, <1>5

LEMMA CoverTools ==
  ASSUME SessionInv, CoverInv, Close \/ ToolDone \/ LoopAbort
  PROVE  CoverInv'
<1>1. /\ mem \in Seq(Wholesome) /\ WellFormed(mem, next) /\ Kept(mem) /\ next \in Nat
  BY Sessions
<1>2. CASE Close \/ ToolDone
  <2> DEFINE m == Result(turn.asst, turn.at)
  <2>1. /\ pc \in {"tools", "closing"} /\ host' = host
        /\ \/ Fail(mem) /\ file' = file
           \/ PushOk(mem, m) /\ held' = held /\ pc' \in {"tools", "closing", "top"}
           \/ PushFails(mem, m) /\ Fail(mem)
    BY <1>2 DEF Close, ToolDone, Goto
  <2>2. /\ m \in Wholesome /\ Ordered(Append(mem, m))
        /\ Loadable(file) => Ordered(Append(file.lines, m))
    BY <2>1, ResultFits
  <2> HIDE DEF m
  <2>3. CASE Fail(mem) /\ file' = file
    BY <1>1, <2>1, <2>3, FailKept, CoverQuiet
  <2>4. CASE \/ PushOk(mem, m) /\ held' = held /\ pc' \in {"tools", "closing", "top"}
             \/ PushFails(mem, m) /\ Fail(mem)
    BY <1>1, <2>1, <2>2, <2>4, CoverSays DEF Resting
  <2> QED
    BY <2>1, <2>3, <2>4
<1>3. CASE LoopAbort
  <2> DEFINE ms == Prune(mem)
             m == Asst(next, 0)
  <2>1. /\ pc = "tools" /\ host' = host
        /\ \/ Fail(ms) /\ file' = file
           \/ PushOk(ms, m) /\ held' = held /\ pc' = "review"
           \/ PushFails(ms, m) /\ Fail(ms)
    BY <1>3 DEF LoopAbort, Goto
  <2>2. m \in Wholesome /\ m.no = next
    BY <1>1, Messages
  <2>3. ms \in Seq(Wholesome) /\ WellFormed(ms, next) /\ Kept(ms)
    BY <1>1, PruneOk, PruneFewer DEF Kept, Known
  <2> HIDE DEF ms, m
  <2>4. Ordered(Append(ms, m)) /\ (Loadable(file) => Ordered(Append(file.lines, m)))
    BY <2>2, <2>3, NewFits
  <2>5. CASE Fail(ms) /\ file' = file
    BY <2>1, <2>3, <2>5, FailKept, CoverQuiet
  <2>6. CASE \/ PushOk(ms, m) /\ held' = held /\ pc' = "review"
             \/ PushFails(ms, m) /\ Fail(ms)
    BY <2>1, <2>2, <2>3, <2>4, <2>6, CoverSays DEF Resting
  <2> QED
    BY <2>1, <2>5, <2>6
<1> QED
  BY <1>2, <1>3

\* The steps that leave the file alone.
LEMMA CoverStill ==
  ASSUME SessionInv, CoverInv,
         \/ GiveUp \/ Interrupted \/ PassGate \/ ApiFails \/ PromptTooLong \/ ToolsInterrupted
         \/ Review \/ Interrupt \/ Steer \/ CompactCommand \/ Crash
  PROVE  CoverInv'
<1>1. /\ next \in Nat \ {0} /\ mem \in Seq(Wholesome) /\ WellFormed(mem, next) /\ Kept(mem)
      /\ held \in Seq(Wholesome) /\ WellFormed(held, next) /\ Kept(held)
  BY Sessions
<1>2. CASE (GiveUp \/ Interrupted \/ ApiFails \/ ToolsInterrupted \/ Review) /\ Fail(mem)
  <2>1. file' = file /\ host' = host
    BY <1>2 DEF GiveUp, Interrupted, ApiFails, ToolsInterrupted, Review
  <2> QED
    BY <1>1, <1>2, <2>1, FailKept, CoverQuiet
<1>3. CASE PassGate \/ ApiFails \/ PromptTooLong
  <2>1. /\ pc \in {"gate", "send"} /\ file' = file /\ host' = host
        /\ \/ Fail(mem)
           \/ /\ pc' \in {"review", "note", "top"} /\ held' = held
              /\ mem' = mem \/ (Removed(mem) > 0 /\ mem' = Compact(mem))
    BY <1>3 DEF PassGate, ApiFails, PromptTooLong, Goto, session
  <2>2. CASE Fail(mem)
    BY <1>1, <2>1, <2>2, FailKept, CoverQuiet
  <2>3. CASE /\ pc' \in {"review", "note", "top"} /\ held' = held
             /\ mem' = mem \/ (Removed(mem) > 0 /\ mem' = Compact(mem))
    <3>1. Ordered(mem') /\ ToSet(mem') \subseteq ToSet(mem) \cup {Summary}
      BY <1>1, <2>3, CompactFewer DEF Kept
    <3>2. Kept(held') /\ Kept(mem')
      BY <1>1, <2>3, <3>1 DEF Kept, Known
    <3> QED
      BY <2>1, <2>3, <3>2, CoverQuiet DEF Resting
  <2> QED
    BY <2>1, <2>2, <2>3
<1>4. CASE Review /\ ~Fail(mem)
  <2>1. PICK ms \in Compactions(mem) : /\ held' = ms /\ mem' = ms
                                       /\ pc' = IF host = "shell" THEN "idle" ELSE "save"
    BY <1>4 DEF Review, Goto
  <2>2. file' = file /\ host' = host
    BY <1>4 DEF Review
  <2>3. Ordered(ms) /\ ToSet(ms) \subseteq ToSet(mem) \cup {Summary}
    BY <1>1, CompactFewer DEF Kept, Compactions
  <2>4. Kept(held') /\ Kept(mem')
    BY <2>1, <2>3 DEF Kept, Known
  <2> QED
    BY <2>1, <2>2, <2>4, CoverQuiet DEF Resting
<1>5. CASE Interrupt \/ Steer
  <2>1. UNCHANGED <<host, pc, held, mem, file>>
    BY <1>5 DEF Interrupt, Steer, session
  <2> QED
    BY <2>1 DEF CoverInv, AtRest, Loadable
<1>6. CASE CompactCommand
  <2>1. /\ Removed(held) > 0 /\ pc' = "save" /\ held' = Compact(held) /\ mem' = Compact(held)
        /\ file' = file /\ host' = host
    BY <1>6 DEF CompactCommand, Goto
  <2>2. Ordered(held') /\ ToSet(held') \subseteq ToSet(held) \cup {Summary}
    BY <1>1, <2>1, CompactFewer DEF Kept
  <2>3. Kept(held') /\ Kept(mem')
    BY <2>1, <2>2 DEF Kept, Known
  <2> QED
    BY <2>1, <2>3, CoverQuiet DEF Resting
<1>7. CASE Crash
  <2>1. pc' = "stopped" /\ held' = <<>> /\ mem' = <<>> /\ file' = file /\ host' = host
    BY <1>7 DEF Crash, Dies, Goto
  <2>2. Kept(<<>>)
    BY DEF Kept, Ordered, ToSet
  <2>3. Kept(held') /\ Kept(mem')
    BY <2>1, <2>2 DEF Kept
  <2> QED
    BY <2>1, <2>3, CoverQuiet DEF Resting
<1>8. \/ (GiveUp \/ Interrupted \/ ToolsInterrupted) /\ Fail(mem)
      \/ PassGate \/ ApiFails \/ PromptTooLong \/ Review \/ Interrupt \/ Steer
      \/ CompactCommand \/ Crash
  BY DEF GiveUp, Interrupted, ToolsInterrupted
<1> QED
  BY <1>2, <1>3, <1>4, <1>5, <1>6, <1>7, <1>8

\* The steps that replace the file, and the one that reads it.
LEMMA CoverFiles ==
  ASSUME SessionInv, CoverInv, Save \/ RunUpgrade \/ Restart
  PROVE  CoverInv'
<1>1. held \in Seq(Wholesome) /\ Kept(held) /\ file \in FileSet /\ next \in Nat \ {0}
  BY Sessions
<1>2. CASE Save \/ RunUpgrade
  <2>1. /\ pc \in {"save", "idle"} /\ host' = host
        /\ file' = file \/ (\E o \in Saves(held, file) : file' = o.file)
        /\ Dies \/ (pc' = "idle" /\ UNCHANGED <<held, mem>>)
    BY <1>2 DEF Save, RunUpgrade, Goto
  <2>2. mem = held
    BY <2>1 DEF CoverInv, AtRest
  <2>3. pc' \in {"stopped", "idle"} /\ mem' = held' /\ (held' = <<>> \/ held' = held)
    BY <2>1, <2>2 DEF Dies, Goto
  <2>4. Loadable(file') => (Loadable(file) /\ file'.lines = file.lines) \/ file'.lines = held
    BY <1>1, <2>1, SaveOk DEF Loadable
  <2>5. Ordered(held') /\ ToSet(held') \subseteq ToSet(held)
    BY <1>1, <2>3 DEF Kept, Ordered, ToSet
  <2>6. Loadable(file') => Ordered(file'.lines) /\ ToSet(held) \subseteq ToSet(file'.lines) \cup {Summary}
    BY <1>1, <2>4, Sessions DEF Kept, Known
  <2>7. AtRest'
    BY <2>3 DEF AtRest
  <2>8. Loadable(file') => ToSet(held') \cup ToSet(mem') \subseteq ToSet(file'.lines) \cup {Summary}
    BY <2>3, <2>5, <2>6
  <2> QED
    BY <2>3, <2>5, <2>6, <2>7, <2>8 DEF CoverInv
<1>3. CASE Restart
  <2>1. /\ Loadable(file) /\ pc' \in {"idle", "save"} /\ file' = file
        /\ \E ms \in Compactions(file.lines) : held' = ms /\ mem' = ms
    BY <1>3 DEF Restart
  <2>2. file.lines \in Seq(Wholesome) /\ WellFormed(file.lines, next) /\ Ordered(file.lines)
    BY <2>1, Sessions
  <2>3. /\ Ordered(held') /\ mem' = held'
        /\ ToSet(held') \subseteq ToSet(file.lines) \cup {Summary}
    BY <1>1, <2>1, <2>2, CompactFewer DEF Compactions
  <2>4. AtRest'
    BY <2>1 DEF AtRest
  <2> QED
    BY <2>1, <2>2, <2>3, <2>4 DEF CoverInv
<1> QED
  BY <1>2, <1>3

LEMMA CoverHolds == Spec => []CoverInv
<1>1. Init => CoverInv
  <2> SUFFICES ASSUME Init PROVE CoverInv
    OBVIOUS
  <2>1. held = <<>> /\ mem = <<>> /\ pc = "idle" /\ file.lines = <<>>
    BY DEF Init, Absent, Whole
  <2>2. Ordered(<<>>) /\ ToSet(<<>>) = {}
    BY DEF Ordered, ToSet
  <2>3. AtRest
    BY <2>1 DEF AtRest
  <2>4. /\ Ordered(held) /\ Ordered(mem) /\ Ordered(file.lines) /\ mem = held
        /\ ToSet(held) \cup ToSet(mem) = {}
    BY <2>1, <2>2
  <2> QED
    BY <2>3, <2>4 DEF CoverInv
<1>2. ASSUME SessionInv, CoverInv, [Next]_vars PROVE CoverInv'
  <2>1. CASE UNCHANGED vars
    <3>1. UNCHANGED <<host, pc, held, mem, file>>
      BY <2>1 DEF vars, session
    <3> QED
      BY <1>2, <3>1 DEF CoverInv, AtRest, Loadable
  <2>2. CASE TurnStep
    BY <1>2, <2>2, CoverTalk, CoverTools, CoverStill, CoverFiles DEF TurnStep
  <2> QED
    BY <1>2, <2>1, <2>2, CoverTalk, CoverStill, CoverFiles DEF Next
<1> QED
  BY <1>1, <1>2, SessionHolds, PTL DEF Spec

-----------------------------------------------------------------------------
(* The theorems.                                                           *)

\* Every variable keeps its type; what is held in memory has no line that does not
\* parse, and a turn at its tools holds the message that asked for them.
THEOREM TypeCorrect == Spec => []TypeOK
<1>1. SessionInv => TypeOK
  <2> SUFFICES ASSUME SessionInv PROVE TypeOK
    OBVIOUS
  <2>1. /\ host \in Hosts /\ {abort, upgrade, inbox} \subseteq BOOLEAN
        /\ pc \in {"idle", "top", "gate", "note", "send", "closing", "final", "tools",
                   "review", "save", "stopped"}
        /\ turn \in TurnSet /\ turn.iter <= turn.hard
        /\ turn.hard \in {0, BaseMax, Max({BaseMax, ComplexMax})}
        /\ file \in FileSet /\ held \in Seq(Wholesome) /\ mem \in Seq(Wholesome)
    BY DEF SessionInv, ControlInv, FileInv, HeldInv, MemInv
  <2>2. held \in Seq(MessageSet) /\ mem \in Seq(MessageSet) /\ file.lines \in Seq(MessageSet)
    <3>1. AnyMessage \subseteq MessageSet
      BY DEF AnyMessage, Wholesome, Broken, Message, MessageSet, Kinds
    <3>2. held \in Seq(AnyMessage) /\ mem \in Seq(AnyMessage) /\ file.lines \in Seq(AnyMessage)
      BY <2>1, WholesomeAny DEF FileSet, AnyMessage
    <3> HIDE DEF AnyMessage
    <3>3. \A ms \in Seq(AnyMessage) : ms \in Seq(MessageSet)
      BY <3>1
    <3> QED
      BY <3>2, <3>3
  <2>3. Broken \notin ToSet(held) \cup ToSet(mem)
    BY <2>1, WholesomeAny
  <2>4. turn.iter \in 0..turn.hard /\ turn.reactive \in {"none", "micro", "full"}
    <3>1. turn.iter \in Nat /\ turn.hard \in Nat /\ turn.reactive \in {"none", "micro", "full"}
      BY <2>1 DEF TurnSet
    <3> QED
      BY <2>1, <3>1
  <2>5. ASSUME pc \in {"tools", "closing"} PROVE Asst(turn.asst, turn.uses) \in ToSet(mem)
    <3>1. Batch(mem, turn.asst, turn.uses, turn.at) /\ Len(mem) \in Nat /\ DOMAIN mem = 1..Len(mem)
      BY <2>1, <2>5, WithTools
    <3>2. turn.at \in 1..Len(mem) /\ mem[Len(mem) - turn.at + 1] = Asst(turn.asst, turn.uses)
      BY <3>1 DEF Batch
    <3>3. Len(mem) - turn.at + 1 \in DOMAIN mem
      BY <3>1, <3>2
    <3> QED
      BY <3>2, <3>3 DEF ToSet
  <2>6. file.here \in BOOLEAN /\ file.open \in BOOLEAN
    BY <2>1 DEF FileSet
  <2> QED
    BY <2>1, <2>2, <2>3, <2>4, <2>5, <2>6 DEF TypeOK
<1> QED
  BY <1>1, SessionHolds, PTL

\* A tool result is never without the message that asked for it, in a request, in
\* the session the next turn starts from, and in a session a new process resumes.
THEOREM ResultsHaveTheirCall == Spec => []NoOrphanResults
<1>1. SessionInv => NoOrphanResults
  <2> SUFFICES ASSUME SessionInv PROVE NoOrphanResults
    OBVIOUS
  <2>1. /\ next \in Nat \ {0} /\ mem \in Seq(AnyMessage) /\ WellFormed(mem, next)
        /\ held \in Seq(AnyMessage) /\ WellFormed(held, next)
        /\ file \in FileSet /\ (Loadable(file) => WellFormed(file.lines, next))
    BY WholesomeAny DEF SessionInv, ControlInv, FileInv, HeldInv, MemInv
  <2>2. Orphans(Request(mem)) = {}
    BY <2>1, RequestOk, NoOrphans DEF WellFormed
  <2>3. Orphans(held) = {}
    BY <2>1, NoOrphans DEF WellFormed
  <2>4. ASSUME Loadable(file) PROVE Orphans(file.lines) = {}
    <3>1. file.lines \in Seq(AnyMessage)
      BY <2>1, <2>4, LoadableLines, WholesomeAny
    <3> QED
      BY <2>1, <2>4, <3>1, NoOrphans DEF WellFormed
  <2> QED
    BY <2>2, <2>3, <2>4 DEF NoOrphanResults
<1> QED
  BY <1>1, SessionHolds, PTL

\* A request shows a tool use without result only of a batch that was broken off
\* between two tools, or that a new process found broken off in its file.
THEOREM UnansweredForACause == Spec => []UnansweredOnlyAfterCut
<1>1. SessionInv => UnansweredOnlyAfterCut
  <2> SUFFICES ASSUME SessionInv, pc = "send" PROVE Unanswered(Request(mem)) \subseteq cut
    BY DEF UnansweredOnlyAfterCut
  <2>1. next \in Nat \ {0} /\ mem \in Seq(AnyMessage) /\ WellFormed(mem, next) /\ Paired(mem, cut)
    BY AtWork, WholesomeAny DEF Working
  <2>2. Request(mem) \in Seq(AnyMessage) /\ Paired(Request(mem), cut)
    BY <2>1, RequestOk
  <2> QED
    BY <2>2, AnsweredBut
<1> QED
  BY <1>1, SessionHolds, PTL

\* While the file can be loaded, it holds every message of the session and of the
\* running turn, once and in their order, whatever could not be written, was
\* compacted or was lost with a process.
THEOREM FileCovers == Spec => []FileCoversSession
<1>1. ASSUME SessionInv, CoverInv, host # "shell", Loadable(file), NEW ms \in {held, mem}
      PROVE  Within(ms, file.lines)
  <2> DEFINE lines == file.lines
             said == {k \in DOMAIN ms : ms[k] # Summary}
             at == [k \in said |-> {p \in DOMAIN lines : lines[p] = ms[k]}]
  <2>1. /\ Ordered(ms) /\ Ordered(lines) /\ ToSet(ms) \subseteq ToSet(lines) \cup {Summary}
        /\ ms \in Seq(Wholesome) /\ lines \in Seq(Wholesome)
    BY <1>1, Sessions DEF Kept, Known
  <2> HIDE DEF lines
  <2>2. /\ \A k \in DOMAIN ms : k \in Int /\ ms[k] \in Wholesome
        /\ \A p \in DOMAIN lines : p \in Int /\ lines[p] \in Wholesome
    BY <2>1
  <2>3. ASSUME NEW k \in said PROVE at[k] # {}
    <3>1. ms[k] \in ToSet(lines)
      BY <2>1 DEF ToSet
    <3> QED
      BY <3>1 DEF ToSet
  <2>4. ASSUME NEW j \in said, NEW k \in said, NEW p \in at[j], NEW q \in at[k]
        PROVE  j < k <=> p < q
    <3>1. /\ j \in Int /\ k \in Int /\ p \in DOMAIN lines /\ q \in DOMAIN lines
          /\ p \in Int /\ q \in Int /\ lines[p] = ms[j] /\ lines[q] = ms[k]
          /\ j \in DOMAIN ms /\ k \in DOMAIN ms /\ ms[j] # Summary /\ ms[k] # Summary
      BY <2>2
    <3>2. ms[j] \in Wholesome /\ ms[k] \in Wholesome
      BY <2>2, <3>1
    <3>3. /\ j < k => Precedes(ms[j], ms[k])
          /\ k < j => Precedes(ms[k], ms[j])
          /\ p < q => Precedes(ms[j], ms[k])
          /\ q < p => Precedes(ms[k], ms[j])
      BY <2>1, <3>1 DEF Ordered
    <3>4. j = k => ms[j] = ms[k]
      OBVIOUS
    <3>5. p = q => ms[j] = ms[k]
      BY <3>1
    <3>6. /\ ~(Precedes(ms[j], ms[k]) /\ Precedes(ms[k], ms[j]))
          /\ ms[j] = ms[k] => ~Precedes(ms[j], ms[k])
      BY <3>2, NeverBoth
    <3> QED
      BY <3>1, <3>3, <3>4, <3>5, <3>6
  <2>5. \A k \in said : at[k] # {} /\ \A j \in said : \A p \in at[j], q \in at[k] : j < k <=> p < q
    BY <2>3, <2>4
  <2> QED
    BY <2>5 DEF Within, lines
<1>2. SessionInv /\ CoverInv => FileCoversSession
  BY <1>1 DEF FileCoversSession
<1> QED
  BY <1>2, SessionHolds, CoverHolds, PTL
=============================================================================
