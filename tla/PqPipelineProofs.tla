---------------------------- MODULE PqPipelineProofs ----------------------------
(***************************************************************************)
(* Proofs about pqxx::pipeline, for any number of queries, however they    *)
(* fail: what each of the class's functions does to a pipeline that fits   *)
(* its connection (PipeFits), and from that what every call does.          *)
(***************************************************************************)
EXTENDS PqPipeline, FiniteSetTheorems, WellFoundedInduction, TLAPS

-----------------------------------------------------------------------------
(* Induction over a set of numbers, and the function that a step defines. *)
LEMMA AllNumbers ==
  ASSUME NEW S, 0 \in S, \A n \in Nat : n \in S => n + 1 \in S
  PROVE  Nat \subseteq S
<1> DEFINE bad == Nat \ S
           less == OpToRel(<, Nat)
<1> SUFFICES ASSUME bad # {} PROVE FALSE
  OBVIOUS
<1>1. \A x, y \in Nat : <<y, x>> \in less <=> y < x
  BY DEF OpToRel
<1>2. IsWellFoundedOn(less, Nat) /\ bad \subseteq Nat
  BY NatLessThanWellFounded
<1>3. \A x : x \in bad <=> x \in Nat /\ x \notin S
  OBVIOUS
<1> HIDE DEF less, bad
<1>4. PICK x \in bad : \A y \in bad : <<y, x>> \notin less
  BY <1>2, WFMin
<1>5. x \in Nat /\ x # 0 /\ x - 1 \in Nat /\ x - 1 < x
  BY <1>3, <1>4
<1>6. x - 1 \notin bad
  BY <1>1, <1>4, <1>5
<1>7. x - 1 + 1 \in S
  BY <1>3, <1>5, <1>6
<1> QED
  BY <1>3, <1>4, <1>5, <1>7

Follows(f, s, F) ==
  \A n \in Nat : f[n] = IF n = 0 THEN s ELSE F[<<n - 1, f[n - 1]>>]

LEMMA StepsDefine ==
  ASSUME NEW S, NEW s \in S, NEW F \in [Nat \X S -> S]
  PROVE  \E f \in [Nat -> S] : Follows(f, s, F)
<1> DEFINE Start(n) == {g \in [0 .. n -> S] :
                          g[0] = s /\ \A i \in 1 .. n : g[i] = F[<<i - 1, g[i - 1]>>]}
           some == {n \in Nat : Start(n) # {}}
           same == {i \in Nat : \A m, n \in Nat : \A g \in Start(m), h \in Start(n) :
                                  i <= m /\ i <= n => g[i] = h[i]}
<1>1. Nat \subseteq some
  <2>1. 0 \in some
    <3>1. [i \in 0 .. 0 |-> s] \in Start(0)
      OBVIOUS
    <3> QED
      BY <3>1
  <2>2. ASSUME NEW n \in Nat, n \in some
        PROVE  n + 1 \in some
    <3>1. PICK g : g \in Start(n)
      BY <2>2
    <3> DEFINE h == [i \in 0 .. n + 1 |-> IF i <= n THEN g[i] ELSE F[<<n, g[n]>>]]
    <3>2. g \in [0 .. n -> S] /\ g[0] = s
          /\ \A i \in 1 .. n : g[i] = F[<<i - 1, g[i - 1]>>]
      BY <3>1
    <3>3. g[n] \in S /\ F[<<n, g[n]>>] \in S
      BY <3>2
    <3>4. h \in [0 .. n + 1 -> S] /\ h[0] = s
      BY <3>2, <3>3
    <3>5. ASSUME NEW i \in 1 .. n + 1
          PROVE  h[i] = F[<<i - 1, h[i - 1]>>]
      <4>1. i - 1 \in 0 .. n /\ i \in 0 .. n + 1 /\ i - 1 \in 0 .. n + 1
        OBVIOUS
      <4>2. h[i - 1] = g[i - 1]
        BY <4>1
      <4>3. CASE i <= n
        BY <3>2, <4>1, <4>2, <4>3
      <4>4. CASE i = n + 1
        BY <4>1, <4>2, <4>4
      <4> QED
        BY <4>3, <4>4
    <3> HIDE DEF h
    <3>6. h \in Start(n + 1)
      BY <3>4, <3>5
    <3> QED
      BY <3>6
  <2> HIDE DEF some
  <2> QED
    BY <2>1, <2>2, AllNumbers
<1>2. Nat \subseteq same
  <2>1. 0 \in same
    OBVIOUS
  <2>2. ASSUME NEW i \in Nat, i \in same
        PROVE  i + 1 \in same
    <3>1. ASSUME NEW m \in Nat, NEW n \in Nat, NEW g \in Start(m), NEW h \in Start(n),
                 i + 1 <= m, i + 1 <= n
          PROVE  g[i + 1] = h[i + 1]
      <4>1. i <= m /\ i <= n /\ i + 1 \in 1 .. m /\ i + 1 \in 1 .. n /\ i + 1 - 1 = i
        BY <3>1
      <4>2. g[i] = h[i]
        BY <2>2, <4>1
      <4>3. g[i + 1] = F[<<i, g[i]>>] /\ h[i + 1] = F[<<i, h[i]>>]
        BY <4>1
      <4> QED
        BY <4>2, <4>3
    <3> HIDE DEF Start
    <3> QED
      BY <3>1
  <2> HIDE DEF same
  <2> QED
    BY <2>1, <2>2, AllNumbers
<1> DEFINE one(n) == CHOOSE g : g \in Start(n)
           f == [n \in Nat |-> one(n)[n]]
<1>3. ASSUME NEW n \in Nat PROVE one(n) \in Start(n)
  <2>1. \E g : g \in Start(n)
    BY <1>1
  <2> HIDE DEF Start
  <2> QED
    BY <2>1
<1> HIDE DEF one
<1>4. f \in [Nat -> S]
  <2>1. ASSUME NEW n \in Nat PROVE one(n)[n] \in S
    BY <1>3
  <2> QED
    BY <2>1
<1>5. f[0] = s
  BY <1>3
<1>6. ASSUME NEW n \in Nat, n # 0
      PROVE  f[n] = F[<<n - 1, f[n - 1]>>]
  <2>1. n - 1 \in Nat /\ n \in 1 .. n /\ n - 1 <= n
    BY <1>6
  <2>2. one(n) \in Start(n) /\ one(n - 1) \in Start(n - 1)
    BY <1>3, <2>1
  <2>3. one(n)[n - 1] = one(n - 1)[n - 1]
    <3> HIDE DEF Start
    <3>1. n - 1 \in same
      BY <1>2, <2>1
    <3> QED
      BY <2>1, <2>2, <3>1
  <2>4. one(n)[n] = F[<<n - 1, one(n)[n - 1]>>]
    BY <2>1, <2>2
  <2> QED
    BY <2>1, <2>3, <2>4
<1> HIDE DEF f
<1>7. \A n \in Nat : f[n] = IF n = 0 THEN s ELSE F[<<n - 1, f[n - 1]>>]
  BY <1>5, <1>6
<1>8. Follows(f, s, F)
  BY <1>7 DEF Follows
<1> QED
  BY <1>4, <1>8

(* The same for a step that does not look at its number. *)
LEMMA RepeatedSteps ==
  ASSUME NEW S, NEW s \in S, NEW F \in [S -> S]
  PROVE  \E f \in [Nat -> S] : f[0] = s /\ \A n \in Nat : f[n + 1] = F[f[n]]
<1> DEFINE G == [x \in Nat \X S |-> F[x[2]]]
<1>1. G \in [Nat \X S -> S]
  OBVIOUS
<1>2. \A n \in Nat, t \in S : G[<<n, t>>] = F[t]
  OBVIOUS
<1> HIDE DEF G
<1>3. PICK f \in [Nat -> S] : Follows(f, s, G)
  BY <1>1, StepsDefine
<1>4. ASSUME NEW n \in Nat
      PROVE  f[n + 1] = F[f[n]]
  <2>1. n + 1 \in Nat /\ n + 1 # 0 /\ n + 1 - 1 = n
    OBVIOUS
  <2>2. f[n + 1] = G[<<n, f[n]>>]
    BY <1>3, <2>1 DEF Follows
  <2> QED
    BY <1>2, <2>2
<1>5. f[0] = s
  BY <1>3 DEF Follows
<1> QED
  BY <1>4, <1>5

-----------------------------------------------------------------------------
(* A set of numbers has a least element, and Min finds it. *)
LEMMA LeastIs ==
  ASSUME NEW S \in SUBSET Nat, S # {}
  PROVE  Min(S) \in S /\ \A y \in S : Min(S) <= y
<1> DEFINE less == OpToRel(<, Nat)
<1>1. \A x, y \in Nat : <<y, x>> \in less <=> y < x
  BY DEF OpToRel
<1>2. IsWellFoundedOn(less, Nat)
  BY NatLessThanWellFounded
<1> HIDE DEF less
<1>3. PICK x \in S : \A y \in S : <<y, x>> \notin less
  BY <1>2, WFMin
<1>4. ASSUME NEW y \in S PROVE x <= y
  <2>1. x \in Nat /\ y \in Nat /\ ~(y < x)
    BY <1>1, <1>3
  <2> QED
    BY <2>1
<1> QED
  BY <1>4 DEF Min

(* Or, if it is found otherwise, it is that one. *)
LEMMA LeastIsThis ==
  ASSUME NEW S \in SUBSET Nat, NEW x \in S, \A y \in S : x <= y
  PROVE  Min(S) = x
<1>1. Min(S) \in S /\ \A y \in S : Min(S) <= y
  BY LeastIs
<1> DEFINE m == Min(S)
<1>2. m <= x /\ x <= m /\ m \in Nat /\ x \in Nat
  BY <1>1
<1> HIDE DEF m
<1>3. m = x
  BY <1>2
<1> QED
  BY <1>3 DEF m

-----------------------------------------------------------------------------
(* Lists of the elements of a set, each once. *)
Rising(f) == \A i, j \in DOMAIN f : i < j => f[i] < f[j]

LEMMA ListedSets ==
  ASSUME NEW S, IsFiniteSet(S), NEW f \in SetToSeqs(S)
  PROVE  /\ f \in Seq(S) /\ Len(f) = Cardinality(S) /\ Cardinality(S) \in Nat
         /\ DOMAIN f = 1 .. Cardinality(S)
         /\ \A i, j \in DOMAIN f : f[i] = f[j] => i = j
         /\ \A x \in S : \E i \in DOMAIN f : f[i] = x
<1> DEFINE n == Cardinality(S)
<1>1. n \in Nat
  BY FS_CardinalityType
<1>2. f \in [1 .. n -> S] /\ \A i, j \in 1 .. n : i # j => f[i] # f[j]
  BY DEF SetToSeqs
<1>3. IsFiniteSet(1 .. n) /\ Cardinality(1 .. n) = n
  BY <1>1, FS_Interval
<1> HIDE DEF n
<1>4. f \in Injection(1 .. n, S)
  BY <1>2 DEF Injection, IsInjective
<1>5. f \in Surjection(1 .. n, S)
  BY <1>3, <1>4, FS_Injection DEF n
<1>6. \A x \in S : \E i \in 1 .. n : f[i] = x
  BY <1>5 DEF Surjection
<1>7. f \in Seq(S) /\ Len(f) = n
  BY <1>1, <1>2
<1> QED
  BY <1>1, <1>2, <1>6, <1>7 DEF n

LEMMA OneMore ==
  ASSUME NEW n \in Nat, NEW T \in SUBSET (1 .. n), NEW f \in SetToSeqs(T), Rising(f)
  PROVE  \E g \in SetToSeqs(T \cup {n + 1}) : Rising(g)
<1> DEFINE S == T \cup {n + 1}
           m == Cardinality(T)
           g == [i \in 1 .. m + 1 |-> IF i = m + 1 THEN n + 1 ELSE f[i]]
<1>1. IsFiniteSet(T)
  <2>1. IsFiniteSet(1 .. n)
    BY FS_Interval
  <2> QED
    BY <2>1, FS_Subset
<1>2. m \in Nat /\ Cardinality(S) = m + 1
  BY <1>1, FS_AddElement, FS_CardinalityType
<1>3. f \in [1 .. m -> T] /\ \A i, j \in 1 .. m : i # j => f[i] # f[j]
  BY DEF SetToSeqs
<1>4. DOMAIN f = 1 .. m
  BY <1>3
<1> HIDE DEF m
<1>5. \A i, j \in 1 .. m : i < j => f[i] < f[j]
  BY <1>4 DEF Rising
<1>6. \A i \in 1 .. m + 1 : i = m + 1 \/ i \in 1 .. m
  BY <1>2
<1>7. ASSUME NEW i \in 1 .. m
      PROVE  f[i] \in T /\ f[i] \in Nat /\ f[i] < n + 1 /\ i # m + 1
  <2>1. f[i] \in T
    BY <1>3
  <2>2. f[i] \in 1 .. n
    BY <2>1
  <2> QED
    BY <1>2, <2>1, <2>2
<1>8. g \in [1 .. m + 1 -> S]
  BY <1>6, <1>7
<1>9. g[m + 1] = n + 1 /\ \A i \in 1 .. m : g[i] = f[i]
  BY <1>2
<1>10. DOMAIN g = 1 .. m + 1
  OBVIOUS
<1> HIDE DEF g
<1>11. \A i, j \in 1 .. m + 1 : i < j => i \in 1 .. m
  BY <1>2
<1>12. ASSUME NEW i \in 1 .. m + 1, NEW j \in 1 .. m + 1, i < j PROVE g[i] < g[j]
  BY <1>5, <1>6, <1>7, <1>9, <1>11, <1>12
<1>13. ASSUME NEW i \in 1 .. m + 1, NEW j \in 1 .. m + 1, i # j PROVE g[i] # g[j]
  <2>1. \A k \in 1 .. m + 1 : g[k] \in Nat
    BY <1>6, <1>7, <1>9
  <2>2. i < j \/ j < i
    BY <1>2, <1>13
  <2> QED
    BY <1>12, <2>1, <2>2
<1>14. g \in SetToSeqs(S)
  BY <1>2, <1>8, <1>13 DEF SetToSeqs
<1>15. Rising(g)
  BY <1>10, <1>12 DEF Rising
<1> QED
  BY <1>14, <1>15

LEMMA RisingExists ==
  ASSUME NEW n \in Nat, NEW T \in SUBSET (1 .. n)
  PROVE  \E f \in SetToSeqs(T) : Rising(f)
<1> DEFINE good == {m \in Nat : \A S \in SUBSET (1 .. m) : \E f \in SetToSeqs(S) : Rising(f)}
<1>1. 0 \in good
  <2>1. \A S \in SUBSET (1 .. 0) : S = {}
    OBVIOUS
  <2>2. << >> \in SetToSeqs({}) /\ Rising(<< >>)
    <3>1. Cardinality({}) = 0
      BY FS_EmptySet
    <3> QED
      BY <3>1 DEF SetToSeqs, Rising
  <2> QED
    BY <2>1, <2>2
<1>2. ASSUME NEW m \in Nat, m \in good PROVE m + 1 \in good
  <2> SUFFICES ASSUME NEW S \in SUBSET (1 .. m + 1)
               PROVE  \E f \in SetToSeqs(S) : Rising(f)
    OBVIOUS
  <2>1. S \ {m + 1} \in SUBSET (1 .. m)
    OBVIOUS
  <2>2. CASE m + 1 \in S
    <3>1. PICK f \in SetToSeqs(S \ {m + 1}) : Rising(f)
      BY <1>2, <2>1
    <3>2. S = (S \ {m + 1}) \cup {m + 1}
      BY <2>2
    <3> QED
      BY <2>1, <3>1, <3>2, OneMore
  <2>3. CASE m + 1 \notin S
    <3>1. S \in SUBSET (1 .. m)
      BY <2>3
    <3> QED
      BY <1>2, <3>1
  <2> QED
    BY <2>2, <2>3
<1> HIDE DEF good
<1>3. Nat \subseteq good
  BY <1>1, <1>2, AllNumbers
<1> QED
  BY <1>3 DEF good

-----------------------------------------------------------------------------
(* Numbers of queries, iterators, and the sets between them. *)
LEMMA Ids ==
  /\ MaxQueries \in Nat /\ MaxQueries > 0 /\ Id = 1 .. MaxQueries
  /\ End = MaxQueries + 1 /\ NoError = MaxQueries + 2 /\ Id \in SUBSET Nat
  /\ End \in Nat /\ NoError \in Nat /\ End \notin Id
BY PipelineAssumption DEF Id, End, NoError

LEMMA IdsAreFinite == IsFiniteSet(Id) /\ Cardinality(Id) = MaxQueries
<1>1. MaxQueries \in Nat /\ Id = 1 .. MaxQueries
  BY Ids
<1> QED
  BY <1>1, FS_Interval

LEMMA SuccIs ==
  ASSUME NEW s, s.queue \in SUBSET Id, NEW i \in Nat, i < End
  PROVE  /\ Succ(s, i) \in s.queue \cup {End} /\ Succ(s, i) > i
         /\ Succ(s, i) \in 1 .. End /\ Succ(s, i) \in Nat
         /\ \A j \in s.queue : j > i => Succ(s, i) <= j
<1> DEFINE next == {j \in s.queue : j > i} \cup {End}
           n == Min(next)
<1>1. next \in SUBSET Nat /\ next # {}
  BY Ids
<1>2. n \in next /\ \A y \in next : n <= y
  BY <1>1, LeastIs
<1>3. Succ(s, i) = n
  BY DEF Succ
<1>4. n \in s.queue \cup {End} /\ n > i /\ \A j \in s.queue : j > i => n <= j
  BY <1>2, Ids
<1>5. n \in 1 .. End
  BY <1>4, Ids
<1> QED
  BY <1>3, <1>4, <1>5

(* The next is known when it is found. *)
LEMMA SuccIsThis ==
  ASSUME NEW s, s.queue \in SUBSET Id, NEW i \in Nat, NEW n \in s.queue \cup {End}, n > i,
         \A j \in s.queue : j > i => n <= j
  PROVE  Succ(s, i) = n
<1>1. n \in Nat /\ i < End /\ n <= End
  BY Ids
<1> DEFINE m == Succ(s, i)
<1>2. m \in s.queue \cup {End} /\ m > i /\ m \in Nat /\ \A j \in s.queue : j > i => m <= j
  BY <1>1, SuccIs
<1>3. m <= n
  BY <1>1, <1>2, SuccIs, Ids
<1>4. n <= m
  BY <1>1, <1>2
<1> HIDE DEF m
<1>5. n = m
  BY <1>1, <1>2, <1>3, <1>4
<1> QED
  BY <1>5 DEF m

LEMMA BeginIs ==
  ASSUME NEW s, s.queue \in SUBSET Id
  PROVE  /\ Begin(s) \in s.queue \cup {End} /\ Begin(s) \in Nat
         /\ \A j \in s.queue : Begin(s) <= j
         /\ s.queue # {} => Begin(s) \in s.queue
<1> DEFINE all == s.queue \cup {End}
           b == Min(all)
<1>1. all \in SUBSET Nat /\ all # {}
  BY Ids
<1>2. b \in all /\ \A y \in all : b <= y
  BY <1>1, LeastIs
<1>3. Begin(s) = b
  BY DEF Begin
<1> HIDE DEF b
<1>4. ASSUME s.queue # {} PROVE b \in s.queue
  <2>1. PICK j \in s.queue : TRUE
    BY <1>4
  <2>2. b <= j /\ j \in Id
    BY <1>2, <2>1
  <2>3. b # End
    BY <2>2, Ids
  <2> QED
    BY <1>2, <2>3
<1> QED
  BY <1>1, <1>2, <1>3, <1>4

LEMMA BetweenIs ==
  ASSUME NEW s, s.queue \in SUBSET Id, NEW i, NEW j
  PROVE  /\ Between(s, i, j) \in SUBSET Id /\ IsFiniteSet(Between(s, i, j))
         /\ Cardinality(Between(s, i, j)) \in 0 .. MaxQueries
<1> DEFINE B == Between(s, i, j)
<1>1. B \in SUBSET Id
  BY DEF Between
<1> HIDE DEF B
<1>2. IsFiniteSet(B) /\ Cardinality(B) <= MaxQueries /\ Cardinality(B) \in Nat
  BY <1>1, IdsAreFinite, FS_Subset, FS_CardinalityType
<1>3. Cardinality(B) \in 0 .. MaxQueries
  BY <1>2, Ids
<1> QED
  BY <1>1, <1>2, <1>3 DEF B

(* Further iterators have fewer queries behind them. *)
LEMMA FewerBehind ==
  ASSUME NEW s, s.queue \in SUBSET Id, NEW i \in Nat, NEW j \in Nat, i <= j
  PROVE  Cardinality(Between(s, j, End)) <= Cardinality(Between(s, i, End))
<1>1. Between(s, j, End) \in SUBSET Between(s, i, End)
  BY Ids DEF Between
<1> QED
  BY <1>1, BetweenIs, FS_Subset

LEMMA CountedTo ==
  ASSUME NEW s, s.queue \in SUBSET Id, NEW i \in Nat, NEW j \in Nat, i <= j, j <= End
  PROVE  Cardinality(Between(s, i, End)) =
           Cardinality(Between(s, i, j)) + Cardinality(Between(s, j, End))
<1> DEFINE A == Between(s, i, j)
           B == Between(s, j, End)
<1>1. Between(s, i, End) = A \cup B /\ A \cap B = {}
  BY Ids DEF Between
<1>2. /\ IsFiniteSet(A) /\ IsFiniteSet(B)
      /\ Cardinality(A) \in Nat /\ Cardinality(B) \in Nat
  BY BetweenIs
<1> HIDE DEF A, B
<1>3. Cardinality(A \cup B) = Cardinality(A) + Cardinality(B) - Cardinality(A \cap B)
  BY <1>2, FS_Union
<1>4. Cardinality({}) = 0
  BY FS_EmptySet
<1>5. Cardinality(A \cap B) = 0
  BY <1>1, <1>4
<1>6. Cardinality(A \cup B) = Cardinality(A) + Cardinality(B)
  BY <1>2, <1>3, <1>5
<1> QED
  BY <1>1, <1>6 DEF A, B

LEMMA CountedNext ==
  ASSUME NEW s, s.queue \in SUBSET Id, NEW i \in s.queue
  PROVE  Cardinality(Between(s, i, End)) = Cardinality(Between(s, Succ(s, i), End)) + 1
<1>1. i \in Nat /\ i < End
  BY Ids
<1> DEFINE n == Succ(s, i)
           B == Between(s, n, End)
<1>2. n \in Nat /\ n > i /\ n <= End /\ \A j \in s.queue : j > i => n <= j
  BY <1>1, SuccIs
<1>3. Between(s, i, End) = B \cup {i} /\ i \notin B
  BY <1>1, <1>2, Ids DEF Between
<1>4. IsFiniteSet(B) /\ Cardinality(B) \in Nat
  BY BetweenIs
<1> HIDE DEF B
<1>5. Cardinality(B \cup {i}) = Cardinality(B) + 1
  BY <1>3, <1>4, FS_AddElement
<1> QED
  BY <1>3, <1>5 DEF B

(* Nothing but the queue matters to iterators. *)
LEMMA SameQueue ==
  ASSUME NEW s, NEW n, n.queue = s.queue
  PROVE  /\ \A i : Succ(n, i) = Succ(s, i)
         /\ \A i, j : Between(n, i, j) = Between(s, i, j)
         /\ Begin(n) = Begin(s)
  BY DEF Succ, Between, Begin


-----------------------------------------------------------------------------
(* States. *)
LEMMA StateIs ==
  ASSUME NEW s \in PipeState
  PROVE  /\ s.queue \in SUBSET Id /\ s.res \in [Id -> Answer]
         /\ s.first \in 1 .. End /\ s.second \in 1 .. End
         /\ s.first \in Nat /\ s.second \in Nat
         /\ s.retain \in 0 .. MaxRetain /\ s.waiting \in -MaxQueries .. MaxQueries
         /\ s.waiting \in Int /\ s.lastId \in 0 .. MaxQueries /\ s.lastId \in Nat
         /\ s.dummy \in BOOLEAN /\ s.error \in 0 .. NoError /\ s.error \in Nat
         /\ s.registered \in BOOLEAN /\ s.wire \in Seq(Answer)
         /\ s.block \in {"auto", "open", "failed"} /\ s.batch \in SUBSET Id
         /\ s.ran \in [Id -> Nat] /\ s.thrown \in BOOLEAN
<1>1. /\ s.queue \in SUBSET Id /\ s.res \in [Id -> Answer]
      /\ s.first \in 1 .. End /\ s.second \in 1 .. End
      /\ s.retain \in 0 .. MaxRetain /\ s.waiting \in -MaxQueries .. MaxQueries
      /\ s.lastId \in 0 .. MaxQueries
      /\ s.dummy \in BOOLEAN /\ s.error \in 0 .. NoError
      /\ s.registered \in BOOLEAN /\ s.wire \in Seq(Answer)
      /\ s.block \in {"auto", "open", "failed"} /\ s.batch \in SUBSET Id
      /\ s.ran \in [Id -> Nat] /\ s.thrown \in BOOLEAN
  BY DEF PipeState
<1>2. s.first \in Nat /\ s.second \in Nat
  BY <1>1, Ids
<1>3. s.waiting \in Int /\ s.lastId \in Nat /\ s.error \in Nat
  BY <1>1, Ids
<1> QED
  BY <1>1, <1>2, <1>3

LEMMA AnswerIs ==
  /\ None \in Answer /\ None.of = -1
  /\ \A of \in -1 .. MaxQueries, ok \in BOOLEAN :
       [of |-> of, ok |-> ok] \in Answer
  /\ \A a \in Answer : a.of \in -1 .. MaxQueries /\ a.of \in Int /\ a.ok \in BOOLEAN
  /\ \A a \in Answer : a.of # -1 => a # None
BY Ids DEF Answer, None

(* What a state that fits has for iterators. *)
LEMMA FitsIs ==
  ASSUME NEW s, PipeFits(s)
  PROVE  /\ s \in PipeState /\ s.queue \in SUBSET Id /\ s.queue \in SUBSET Nat
         /\ \A q \in s.queue : q \in Id /\ q \in Nat /\ q < End /\ q <= s.lastId
         /\ s.first \in s.queue \cup {End} /\ s.second \in s.queue \cup {End}
         /\ s.first \in Nat /\ s.second \in Nat /\ s.first <= s.second
         /\ s.second <= End /\ s.lastId \in Nat /\ s.lastId + 1 < NoError
         /\ \A q \in Pending(s) : q \in s.queue /\ s.first <= q /\ q < s.second
         /\ \A q \in s.queue : q \in Pending(s) <=> s.first <= q /\ q < s.second
<1>1. /\ s \in PipeState /\ s.queue \subseteq 1 .. s.lastId
      /\ {s.first, s.second} \subseteq s.queue \cup {End} /\ s.first <= s.second
  BY DEF PipeFits, QueueFits
<1>2. /\ s.first \in Nat /\ s.second \in 1 .. End /\ s.lastId \in 0 .. MaxQueries
      /\ s.queue \in SUBSET Id
  BY <1>1, StateIs
<1>3. \A q \in s.queue : q \in Id /\ q \in Nat /\ q < End /\ q <= s.lastId
  BY <1>1, <1>2, Ids
<1>4. s.second \in Nat /\ s.second <= End /\ s.lastId \in Nat /\ s.lastId + 1 < NoError
  BY <1>2, Ids
<1>5. /\ \A q \in Pending(s) : q \in s.queue /\ s.first <= q /\ q < s.second
      /\ \A q \in s.queue : q \in Pending(s) <=> s.first <= q /\ q < s.second
  BY DEF Pending, Between
<1> QED
  BY <1>1, <1>2, <1>3, <1>4, <1>5

LEMMA PendingIs ==
  ASSUME NEW s, PipeFits(s), HavePending(s)
  PROVE  /\ s.first \in s.queue /\ s.first < s.second /\ s.first \in Pending(s)
         /\ s.error = NoError /\ s.first < End /\ s.registered
         /\ s.waiting = Cardinality(Between(s, s.second, End))
         /\ \A q \in Unissued(s) \cup Pending(s) : s.res[q] = None
         /\ \A q \in Unissued(s) : s.ran[q] = 0
         /\ Succ(s, s.first) \in s.queue \cup {End} /\ Succ(s, s.first) > s.first
         /\ Succ(s, s.first) \in 1 .. End /\ Succ(s, s.first) \in Nat
         /\ Succ(s, s.first) <= s.second
         /\ \A q \in s.queue : q > s.first => Succ(s, s.first) <= q
<1>1. s.first < s.second /\ s.first < End
  BY FitsIs, Ids DEF HavePending
<1>2. s.first \in s.queue /\ s.first \in Pending(s)
  BY <1>1, FitsIs
<1>3. s.error = NoError
  BY DEF PipeFits, ErrorFits
<1>4. /\ Succ(s, s.first) \in s.queue \cup {End} /\ Succ(s, s.first) > s.first
      /\ Succ(s, s.first) \in 1 .. End /\ Succ(s, s.first) \in Nat
      /\ \A q \in s.queue : q > s.first => Succ(s, s.first) <= q
  BY <1>1, FitsIs, SuccIs
<1>5. Succ(s, s.first) <= s.second
  BY <1>1, <1>4, FitsIs, Ids
<1>6. s.registered /\ s.waiting = Cardinality(Between(s, s.second, End))
  BY <1>3 DEF PipeFits, QueueFits
<1>7. /\ \A q \in Unissued(s) \cup Pending(s) : s.res[q] = None
      /\ \A q \in Unissued(s) : s.ran[q] = 0
  BY <1>3 DEF PipeFits, ResultsFit
<1> QED
  BY <1>1, <1>2, <1>3, <1>4, <1>5, <1>6, <1>7

LEMMA UnissuedIs ==
  ASSUME NEW s, PipeFits(s)
  PROVE  /\ Unissued(s) \in SUBSET Id
         /\ \A q \in Unissued(s) : q >= s.second \/ q \notin s.queue
<1>1. \A q \in Unissued(s) : q \in Id /\ (q > s.lastId \/ q >= s.second)
  BY DEF Unissued
<1>2. s.lastId \in Nat /\ \A q \in s.queue : q \in Nat /\ q <= s.lastId
  BY FitsIs
<1>3. \A q \in Unissued(s) : q \in s.queue => q >= s.second
  BY <1>1, <1>2
<1> QED
  BY <1>1, <1>3

(* What the invariant of a state is about. *)
LEMMA SamePipe ==
  ASSUME NEW s, PipeFits(s), NEW n \in PipeState,
         n.queue = s.queue, n.res = s.res, n.first = s.first, n.second = s.second,
         n.waiting = s.waiting, n.lastId = s.lastId, n.dummy = s.dummy,
         n.error = s.error, n.registered = s.registered, n.wire = s.wire,
         n.block = s.block, n.ran = s.ran
  PROVE  PipeFits(n)
<1>1. /\ \A i : Succ(n, i) = Succ(s, i)
      /\ \A i, j : Between(n, i, j) = Between(s, i, j)
  BY SameQueue
<1>2. HavePending(n) = HavePending(s) /\ Pending(n) = Pending(s) /\ Unissued(n) = Unissued(s)
  BY <1>1 DEF HavePending, Pending, Unissued
<1>3. QueueFits(n)
  BY <1>1, <1>2 DEF PipeFits, QueueFits
<1>4. ErrorFits(n)
  BY <1>2 DEF PipeFits, ErrorFits
<1>5. ResultsFit(n)
  BY <1>2 DEF PipeFits, ResultsFit
<1>6. WireFits(n)
  BY <1>1, <1>2 DEF PipeFits, WireFits, DummyFits, AnswersFit
<1>7. ToldFits(n)
  BY DEF PipeFits, ToldFits
<1> QED
  BY <1>3, <1>4, <1>5, <1>6, <1>7 DEF PipeFits

(* Without pending queries the wire does not matter. *)
LEMMA SameIdlePipe ==
  ASSUME NEW s, PipeFits(s), ~HavePending(s), NEW n \in PipeState,
         n.queue = s.queue, n.res = s.res, n.first = s.first, n.second = s.second,
         n.waiting = s.waiting, n.lastId = s.lastId,
         n.registered = s.registered, n.block = s.block, n.ran = s.ran,
         n.error = s.error \/ (n.error <= Begin(s) /\ n.error <= s.lastId + 1)
  PROVE  PipeFits(n)
<1>1. /\ \A i : Succ(n, i) = Succ(s, i)
      /\ \A i, j : Between(n, i, j) = Between(s, i, j)
  BY SameQueue
<1>2. HavePending(n) = HavePending(s) /\ Pending(n) = Pending(s) /\ Unissued(n) = Unissued(s)
  BY <1>1 DEF HavePending, Pending, Unissued
<1>3. s \in PipeState /\ s.lastId + 1 < NoError
  BY StateIs, Ids DEF PipeFits
<1>4. n.error # NoError \/ s.error = n.error
  BY <1>3, StateIs, Ids
<1>5. QueueFits(n)
  BY <1>1, <1>2, <1>4 DEF PipeFits, QueueFits
<1>6. ErrorFits(n)
  <2>1. CASE n.error = s.error
    BY <1>2, <2>1 DEF PipeFits, ErrorFits
  <2>2. CASE n.error <= Begin(s) /\ n.error <= s.lastId + 1
    <3>1. \A q \in s.queue : q \in Nat /\ Begin(s) \in Nat /\ Begin(s) <= q
      BY <1>3, BeginIs, StateIs, Ids
    <3>2. \A q \in n.queue : ~(q < n.error)
      BY <2>2, <3>1, StateIs
    <3> QED
      BY <1>2, <2>2, <3>2 DEF ErrorFits
  <2> QED
    BY <2>1, <2>2
<1>7. ResultsFit(n)
  BY <1>2, <1>4 DEF PipeFits, ResultsFit
<1>8. WireFits(n)
  BY <1>2 DEF WireFits
<1>9. ToldFits(n)
  BY DEF PipeFits, ToldFits
<1> QED
  BY <1>5, <1>6, <1>7, <1>8, <1>9 DEF PipeFits

(* One result was taken from the wire for the oldest pending query. *)
LEMMA OneObtained ==
  ASSUME NEW s, PipeFits(s), HavePending(s), ~s.dummy, s.wire # << >>,
         NEW n \in PipeState,
         n.queue = s.queue, n.res = [s.res EXCEPT ![s.first] = Head(s.wire)],
         n.first = Succ(s, s.first), n.second = s.second,
         n.waiting = s.waiting, n.lastId = s.lastId, n.dummy = s.dummy,
         n.error = s.error, n.registered = s.registered, n.wire = Tail(s.wire),
         n.block = s.block, n.ran = s.ran
  PROVE  PipeFits(n) /\ (~HavePending(n) => n.wire = << >>)
<1>1. /\ \A i : Succ(n, i) = Succ(s, i)
      /\ \A i, j : Between(n, i, j) = Between(s, i, j)
  BY SameQueue
<1>2. /\ s \in PipeState /\ s.first < s.second /\ s.first \in s.queue
      /\ s.first \in Id /\ s.first \in Nat
  BY PendingIs, FitsIs
<1>3. /\ n.first \in s.queue \cup {End} /\ n.first > s.first
      /\ n.first \in Nat /\ \A q \in s.queue : q > s.first => n.first <= q
  BY PendingIs
<1>4. n.first <= n.second
  BY PendingIs
<1>5. s.error = NoError /\ n.error = NoError
  BY DEF PipeFits, ErrorFits
<1>6. Pending(n) = Pending(s) \ {s.first} /\ Unissued(n) = Unissued(s)
      /\ s.first \in Pending(s)
  <2>1. \A q \in s.queue : q \in Nat /\ (s.first < q <=> n.first <= q)
    BY <1>2, <1>3, FitsIs
  <2> QED
    BY <1>1, <1>2, <2>1, StateIs DEF Pending, Unissued, Between
<1>7. /\ Len(s.wire) \in Nat /\ Len(s.wire) >= 1 /\ Head(s.wire) = s.wire[1]
      /\ s.wire[1] \in Answer
      /\ Len(n.wire) = Len(s.wire) - 1 /\ \A i \in 1 .. Len(n.wire) : n.wire[i] = s.wire[i + 1]
  BY <1>2, StateIs
<1>8. /\ s.wire[1].of = s.first
      /\ \A i \in 1 .. Len(s.wire) :
           /\ s.wire[i].of \in Pending(s)
           /\ i < Len(s.wire) => s.wire[i + 1].of = Succ(s, s.wire[i].of)
           /\ s.block # "auto" /\ s.wire[i].ok => s.ran[s.wire[i].of] = 1
  BY <1>7 DEF PipeFits, WireFits, AnswersFit
<1>9. QueueFits(n)
  <2>1. HavePending(n) => HavePending(s)
    BY DEF HavePending
  <2> QED
    BY <1>1, <1>3, <1>4, <2>1 DEF PipeFits, QueueFits
<1>10. ErrorFits(n)
  BY <1>5 DEF ErrorFits
<1>11. n.res[s.first] = s.wire[1] /\ \A q \in Id : q # s.first => n.res[q] = s.res[q]
  BY <1>2, <1>7, StateIs
<1>12. ResultsFit(n)
  <2>1. n.res[s.first] # None
    BY <1>2, <1>7, <1>8, <1>11, AnswerIs, Ids
  <2>2. \A q \in s.queue : q \in Id /\ (q < n.first => q = s.first \/ q < s.first)
    <3>1. \A q \in s.queue : q \in Id /\ q \in Nat
      BY FitsIs
    <3> QED
      BY <1>2, <1>3, <3>1
  <2>3. \A q \in n.queue : q < n.first => n.res[q] # None
    BY <1>11, <2>1, <2>2 DEF PipeFits, ResultsFit
  <2>4. \A q \in Id : n.res[q] # None =>
          n.res[q].of = q \/ (n.res[q].of = 0 /\ ~n.res[q].ok)
    BY <1>8, <1>11 DEF PipeFits, ResultsFit
  <2>5. \A q \in Id :
          n.block # "auto" /\ n.res[q] # None /\ n.res[q].ok => n.ran[q] = 1
    <3>1. n.block # "auto" /\ n.res[s.first].ok => n.ran[s.first] = 1
      BY <1>7, <1>8, <1>11
    <3> QED
      BY <1>11, <2>2, <3>1 DEF PipeFits, ResultsFit
  <2>6. \A q \in Id : n.ran[q] <= 1
    BY DEF PipeFits, ResultsFit
  <2>7. /\ \A q \in Unissued(n) \cup Pending(n) : n.res[q] = None
        /\ \A q \in Unissued(n) : n.ran[q] = 0
    <3>1. ASSUME NEW q \in Unissued(n) \cup Pending(n) PROVE q \in Id /\ q # s.first
      <4>1. s.first <= s.lastId /\ s.lastId \in Nat /\ s.second \in Nat
        BY <1>2, FitsIs
      <4>2. CASE q \in Unissued(s)
        BY <1>2, <4>1, <4>2 DEF Unissued
      <4>3. CASE q \in Pending(s) \ {s.first}
        BY <4>3, FitsIs
      <4> QED
        BY <1>6, <4>2, <4>3
    <3> QED
      BY <1>5, <1>6, <1>11, <3>1 DEF PipeFits, ResultsFit
  <2> QED
    BY <2>3, <2>4, <2>5, <2>6, <2>7 DEF ResultsFit
<1>13. ASSUME NEW i \in 1 .. Len(n.wire)
       PROVE  /\ n.wire[i].of \in Pending(n)
              /\ i < Len(n.wire) => n.wire[i + 1].of = Succ(n, n.wire[i].of)
              /\ n.block # "auto" /\ n.wire[i].ok => n.ran[n.wire[i].of] = 1
  <2>1. i \in 1 .. Len(s.wire) /\ i + 1 \in 1 .. Len(s.wire) /\ i < Len(s.wire)
        /\ (i < Len(n.wire) => i + 1 < Len(s.wire) /\ i + 1 \in 1 .. Len(n.wire))
        /\ n.wire[i] = s.wire[i + 1]
    BY <1>7
  <2>2. s.wire[i].of \in Id /\ s.wire[i].of >= s.first /\ s.wire[i].of \in Nat
        /\ s.wire[i].of < End
    BY <1>8, <2>1, FitsIs
  <2>3. Succ(s, s.wire[i].of) > s.wire[i].of
    BY <1>2, <2>2, SuccIs, StateIs
  <2>4. n.wire[i].of \in Pending(s) /\ n.wire[i].of > s.wire[i].of
    BY <1>8, <2>1, <2>3
  <2>5. n.wire[i].of # s.first
    BY <1>2, <2>2, <2>4, FitsIs
  <2>6. i < Len(n.wire) => n.wire[i + 1].of = Succ(n, n.wire[i].of)
    BY <1>1, <1>7, <1>8, <2>1
  <2>7. n.block # "auto" /\ n.wire[i].ok => n.ran[n.wire[i].of] = 1
    BY <1>8, <2>1
  <2> QED
    BY <1>6, <2>4, <2>5, <2>6, <2>7
<1>14. 1 <= Len(n.wire) => n.wire[1].of = n.first
  BY <1>7, <1>8
<1>15. WireFits(n)
  BY <1>13, <1>14 DEF WireFits, DummyFits, AnswersFit
<1>16. ToldFits(n)
  BY DEF PipeFits, ToldFits
<1>17. ASSUME n.wire # << >> PROVE HavePending(n)
  <2>1. 1 \in 1 .. Len(n.wire)
    BY <1>7, <1>17, StateIs
  <2>2. n.wire[1].of = n.first /\ n.wire[1].of \in Pending(n)
    BY <1>13, <1>14, <2>1
  <2>3. n.first < n.second
    BY <1>3, <2>2, StateIs DEF Pending, Between
  <2> QED
    BY <1>3, <2>3 DEF HavePending
<1> QED
  BY <1>9, <1>10, <1>12, <1>15, <1>16, <1>17 DEF PipeFits

-----------------------------------------------------------------------------
(* Receiving: what obtain_result and its loops come to. *)
Fresh(s) == HavePending(s) \/ s.wire = << >>

Receivable(s) == PipeFits(s) /\ ~s.dummy /\ Fresh(s)

Later(n, s) ==
  /\ n.queue = s.queue /\ n.lastId = s.lastId
  /\ n.error = NoError =>
       /\ s.error = NoError /\ n.second = s.second /\ n.registered = s.registered
       /\ s.first <= n.first

LEMMA LaterStill ==
  ASSUME NEW s, PipeFits(s)
  PROVE  /\ Later(s, s)
         /\ \A n, m : PipeFits(n) /\ PipeFits(m) /\ Later(n, s) /\ Later(m, n) => Later(m, s)
<1>1. Later(s, s)
  BY FitsIs DEF Later
<1>2. ASSUME NEW n, NEW m, PipeFits(n), PipeFits(m), Later(n, s), Later(m, n)
      PROVE  Later(m, s)
  <2>1. s.first \in Nat /\ n.first \in Nat /\ m.first \in Nat
    BY <1>2, FitsIs
  <2> QED
    BY <1>2, <2>1 DEF Later
<1> QED
  BY <1>1, <1>2

(* The results ended before the queries did. *)
LEMMA NoneObtained ==
  ASSUME NEW s, PipeFits(s), HavePending(s), NEW n \in PipeState,
         n.queue = s.queue, n.res = s.res,
         n.first = s.first, n.second = s.first, n.error = s.first,
         n.waiting = s.waiting, n.lastId = s.lastId,
         n.registered = s.registered, n.block = s.block, n.ran = s.ran
  PROVE  PipeFits(n)
<1>1. /\ \A i : Succ(n, i) = Succ(s, i)
      /\ \A i, j : Between(n, i, j) = Between(s, i, j)
  BY SameQueue
<1>2. ~HavePending(n) /\ n.error # NoError
  BY PendingIs, Ids DEF HavePending
<1>3. s.waiting \in 0 .. Cardinality(Between(s, s.first, End))
  <2>1. Cardinality(Between(s, s.second, End)) <= Cardinality(Between(s, s.first, End))
    BY FitsIs, FewerBehind
  <2>2. Cardinality(Between(s, s.second, End)) \in Nat
        /\ Cardinality(Between(s, s.first, End)) \in Nat
    BY FitsIs, BetweenIs
  <2> QED
    BY <2>1, <2>2, PendingIs
<1>4. QueueFits(n)
  BY <1>1, <1>2, <1>3, FitsIs DEF PipeFits, QueueFits
<1>5. ErrorFits(n)
  <2>1. s.first <= s.lastId + 1
    BY FitsIs, PendingIs
  <2> QED
    BY <1>2, <2>1 DEF ErrorFits
<1>6. ResultsFit(n)
  BY <1>2 DEF PipeFits, ResultsFit
<1>7. WireFits(n)
  BY <1>2 DEF WireFits
<1>8. ToldFits(n)
  BY DEF PipeFits, ToldFits
<1> QED
  BY <1>4, <1>5, <1>6, <1>7, <1>8 DEF PipeFits

LEMMA ErrorIs ==
  ASSUME NEW e \in Nat, NEW q \in Nat
  PROVE  /\ Min({e, q}) \in {e, q} /\ Min({e, q}) <= e /\ Min({e, q}) <= q
         /\ q <= e => Min({e, q}) = q
<1>1. {e, q} \in SUBSET Nat /\ {e, q} # {}
  OBVIOUS
<1>2. Min({e, q}) \in {e, q} /\ Min({e, q}) <= e /\ Min({e, q}) <= q
  BY <1>1, LeastIs
<1>3. ASSUME q <= e PROVE Min({e, q}) = q
  BY <1>1, <1>3, LeastIsThis
<1> QED
  BY <1>2, <1>3

LEMMA ObtainIs ==
  ASSUME NEW s, Receivable(s), NEW n, n = ObtainResult(s, FALSE)
  PROVE  /\ Receivable(n) /\ Later(n, s) /\ n.thrown = s.thrown
         /\ Obtained(s) => /\ HavePending(s) /\ n.first = Succ(s, s.first)
                           /\ n.second = s.second
                           /\ n.error = NoError /\ Len(n.wire) = Len(s.wire) - 1
         /\ ~Obtained(s) /\ HavePending(s) => n.error # NoError
         /\ ~HavePending(s) => n = s
<1>1. PipeFits(s) /\ ~s.dummy /\ Fresh(s) /\ s \in PipeState
  BY FitsIs DEF Receivable
<1>2. CASE ~HavePending(s)
  <2>1. n = s
    BY <1>1, <1>2 DEF ObtainResult, Fresh
  <2> QED
    BY <1>2, <2>1, <1>1, LaterStill DEF Obtained
<1>3. CASE HavePending(s) /\ s.wire = << >>
  <2>1. n = [SetErrorAt(s, s.first) EXCEPT !.second = s.first]
    <3>1. KeyOf(s, s.first) = s.first
      BY <1>1, <1>3, PendingIs, FitsIs, Ids DEF KeyOf
    <3> QED
      BY <1>3, <3>1 DEF ObtainResult
  <2>2. s.first <= NoError /\ s.error = NoError
    BY <1>1, <1>3, PendingIs, FitsIs, Ids
  <2>3. Min({s.error, s.first}) = s.first
    BY <1>1, <2>2, ErrorIs, FitsIs, Ids
  <2>4. n = [s EXCEPT !.error = s.first, !.second = s.first]
    BY <2>1, <2>3 DEF SetErrorAt
  <2>5. s.first \in 0 .. NoError /\ s.first \in 1 .. End
    BY <1>1, <2>2, StateIs, Ids
  <2>6. n \in PipeState
    BY <1>1, <2>4, <2>5, ZenonT(60) DEF PipeState
  <2>7. /\ n.queue = s.queue /\ n.res = s.res
        /\ n.first = s.first /\ n.second = s.first /\ n.error = s.first
        /\ n.waiting = s.waiting /\ n.lastId = s.lastId
        /\ n.registered = s.registered /\ n.block = s.block /\ n.ran = s.ran
        /\ n.wire = s.wire /\ n.dummy = s.dummy /\ n.thrown = s.thrown
    BY <1>1, <2>4 DEF PipeState
  <2>8. PipeFits(n)
    BY <1>1, <1>3, <2>6, <2>7, NoneObtained
  <2>9. n.error # NoError
    <3>1. s.first \in Nat /\ s.first < End
      BY <1>1, <1>3, PendingIs, FitsIs
    <3>2. s.first # NoError
      BY <3>1, Ids
    <3> QED
      BY <2>7, <3>2
  <2> QED
    BY <1>1, <1>3, <2>7, <2>8, <2>9 DEF Receivable, Fresh, Later, Obtained
<1>4. CASE HavePending(s) /\ s.wire # << >>
  <2>1. s.res[s.first] = None
    BY <1>1, <1>4, PendingIs
  <2>2. n = [GotResult(s) EXCEPT !.res[s.first] = Head(s.wire), !.first = Succ(s, s.first)]
    BY <1>4, <2>1 DEF ObtainResult, NextResult
  <2>3. /\ Head(s.wire) \in Answer /\ Tail(s.wire) \in Seq(Answer)
        /\ Len(Tail(s.wire)) = Len(s.wire) - 1
    BY <1>1, <1>4, StateIs
  <2>4. s.first \in Id
    BY <1>1, <1>4, PendingIs, FitsIs
  <2> DEFINE res == [s.res EXCEPT ![s.first] = Head(s.wire)]
  <2>5. res \in [Id -> Answer]
    BY <1>1, <2>3, <2>4, StateIs
  <2>6. n = [s EXCEPT !.res = res, !.first = Succ(s, s.first), !.wire = Tail(s.wire)]
    BY <1>1, <1>4, <2>2 DEF PipeState, GotResult
  <2> HIDE DEF res
  <2>7. n \in PipeState
    <3>1. Succ(s, s.first) \in 1 .. End
      BY <1>1, <1>4, PendingIs
    <3> QED
      BY <1>1, <2>3, <2>5, <2>6, <3>1, ZenonT(60) DEF PipeState
  <2>8. /\ n.queue = s.queue /\ n.res = res
        /\ n.first = Succ(s, s.first) /\ n.second = s.second
        /\ n.waiting = s.waiting /\ n.lastId = s.lastId /\ n.dummy = s.dummy
        /\ n.error = s.error /\ n.registered = s.registered /\ n.wire = Tail(s.wire)
        /\ n.block = s.block /\ n.ran = s.ran /\ n.thrown = s.thrown
    BY <1>1, <2>6 DEF PipeState
  <2>9. PipeFits(n) /\ (~HavePending(n) => n.wire = << >>)
    BY <1>1, <1>4, <2>7, <2>8, OneObtained, ZenonT(60) DEF res
  <2>10. Obtained(s)
    BY <1>4, <2>1 DEF Obtained
  <2>11. s.first <= n.first /\ n.error = NoError /\ s.error = NoError
    <3>1. s.first \in Nat /\ s.error = NoError /\ Succ(s, s.first) > s.first
          /\ Succ(s, s.first) \in Nat
      BY <1>1, <1>4, PendingIs, FitsIs
    <3>2. s.first <= Succ(s, s.first)
      BY <3>1
    <3> QED
      BY <2>8, <3>1, <3>2
  <2> QED
    BY <1>1, <1>4, <2>3, <2>8, <2>9, <2>10, <2>11 DEF Receivable, Fresh, Later
<1> QED
  BY <1>2, <1>3, <1>4

(* get_further_available_results *)
LEMMA FurtherIs ==
  ASSUME NEW s, Receivable(s), NEW m \in FurtherResults(s)
  PROVE  Receivable(m) /\ Later(m, s) /\ m.thrown = s.thrown
<1> DEFINE S == {t \in PipeState : Receivable(t) /\ Later(t, s) /\ t.thrown = s.thrown}
           next(t) == ObtainResult(t, FALSE)
           F == [t \in S |-> IF Obtained(t) THEN next(t) ELSE t]
           Fits(f) == f = [n \in Nat |->
                             IF n = 0 THEN s
                             ELSE IF Obtained(f[n - 1]) THEN next(f[n - 1]) ELSE f[n - 1]]
           got == CHOOSE f : Fits(f)
<1>1. FurtherResults(s) = {got[n] : n \in 0 .. Len(s.wire)} \cup {next(got[Len(s.wire)])}
  BY DEF FurtherResults
<1>2. PipeFits(s) /\ Len(s.wire) \in Nat
  BY FitsIs, StateIs DEF Receivable
<1>3. s \in S
  BY <1>2, LaterStill, FitsIs
<1>4. ASSUME NEW t \in S PROVE next(t) \in S
  <2>1. Receivable(next(t)) /\ Later(next(t), t) /\ next(t).thrown = t.thrown
    BY ObtainIs
  <2> HIDE DEF next
  <2>2. PipeFits(next(t)) /\ PipeFits(t) /\ next(t) \in PipeState
    BY <2>1, FitsIs DEF Receivable
  <2> QED
    BY <1>2, <2>1, <2>2, LaterStill
<1> HIDE DEF next, S
<1>5. F \in [S -> S] /\ \A t \in S : F[t] = IF Obtained(t) THEN next(t) ELSE t
  BY <1>4
<1> HIDE DEF F
<1>6. PICK g \in [Nat -> S] : g[0] = s /\ \A n \in Nat : g[n + 1] = F[g[n]]
  BY <1>3, <1>5, RepeatedSteps
<1>7. Fits(g)
  <2>1. ASSUME NEW n \in Nat
        PROVE  g[n] = IF n = 0 THEN s
                      ELSE IF Obtained(g[n - 1]) THEN next(g[n - 1]) ELSE g[n - 1]
    <3>1. CASE n # 0
      <4>1. n - 1 \in Nat /\ n - 1 + 1 = n
        BY <3>1
      <4> QED
        BY <1>5, <1>6, <3>1, <4>1
    <3> QED
      BY <1>6, <3>1
  <2>2. g = [n \in Nat |-> g[n]]
    OBVIOUS
  <2> QED
    BY <2>1, <2>2
<1>8. Fits(got)
  <2> HIDE DEF Fits
  <2> QED
    BY <1>7
<1> HIDE DEF got
<1>9. /\ got[0] = s
      /\ \A n \in Nat : got[n + 1] = IF Obtained(got[n]) THEN next(got[n]) ELSE got[n]
  <2>1. got[0] = s
    BY <1>8
  <2>2. ASSUME NEW n \in Nat
        PROVE  got[n + 1] = IF Obtained(got[n]) THEN next(got[n]) ELSE got[n]
    <3>1. n + 1 \in Nat /\ n + 1 # 0 /\ n + 1 - 1 = n
      OBVIOUS
    <3> QED
      BY <1>8, <3>1
  <2> QED
    BY <2>1, <2>2
<1> HIDE DEF Fits
<1> DEFINE well == {n \in Nat : got[n] \in S}
<1>10. Nat \subseteq well
  <2>1. 0 \in well
    BY <1>3, <1>9
  <2>2. ASSUME NEW n \in Nat, n \in well PROVE n + 1 \in well
    BY <1>4, <1>9, <2>2
  <2> HIDE DEF well
  <2> QED
    BY <2>1, <2>2, AllNumbers
<1>11. m \in S
  <2>1. \A n \in Nat : got[n] \in S
    BY <1>10
  <2>2. CASE \E n \in 0 .. Len(s.wire) : m = got[n]
    BY <2>1, <2>2
  <2>3. CASE m = next(got[Len(s.wire)])
    BY <1>2, <1>4, <2>1, <2>3
  <2> QED
    BY <1>1, <2>2, <2>3
<1> QED
  BY <1>11 DEF S

(* The loop of receive comes to the place it was told, or to an error.       *)
Ahead(s, stop) ==
  /\ stop \in s.queue \cup {End}
  /\ s.error = NoError => s.first < stop /\ stop <= s.second

LEMMA UpToIs ==
  ASSUME NEW s, Receivable(s), NEW stop, Ahead(s, stop),
         NEW m, m = ObtainUpTo(s, stop)
  PROVE  /\ Receivable(m) /\ Later(m, s) /\ m.thrown = s.thrown
         /\ m.error = NoError => m.first = stop
<1> DEFINE S == {t \in PipeState : /\ Receivable(t) /\ Later(t, s) /\ t.thrown = s.thrown
                                   /\ t.error = NoError => t.first < stop}
           next(t) == ObtainResult(t, FALSE)
           more(t) == Obtained(t) /\ next(t).first # stop
           F == [t \in S |-> IF more(t) THEN next(t) ELSE t]
           Fits(f) == f = [n \in Nat |->
                             IF n = 0 THEN s
                             ELSE IF Obtained(f[n - 1]) /\ next(f[n - 1]).first # stop
                                    THEN next(f[n - 1]) ELSE f[n - 1]]
           got == CHOOSE f : Fits(f)
<1>1. m = next(got[Len(s.wire)])
  BY DEF ObtainUpTo
<1>2. PipeFits(s) /\ Len(s.wire) \in Nat /\ stop \in Nat /\ stop <= End
  BY FitsIs, StateIs, Ids DEF Receivable, Ahead
<1>3. s \in S
  BY <1>2, LaterStill, FitsIs DEF Ahead
<1>4. ASSUME NEW t \in S
      PROVE  /\ Receivable(next(t)) /\ Later(next(t), t) /\ next(t).thrown = t.thrown
             /\ next(t) \in PipeState /\ Later(next(t), s)
             /\ Obtained(t) => /\ HavePending(t) /\ t.error = NoError
                               /\ Len(next(t).wire) = Len(t.wire) - 1
                               /\ next(t).first \in Nat /\ next(t).first <= stop
             /\ ~Obtained(t) => next(t).error # NoError
  <2>1. /\ Receivable(t) /\ Later(t, s) /\ t.thrown = s.thrown
        /\ t.error = NoError => t.first < stop
    OBVIOUS
  <2>2. /\ Receivable(next(t)) /\ Later(next(t), t) /\ next(t).thrown = t.thrown
        /\ Obtained(t) => /\ HavePending(t) /\ next(t).first = Succ(t, t.first)
                          /\ next(t).error = NoError
                          /\ Len(next(t).wire) = Len(t.wire) - 1
        /\ ~Obtained(t) /\ HavePending(t) => next(t).error # NoError
        /\ ~HavePending(t) => next(t) = t
    BY <2>1, ObtainIs
  <2> HIDE DEF next
  <2>3. PipeFits(next(t)) /\ PipeFits(t) /\ next(t) \in PipeState
    BY <2>1, <2>2, FitsIs DEF Receivable
  <2>4. Later(next(t), s)
    BY <1>2, <2>1, <2>2, <2>3, LaterStill
  <2>5. t.queue = s.queue /\ (t.error = NoError => s.error = NoError /\ t.second = s.second)
    BY <2>1 DEF Later
  <2>6. ASSUME Obtained(t)
        PROVE  t.error = NoError /\ next(t).first \in Nat /\ next(t).first <= stop
    <3>1. /\ HavePending(t) /\ next(t).first = Succ(t, t.first)
          /\ t.error = NoError /\ t.first < stop /\ stop \in t.queue \cup {End}
      BY <2>1, <2>2, <2>3, <2>5, <2>6, PendingIs DEF Ahead
    <3>2. /\ Succ(t, t.first) \in Nat /\ Succ(t, t.first) <= End
          /\ \A q \in t.queue : q > t.first => Succ(t, t.first) <= q
      BY <2>3, <3>1, PendingIs, Ids
    <3> QED
      BY <3>1, <3>2
  <2>7. ASSUME ~Obtained(t) PROVE next(t).error # NoError
    <3>1. CASE HavePending(t)
      BY <2>2, <2>7, <3>1
    <3>2. CASE ~HavePending(t) /\ t.error = NoError
      <4>1. t.first < stop /\ stop <= t.second /\ t.first = t.second
        BY <2>1, <2>5, <3>2 DEF HavePending, Ahead
      <4> QED
        BY <1>2, <2>3, <4>1, FitsIs
    <3>3. CASE ~HavePending(t) /\ t.error # NoError
      BY <2>2, <3>3
    <3> QED
      BY <3>1, <3>2, <3>3
  <2> QED
    BY <2>2, <2>3, <2>4, <2>6, <2>7
<1>5. ASSUME NEW t \in S, more(t) PROVE next(t) \in S
  <2>1. next(t).first < stop /\ next(t).thrown = s.thrown
    <3> HIDE DEF next
    <3> QED
      BY <1>2, <1>4, <1>5
  <2> HIDE DEF next
  <2> QED
    BY <1>4, <1>5, <2>1
<1>6. ASSUME NEW t \in S PROVE Len(t.wire) \in Nat
  BY StateIs
<1>7. ASSUME NEW t \in S, Len(t.wire) = 0 PROVE ~more(t)
  <2>1. t.wire = << >>
    BY <1>7, StateIs
  <2> QED
    BY <2>1 DEF Obtained
<1> HIDE DEF next, S, more
<1>8. F \in [S -> S]
  BY <1>5
<1>81. \A t \in S : F[t] = IF more(t) THEN next(t) ELSE t
  OBVIOUS
<1> HIDE DEF F
<1>9. PICK g \in [Nat -> S] : g[0] = s /\ \A n \in Nat : g[n + 1] = F[g[n]]
  BY <1>3, <1>8, RepeatedSteps
<1>10. Fits(g)
  <2>1. ASSUME NEW n \in Nat
        PROVE  g[n] = IF n = 0 THEN s
                      ELSE IF more(g[n - 1]) THEN next(g[n - 1]) ELSE g[n - 1]
    <3>1. CASE n # 0
      <4>1. n - 1 \in Nat /\ n - 1 + 1 = n
        BY <3>1
      <4> QED
        BY <1>81, <1>9, <3>1, <4>1
    <3> QED
      BY <1>9, <3>1
  <2>2. g = [n \in Nat |-> g[n]]
    OBVIOUS
  <2> QED
    BY <2>1, <2>2 DEF more
<1>11. Fits(got)
  <2> HIDE DEF Fits
  <2> QED
    BY <1>10
<1> HIDE DEF got
<1>12. /\ got[0] = s
       /\ \A n \in Nat : got[n + 1] = IF more(got[n]) THEN next(got[n]) ELSE got[n]
  <2>1. got[0] = s
    BY <1>11
  <2>2. ASSUME NEW n \in Nat
        PROVE  got[n + 1] = IF more(got[n]) THEN next(got[n]) ELSE got[n]
    <3>1. n + 1 \in Nat /\ n + 1 # 0 /\ n + 1 - 1 = n
      OBVIOUS
    <3> QED
      BY <1>11, <3>1 DEF more
  <2> QED
    BY <2>1, <2>2
<1> HIDE DEF Fits, more
<1> DEFINE left(t) == Len(t.wire)
           all == left(s)
           well == {n \in Nat : got[n] \in S /\ (more(got[n]) => left(got[n]) + n = all)}
<1>13. /\ all \in Nat /\ all = Len(s.wire)
  BY <1>2
<1>19. ASSUME NEW u \in S
       PROVE  left(u) \in Nat /\ (left(u) = 0 => ~more(u))
  BY <1>6, <1>7
<1>20. ASSUME NEW u \in S, more(u)
       PROVE  next(u) \in S /\ left(next(u)) = left(u) - 1
  <2>1. Obtained(u)
    BY <1>20 DEF more
  <2> QED
    BY <1>4, <1>5, <1>20, <2>1
<1> HIDE DEF left, all
<1>14. Nat \subseteq well
  <2>1. 0 \in well
    <3>1. left(s) + 0 = all
      BY <1>13 DEF all
    <3> QED
      BY <1>3, <1>12, <3>1
  <2>2. ASSUME NEW n \in Nat, n \in well PROVE n + 1 \in well
    <3>1. CASE more(got[n])
      <4>1. got[n + 1] = next(got[n]) /\ got[n] \in S /\ left(got[n]) + n = all
        BY <1>12, <2>2, <3>1
      <4>2. got[n + 1] \in S /\ left(got[n + 1]) = left(got[n]) - 1 /\ left(got[n]) \in Nat
        BY <1>19, <1>20, <3>1, <4>1
      <4>3. left(got[n + 1]) + (n + 1) = all
        BY <1>13, <4>1, <4>2
      <4> QED
        BY <4>2, <4>3
    <3>2. CASE ~more(got[n])
      <4>1. got[n + 1] = got[n] /\ got[n] \in S
        BY <1>12, <2>2, <3>2
      <4> QED
        BY <3>2, <4>1
    <3> QED
      BY <3>1, <3>2
  <2> HIDE DEF well
  <2> QED
    BY <2>1, <2>2, AllNumbers
<1> DEFINE t == got[all]
<1>15. t \in S /\ (more(t) => left(t) + all = all)
  BY <1>13, <1>14
<1> HIDE DEF t
<1>16. ~more(t)
  <2>1. left(t) \in Nat /\ all \in Nat /\ (left(t) = 0 => ~more(t))
    BY <1>13, <1>15, <1>19
  <2>2. left(t) + all = all => left(t) = 0
    BY <2>1
  <2> QED
    BY <1>15, <2>1, <2>2
<1>17. m = next(t)
  BY <1>1, <1>13 DEF t
<1>18. t.thrown = s.thrown
  BY <1>15 DEF S
<1> QED
  BY <1>4, <1>15, <1>16, <1>17, <1>18 DEF more

-----------------------------------------------------------------------------
(* The server. *)
LEMMA OrderedIs ==
  ASSUME NEW T \in SUBSET Id, NEW f, f = Ordered(T)
  PROVE  /\ f \in Seq(T) /\ Rising(f) /\ Len(f) \in Nat /\ DOMAIN f = 1 .. Len(f)
         /\ \A i \in 1 .. Len(f) : f[i] \in T
         /\ \A x \in T : \E i \in 1 .. Len(f) : f[i] = x
<1>1. \E g \in SetToSeqs(T) : Rising(g)
  BY Ids, RisingExists
<1>2. f \in SetToSeqs(T) /\ Rising(f)
  <2>1. f = CHOOSE g \in SetToSeqs(T) : Rising(g)
    BY DEF Ordered, Rising
  <2> HIDE DEF Rising
  <2> QED
    BY <1>1, <2>1
<1>3. IsFiniteSet(T)
  BY IdsAreFinite, FS_Subset
<1>4. f \in Seq(T) /\ \A x \in T : \E i \in DOMAIN f : f[i] = x
  BY <1>2, <1>3, ListedSets
<1>5. Len(f) \in Nat /\ DOMAIN f = 1 .. Len(f) /\ \A i \in 1 .. Len(f) : f[i] \in T
  BY <1>4
<1> QED
  BY <1>2, <1>4, <1>5

(* Rising lists go through the queue from one iterator to another. *)
LEMMA OrderedBetween ==
  ASSUME NEW s, s.queue \in SUBSET Id, NEW i \in Nat, NEW j \in s.queue \cup {End},
         NEW f, f = Ordered(Between(s, i, j))
  PROVE  /\ \A k \in 1 .. Len(f) : k < Len(f) => f[k + 1] = Succ(s, f[k])
         /\ Len(f) >= 1 => Succ(s, f[Len(f)]) = j
         /\ i \in Between(s, i, j) => Len(f) >= 1 /\ f[1] = i
<1> DEFINE T == Between(s, i, j)
<1>1. T \in SUBSET Id /\ T \in SUBSET Nat /\ j \in Nat
  BY BetweenIs, Ids
<1>2. \A q \in s.queue : q \in T <=> i <= q /\ q < j
  BY DEF Between
<1>3. \A q \in T : q \in s.queue /\ i <= q /\ q < j
  BY DEF Between
<1>4. \A q \in s.queue : q \in Nat
  BY Ids
<1>5. f = Ordered(T)
  OBVIOUS
<1> HIDE DEF T
<1>6. /\ Len(f) \in Nat /\ DOMAIN f = 1 .. Len(f) /\ Rising(f)
      /\ \A k \in 1 .. Len(f) : f[k] \in T
      /\ \A x \in T : \E k \in 1 .. Len(f) : f[k] = x
  <2>1. T \in SUBSET Id
    BY <1>1
  <2> QED
    BY <1>5, <2>1, OrderedIs, SMTT(60)
<1>7. \A k, m \in 1 .. Len(f) : k < m => f[k] < f[m]
  BY <1>6 DEF Rising
<1>8. \A k \in 1 .. Len(f) : f[k] \in Nat /\ k \in Nat
  <2>1. \A k \in 1 .. Len(f) : k \in Nat
    BY <1>6
  <2> QED
    BY <1>1, <1>6, <2>1
<1>9. ASSUME NEW k \in 1 .. Len(f), NEW m \in 1 .. Len(f), f[k] < f[m]
      PROVE  k < m
  <2>1. ~(m < k) /\ m # k
    BY <1>7, <1>8, <1>9
  <2> QED
    BY <1>8, <2>1
<1>10. ASSUME NEW k \in 1 .. Len(f), k < Len(f)
       PROVE  f[k + 1] = Succ(s, f[k])
  <2>1. k + 1 \in 1 .. Len(f)
    BY <1>6, <1>10
  <2>2. f[k] \in Nat /\ f[k + 1] \in s.queue /\ f[k + 1] > f[k] /\ f[k + 1] < j
        /\ i <= f[k] /\ f[k + 1] \in Nat
    BY <1>3, <1>6, <1>7, <1>8, <2>1
  <2>3. ASSUME NEW q \in s.queue, q > f[k]
        PROVE  f[k + 1] <= q
    <3>1. CASE q < j
      <4>1. q \in T
        BY <1>2, <1>4, <2>2, <2>3, <3>1
      <4>2. PICK m \in 1 .. Len(f) : f[m] = q
        BY <1>6, <4>1
      <4>3. k < m
        BY <1>9, <2>3, <4>2
      <4>4. m = k + 1 \/ k + 1 < m
        BY <1>8, <4>3
      <4> QED
        BY <1>4, <1>7, <2>1, <2>2, <4>2, <4>4
    <3>2. CASE ~(q < j)
      BY <1>1, <1>4, <2>2, <3>2
    <3> QED
      BY <3>1, <3>2
  <2> QED
    BY <2>2, <2>3, SuccIsThis
<1>11. ASSUME Len(f) >= 1
       PROVE  Succ(s, f[Len(f)]) = j
  <2> DEFINE l == f[Len(f)]
  <2>1. Len(f) \in 1 .. Len(f)
    BY <1>6, <1>11
  <2>2. l \in Nat /\ l \in T /\ l < j /\ i <= l
    BY <1>3, <1>6, <1>8, <2>1
  <2>3. ASSUME NEW q \in s.queue, q > l
        PROVE  j <= q
    <3>1. ASSUME q < j PROVE FALSE
      <4>1. q \in T
        BY <1>2, <1>4, <2>2, <2>3, <3>1
      <4>2. PICK m \in 1 .. Len(f) : f[m] = q
        BY <1>6, <4>1
      <4>3. Len(f) < m
        BY <1>9, <2>1, <2>3, <4>2
      <4> QED
        BY <1>6, <4>3
    <3> QED
      BY <1>1, <1>4, <3>1
  <2> HIDE DEF l
  <2>4. Succ(s, l) = j
    BY <2>2, <2>3, SuccIsThis
  <2> QED
    BY <2>4 DEF l
<1>12. ASSUME i \in T
       PROVE  Len(f) >= 1 /\ f[1] = i
  <2>1. PICK m \in 1 .. Len(f) : f[m] = i
    BY <1>6, <1>12
  <2>2. Len(f) >= 1 /\ 1 \in 1 .. Len(f)
    BY <1>6
  <2>3. f[1] \in Nat /\ i <= f[1]
    BY <1>3, <1>6, <1>8, <2>2
  <2>4. m = 1 \/ 1 < m
    OBVIOUS
  <2>5. m = 1
    BY <1>7, <2>1, <2>2, <2>3, <2>4
  <2> QED
    BY <2>1, <2>2, <2>5
<1> QED
  BY <1>10, <1>11, <1>12 DEF T

(* What the server and libpq leave alone. *)
SameProgram(x, s) ==
  /\ x.queue = s.queue /\ x.res = s.res /\ x.first = s.first /\ x.second = s.second
  /\ x.retain = s.retain /\ x.waiting = s.waiting /\ x.lastId = s.lastId
  /\ x.dummy = s.dummy /\ x.error = s.error /\ x.registered = s.registered
  /\ x.batch = s.batch /\ x.thrown = s.thrown

Good(ids) == [i \in DOMAIN Ordered(ids) |-> [of |-> Ordered(ids)[i], ok |-> TRUE]]

DummyFirst(dummy) == IF dummy THEN <<[of |-> 0, ok |-> TRUE]>> ELSE << >>

LEMMA GoodIs ==
  ASSUME NEW ids \in SUBSET Id, NEW dummy \in BOOLEAN
  PROVE  /\ Good(ids) \in Seq(Answer) /\ Len(Good(ids)) = Len(Ordered(ids))
         /\ \A i \in 1 .. Len(Good(ids)) :
              Good(ids)[i] = [of |-> Ordered(ids)[i], ok |-> TRUE]
         /\ DummyFirst(dummy) \in Seq(Answer)
         /\ Len(DummyFirst(dummy)) = IF dummy THEN 1 ELSE 0
         /\ dummy => DummyFirst(dummy)[1] = [of |-> 0, ok |-> TRUE]
<1> DEFINE f == Ordered(ids)
<1>1. Len(f) \in Nat /\ DOMAIN f = 1 .. Len(f) /\ \A i \in 1 .. Len(f) : f[i] \in ids
  BY OrderedIs
<1> HIDE DEF f
<1>2. \A i \in 1 .. Len(f) : [of |-> f[i], ok |-> TRUE] \in Answer
  <2>1. \A n \in ids : n \in -1 .. MaxQueries
    BY Ids
  <2> QED
    BY <1>1, <2>1, AnswerIs
<1>3. Good(ids) = [i \in 1 .. Len(f) |-> [of |-> f[i], ok |-> TRUE]]
  BY <1>1 DEF Good, f
<1>4. Good(ids) \in Seq(Answer) /\ Len(Good(ids)) = Len(f)
  BY <1>1, <1>2, <1>3
<1>5. [of |-> 0, ok |-> TRUE] \in Answer
  BY Ids DEF Answer
<1>6. DummyFirst(dummy) \in Seq(Answer)
  BY <1>5 DEF DummyFirst
<1>7. /\ Len(DummyFirst(dummy)) = IF dummy THEN 1 ELSE 0
      /\ dummy => DummyFirst(dummy)[1] = [of |-> 0, ok |-> TRUE]
  BY DEF DummyFirst
<1> QED
  BY <1>1, <1>3, <1>4, <1>6, <1>7 DEF f

Counted(s, ids) == [q \in Id |-> IF q \in ids THEN s.ran[q] + 1 ELSE s.ran[q]]

Worse(b) == IF b = "auto" THEN "auto" ELSE "failed"

LEMMA RanIs ==
  ASSUME NEW s \in PipeState, NEW ids
  PROVE  Ran(s, ids) = [s EXCEPT !.ran = Counted(s, ids)] /\ Counted(s, ids) \in [Id -> Nat]
<1>1. s.ran \in [Id -> Nat]
  BY StateIs
<1>2. Counted(s, ids) \in [Id -> Nat]
  BY <1>1 DEF Counted
<1>3. Ran(s, ids) = [s EXCEPT !.ran = Counted(s, ids)]
  BY DEF Ran, Counted
<1> QED
  BY <1>2, <1>3

LEMMA FailBlockIs ==
  ASSUME NEW s \in PipeState
  PROVE  FailBlock(s) = [s EXCEPT !.block = Worse(s.block)]
         /\ Worse(s.block) \in {"auto", "open", "failed"}
BY DEF FailBlock, Worse

(* A string of statements is refused, runs, or runs up to one that fails. *)
Refused(x, s, ids, dummy) ==
  /\ s.block = "failed" \/ \E q \in ids : kind[q] = "syntax"
  /\ x.wire = <<[of |-> IF dummy THEN 0 ELSE Min(ids), ok |-> FALSE]>>
  /\ x.ran = s.ran /\ x.block = Worse(s.block)

AllRan(x, s, ids, dummy) ==
  /\ s.block # "failed" /\ \A q \in ids : kind[q] = "good"
  /\ x.wire = DummyFirst(dummy) \o Good(ids)
  /\ x.ran = Counted(s, ids) /\ x.block = s.block

RanUpTo(x, s, ids, dummy, q) ==
  LET done == {p \in ids : p < q}
  IN /\ q \in ids /\ kind[q] # "good" /\ \A p \in ids : kind[p] # "good" => q <= p
     /\ s.block # "failed"
     /\ x.wire = DummyFirst(dummy) \o Good(done) \o <<[of |-> q, ok |-> FALSE]>>
     /\ x.ran = IF s.block = "auto" THEN s.ran ELSE Counted(s, done)
     /\ x.block = Worse(s.block)

LEMMA ExecutedIs ==
  ASSUME NEW s \in PipeState, NEW ids \in SUBSET Id, ids # {}, NEW dummy \in BOOLEAN,
         kind \in [Id -> Kind], NEW x, x = Executed(s, ids, dummy)
  PROVE  /\ x \in PipeState /\ SameProgram(x, s)
         /\ \/ Refused(x, s, ids, dummy)
            \/ AllRan(x, s, ids, dummy)
            \/ \E q \in ids : RanUpTo(x, s, ids, dummy, q)
<1> DEFINE bad == {q \in ids : kind[q] # "good"}
           failing == Min(bad)
           done == {q \in ids : bad = {} \/ q < failing}
           first == IF dummy THEN 0 ELSE Min(ids)
           refused == [of |-> first, ok |-> FALSE]
           failed == [of |-> failing, ok |-> FALSE]
           syntax == \E q \in ids : kind[q] = "syntax"
<1>1. x = CASE s.block = "failed" \/ syntax ->
                 [FailBlock(s) EXCEPT !.wire = <<refused>>]
            [] bad = {} /\ s.block # "failed" ->
                 [Ran(s, ids) EXCEPT !.wire = DummyFirst(dummy) \o Good(done)]
            [] OTHER ->
                 [FailBlock(IF s.block = "auto" THEN s ELSE Ran(s, done)) EXCEPT
                    !.wire = DummyFirst(dummy) \o Good(done) \o <<failed>>]
  BY DEF Executed, DummyFirst, Good
<1>2. ids \in SUBSET Nat /\ bad \in SUBSET Nat /\ s.block \in {"auto", "open", "failed"}
      /\ s.ran \in [Id -> Nat]
  BY Ids, StateIs
<1>3. Min(ids) \in ids
  BY <1>2, LeastIs
<1>4. first \in -1 .. MaxQueries
  <2>1. \A q \in Id : q \in -1 .. MaxQueries
    BY Ids
  <2>2. 0 \in -1 .. MaxQueries
    BY Ids
  <2> QED
    BY <1>3, <2>1, <2>2
<1>5. refused \in Answer /\ <<refused>> \in Seq(Answer)
  <2>1. refused \in Answer
    BY <1>4, AnswerIs
  <2> HIDE DEF refused
  <2> QED
    BY <2>1
<1>6. CASE s.block = "failed" \/ syntax
  <2>1. x = [FailBlock(s) EXCEPT !.wire = <<refused>>]
    BY <1>1, <1>6
  <2> HIDE DEF refused
  <2>2. x = [s EXCEPT !.ran = s.ran, !.block = Worse(s.block), !.wire = <<refused>>]
    BY <2>1, FailBlockIs, ZenonT(60) DEF PipeState
  <2>3. Worse(s.block) \in {"auto", "open", "failed"}
    BY FailBlockIs
  <2>4. x \in PipeState
    BY <1>2, <1>5, <2>2, <2>3, ZenonT(60) DEF PipeState
  <2>5. /\ SameProgram(x, s)
        /\ x.ran = s.ran /\ x.block = Worse(s.block) /\ x.wire = <<refused>>
    BY <2>2 DEF PipeState, SameProgram
  <2> QED
    BY <1>6, <2>4, <2>5 DEF Refused, refused
<1>7. CASE bad = {} /\ s.block # "failed"
  <2>1. done = ids /\ \A q \in ids : kind[q] = "good"
    BY <1>7
  <2>2. ~syntax
    BY <2>1
  <2> DEFINE wire == DummyFirst(dummy) \o Good(ids)
  <2>3. x = [Ran(s, ids) EXCEPT !.wire = wire]
    BY <1>1, <1>7, <2>1, <2>2
  <2>4. wire \in Seq(Answer)
    BY GoodIs
  <2> HIDE DEF wire
  <2> DEFINE r == Ran(s, ids)
             ran == Counted(s, ids)
  <2>5. r = [s EXCEPT !.ran = ran] /\ ran \in [Id -> Nat]
    BY RanIs
  <2> HIDE DEF r, ran
  <2>6. x = [s EXCEPT !.ran = ran, !.wire = wire]
    <3>1. x = [r EXCEPT !.wire = wire]
      BY <2>3 DEF r
    <3> QED
      BY <2>5, <3>1 DEF PipeState
  <2>7. x \in PipeState
    BY <2>4, <2>5, <2>6, ZenonT(60) DEF PipeState
  <2>8. SameProgram(x, s) /\ x.ran = ran /\ x.block = s.block /\ x.wire = wire
    BY <2>6 DEF PipeState, SameProgram
  <2> QED
    BY <1>7, <2>1, <2>7, <2>8 DEF AllRan, wire, ran
<1>8. CASE bad # {} /\ s.block # "failed" /\ ~syntax
  <2>1. failing \in bad /\ \A p \in bad : failing <= p
    BY <1>2, <1>8, LeastIs
  <2> DEFINE before == {p \in ids : p < failing}
             wire == DummyFirst(dummy) \o Good(before) \o <<failed>>
             ran == IF s.block = "auto" THEN s.ran ELSE Counted(s, before)
  <2>2. done = before
    BY <1>8
  <2> HIDE DEF done
  <2>3. x = [FailBlock(IF s.block = "auto" THEN s ELSE Ran(s, before)) EXCEPT !.wire = wire]
    BY <1>1, <1>8, <2>2
  <2>4. failing \in ids /\ failing \in -1 .. MaxQueries
    <3>1. \A q \in Id : q \in -1 .. MaxQueries
      BY Ids
    <3>2. failing \in ids
      BY <2>1
    <3> HIDE DEF failing
    <3> QED
      BY <3>1, <3>2
  <2> HIDE DEF failing
  <2>5. <<failed>> \in Seq(Answer)
    <3>1. failed \in Answer
      BY <2>4, AnswerIs
    <3> HIDE DEF failed
    <3> QED
      BY <3>1
  <2> HIDE DEF failed
  <2>6. wire \in Seq(Answer)
    <3> DEFINE g == DummyFirst(dummy) \o Good(before)
    <3>1. g \in Seq(Answer)
      <4>1. before \in SUBSET Id
        OBVIOUS
      <4>2. DummyFirst(dummy) \in Seq(Answer) /\ Good(before) \in Seq(Answer)
        BY <4>1, GoodIs
      <4> QED
        BY <4>2
    <3> HIDE DEF g
    <3>2. g \o <<failed>> \in Seq(Answer)
      BY <2>5, <3>1
    <3> QED
      BY <3>2 DEF g
  <2>7. ran \in [Id -> Nat]
    BY <1>2, RanIs
  <2>8. x = [s EXCEPT !.ran = ran, !.block = Worse(s.block), !.wire = wire]
    <3> HIDE DEF wire, before
    <3>1. CASE s.block = "auto"
      <4>1. x = [FailBlock(s) EXCEPT !.wire = wire] /\ ran = s.ran
        BY <2>3, <3>1
      <4> QED
        BY <4>1, FailBlockIs, ZenonT(60) DEF PipeState
    <3>2. CASE s.block # "auto"
      <4> DEFINE r == Ran(s, before)
      <4>1. x = [FailBlock(r) EXCEPT !.wire = wire] /\ ran = Counted(s, before)
        BY <2>3, <3>2
      <4>2. r = [s EXCEPT !.ran = Counted(s, before)]
        BY RanIs
      <4>3. r \in PipeState
        <5> DEFINE ran2 == Counted(s, before)
        <5>1. ran2 \in [Id -> Nat] /\ r = [s EXCEPT !.ran = ran2]
          BY <4>2, RanIs
        <5> HIDE DEF ran2, r
        <5> QED
          BY <5>1, ZenonT(60) DEF PipeState
      <4>4. r.block = s.block
        BY <4>2 DEF PipeState
      <4> HIDE DEF r
      <4>5. FailBlock(r) = [r EXCEPT !.block = Worse(s.block)]
        BY <4>3, <4>4, FailBlockIs
      <4> HIDE DEF ran
      <4> QED
        BY <4>1, <4>2, <4>5 DEF PipeState
    <3> QED
      BY <3>1, <3>2
  <2> HIDE DEF wire, ran
  <2>9. /\ x \in PipeState /\ SameProgram(x, s)
        /\ x.ran = ran /\ x.block = Worse(s.block) /\ x.wire = wire
    <3>1. Worse(s.block) \in {"auto", "open", "failed"}
      BY FailBlockIs
    <3>2. x \in PipeState
      BY <2>6, <2>7, <2>8, <3>1, ZenonT(60) DEF PipeState
    <3>3. /\ SameProgram(x, s)
          /\ x.ran = ran /\ x.block = Worse(s.block) /\ x.wire = wire
      BY <2>8 DEF PipeState, SameProgram
    <3> QED
      BY <3>2, <3>3
  <2>10. kind[failing] # "good" /\ \A p \in ids : kind[p] # "good" => failing <= p
    BY <2>1
  <2>11. RanUpTo(x, s, ids, dummy, failing)
    BY <1>8, <2>4, <2>9, <2>10 DEF RanUpTo, wire, ran, failed
  <2> QED
    BY <2>4, <2>9, <2>11
<1> QED
  BY <1>6, <1>7, <1>8

-----------------------------------------------------------------------------
(* The replay of a refused batch. *)
LEMMA TriedIs ==
  ASSUME NEW s \in PipeState, s.first \in Id, s.waiting >= 1, kind \in [Id -> Kind],
         NEW t, t = Tried(s)
  PROVE  /\ t \in PipeState
         /\ t.queue = s.queue /\ t.res = s.res /\ t.first = s.first /\ t.second = s.second
         /\ t.lastId = s.lastId /\ t.dummy = s.dummy /\ t.error = s.error
         /\ t.registered = s.registered /\ t.thrown = s.thrown
         /\ t.waiting = s.waiting - 1
         /\ Head(t.wire) \in Answer /\ Head(t.wire).of = s.first
         /\ Head(t.wire).ok = Passes(s) /\ Passes(s) \in BOOLEAN
         /\ Passes(s) => /\ s.block # "failed" /\ kind[s.first] = "good"
                         /\ t.ran = Counted(s, {s.first}) /\ t.block = s.block
         /\ ~Passes(s) => t.ran = s.ran /\ t.block = Worse(s.block)
<1> DEFINE q == s.first
           ids == {q}
           w == [s EXCEPT !.waiting = s.waiting - 1]
<1>1. t = Executed(w, ids, FALSE) /\ Passes(s) = Head(t.wire).ok
  BY DEF Tried, Passes
<1>2. s.waiting - 1 \in -MaxQueries .. MaxQueries
  BY StateIs, Ids
<1>3. w \in PipeState
  BY <1>2, ZenonT(60) DEF PipeState
<1>4. /\ w.queue = s.queue /\ w.res = s.res /\ w.first = s.first /\ w.second = s.second
      /\ w.lastId = s.lastId /\ w.dummy = s.dummy /\ w.error = s.error
      /\ w.registered = s.registered /\ w.thrown = s.thrown
      /\ w.waiting = s.waiting - 1 /\ w.ran = s.ran /\ w.block = s.block
  BY DEF PipeState
<1>5. ids \in SUBSET Id /\ ids # {} /\ FALSE \in BOOLEAN /\ q \in Nat
  BY Ids
<1>6. \A p \in ids : p = q
  OBVIOUS
<1>7. Counted(w, ids) = Counted(s, {s.first})
  BY <1>4 DEF Counted
<1> HIDE DEF w, ids
<1>8. /\ t \in PipeState /\ SameProgram(t, w)
      /\ \/ Refused(t, w, ids, FALSE)
         \/ AllRan(t, w, ids, FALSE)
         \/ \E p \in ids : RanUpTo(t, w, ids, FALSE, p)
  BY <1>1, <1>3, <1>5, ExecutedIs
<1>9. DummyFirst(FALSE) = << >>
  BY DEF DummyFirst
<1>10. /\ t.queue = s.queue /\ t.res = s.res /\ t.first = s.first /\ t.second = s.second
       /\ t.lastId = s.lastId /\ t.dummy = s.dummy /\ t.error = s.error
       /\ t.registered = s.registered /\ t.thrown = s.thrown
       /\ t.waiting = s.waiting - 1
  BY <1>4, <1>8 DEF SameProgram
<1>11. CASE Refused(t, w, ids, FALSE)
  <2>1. ids \in SUBSET Nat /\ q \in ids
    BY <1>5 DEF ids
  <2>2. Min(ids) = q
    BY <1>5, <1>6, <2>1, LeastIsThis
  <2>3. t.wire = <<[of |-> q, ok |-> FALSE]>>
    BY <1>11, <2>2 DEF Refused
  <2>4. [of |-> q, ok |-> FALSE] \in Answer
    BY Ids DEF Answer
  <2>5. Head(t.wire) = [of |-> q, ok |-> FALSE]
    BY <2>3
  <2>6. t.ran = s.ran /\ t.block = Worse(s.block)
    BY <1>4, <1>11 DEF Refused
  <2>7. Head(t.wire).of = q /\ Head(t.wire).ok = FALSE
    BY <2>5
  <2> QED
    BY <1>1, <1>8, <1>10, <2>4, <2>5, <2>6, <2>7
<1>12. CASE AllRan(t, w, ids, FALSE)
  <2> DEFINE f == Ordered(ids)
  <2>1. Len(f) \in Nat /\ (\A i \in 1 .. Len(f) : f[i] \in ids)
        /\ \E i \in 1 .. Len(f) : f[i] = q
    BY <1>5, OrderedIs DEF ids
  <2> HIDE DEF f
  <2>2. Len(f) >= 1 /\ 1 \in 1 .. Len(f) /\ f[1] = q
    BY <1>6, <2>1
  <2>3. Good(ids) \in Seq(Answer) /\ Len(Good(ids)) = Len(f)
        /\ \A i \in 1 .. Len(Good(ids)) : Good(ids)[i] = [of |-> f[i], ok |-> TRUE]
    BY <1>5, GoodIs DEF f
  <2>4. Good(ids)[1] = [of |-> q, ok |-> TRUE]
    BY <2>2, <2>3
  <2> DEFINE g == Good(ids)
  <2>5. t.wire = << >> \o g /\ g \in Seq(Answer) /\ Len(g) >= 1 /\ g[1] = [of |-> q, ok |-> TRUE]
    BY <1>9, <1>12, <2>2, <2>3, <2>4 DEF AllRan
  <2> HIDE DEF g
  <2>6. Head(t.wire) = [of |-> q, ok |-> TRUE]
    <3>1. Head(<< >> \o g) = g[1]
      BY <2>5
    <3> QED
      BY <2>5, <3>1
  <2>7. [of |-> q, ok |-> TRUE] \in Answer
    BY Ids DEF Answer
  <2>8. Head(t.wire).of = q /\ Head(t.wire).ok = TRUE
    BY <2>6
  <2>9. /\ s.block # "failed" /\ kind[q] = "good"
        /\ t.ran = Counted(s, {s.first}) /\ t.block = s.block
    BY <1>4, <1>7, <1>12, <2>1 DEF AllRan, ids
  <2> QED
    BY <1>1, <1>8, <1>10, <2>6, <2>7, <2>8, <2>9
<1>13. CASE \E p \in ids : RanUpTo(t, w, ids, FALSE, p)
  <2> DEFINE done == {p \in ids : p < q}
             failed == [of |-> q, ok |-> FALSE]
  <2>1. /\ t.wire = DummyFirst(FALSE) \o Good(done) \o <<failed>>
        /\ t.ran = IF w.block = "auto" THEN w.ran ELSE Counted(w, done)
        /\ t.block = Worse(w.block)
    BY <1>6, <1>13 DEF RanUpTo
  <2>2. done = {}
    BY <1>5, <1>6
  <2>3. Good({}) = << >>
    <3>1. Len(Good({})) = Len(Ordered({})) /\ Good({}) \in Seq(Answer)
      BY GoodIs
    <3>2. Len(Ordered({})) \in Nat /\ \A i \in 1 .. Len(Ordered({})) : Ordered({})[i] \in {}
      BY OrderedIs
    <3>3. Len(Ordered({})) = 0
      BY <3>2
    <3> QED
      BY <3>1, <3>3
  <2>4. failed \in Answer /\ failed.of = q /\ failed.ok = FALSE
    BY Ids DEF Answer
  <2> HIDE DEF failed
  <2>5. t.wire = << >> \o << >> \o <<failed>>
    BY <1>9, <2>1, <2>2, <2>3
  <2>6. Head(t.wire) = failed
    BY <2>5
  <2>7. Counted(w, {}) = s.ran
    <3>1. s.ran \in [Id -> Nat]
      BY StateIs
    <3> QED
      BY <1>4, <3>1 DEF Counted
  <2>8. t.ran = s.ran /\ t.block = Worse(s.block)
    BY <1>4, <2>1, <2>2, <2>7
  <2> QED
    BY <1>1, <1>8, <1>10, <2>4, <2>6, <2>8
<1> QED
  BY <1>8, <1>11, <1>12, <1>13

(* What is the case before each turn of the replay. *)
Replayable(t, stop) ==
  /\ t \in PipeState /\ t.queue \subseteq 1 .. t.lastId
  /\ t.first \in t.queue /\ t.first < stop /\ stop \in t.queue \cup {End}
  /\ t.error = NoError /\ ~t.dummy /\ t.wire = << >> /\ ~t.registered
  /\ t.waiting = Cardinality(Between(t, t.first, End))
  /\ \A q \in t.queue : q < stop => t.res[q] # None
  /\ \A q \in Id : t.res[q] # None => t.res[q].of = q \/ (t.res[q].of = 0 /\ ~t.res[q].ok)
  /\ \A q \in Id :
       t.block # "auto" /\ t.res[q] # None /\ t.res[q].ok => t.ran[q] = 1
  /\ \A q \in Id : t.ran[q] <= 1
  /\ \A q \in t.queue : q >= t.first => t.ran[q] = 0
  /\ ToldFits(t)
  /\ t.block = "failed" \/ \E q \in Between(t, t.first, stop) : kind[q] = "syntax"

LEMMA TurnStarts ==
  ASSUME NEW t, NEW stop, Replayable(t, stop)
  PROVE  /\ t \in PipeState /\ t.queue \in SUBSET Id /\ t.first \in Id
         /\ t.waiting >= 1 /\ t.waiting \in Int /\ stop \in Nat /\ stop <= End
         /\ \A q \in t.queue : q \in Nat /\ q \in Id
         /\ Succ(t, t.first) \in t.queue \cup {End} /\ Succ(t, t.first) > t.first
         /\ Succ(t, t.first) \in 1 .. End /\ Succ(t, t.first) \in Nat
         /\ Succ(t, t.first) <= stop
         /\ \A q \in t.queue : q > t.first => Succ(t, t.first) <= q
         /\ t.waiting = Cardinality(Between(t, Succ(t, t.first), End)) + 1
<1>1. /\ t \in PipeState /\ t.first \in t.queue /\ t.first < stop
      /\ stop \in t.queue \cup {End} /\ t.waiting = Cardinality(Between(t, t.first, End))
  BY DEF Replayable
<1>2. t.queue \in SUBSET Id
  BY <1>1, StateIs
<1>3. /\ t.first \in Id /\ stop \in Nat /\ stop <= End /\ t.first \in Nat /\ t.first < End
      /\ \A q \in t.queue : q \in Nat /\ q \in Id
  BY <1>1, <1>2, Ids
<1>4. t.waiting = Cardinality(Between(t, Succ(t, t.first), End)) + 1
  BY <1>1, <1>2, CountedNext
<1>5. Cardinality(Between(t, Succ(t, t.first), End)) \in Nat
  BY <1>2, BetweenIs
<1>6. /\ Succ(t, t.first) \in t.queue \cup {End} /\ Succ(t, t.first) > t.first
      /\ Succ(t, t.first) \in 1 .. End /\ Succ(t, t.first) \in Nat
      /\ \A q \in t.queue : q > t.first => Succ(t, t.first) <= q
  BY <1>2, <1>3, SuccIs
<1>7. Succ(t, t.first) <= stop
  BY <1>1, <1>3, <1>6, Ids
<1>8. t.waiting >= 1 /\ t.waiting \in Int
  BY <1>4, <1>5
<1> QED
  BY <1>1, <1>2, <1>3, <1>4, <1>6, <1>7, <1>8

(* A query that passes is not the last of its batch. *)
LEMMA TurnGoesOn ==
  ASSUME NEW t, NEW stop, Replayable(t, stop), Passes(t), kind \in [Id -> Kind],
         NEW n, n = Replayed(t)
  PROVE  /\ Replayable(n, stop) /\ n.first > t.first /\ n.first # stop
         /\ n.queue = t.queue /\ n.lastId = t.lastId /\ n.thrown = t.thrown
<1> DEFINE q == t.first
           next == Succ(t, q)
           x == Tried(t)
           res == [t.res EXCEPT ![q] = Head(x.wire)]
<1>1. /\ t \in PipeState /\ t.queue \in SUBSET Id /\ q \in Id /\ q \in Nat
      /\ t.waiting >= 1 /\ t.waiting \in Int /\ stop \in Nat /\ stop <= End
      /\ \A p \in t.queue : p \in Nat /\ p \in Id
      /\ next \in t.queue \cup {End} /\ next > q
      /\ next \in 1 .. End /\ next \in Nat /\ next <= stop
      /\ \A p \in t.queue : p > q => next <= p
      /\ t.waiting = Cardinality(Between(t, next, End)) + 1
  BY TurnStarts, Ids
<1>2. /\ x \in PipeState
      /\ x.queue = t.queue /\ x.res = t.res /\ x.first = q /\ x.second = t.second
      /\ x.lastId = t.lastId /\ x.dummy = t.dummy /\ x.error = t.error
      /\ x.registered = t.registered /\ x.thrown = t.thrown
      /\ x.waiting = t.waiting - 1
      /\ Head(x.wire) \in Answer /\ Head(x.wire).of = q
      /\ t.block # "failed" /\ kind[q] = "good"
      /\ x.ran = Counted(t, {q}) /\ x.block = t.block
  BY <1>1, TriedIs
<1>3. res \in [Id -> Answer]
  BY <1>1, <1>2, StateIs
<1>4. n = [[x EXCEPT !.wire = << >>] EXCEPT !.res[q] = Head(x.wire), !.first = next]
  BY DEF Replayed
<1> HIDE DEF x, next
<1>5. n = [x EXCEPT !.wire = << >>, !.res = res, !.first = next]
  BY <1>2, <1>4 DEF PipeState
<1>6. n \in PipeState
  <2>1. << >> \in Seq(Answer)
    OBVIOUS
  <2> HIDE DEF res
  <2> QED
    BY <1>1, <1>2, <1>3, <1>5, <2>1, ZenonT(60) DEF PipeState
<1>7. /\ n.queue = t.queue /\ n.res = res /\ n.first = next
      /\ n.lastId = t.lastId /\ n.dummy = t.dummy /\ n.error = t.error
      /\ n.registered = t.registered /\ n.thrown = t.thrown
      /\ n.waiting = t.waiting - 1 /\ n.wire = << >>
      /\ n.ran = Counted(t, {q}) /\ n.block = t.block
  <2> HIDE DEF res
  <2> QED
    BY <1>2, <1>5 DEF PipeState
<1>8. /\ t.ran \in [Id -> Nat] /\ t.res \in [Id -> Answer]
  BY <1>1, StateIs
<1>9. /\ n.ran[q] = t.ran[q] + 1
      /\ \A p \in Id : p # q => n.ran[p] = t.ran[p] /\ n.res[p] = t.res[p]
      /\ n.res[q] = Head(x.wire)
  BY <1>1, <1>7, <1>8 DEF Counted
<1>10. PICK p \in t.queue : q <= p /\ p < stop /\ kind[p] = "syntax"
  BY <1>2 DEF Replayable, Between
<1>11. next <= p /\ next < stop
  <2>1. p # q /\ p \in Nat
    BY <1>1, <1>2, <1>10
  <2>2. q < p
    BY <1>1, <1>10, <2>1
  <2>3. next <= p
    BY <1>1, <2>2
  <2> QED
    BY <1>1, <1>10, <2>1, <2>3
<1>12. next \in t.queue /\ next # stop
  <2>1. next # End
    BY <1>1, <1>11, Ids
  <2> QED
    BY <1>1, <1>11, <2>1
<1>13. q \in t.queue /\ t.ran[q] = 0 /\ n.ran[q] = 1
  <2>1. q \in t.queue /\ t.ran[q] = 0
    BY <1>1 DEF Replayable
  <2> QED
    BY <1>9, <2>1
<1>14. n.res[q] # None /\ n.res[q].of = q
  BY <1>1, <1>2, <1>9, AnswerIs, Ids
<1>15. /\ n.queue \subseteq 1 .. n.lastId /\ n.first \in n.queue
       /\ n.first < stop /\ stop \in n.queue \cup {End}
       /\ n.error = NoError /\ ~n.dummy /\ n.wire = << >> /\ ~n.registered
  BY <1>7, <1>11, <1>12, <1>1, <1>10 DEF Replayable
<1>16. n.waiting = Cardinality(Between(n, n.first, End))
  <2>1. Between(n, n.first, End) = Between(t, next, End)
    BY <1>7, SameQueue
  <2>2. Cardinality(Between(t, next, End)) \in Nat
    BY <1>1, BetweenIs
  <2> QED
    BY <1>1, <1>7, <2>1, <2>2
<1>17. \A r \in n.queue : r < stop => n.res[r] # None
  BY <1>1, <1>7, <1>9, <1>14 DEF Replayable
<1>18. \A r \in Id : n.res[r] # None =>
         n.res[r].of = r \/ (n.res[r].of = 0 /\ ~n.res[r].ok)
  BY <1>9, <1>14 DEF Replayable
<1>19. ASSUME NEW r \in Id, n.block # "auto", n.res[r] # None, n.res[r].ok
       PROVE  n.ran[r] = 1
  <2>1. r \in Id /\ t.block # "auto"
    BY <1>1, <1>7, <1>19
  <2>2. CASE r = q
    BY <1>13, <2>2
  <2>3. CASE r # q
    <3>1. n.ran[r] = t.ran[r] /\ t.res[r] # None /\ t.res[r].ok
      BY <1>9, <1>19, <2>1, <2>3
    <3> QED
      BY <2>1, <3>1 DEF Replayable
  <2> QED
    BY <2>2, <2>3
<1>20. \A r \in Id : n.ran[r] <= 1
  BY <1>9, <1>13 DEF Replayable
<1>21. ASSUME NEW r \in n.queue, r >= n.first
       PROVE  n.ran[r] = 0
  <2>1. r \in t.queue /\ r \in Id /\ r # q /\ r >= q
    BY <1>1, <1>7, <1>21
  <2>2. t.ran[r] = 0
    BY <2>1 DEF Replayable
  <2> QED
    BY <1>9, <2>1, <2>2
<1>22. ToldFits(n)
  <2>1. ToldFits(t)
    BY DEF Replayable
  <2> QED
    BY <1>7, <1>9, <1>13, <2>1, ZenonT(60) DEF ToldFits
<1>23. \E r \in Between(n, n.first, stop) : kind[r] = "syntax"
  <2>1. p \in Between(n, n.first, stop)
    BY <1>7, <1>10, <1>11 DEF Between
  <2> QED
    BY <1>10, <2>1
<1>24. Replayable(n, stop)
  BY <1>6, <1>15, <1>16, <1>17, <1>18, <1>19, <1>20, <1>21, <1>22, <1>23 DEF Replayable
<1> QED
  BY <1>1, <1>7, <1>12, <1>24

(* The one that fails ends the replay and is where the error is.             *)
LEMMA TurnEnds ==
  ASSUME NEW t, NEW stop, Replayable(t, stop), ~Passes(t), kind \in [Id -> Kind],
         NEW n, n = Replayed(t)
  PROVE  /\ PipeFits(n) /\ ~HavePending(n) /\ ~n.dummy /\ n.wire = << >>
         /\ n.error # NoError
         /\ n.queue = t.queue /\ n.lastId = t.lastId /\ n.thrown = t.thrown
<1> DEFINE q == t.first
           next == Succ(t, q)
           x == Tried(t)
           e == IF next = End THEN q + 1 ELSE next
<1>1. /\ t \in PipeState /\ t.queue \in SUBSET Id /\ q \in Id /\ q \in Nat
      /\ t.waiting >= 1 /\ t.waiting \in Int /\ stop \in Nat /\ stop <= End
      /\ \A p \in t.queue : p \in Nat /\ p \in Id
      /\ next \in t.queue \cup {End} /\ next > q
      /\ next \in 1 .. End /\ next \in Nat /\ next <= stop
      /\ \A p \in t.queue : p > q => next <= p
      /\ t.waiting = Cardinality(Between(t, next, End)) + 1
  BY TurnStarts, Ids
<1>2. /\ x \in PipeState
      /\ x.queue = t.queue /\ x.res = t.res /\ x.first = q /\ x.second = t.second
      /\ x.lastId = t.lastId /\ x.dummy = t.dummy /\ x.error = t.error
      /\ x.registered = t.registered /\ x.thrown = t.thrown
      /\ x.waiting = t.waiting - 1
      /\ x.ran = t.ran /\ x.block = Worse(t.block)
  BY <1>1, TriedIs
<1>3. /\ t.queue \subseteq 1 .. t.lastId /\ q \in t.queue /\ q < stop
      /\ t.error = NoError /\ ~t.dummy /\ ~t.registered /\ t.lastId \in Nat
      /\ t.lastId <= MaxQueries
  BY <1>1, StateIs, Ids DEF Replayable
<1>4. e \in Nat /\ e <= t.lastId + 1 /\ e <= MaxQueries + 1 /\ e \in 0 .. NoError /\ e # NoError
  <2>1. q <= t.lastId /\ q + 1 <= t.lastId + 1
    BY <1>1, <1>3
  <2>2. next # End => next <= t.lastId
    BY <1>1, <1>3
  <2> HIDE DEF next
  <2>3. e \in Nat /\ e <= t.lastId + 1
    BY <1>1, <1>3, <2>1, <2>2
  <2> HIDE DEF e
  <2> QED
    BY <1>3, <2>3, Ids
<1>5. n = SetErrorAt([[x EXCEPT !.wire = << >>] EXCEPT !.first = next, !.second = next], e)
  BY DEF Replayed, Thud
<1> HIDE DEF x, next, e
<1> DEFINE y == [x EXCEPT !.wire = << >>, !.first = next, !.second = next]
<1>6. y.error = NoError
  BY <1>2, <1>3 DEF PipeState
<1>7. Min({NoError, e}) = e
  BY <1>4, ErrorIs, Ids
<1>8. n = [x EXCEPT !.wire = << >>, !.first = next, !.second = next, !.error = e]
  <2>1. n = SetErrorAt(y, e)
    BY <1>5
  <2>2. n = [y EXCEPT !.error = Min({y.error, e})]
    BY <2>1 DEF SetErrorAt
  <2>3. n = [y EXCEPT !.error = e]
    BY <1>6, <1>7, <2>2
  <2> QED
    BY <2>3
<1>9. n \in PipeState
  <2>1. << >> \in Seq(Answer)
    OBVIOUS
  <2> QED
    BY <1>1, <1>2, <1>4, <1>8, <2>1, ZenonT(60) DEF PipeState
<1>10. /\ n.queue = t.queue /\ n.res = t.res /\ n.first = next /\ n.second = next
       /\ n.lastId = t.lastId /\ n.dummy = t.dummy /\ n.error = e
       /\ n.registered = t.registered /\ n.thrown = t.thrown
       /\ n.waiting = t.waiting - 1 /\ n.wire = << >>
       /\ n.ran = t.ran /\ n.block = Worse(t.block)
  BY <1>2, <1>8 DEF PipeState
<1>11. ~HavePending(n) /\ n.error # NoError
  BY <1>4, <1>10 DEF HavePending
<1>12. QueueFits(n)
  <2>1. Between(n, n.second, End) = Between(t, next, End)
    BY <1>10, SameQueue
  <2>2. Cardinality(Between(t, next, End)) \in Nat
    BY <1>1, BetweenIs
  <2>3. n.waiting \in 0 .. Cardinality(Between(n, n.second, End))
    BY <1>1, <1>10, <2>1, <2>2
  <2> QED
    BY <1>1, <1>3, <1>10, <1>11, <2>3 DEF QueueFits
<1>13. ErrorFits(n)
  <2>1. ASSUME NEW p \in n.queue, p < n.error PROVE p < n.first
    <3>1. p \in Nat /\ p \in Id
      BY <1>1, <1>10
    <3>2. CASE next = End
      BY <1>10, <3>1, <3>2, Ids
    <3>3. CASE next # End
      BY <1>10, <2>1, <3>3 DEF e
    <3> QED
      BY <3>2, <3>3
  <2> QED
    BY <1>4, <1>10, <1>11, <2>1 DEF ErrorFits
<1>14. ResultsFit(n)
  <2>1. \A p \in n.queue : p < n.first => n.res[p] # None
    <3>1. \A p \in t.queue : p < next => p < stop
      BY <1>1
    <3> QED
      BY <1>10, <3>1 DEF Replayable
  <2>2. n.block # "auto" => t.block # "auto"
    BY <1>10 DEF Worse
  <2> QED
    BY <1>10, <1>11, <2>1, <2>2 DEF ResultsFit, Replayable
<1>15. WireFits(n)
  BY <1>11 DEF WireFits
<1>16. ToldFits(n)
  <2>1. n.block # "auto" => t.block # "auto"
    BY <1>10 DEF Worse
  <2> QED
    BY <1>10, <2>1 DEF ToldFits, Replayable
<1> QED
  BY <1>3, <1>9, <1>10, <1>11, <1>12, <1>13, <1>14, <1>15, <1>16 DEF PipeFits

LEMMA ReplayIs ==
  ASSUME NEW s, NEW stop, Replayable(s, stop), kind \in [Id -> Kind],
         NEW m, m = Replay(s, stop)
  PROVE  /\ PipeFits(m) /\ ~HavePending(m) /\ ~m.dummy /\ m.wire = << >>
         /\ m.error # NoError
         /\ m.queue = s.queue /\ m.lastId = s.lastId /\ m.thrown = s.thrown
<1> DEFINE S == {t \in PipeState : /\ Replayable(t, stop) /\ t.queue = s.queue
                                   /\ t.lastId = s.lastId /\ t.thrown = s.thrown}
           more(t) == Passes(t) /\ Replayed(t).first # stop
           F == [t \in S |-> IF more(t) THEN Replayed(t) ELSE t]
           Fits(f) == f = [n \in Nat |->
                             IF n = 0 THEN s
                             ELSE IF Passes(f[n - 1]) /\ Replayed(f[n - 1]).first # stop
                                    THEN Replayed(f[n - 1]) ELSE f[n - 1]]
           turn == CHOOSE f : Fits(f)
<1>1. m = Replayed(turn[MaxQueries])
  BY DEF Replay
<1>2. s \in S
  BY TurnStarts
<1>3. ASSUME NEW t \in S PROVE t.first \in Nat /\ t.first < End /\ Replayable(t, stop)
  <2>1. Replayable(t, stop)
    OBVIOUS
  <2>2. t.first \in Id
    BY <2>1, TurnStarts
  <2> QED
    BY <2>1, <2>2, Ids
<1>4. ASSUME NEW t \in S, Passes(t)
      PROVE  /\ Replayed(t) \in S /\ more(t)
             /\ Replayed(t).first > t.first
  <2>1. Replayable(t, stop)
    OBVIOUS
  <2>2. /\ Replayable(Replayed(t), stop) /\ Replayed(t).first > t.first
        /\ Replayed(t).first # stop
        /\ Replayed(t).queue = t.queue /\ Replayed(t).lastId = t.lastId
        /\ Replayed(t).thrown = t.thrown
    BY <1>4, <2>1, TurnGoesOn
  <2>3. Replayed(t) \in PipeState
    BY <2>2, TurnStarts
  <2> QED
    BY <1>4, <2>2, <2>3
<1>5. ASSUME NEW t \in S, ~Passes(t)
      PROVE  /\ PipeFits(Replayed(t)) /\ ~HavePending(Replayed(t))
             /\ ~Replayed(t).dummy /\ Replayed(t).wire = << >>
             /\ Replayed(t).error # NoError
             /\ Replayed(t).queue = s.queue /\ Replayed(t).lastId = s.lastId
             /\ Replayed(t).thrown = s.thrown
  <2>1. Replayable(t, stop) /\ t.queue = s.queue /\ t.lastId = s.lastId
        /\ t.thrown = s.thrown
    OBVIOUS
  <2>2. /\ PipeFits(Replayed(t)) /\ ~HavePending(Replayed(t))
        /\ ~Replayed(t).dummy /\ Replayed(t).wire = << >>
        /\ Replayed(t).error # NoError
        /\ Replayed(t).queue = t.queue /\ Replayed(t).lastId = t.lastId
        /\ Replayed(t).thrown = t.thrown
    BY <1>5, <2>1, TurnEnds
  <2> QED
    BY <2>1, <2>2
<1>6. ASSUME NEW t \in S, more(t) PROVE Replayed(t) \in S /\ Passes(t)
  BY <1>4, <1>6
<1> HIDE DEF S, more
<1>7. F \in [S -> S]
  BY <1>6
<1>8. \A t \in S : F[t] = IF more(t) THEN Replayed(t) ELSE t
  OBVIOUS
<1> HIDE DEF F
<1>9. PICK g \in [Nat -> S] : g[0] = s /\ \A n \in Nat : g[n + 1] = F[g[n]]
  BY <1>2, <1>7, RepeatedSteps, SMTT(30)
<1>10. Fits(g)
  <2>1. ASSUME NEW n \in Nat
        PROVE  g[n] = IF n = 0 THEN s
                      ELSE IF more(g[n - 1]) THEN Replayed(g[n - 1]) ELSE g[n - 1]
    <3>1. CASE n # 0
      <4>1. n - 1 \in Nat /\ n - 1 + 1 = n
        BY <3>1
      <4> QED
        BY <1>8, <1>9, <3>1, <4>1
    <3> QED
      BY <1>9, <3>1
  <2>2. g = [n \in Nat |-> g[n]]
    OBVIOUS
  <2> QED
    BY <2>1, <2>2 DEF more
<1>11. Fits(turn)
  <2> HIDE DEF Fits
  <2> QED
    BY <1>10
<1> HIDE DEF turn
<1>12. /\ turn[0] = s
       /\ \A n \in Nat : turn[n + 1] = IF more(turn[n]) THEN Replayed(turn[n]) ELSE turn[n]
  <2>1. turn[0] = s
    BY <1>11
  <2>2. ASSUME NEW n \in Nat
        PROVE  turn[n + 1] = IF more(turn[n]) THEN Replayed(turn[n]) ELSE turn[n]
    <3>1. n + 1 \in Nat /\ n + 1 # 0 /\ n + 1 - 1 = n
      OBVIOUS
    <3> QED
      BY <1>11, <3>1 DEF more
  <2> QED
    BY <2>1, <2>2
<1> HIDE DEF Fits
<1> DEFINE at(t) == t.first
           well == {n \in Nat : turn[n] \in S /\ (Passes(turn[n]) => at(turn[n]) > n)}
<1>13. at(s) > 0
  BY TurnStarts, Ids
<1>14. ASSUME NEW t \in S, Passes(t)
       PROVE  at(Replayed(t)) > at(t) /\ at(t) \in Nat /\ at(Replayed(t)) \in Nat
  BY <1>3, <1>4, <1>14
<1>15. ASSUME NEW t \in S PROVE at(t) \in Nat /\ at(t) < End
  BY <1>3
<1> HIDE DEF at
<1>16. Nat \subseteq well
  <2>1. 0 \in well
    BY <1>2, <1>12, <1>13
  <2>2. ASSUME NEW n \in Nat, n \in well PROVE n + 1 \in well
    <3>1. CASE Passes(turn[n])
      <4>1. turn[n] \in S /\ at(turn[n]) > n
        BY <2>2, <3>1
      <4>2. turn[n + 1] = Replayed(turn[n])
        BY <1>4, <1>12, <3>1, <4>1
      <4>3. turn[n + 1] \in S
        BY <1>4, <3>1, <4>1, <4>2
      <4>4. at(turn[n + 1]) > at(turn[n]) /\ at(turn[n]) \in Nat /\ at(turn[n + 1]) \in Nat
        BY <1>14, <3>1, <4>1, <4>2
      <4>5. at(turn[n + 1]) > n + 1
        BY <4>1, <4>4
      <4> QED
        BY <4>3, <4>5
    <3>2. CASE ~Passes(turn[n])
      <4>1. turn[n + 1] = turn[n] /\ turn[n] \in S
        BY <1>6, <1>12, <2>2, <3>2
      <4> QED
        BY <3>2, <4>1
    <3> QED
      BY <3>1, <3>2
  <2> HIDE DEF well
  <2> QED
    BY <2>1, <2>2, AllNumbers
<1> DEFINE last == turn[MaxQueries]
<1>17. last \in S /\ (Passes(last) => at(last) > MaxQueries)
  BY <1>16, Ids
<1> HIDE DEF last
<1>18. ~Passes(last)
  <2>1. at(last) \in Nat /\ at(last) < End
    BY <1>15, <1>17
  <2>2. ~(at(last) > MaxQueries)
    BY <2>1, Ids
  <2> QED
    BY <1>17, <2>2
<1>19. m = Replayed(last)
  BY <1>1 DEF last
<1> QED
  BY <1>5, <1>17, <1>18, <1>19

-----------------------------------------------------------------------------
(* The dummy. *)
LEMMA DummyRead ==
  ASSUME NEW s, PipeFits(s), HavePending(s), s.dummy, s.wire[1].ok,
         NEW n \in PipeState,
         n.queue = s.queue, n.res = s.res, n.first = s.first, n.second = s.second,
         n.waiting = s.waiting, n.lastId = s.lastId, ~n.dummy,
         n.error = s.error, n.registered = s.registered, n.wire = Tail(s.wire),
         n.block = s.block, n.ran = s.ran
  PROVE  PipeFits(n)
<1>1. /\ \A i : Succ(n, i) = Succ(s, i)
      /\ \A i, j : Between(n, i, j) = Between(s, i, j)
  BY SameQueue
<1>2. HavePending(n) = HavePending(s) /\ Pending(n) = Pending(s) /\ Unissued(n) = Unissued(s)
  BY <1>1 DEF HavePending, Pending, Unissued
<1>3. QueueFits(n)
  BY <1>1, <1>2 DEF PipeFits, QueueFits
<1>4. ErrorFits(n)
  BY <1>2 DEF PipeFits, ErrorFits
<1>5. ResultsFit(n)
  BY <1>2 DEF PipeFits, ResultsFit
<1>6. DummyFits(s) /\ AnswersFit(s)
  BY DEF PipeFits, WireFits
<1>7. /\ s.wire # << >> /\ s.wire \in Seq(Answer) /\ Len(s.wire) \in Nat
      /\ Len(n.wire) = Len(s.wire) - 1 /\ Len(n.wire) \in Nat
      /\ \A i \in 1 .. Len(n.wire) : n.wire[i] = s.wire[i + 1]
  <2>1. s.wire # << >> /\ s.wire \in Seq(Answer)
    BY <1>6, FitsIs, StateIs DEF DummyFits
  <2> QED
    BY <2>1
<1>8. AnswersFit(n)
  <2>1. 1 <= Len(n.wire) => n.wire[1].of = n.first
    BY <1>6, <1>7 DEF AnswersFit
  <2>2. ASSUME NEW i \in 1 .. Len(n.wire)
        PROVE  /\ n.wire[i].of \in Pending(n)
               /\ i < Len(n.wire) => n.wire[i + 1].of = Succ(n, n.wire[i].of)
               /\ n.block # "auto" /\ n.wire[i].ok => n.ran[n.wire[i].of] = 1
    <3> DEFINE k == i + 1
    <3>1. k \in 2 .. Len(s.wire) /\ n.wire[i] = s.wire[k]
          /\ (i < Len(n.wire) => k < Len(s.wire) /\ n.wire[i + 1] = s.wire[k + 1])
      BY <1>7
    <3> HIDE DEF k
    <3>2. /\ s.wire[k].of \in Pending(s)
          /\ k < Len(s.wire) => s.wire[k + 1].of = Succ(s, s.wire[k].of)
          /\ s.block # "auto" /\ s.wire[k].ok => s.ran[s.wire[k].of] = 1
      BY <1>6, <3>1 DEF AnswersFit
    <3> QED
      BY <1>1, <1>2, <3>1, <3>2
  <2> QED
    BY <2>1, <2>2 DEF AnswersFit
<1>9. WireFits(n)
  BY <1>8 DEF WireFits, DummyFits
<1>10. ToldFits(n)
  BY DEF PipeFits, ToldFits
<1> QED
  BY <1>3, <1>4, <1>5, <1>9, <1>10 DEF PipeFits

LEMMA DummyRefused ==
  ASSUME NEW s, PipeFits(s), HavePending(s), s.dummy, ~s.wire[1].ok,
         NEW n \in PipeState,
         n.queue = s.queue,
         n.res = [q \in Id |-> IF q \in Pending(s) THEN s.wire[1] ELSE s.res[q]],
         n.first = s.first,
         n.waiting = s.waiting + Cardinality(Pending(s)), n.lastId = s.lastId, ~n.dummy,
         n.error = s.error, ~n.registered, n.wire = << >>,
         n.block = s.block, n.ran = s.ran
  PROVE  Replayable(n, s.second)
<1> DEFINE stop == s.second
           r == s.wire[1]
<1>1. DummyFits(s) /\ ResultsFit(s) /\ ToldFits(s) /\ s.queue \subseteq 1 .. s.lastId
  BY DEF PipeFits, WireFits, QueueFits
<1>2. /\ s.wire # << >> /\ r.of = 0 /\ ~r.ok /\ Len(s.wire) = 1
      /\ \A q \in Pending(s) : s.ran[q] = 0
      /\ s.block = "failed" \/ \E q \in Pending(s) : kind[q] = "syntax"
  BY <1>1 DEF DummyFits
<1>3. s.wire \in Seq(Answer)
  BY FitsIs, StateIs
<1>4. r \in Answer
  BY <1>2, <1>3
<1>5. r # None
  BY <1>2, <1>4, AnswerIs
<1> HIDE DEF r
<1>6. /\ s.first \in s.queue /\ s.first < stop /\ s.error = NoError
      /\ s.waiting = Cardinality(Between(s, stop, End))
      /\ \A q \in Unissued(s) : s.ran[q] = 0
  BY PendingIs
<1>7. /\ s \in PipeState /\ s.queue \in SUBSET Id /\ s.first \in Nat /\ stop \in Nat
      /\ stop <= End /\ stop \in s.queue \cup {End} /\ s.first <= stop
      /\ \A q \in s.queue : q \in Id /\ q \in Nat
      /\ \A q \in s.queue : q \in Pending(s) <=> s.first <= q /\ q < stop
      /\ \A q \in Pending(s) : q \in s.queue
  BY FitsIs
<1>8. n.waiting = Cardinality(Between(n, n.first, End))
  <2>1. Cardinality(Between(s, s.first, End)) =
          Cardinality(Pending(s)) + Cardinality(Between(s, stop, End))
    BY <1>7, CountedTo DEF Pending
  <2>2. Between(n, n.first, End) = Between(s, s.first, End)
    BY SameQueue
  <2>3. Cardinality(Pending(s)) \in Nat /\ Cardinality(Between(s, stop, End)) \in Nat
    BY <1>7, BetweenIs DEF Pending
  <2> QED
    BY <1>6, <2>1, <2>2, <2>3
<1>9. /\ \A q \in Pending(s) : q \in Id /\ n.res[q] = r
      /\ \A q \in Id : q \notin Pending(s) => n.res[q] = s.res[q]
  BY <1>7 DEF r
<1>10. \A q \in n.queue : q < stop => n.res[q] # None
  <2>1. \A q \in s.queue : q < stop => q \in Pending(s) \/ q < s.first
    BY <1>7
  <2> QED
    BY <1>1, <1>5, <1>7, <1>9, <2>1, SMTT(30) DEF ResultsFit
<1>11. \A q \in Id : n.res[q] # None =>
         n.res[q].of = q \/ (n.res[q].of = 0 /\ ~n.res[q].ok)
  BY <1>1, <1>2, <1>9, ZenonT(60) DEF ResultsFit
<1>12. \A q \in Id :
         n.block # "auto" /\ n.res[q] # None /\ n.res[q].ok => n.ran[q] = 1
  BY <1>1, <1>2, <1>7, <1>9 DEF ResultsFit
<1>13. \A q \in Id : n.ran[q] <= 1
  BY <1>1 DEF ResultsFit
<1>14. ASSUME NEW q \in n.queue, q >= n.first
       PROVE  n.ran[q] = 0
  <2>1. CASE q < stop
    BY <1>2, <1>7, <1>14, <2>1
  <2>2. CASE ~(q < stop)
    <3>1. q \in Unissued(s)
      BY <1>7, <2>2 DEF Unissued
    <3> QED
      BY <1>6, <3>1
  <2> QED
    BY <2>1, <2>2
<1>15. ToldFits(n)
  BY <1>1 DEF ToldFits
<1>16. n.block = "failed" \/ \E q \in Between(n, n.first, stop) : kind[q] = "syntax"
  <2>1. Between(n, n.first, stop) = Pending(s)
    BY SameQueue DEF Pending
  <2> QED
    BY <1>2, <2>1
<1> QED
  BY <1>1, <1>6, <1>7, <1>8, <1>10, <1>11, <1>12, <1>13, <1>14, <1>15, <1>16
  DEF Replayable

(* obtain_dummy *)
LEMMA AfterDummyIs ==
  ASSUME NEW s, PipeFits(s), Fresh(s), ~s.thrown, kind \in [Id -> Kind],
         NEW d, d = AfterDummy(s)
  PROVE  /\ PipeFits(d) /\ Later(d, s)
         /\ HavePending(s) => ~d.thrown /\ (d.error = NoError => d.first = s.first)
         /\ ~d.thrown => Receivable(d)
<1>1. s \in PipeState /\ s.wire \in Seq(Answer) /\ s.dummy \in BOOLEAN /\ s.error \in Nat
  BY FitsIs, StateIs
<1>2. CASE ~s.dummy
  <2>1. d = s
    BY <1>2 DEF AfterDummy
  <2> QED
    BY <1>2, <2>1, LaterStill DEF Receivable
<1> DEFINE r == NextResult(s)
           g == [GotResult(s) EXCEPT !.dummy = FALSE]
<1>3. CASE s.dummy /\ s.wire = << >>
  <2>1. ~HavePending(s)
    BY <1>3 DEF PipeFits, WireFits, DummyFits
  <2>2. d = InternalError(g) /\ GotResult(s) = [s EXCEPT !.wire = s.wire]
    BY <1>3 DEF AfterDummy, ObtainDummy, GotResult
  <2>3. g = [s EXCEPT !.dummy = FALSE]
    BY <1>1, <2>2 DEF PipeState
  <2>4. g.error = s.error
    BY <1>1, <2>3 DEF PipeState
  <2>5. Min({s.error, 0}) = 0
    BY <1>1, ErrorIs
  <2>6. d = [[g EXCEPT !.error = Min({s.error, 0})] EXCEPT !.thrown = TRUE]
    BY <2>2, <2>4 DEF InternalError, SetErrorAt, Throw
  <2> HIDE DEF g
  <2>7. d = [s EXCEPT !.dummy = FALSE, !.error = 0, !.thrown = TRUE]
    BY <2>3, <2>5, <2>6
  <2>8. d \in PipeState
    <3>1. 0 \in 0 .. NoError
      BY Ids
    <3> QED
      BY <1>1, <2>7, <3>1, ZenonT(60) DEF PipeState
  <2>9. /\ d.queue = s.queue /\ d.res = s.res /\ d.first = s.first /\ d.second = s.second
        /\ d.waiting = s.waiting /\ d.lastId = s.lastId
        /\ d.registered = s.registered /\ d.block = s.block /\ d.ran = s.ran
        /\ d.error = 0 /\ d.thrown = TRUE
    BY <1>1, <2>7 DEF PipeState
  <2>10. d.error <= Begin(s) /\ d.error <= s.lastId + 1 /\ 0 # NoError
    BY <2>9, FitsIs, BeginIs, Ids
  <2>11. PipeFits(d)
    BY <2>1, <2>8, <2>9, <2>10, SameIdlePipe
  <2> QED
    BY <2>1, <2>9, <2>10, <2>11 DEF Later
<1>4. CASE s.dummy /\ s.wire # << >>
  <2>1. HavePending(s)
    BY <1>4 DEF Fresh
  <2>2. DummyFits(s)
    BY <2>1 DEF PipeFits, WireFits
  <2>3. r = s.wire[1] /\ r.of = 0 /\ s.wire[1] \in Answer /\ Tail(s.wire) \in Seq(Answer)
        /\ (~r.ok => Len(s.wire) = 1)
    BY <1>1, <1>4, <2>2 DEF DummyFits, NextResult
  <2>4. g = [s EXCEPT !.wire = Tail(s.wire), !.dummy = FALSE]
    BY <1>1, <1>4 DEF PipeState, GotResult
  <2>5. CASE r.ok
    <3>1. d = g
      BY <1>4, <2>3, <2>5 DEF AfterDummy, ObtainDummy
    <3> HIDE DEF g
    <3>2. d \in PipeState
      BY <1>1, <2>3, <2>4, <3>1, ZenonT(60) DEF PipeState
    <3>3. /\ d.queue = s.queue /\ d.res = s.res /\ d.first = s.first
          /\ d.second = s.second /\ d.waiting = s.waiting /\ d.lastId = s.lastId
          /\ ~d.dummy /\ d.error = s.error /\ d.registered = s.registered
          /\ d.wire = Tail(s.wire) /\ d.block = s.block /\ d.ran = s.ran
          /\ d.thrown = s.thrown
      BY <1>1, <2>4, <3>1 DEF PipeState
    <3>4. PipeFits(d)
      BY <1>4, <2>1, <2>3, <2>5, <3>2, <3>3, DummyRead
    <3>5. HavePending(d)
      BY <2>1, <3>3 DEF HavePending
    <3>6. Later(d, s)
      BY <3>3, FitsIs DEF Later
    <3> QED
      BY <3>3, <3>4, <3>5, <3>6 DEF Receivable, Fresh
  <2>6. CASE ~r.ok
    <3> DEFINE stop == s.second
               blamed == [g EXCEPT !.res =
                            [q \in Id |-> IF q \in Between(g, g.first, stop) THEN r ELSE @[q]]]
               ended == ObtainResult(blamed, TRUE)
               forgotten == [ended EXCEPT
                 !.waiting = @ + Cardinality(Between(ended, ended.first, stop)),
                 !.second = ended.first, !.registered = FALSE]
               res == [q \in Id |-> IF q \in Pending(s) THEN s.wire[1] ELSE s.res[q]]
               w == s.waiting + Cardinality(Pending(s))
    <3>1. d = IF ended.thrown THEN ended ELSE Replay(forgotten, stop)
      BY <1>4, <2>6 DEF AfterDummy, ObtainDummy
    <3>2. Tail(s.wire) = << >>
      <4>1. Len(s.wire) = 1 /\ s.wire \in Seq(Answer)
        BY <1>1, <2>3, <2>6
      <4> DEFINE rest == Tail(s.wire)
      <4>2. Len(rest) = 0 /\ rest \in Seq(Answer)
        BY <1>4, <4>1
      <4> HIDE DEF rest
      <4>3. rest = << >>
        BY <4>2
      <4> QED
        BY <4>3 DEF rest
    <3>3. g.queue = s.queue /\ g.first = s.first /\ g.res = s.res /\ g.wire = << >>
      BY <1>1, <2>4, <3>2 DEF PipeState
    <3>4. Between(g, g.first, stop) = Pending(s)
      <4> HIDE DEF g
      <4> QED
        BY <3>3, SameQueue DEF Pending
    <3>5. res \in [Id -> Answer]
      BY <1>1, <2>3, StateIs
    <3>6. blamed = [g EXCEPT !.res = res]
      BY <2>3, <3>3, <3>4
    <3> HIDE DEF g, res, blamed
    <3>7. blamed = [s EXCEPT !.wire = << >>, !.dummy = FALSE, !.res = res]
      BY <2>4, <3>2, <3>6
    <3>8. blamed \in PipeState
      <4>1. << >> \in Seq(Answer)
        OBVIOUS
      <4> QED
        BY <1>1, <3>5, <3>7, <4>1, ZenonT(60) DEF PipeState
    <3>9. /\ blamed.queue = s.queue /\ blamed.first = s.first /\ blamed.wire = << >>
          /\ blamed.waiting = s.waiting /\ blamed.thrown = s.thrown
      BY <1>1, <3>7 DEF PipeState
    <3>10. ended = blamed
      BY <3>9 DEF ObtainResult
    <3>11. Between(blamed, blamed.first, stop) = Pending(s)
      BY <3>9, SameQueue DEF Pending
    <3>12. forgotten = [blamed EXCEPT !.waiting = w, !.second = s.first, !.registered = FALSE]
      BY <3>9, <3>10, <3>11
    <3>13. ~ended.thrown
      BY <3>9, <3>10
    <3>14. w \in -MaxQueries .. MaxQueries
      <4>1. Cardinality(Between(s, s.first, End)) =
              Cardinality(Pending(s)) + Cardinality(Between(s, stop, End))
        BY FitsIs, CountedTo DEF Pending
      <4>2. w = Cardinality(Between(s, s.first, End))
        <5>1. s.waiting = Cardinality(Between(s, stop, End))
          BY <2>1, PendingIs
        <5>2. Cardinality(Pending(s)) \in Nat /\ Cardinality(Between(s, stop, End)) \in Nat
          BY FitsIs, BetweenIs DEF Pending
        <5> QED
          BY <4>1, <5>1, <5>2
      <4>3. w \in 0 .. MaxQueries
        BY <4>2, FitsIs, BetweenIs
      <4> HIDE DEF w
      <4> QED
        BY <4>3, Ids
    <3> HIDE DEF ended, forgotten, w
    <3>15. forgotten \in PipeState
      <4>1. s.first \in 1 .. End /\ FALSE \in BOOLEAN
        BY <1>1, StateIs
      <4> QED
        BY <3>8, <3>12, <3>14, <4>1, ZenonT(60) DEF PipeState
    <3>16. /\ forgotten.queue = s.queue /\ forgotten.res = res
           /\ forgotten.first = s.first /\ forgotten.waiting = w
           /\ forgotten.lastId = s.lastId /\ ~forgotten.dummy
           /\ forgotten.error = s.error /\ ~forgotten.registered
           /\ forgotten.wire = << >> /\ forgotten.block = s.block
           /\ forgotten.ran = s.ran /\ forgotten.thrown = s.thrown
      BY <1>1, <3>7, <3>12 DEF PipeState
    <3>17. Replayable(forgotten, stop)
      BY <1>4, <2>1, <2>3, <2>6, <3>15, <3>16, DummyRefused DEF res, w
    <3>18. d = Replay(forgotten, stop)
      BY <3>1, <3>13
    <3>19. /\ PipeFits(d) /\ ~HavePending(d) /\ ~d.dummy /\ d.wire = << >>
           /\ d.error # NoError
           /\ d.queue = forgotten.queue /\ d.lastId = forgotten.lastId
           /\ d.thrown = forgotten.thrown
      BY <3>17, <3>18, ReplayIs
    <3>20. Later(d, s)
      BY <3>16, <3>19 DEF Later
    <3>21. ~d.thrown
      BY <3>16, <3>19
    <3> QED
      BY <3>19, <3>20, <3>21 DEF Receivable, Fresh
  <2> QED
    BY <2>5, <2>6
<1> QED
  BY <1>1, <1>2, <1>3, <1>4

-----------------------------------------------------------------------------
(* receive comes to the place it was told, or to an error. *)
LEMMA ReceiveIs ==
  ASSUME NEW s, PipeFits(s), HavePending(s), ~s.thrown, kind \in [Id -> Kind],
         NEW stop \in s.queue \cup {End}, s.first < stop, stop <= s.second,
         NEW n \in Receive(s, stop)
  PROVE  /\ PipeFits(n) /\ Later(n, s) /\ ~n.thrown
         /\ n.error = NoError => stop <= n.first
<1> DEFINE d == AfterDummy(s)
           m == ObtainUpTo(d, stop)
<1>1. PipeFits(d) /\ Later(d, s) /\ ~d.thrown /\ Receivable(d)
      /\ (d.error = NoError => d.first = s.first)
  BY AfterDummyIs DEF Fresh
<1>2. n \in CASE d.thrown -> {d}
              [] ~d.thrown /\ ~m.thrown /\ m.first = stop -> FurtherResults(m)
              [] OTHER -> {m}
  BY DEF Receive
<1> HIDE DEF d
<1>3. Ahead(d, stop)
  BY <1>1 DEF Ahead, Later
<1>4. /\ Receivable(m) /\ Later(m, d) /\ m.thrown = d.thrown
      /\ m.error = NoError => m.first = stop
  BY <1>1, <1>3, UpToIs
<1> HIDE DEF m
<1>5. ASSUME NEW k, Receivable(k), Later(k, m), k.thrown = m.thrown
      PROVE  PipeFits(k) /\ Later(k, s) /\ ~k.thrown /\ (k.error = NoError => stop <= k.first)
  <2>1. PipeFits(k) /\ PipeFits(m)
    BY <1>4, <1>5 DEF Receivable
  <2>2. Later(k, d)
    BY <1>1, <1>4, <1>5, <2>1, LaterStill
  <2>3. Later(k, s)
    BY <1>1, <2>1, <2>2, LaterStill
  <2>4. k.error = NoError => stop <= k.first
    BY <1>4, <1>5 DEF Later
  <2> QED
    BY <1>1, <1>4, <1>5, <2>1, <2>3, <2>4
<1>6. CASE ~m.thrown /\ m.first = stop
  <2>1. n \in FurtherResults(m)
    BY <1>1, <1>2, <1>6
  <2>2. Receivable(n) /\ Later(n, m) /\ n.thrown = m.thrown
    BY <1>4, <2>1, FurtherIs
  <2> QED
    BY <1>5, <2>2
<1>7. CASE ~(~m.thrown /\ m.first = stop)
  <2>1. n = m
    BY <1>1, <1>2, <1>7
  <2>2. Later(m, m)
    BY <1>4, LaterStill DEF Receivable
  <2> QED
    BY <1>4, <1>5, <2>1, <2>2
<1> QED
  BY <1>6, <1>7

LEMMA ReceiveIfAvailableIs ==
  ASSUME NEW s, PipeFits(s), Fresh(s), ~s.thrown, kind \in [Id -> Kind],
         NEW n \in ReceiveIfAvailable(s)
  PROVE  /\ PipeFits(n) /\ Later(n, s) /\ (HavePending(s) => ~n.thrown)
<1> DEFINE d == AfterDummy(s)
<1>1. PipeFits(d) /\ Later(d, s) /\ (HavePending(s) => ~d.thrown)
      /\ (~d.thrown => Receivable(d))
  BY AfterDummyIs
<1>2. n = s \/ n \in (IF ~d.thrown /\ HavePending(d) THEN FurtherResults(d) ELSE {d})
  <2>1. HavePending(d) => d.registered
    BY <1>1 DEF PipeFits, QueueFits
  <2> QED
    BY <2>1 DEF ReceiveIfAvailable
<1> HIDE DEF d
<1>3. CASE n = s
  BY <1>3, LaterStill
<1>4. CASE n \in FurtherResults(d) /\ ~d.thrown
  <2>1. Receivable(n) /\ Later(n, d) /\ n.thrown = d.thrown
    BY <1>1, <1>4, FurtherIs
  <2>2. PipeFits(n)
    BY <2>1 DEF Receivable
  <2> QED
    BY <1>1, <1>4, <2>1, <2>2, LaterStill
<1>5. CASE n = d
  BY <1>1, <1>5
<1> QED
  BY <1>2, <1>3, <1>4, <1>5

-----------------------------------------------------------------------------
(* issue *)

LEMMA TwoParts ==
  ASSUME NEW A \in Seq(Answer), NEW B \in Seq(Answer)
  PROVE  /\ A \o B \in Seq(Answer) /\ Len(A \o B) = Len(A) + Len(B)
         /\ Len(A) \in Nat /\ Len(B) \in Nat
         /\ \A k \in 1 .. Len(A) : (A \o B)[k] = A[k]
         /\ \A k \in 1 .. Len(B) : (A \o B)[Len(A) + k] = B[k]
OBVIOUS

LEMMA ThreeParts ==
  ASSUME NEW A \in Seq(Answer), NEW B \in Seq(Answer), NEW C \in Seq(Answer),
         NEW W, W = A \o B \o C
  PROVE  /\ Len(W) = Len(A) + Len(B) + Len(C) /\ Len(A) \in Nat /\ Len(B) \in Nat
         /\ Len(C) \in Nat /\ W \in Seq(Answer)
         /\ \A k \in 1 .. Len(A) : W[k] = A[k]
         /\ \A k \in 1 .. Len(B) : W[Len(A) + k] = B[k]
         /\ \A k \in 1 .. Len(C) : W[Len(A) + Len(B) + k] = C[k]
<1> DEFINE D == A \o B
<1>1. D \in Seq(Answer) /\ Len(D) = Len(A) + Len(B) /\ Len(A) \in Nat /\ Len(B) \in Nat
  BY TwoParts
<1>2. \A k \in 1 .. Len(A) : D[k] = A[k] /\ k \in 1 .. Len(D)
  BY <1>1, TwoParts
<1>3. \A k \in 1 .. Len(B) : D[Len(A) + k] = B[k] /\ Len(A) + k \in 1 .. Len(D)
  BY <1>1, TwoParts
<1>4. W = D \o C
  OBVIOUS
<1> HIDE DEF D
<1>5. W \in Seq(Answer) /\ Len(W) = Len(D) + Len(C) /\ Len(C) \in Nat
  BY <1>1, <1>4, TwoParts, ZenonT(60)
<1>6. \A k \in 1 .. Len(D) : W[k] = D[k]
  BY <1>1, <1>4, TwoParts
<1>7. \A k \in 1 .. Len(C) : W[Len(D) + k] = C[k]
  BY <1>1, <1>4, TwoParts
<1>8. \A k \in 1 .. Len(A) : W[k] = A[k]
  BY <1>2, <1>6
<1>9. \A k \in 1 .. Len(B) : W[Len(A) + k] = B[k]
  BY <1>3, <1>6
<1>10. \A k \in 1 .. Len(C) : W[Len(A) + Len(B) + k] = C[k]
  BY <1>1, <1>7
<1> QED
  BY <1>1, <1>5, <1>8, <1>9, <1>10

(* What the wire has once a string was executed: the results of the queries  *)
(* up to one that fails, or of all.                                          *)
FailedLast(q, fails) == IF fails THEN <<[of |-> q, ok |-> FALSE]>> ELSE << >>

LEMMA SentAnswers ==
  ASSUME NEW s, s.queue \in SUBSET Id, s.dummy \in BOOLEAN,
         NEW j \in s.queue \cup {End}, j <= s.second, s.second \in Nat, s.second <= End,
         s.first \in s.queue, NEW fails \in BOOLEAN, fails => j < s.second,
         s.first < j \/ (s.first = j /\ fails),
         s.wire = DummyFirst(s.dummy) \o Good(Between(s, s.first, j)) \o FailedLast(j, fails),
         s.block # "auto" => \A p \in Between(s, s.first, j) : s.ran[p] = 1
  PROVE  AnswersFit(s) /\ (s.dummy => s.wire # << >> /\ s.wire[1] = [of |-> 0, ok |-> TRUE])
<1> DEFINE T == Between(s, s.first, j)
           f == Ordered(T)
           A == DummyFirst(s.dummy)
           B == Good(T)
           C == FailedLast(j, fails)
           W == s.wire
           from == IF s.dummy THEN 2 ELSE 1
<1>1. /\ T \in SUBSET Id /\ s.first \in Nat /\ j \in Nat
      /\ \A p \in T : p \in s.queue /\ s.first <= p /\ p < j /\ p \in Nat
      /\ s.first < j => s.first \in T
  BY Ids, BetweenIs DEF Between
<1>2. \A p \in s.queue : p \in Pending(s) <=> s.first <= p /\ p < s.second
  BY DEF Pending, Between
<1>3. fails => j \in s.queue /\ j \in Id /\ j \in Pending(s)
  <2>1. fails => j # End
    BY <1>1, Ids
  <2> QED
    BY <1>1, <1>2, <2>1, Ids
<1>4. T \subseteq Pending(s)
  BY <1>1, <1>2
<1>5. /\ \A k \in 1 .. Len(f) : k < Len(f) => f[k + 1] = Succ(s, f[k])
      /\ Len(f) >= 1 => Succ(s, f[Len(f)]) = j
      /\ s.first \in T => Len(f) >= 1 /\ f[1] = s.first
  BY <1>1, OrderedBetween
<1>6. Len(f) \in Nat /\ \A k \in 1 .. Len(f) : f[k] \in T
  BY <1>1, OrderedIs
<1>7. /\ A \in Seq(Answer) /\ Len(A) = from - 1
      /\ s.dummy => A[1] = [of |-> 0, ok |-> TRUE]
      /\ B \in Seq(Answer) /\ Len(B) = Len(f)
      /\ \A k \in 1 .. Len(B) : B[k] = [of |-> f[k], ok |-> TRUE]
  <2>1. /\ A \in Seq(Answer) /\ Len(A) = IF s.dummy THEN 1 ELSE 0
        /\ s.dummy => A[1] = [of |-> 0, ok |-> TRUE]
    BY GoodIs
  <2>2. /\ B \in Seq(Answer) /\ Len(B) = Len(f)
        /\ \A k \in 1 .. Len(B) : B[k] = [of |-> f[k], ok |-> TRUE]
    BY <1>1, GoodIs
  <2>3. from - 1 = IF s.dummy THEN 1 ELSE 0
    OBVIOUS
  <2> HIDE DEF A, B, f, from
  <2> QED
    BY <2>1, <2>2, <2>3
<1>8. /\ C \in Seq(Answer) /\ Len(C) = IF fails THEN 1 ELSE 0
      /\ fails => C[1] = [of |-> j, ok |-> FALSE]
  <2>1. fails => [of |-> j, ok |-> FALSE] \in Answer
    BY <1>3, Ids DEF Answer
  <2> QED
    BY <2>1 DEF FailedLast
<1>9. W = A \o B \o C
  OBVIOUS
<1>21. s.block # "auto" => \A p \in T : s.ran[p] = 1
  OBVIOUS
<1> DEFINE l == Len(f)
<1> HIDE DEF A, B, C, T, f, W
<1>22. A \in Seq(Answer) /\ B \in Seq(Answer) /\ C \in Seq(Answer)
  BY <1>7, <1>8
<1>10. Len(W) = Len(A) + Len(B) + Len(C) /\ W \in Seq(Answer)
  BY <1>9, <1>22, ThreeParts
<1>18. ASSUME NEW k \in 1 .. Len(A) PROVE W[k] = A[k]
  BY <1>9, <1>22, ThreeParts
<1>19. ASSUME NEW k \in 1 .. Len(B) PROVE W[Len(A) + k] = B[k]
  BY <1>9, <1>22, ThreeParts
<1>20. ASSUME NEW k \in 1 .. Len(C) PROVE W[Len(A) + Len(B) + k] = C[k]
  BY <1>9, <1>22, ThreeParts, SMTT(30)
<1>11. Len(W) = (from - 1) + l + (IF fails THEN 1 ELSE 0) /\ l \in Nat /\ from \in {1, 2}
  BY <1>6, <1>7, <1>8, <1>10
<1>12. ASSUME NEW k \in 1 .. l
       PROVE  W[from - 1 + k].of = f[k] /\ W[from - 1 + k].ok = TRUE
  <2>1. k \in 1 .. Len(B)
    BY <1>7
  <2>2. W[from - 1 + k] = [of |-> f[k], ok |-> TRUE]
    BY <1>7, <1>19, <2>1
  <2> QED
    BY <2>2
<1>13. ASSUME fails
       PROVE  W[from + l].of = j /\ W[from + l].ok = FALSE
  <2>1. 1 \in 1 .. Len(C) /\ Len(A) + Len(B) + 1 = from + l
    BY <1>7, <1>8, <1>11, <1>13
  <2>2. W[from + l] = C[1]
    BY <1>20, <2>1
  <2>3. W[from + l] = [of |-> j, ok |-> FALSE]
    BY <1>8, <1>13, <2>2
  <2> HIDE DEF l, from
  <2> QED
    BY <2>3
<1> HIDE DEF l, from
<1>14. ASSUME from <= Len(W)
       PROVE  W[from].of = s.first
  <2>1. CASE l >= 1
    <3>1. 1 \in 1 .. l /\ from - 1 + 1 = from
      BY <1>11, <2>1
    <3>2. W[from].of = f[1]
      BY <1>12, <3>1
    <3>3. s.first \in T
      <4>1. f[1] \in T
        BY <1>6, <3>1 DEF l
      <4> QED
        BY <1>1, <4>1
    <3> QED
      BY <1>5, <3>2, <3>3
  <2>2. CASE l = 0
    <3>1. fails
      BY <1>11, <1>14, <2>2
    <3>2. s.first = j
      BY <1>1, <1>5, <2>2 DEF l
    <3>3. from + l = from
      BY <1>11, <2>2
    <3> QED
      BY <1>13, <3>1, <3>2, <3>3
  <2> QED
    BY <1>11, <2>1, <2>2
<1>15. ASSUME NEW i \in from .. Len(W)
       PROVE  /\ W[i].of \in Pending(s)
              /\ i < Len(W) => W[i + 1].of = Succ(s, W[i].of)
              /\ s.block # "auto" /\ W[i].ok => s.ran[W[i].of] = 1
  <2> DEFINE k == i - from + 1
  <2>1. k \in 1 .. l \/ (k = l + 1 /\ fails)
    BY <1>11
  <2>2. from - 1 + k = i
    BY <1>11
  <2>3. CASE k \in 1 .. l
    <3>1. W[i].of = f[k] /\ W[i].ok = TRUE /\ f[k] \in T
      BY <1>6, <1>12, <2>2, <2>3 DEF l
    <3>2. CASE k < l
      <4>1. k + 1 \in 1 .. l /\ from - 1 + (k + 1) = i + 1
        BY <1>11, <2>3, <3>2
      <4>2. W[i + 1].of = f[k + 1]
        BY <1>12, <4>1
      <4>3. f[k + 1] = Succ(s, f[k])
        BY <1>5, <2>3, <3>2 DEF l
      <4> QED
        BY <1>4, <1>21, <3>1, <4>2, <4>3
    <3>3. CASE k = l
      <4>1. i < Len(W) => fails /\ i + 1 = from + l
        BY <1>11, <3>3
      <4>2. Succ(s, f[k]) = j
        BY <1>5, <2>3, <3>3 DEF l
      <4> QED
        BY <1>4, <1>13, <1>21, <3>1, <4>1, <4>2
    <3>4. k < l \/ k = l
      BY <1>11, <2>3
    <3> QED
      BY <3>2, <3>3, <3>4
  <2>4. CASE k = l + 1 /\ fails
    <3>1. i = from + l /\ ~(i < Len(W))
      BY <1>11, <2>4
    <3>2. W[i].of = j /\ W[i].ok = FALSE
      BY <1>13, <2>4, <3>1
    <3> QED
      BY <1>3, <2>4, <3>1, <3>2
  <2> QED
    BY <2>1, <2>3, <2>4
<1>16. AnswersFit(s)
  BY <1>14, <1>15 DEF AnswersFit, from, W
<1>17. ASSUME s.dummy
       PROVE  W # << >> /\ W[1] = [of |-> 0, ok |-> TRUE]
  <2>1. 1 \in 1 .. Len(A)
    BY <1>7, <1>17 DEF from
  <2>2. Len(W) >= 1
    BY <1>7, <1>11, <1>17, <2>1 DEF from
  <2>3. W # << >>
    BY <2>2
  <2> QED
    BY <1>7, <1>17, <1>18, <2>1, <2>3
<1> QED
  BY <1>16, <1>17 DEF W

Unsent(s) == Between(s, s.second, End)

LEMMA SentFits ==
  ASSUME NEW s, PipeFits(s), ~HavePending(s), s.error = NoError, s.registered,
         NEW n \in PipeState,
         n.queue = s.queue, n.res = s.res, n.first = s.second, n.second = End,
         n.waiting = 0, n.lastId = s.lastId, n.error = NoError, n.registered,
         n.block # "auto" => s.block # "auto",
         \A q \in Id : q \notin Unsent(s) => n.ran[q] = s.ran[q],
         \A q \in Unsent(s) : n.ran[q] <= 1, WireFits(n)
  PROVE  PipeFits(n)
<1>1. /\ s \in PipeState /\ s.queue \in SUBSET Id /\ s.first = s.second
      /\ \A q \in s.queue : q \in Id /\ q \in Nat /\ q < End /\ q <= s.lastId
      /\ s.second \in s.queue \cup {End} /\ s.second \in Nat /\ s.second <= End
      /\ s.lastId \in Nat
  BY FitsIs DEF HavePending
<1>2. \A q \in Id : q \in Unsent(s) <=> q \in s.queue /\ s.second <= q
  BY <1>1 DEF Unsent, Between
<1>3. /\ ResultsFit(s) /\ ToldFits(s) /\ s.queue \subseteq 1 .. s.lastId
  BY DEF PipeFits, QueueFits
<1>4. \A q \in Unissued(s) : s.res[q] = None /\ s.ran[q] = 0
  BY <1>3 DEF ResultsFit
<1>5. \A q \in Unsent(s) : q \in Unissued(s)
  BY <1>1, <1>2 DEF Unissued, Unsent, Between
<1>6. QueueFits(n)
  <2>1. Between(n, n.second, End) = {}
    BY <1>1, Ids DEF Between
  <2>2. Cardinality(Between(n, n.second, End)) = 0
    BY <2>1, FS_EmptySet
  <2> QED
    BY <1>1, <1>3, <2>2, Ids DEF QueueFits
<1>7. ErrorFits(n)
  BY DEF ErrorFits
<1>8. Pending(n) = Unsent(s)
  BY SameQueue DEF Pending, Unsent
<1>9. ASSUME NEW q \in Unissued(n)
      PROVE  q \in Unissued(s) /\ q \notin Unsent(s) /\ q \in Id
  <2>1. q \in Id /\ q \in Nat /\ (q > s.lastId \/ (q \in s.queue /\ q >= End))
    BY Ids DEF Unissued
  <2>2. q > s.lastId
    BY <1>1, <2>1, Ids
  <2>3. q \notin s.queue
    BY <1>1, <2>1, <2>2
  <2> QED
    BY <1>2, <2>1, <2>2, <2>3 DEF Unissued
<1>10. ResultsFit(n)
  <2>1. \A q \in n.queue : q < n.first => n.res[q] # None
    BY <1>1, <1>3 DEF ResultsFit
  <2>2. \A q \in Id : n.res[q] # None =>
          n.res[q].of = q \/ (n.res[q].of = 0 /\ ~n.res[q].ok)
    BY <1>3 DEF ResultsFit
  <2>3. ASSUME NEW q \in Id, n.block # "auto", n.res[q] # None, n.res[q].ok
        PROVE  n.ran[q] = 1
    <3>1. q \in Id /\ s.res[q] # None /\ s.block # "auto" /\ s.res[q].ok
      BY <1>1, <2>3
    <3>2. q \notin Unsent(s)
      BY <1>4, <1>5, <3>1
    <3>3. s.ran[q] = 1
      BY <1>3, <3>1 DEF ResultsFit
    <3> QED
      BY <3>1, <3>2, <3>3
  <2>4. \A q \in Id : n.ran[q] <= 1
    BY <1>3 DEF ResultsFit
  <2>5. \A q \in Unissued(n) \cup Pending(n) : n.res[q] = None
    BY <1>4, <1>5, <1>8, <1>9
  <2>6. \A q \in Unissued(n) : n.ran[q] = 0
    BY <1>4, <1>9
  <2> QED
    BY <2>1, <2>2, <2>3, <2>4, <2>5, <2>6 DEF ResultsFit
<1>11. ToldFits(n)
  <2>1. \A q \in Id : q \notin s.queue => q \notin Unsent(s)
    BY <1>2
  <2> QED
    BY <1>3, <2>1 DEF ToldFits
<1> QED
  BY <1>6, <1>7, <1>10, <1>11 DEF PipeFits

(* A string that was refused has one answer, for the dummy if there is one.  *)
LEMMA RefusedFits ==
  ASSUME NEW n, n.first \in Pending(n), Pending(n) \in SUBSET Nat,
         \A q \in Pending(n) : n.first <= q /\ n.ran[q] = 0,
         n.wire = <<[of |-> IF n.dummy THEN 0 ELSE Min(Pending(n)), ok |-> FALSE]>>,
         n.block = "failed" \/ \E q \in Pending(n) : kind[q] = "syntax"
  PROVE  DummyFits(n) /\ AnswersFit(n)
<1>1. Min(Pending(n)) = n.first
  BY LeastIsThis
<1> DEFINE of == IF n.dummy THEN 0 ELSE n.first
           a == [of |-> of, ok |-> FALSE]
<1>2. n.wire = <<a>>
  BY <1>1
<1>3. a.of = of /\ a.ok = FALSE
  OBVIOUS
<1> HIDE DEF a
<1>4. Len(n.wire) = 1 /\ n.wire # << >> /\ n.wire[1] = a
  BY <1>2
<1>5. DummyFits(n)
  BY <1>3, <1>4 DEF DummyFits
<1>6. AnswersFit(n)
  <2>1. CASE n.dummy
    BY <1>4, <2>1 DEF AnswersFit
  <2>2. CASE ~n.dummy
    <3>1. \A i \in 1 .. 1 : i = 1 /\ ~(i < 1)
      OBVIOUS
    <3> QED
      BY <1>3, <1>4, <2>2, <3>1 DEF AnswersFit
  <2> QED
    BY <2>1, <2>2
<1> QED
  BY <1>5, <1>6

(* issue with nothing pending: unless results are left over from before,     *)
(* whatever is waiting goes out.                                             *)
LEMMA IssueIs ==
  ASSUME NEW s, PipeFits(s), ~HavePending(s), ~s.thrown, kind \in [Id -> Kind],
         s.queue # {}, s.error = NoError => Unsent(s) # {} /\ s.registered,
         NEW n, n = Issue(s)
  PROVE  /\ PipeFits(n) /\ n.queue = s.queue /\ n.lastId = s.lastId /\ n.res = s.res
         /\ n.first = s.first
         /\ ~n.thrown => /\ Fresh(n) /\ n.error = s.error
                         /\ n.error = NoError => HavePending(n) /\ n.second = End
<1>1. s \in PipeState /\ s.wire \in Seq(Answer) /\ s.error \in Nat /\ s.first = s.second
      /\ s.queue \in SUBSET Id
  BY FitsIs, StateIs DEF HavePending
<1> DEFINE e == ObtainResult(s, FALSE)
<1>2. CASE s.wire # << >>
  <2> DEFINE g == GotResult(s)
             b == Min({s.error, Begin(s)})
  <2>1. e = Throw(SetErrorAt(g, Begin(g)))
    BY <1>2 DEF ObtainResult
  <2>2. g = [s EXCEPT !.wire = Tail(s.wire)] /\ Tail(s.wire) \in Seq(Answer)
    BY <1>1, <1>2 DEF GotResult
  <2> HIDE DEF g
  <2>3. g.queue = s.queue /\ g.error = s.error
    BY <1>1, <2>2 DEF PipeState
  <2>4. Begin(g) = Begin(s)
    BY <2>3, SameQueue
  <2>5. /\ Begin(s) \in s.queue /\ Begin(s) \in Nat /\ Begin(s) <= s.lastId
        /\ s.lastId \in Nat /\ Begin(s) <= End
    <3>1. Begin(s) \in s.queue /\ Begin(s) \in Nat
      BY <1>1, BeginIs
    <3>2. s.lastId \in Nat /\ \A q \in s.queue : q <= s.lastId /\ q < End /\ q \in Nat
      BY FitsIs
    <3> HIDE DEF b
    <3> QED
      BY <3>1, <3>2, Ids
  <2>6. b \in Nat /\ b <= s.error /\ b <= Begin(s)
    BY <1>1, <2>5, ErrorIs
  <2>7. e = [[g EXCEPT !.error = b] EXCEPT !.thrown = TRUE]
    BY <2>1, <2>3, <2>4 DEF Throw, SetErrorAt
  <2> HIDE DEF b
  <2>8. e = [s EXCEPT !.wire = Tail(s.wire), !.error = b, !.thrown = TRUE]
    BY <2>2, <2>7
  <2>9. e \in PipeState
    <3>1. b \in 0 .. NoError
      <4>1. s.error \in 0 .. NoError
        BY <1>1, StateIs
      <4> QED
        BY <1>1, <2>6, <4>1, Ids
    <3> QED
      BY <1>1, <2>2, <2>8, <3>1, ZenonT(60) DEF PipeState
  <2>10. /\ e.queue = s.queue /\ e.res = s.res /\ e.first = s.first /\ e.second = s.second
         /\ e.waiting = s.waiting /\ e.lastId = s.lastId
         /\ e.registered = s.registered /\ e.block = s.block /\ e.ran = s.ran
         /\ e.error = b /\ e.thrown = TRUE
    BY <1>1, <2>8 DEF PipeState
  <2>11. b <= s.lastId + 1
    BY <2>5, <2>6
  <2> HIDE DEF e
  <2>12. PipeFits(e)
    BY <2>6, <2>9, <2>10, <2>11, SameIdlePipe
  <2>13. n = e
    BY <2>10 DEF Issue, e
  <2> QED
    BY <2>10, <2>12, <2>13
<1>3. CASE s.wire = << >>
  <2>1. e = s
    BY <1>3 DEF ObtainResult
  <2>2. CASE s.error # NoError
    <3>1. n = s
      BY <2>1, <2>2 DEF Issue
    <3> QED
      BY <1>3, <2>2, <3>1 DEF Fresh
  <2>3. CASE s.error = NoError
    <3> DEFINE batch == Unsent(s)
               dummy == Cardinality(batch) > 1
               sent == [s EXCEPT !.dummy = dummy, !.first = s.second, !.second = End,
                                 !.waiting = s.waiting - Cardinality(batch),
                                 !.batch = batch]
    <3>1. n = Executed(sent, batch, dummy)
      BY <2>1, <2>3 DEF Issue, Oldest, Unsent
    <3>2. /\ batch \in SUBSET Id /\ batch # {} /\ dummy \in BOOLEAN
          /\ \A q \in batch : q \in s.queue /\ s.second <= q /\ q < End
      BY <1>1, <2>3, BetweenIs DEF Unsent, Between
    <3>3. s.waiting = Cardinality(batch)
      BY <2>3 DEF PipeFits, QueueFits, Unsent
    <3>4. s.waiting - Cardinality(batch) = 0
      BY <1>1, <3>3, StateIs
    <3> HIDE DEF dummy
    <3>5. sent = [s EXCEPT !.dummy = dummy, !.first = s.second, !.second = End,
                           !.waiting = 0, !.batch = batch]
      BY <3>4
    <3> HIDE DEF sent, batch
    <3>6. sent \in PipeState
      <4>1. 0 \in -MaxQueries .. MaxQueries /\ End \in 1 .. End /\ s.second \in 1 .. End
        BY <1>1, StateIs, Ids
      <4> QED
        BY <1>1, <3>2, <3>5, <4>1, ZenonT(60) DEF PipeState
    <3>7. /\ sent.queue = s.queue /\ sent.res = s.res /\ sent.first = s.second
          /\ sent.second = End /\ sent.waiting = 0 /\ sent.lastId = s.lastId
          /\ sent.dummy = dummy /\ sent.error = NoError /\ sent.registered = s.registered
          /\ sent.block = s.block /\ sent.ran = s.ran /\ sent.thrown = s.thrown
      BY <1>1, <2>3, <3>5 DEF PipeState
    <3>8. /\ n \in PipeState /\ SameProgram(n, sent)
          /\ \/ Refused(n, sent, batch, dummy)
             \/ AllRan(n, sent, batch, dummy)
             \/ \E q \in batch : RanUpTo(n, sent, batch, dummy, q)
      BY <3>1, <3>2, <3>6, ExecutedIs
    <3>9. /\ n.queue = s.queue /\ n.res = s.res /\ n.first = s.second /\ n.second = End
          /\ n.waiting = 0 /\ n.lastId = s.lastId /\ n.error = NoError /\ n.registered
          /\ n.dummy = dummy /\ ~n.thrown
      BY <2>3, <3>7, <3>8 DEF SameProgram
    <3>10. s.second \in s.queue /\ s.second \in batch /\ s.second < End /\ s.second \in Nat
           /\ s.second <= End
      <4>1. PICK q \in batch : q \in s.queue /\ s.second <= q /\ q < End
        BY <3>2
      <4>2. s.second < End /\ s.second \in Nat /\ s.second \in s.queue \cup {End}
        BY <4>1, FitsIs, Ids
      <4>3. s.second \in s.queue
        BY <4>2, Ids
      <4> QED
        BY <4>2, <4>3, FitsIs DEF batch, Unsent, Between
    <3>11. HavePending(n)
      BY <3>9, <3>10, Ids DEF HavePending
    <3>12. Pending(n) = batch /\ Between(n, n.first, End) = batch
      BY <3>9, SameQueue DEF Pending, Unsent, batch
    <3>13. \A q \in batch : s.ran[q] = 0
      <4>1. \A q \in batch : q \in Unissued(s)
        BY <1>1, <3>2 DEF Unissued
      <4> QED
        BY <2>3, <4>1 DEF PipeFits, ResultsFit
    <3>14. s.ran \in [Id -> Nat]
      BY <1>1, StateIs
    <3>15. /\ n.block # "auto" => s.block # "auto"
           /\ \A q \in Id : q \notin batch => n.ran[q] = s.ran[q]
           /\ \A q \in batch : n.ran[q] <= 1
           /\ WireFits(n)
      <4>1. CASE Refused(n, sent, batch, dummy)
        <5>1. /\ n.wire = <<[of |-> IF dummy THEN 0 ELSE Min(batch), ok |-> FALSE]>>
              /\ n.ran = s.ran /\ n.block = Worse(s.block)
              /\ s.block = "failed" \/ \E q \in batch : kind[q] = "syntax"
          BY <3>7, <4>1 DEF Refused
        <5>2. n.block # "auto" => s.block # "auto"
          BY <5>1 DEF Worse
        <5>3. n.block = "failed" \/ \E q \in Pending(n) : kind[q] = "syntax"
          BY <3>12, <5>1 DEF Worse
        <5>4. /\ n.first \in Pending(n) /\ Pending(n) \in SUBSET Nat
              /\ \A q \in Pending(n) : n.first <= q /\ n.ran[q] = 0
          BY <3>2, <3>9, <3>10, <3>12, <3>13, <5>1, Ids, ZenonT(60)
        <5>5. n.wire = <<[of |-> IF n.dummy THEN 0 ELSE Min(Pending(n)), ok |-> FALSE]>>
          BY <3>9, <3>12, <5>1
        <5>6. WireFits(n)
          BY <5>3, <5>4, <5>5, RefusedFits DEF WireFits
        <5> QED
          BY <3>13, <5>1, <5>2, <5>6
      <4>2. CASE AllRan(n, sent, batch, dummy)
        <5>1. /\ n.wire = DummyFirst(dummy) \o Good(batch)
              /\ n.ran = Counted(sent, batch) /\ n.block = s.block
          BY <3>7, <4>2 DEF AllRan
        <5>2. \A q \in Id : n.ran[q] = IF q \in batch THEN s.ran[q] + 1 ELSE s.ran[q]
          BY <3>7, <5>1 DEF Counted
        <5>3. \A q \in batch : n.ran[q] = 1
          BY <3>2, <3>13, <5>2
        <5>4. n.wire = DummyFirst(n.dummy) \o Good(Between(n, n.first, End))
                         \o FailedLast(End, FALSE)
          <6> DEFINE a == DummyFirst(dummy) \o Good(batch)
          <6>1. a \in Seq(Answer)
            <7>1. DummyFirst(dummy) \in Seq(Answer) /\ Good(batch) \in Seq(Answer)
              BY <3>2, GoodIs
            <7> QED
              BY <7>1, TwoParts
          <6>2. a \o << >> = a
            <7> HIDE DEF a
            <7> QED
              BY <6>1
          <6> QED
            BY <3>9, <3>12, <5>1, <6>2 DEF FailedLast
        <5>5. AnswersFit(n) /\ (n.dummy => n.wire # << >> /\ n.wire[1] = [of |-> 0, ok |-> TRUE])
          <6>1. /\ n.queue \in SUBSET Id /\ n.dummy \in BOOLEAN /\ End <= n.second
                /\ n.second \in Nat /\ n.second <= End /\ n.first \in n.queue
                /\ End \in n.queue \cup {End} /\ n.first < End
            BY <1>1, <3>2, <3>9, <3>10, Ids
          <6>2. \A p \in Between(n, n.first, End) : n.ran[p] = 1
            BY <3>12, <5>3
          <6> QED
            BY <5>4, <6>1, <6>2, SentAnswers
        <5>6. WireFits(n)
          BY <5>5 DEF WireFits, DummyFits
        <5> QED
          BY <5>1, <5>2, <5>3, <5>6
      <4>3. CASE \E q \in batch : RanUpTo(n, sent, batch, dummy, q)
        <5>1. PICK q \in batch : RanUpTo(n, sent, batch, dummy, q)
          BY <4>3
        <5> DEFINE done == {p \in batch : p < q}
                   failed == [of |-> q, ok |-> FALSE]
        <5>2. /\ n.wire = DummyFirst(dummy) \o Good(done) \o <<failed>>
              /\ n.ran = IF s.block = "auto" THEN s.ran ELSE Counted(sent, done)
              /\ n.block = Worse(s.block)
          BY <3>7, <5>1 DEF RanUpTo
        <5>3. n.block # "auto" => s.block # "auto"
          BY <5>2 DEF Worse
        <5>4. \A p \in Id : n.ran[p] = s.ran[p] \/ (n.ran[p] = s.ran[p] + 1 /\ p \in done)
          BY <3>7, <5>2 DEF Counted
        <5>5. n.block # "auto" => \A p \in done : n.ran[p] = 1
          <6>1. ASSUME n.block # "auto", NEW p \in done PROVE n.ran[p] = 1
            <7>1. p \in Id /\ s.ran[p] = 0 /\ n.ran = Counted(sent, done)
              BY <3>2, <3>13, <5>2, <5>3, <6>1
            <7>2. n.ran[p] = s.ran[p] + 1
              BY <3>7, <7>1 DEF Counted
            <7> QED
              BY <7>1, <7>2
          <6> QED
            BY <6>1
        <5>6. done = Between(n, n.first, q)
          <6>1. \A p \in batch : p \in s.queue /\ s.second <= p /\ p \in Nat
            BY <3>2, Ids
          <6>2. \A p \in s.queue : s.second <= p => p \in batch
            BY <1>1, Ids DEF batch, Unsent, Between
          <6> QED
            BY <3>9, <6>1, <6>2 DEF Between
        <5>7. n.wire = DummyFirst(n.dummy) \o Good(Between(n, n.first, q)) \o FailedLast(q, TRUE)
          <6> HIDE DEF done
          <6> QED
            BY <3>9, <5>2, <5>6 DEF FailedLast
        <5>8. AnswersFit(n) /\ (n.dummy => n.wire # << >> /\ n.wire[1] = [of |-> 0, ok |-> TRUE])
          <6>1. /\ n.queue \in SUBSET Id /\ n.dummy \in BOOLEAN
                /\ n.second \in Nat /\ n.second <= End /\ n.first \in n.queue
            BY <1>1, <3>2, <3>9, <3>10, Ids
          <6>2. q \in s.queue /\ s.second <= q /\ q < End /\ q \in Nat
            BY <3>2, Ids
          <6>3. /\ q \in n.queue \cup {End} /\ q <= n.second /\ q < n.second
                /\ n.first < q \/ n.first = q
            BY <3>9, <3>10, <6>2, Ids
          <6>4. n.block # "auto" => \A p \in Between(n, n.first, q) : n.ran[p] = 1
            BY <5>5, <5>6
          <6>5. TRUE \in BOOLEAN
            OBVIOUS
          <6> HIDE DEF done, failed
          <6> QED
            BY <5>7, <6>1, <6>3, <6>4, <6>5, SentAnswers
        <5>9. WireFits(n)
          BY <5>8 DEF WireFits, DummyFits
        <5>10. \A p \in batch : n.ran[p] <= 1
          BY <3>2, <3>13, <5>4
        <5>11. \A p \in Id : p \notin batch => n.ran[p] = s.ran[p]
          BY <5>4
        <5> QED
          BY <5>3, <5>9, <5>10, <5>11
      <4> QED
        BY <3>8, <4>1, <4>2, <4>3
    <3>16. PipeFits(n)
      BY <2>3, <3>9, <3>15, <3>8, SentFits DEF batch
    <3> QED
      BY <1>1, <2>3, <3>9, <3>11, <3>16 DEF Fresh
  <2> QED
    BY <2>2, <2>3
<1> QED
  BY <1>2, <1>3

-----------------------------------------------------------------------------
(* Calls. *)
LEMMA ReturnFits ==
  ASSUME NEW s, PipeFits(s), NEW n, n = [s EXCEPT !.thrown = FALSE]
  PROVE  PipeFits(n) /\ ~n.thrown /\ n.queue = s.queue /\ n.res = s.res /\ n.first = s.first
         /\ n.second = s.second /\ n.block = s.block /\ n.ran = s.ran
<1>1. s \in PipeState
  BY FitsIs
<1>2. n \in PipeState
  BY <1>1, ZenonT(60) DEF PipeState
<1>3. /\ n.queue = s.queue /\ n.res = s.res /\ n.first = s.first /\ n.second = s.second
      /\ n.waiting = s.waiting /\ n.lastId = s.lastId /\ n.dummy = s.dummy
      /\ n.error = s.error /\ n.registered = s.registered /\ n.wire = s.wire
      /\ n.block = s.block /\ n.ran = s.ran /\ ~n.thrown
  BY <1>1 DEF PipeState
<1> QED
  BY <1>2, <1>3, SamePipe

(* The focus is given up when nothing needs it. *)
LEMMA Unregistered ==
  ASSUME NEW s, PipeFits(s), ~HavePending(s), s.error # NoError \/ s.waiting = 0,
         NEW n \in PipeState,
         n.queue = s.queue, n.res = s.res, n.first = s.first, n.second = s.second,
         n.waiting = s.waiting, n.lastId = s.lastId, n.dummy = s.dummy,
         n.error = s.error, n.wire = s.wire, n.block = s.block, n.ran = s.ran
  PROVE  PipeFits(n)
<1>1. /\ \A i : Succ(n, i) = Succ(s, i)
      /\ \A i, j : Between(n, i, j) = Between(s, i, j)
  BY SameQueue
<1>2. HavePending(n) = HavePending(s) /\ Pending(n) = Pending(s) /\ Unissued(n) = Unissued(s)
  BY <1>1 DEF HavePending, Pending, Unissued
<1>3. QueueFits(n)
  BY <1>1, <1>2 DEF PipeFits, QueueFits
<1>4. ErrorFits(n)
  BY <1>2 DEF PipeFits, ErrorFits
<1>5. ResultsFit(n)
  BY <1>2 DEF PipeFits, ResultsFit
<1>6. WireFits(n)
  BY <1>2 DEF WireFits
<1>7. ToldFits(n)
  BY DEF PipeFits, ToldFits
<1> QED
  BY <1>3, <1>4, <1>5, <1>6, <1>7 DEF PipeFits

LEMMA Detached ==
  ASSUME NEW s, PipeFits(s), ~HavePending(s), s.error # NoError \/ s.waiting = 0,
         NEW n, n = [s EXCEPT !.registered = FALSE]
  PROVE  PipeFits(n) /\ n.thrown = s.thrown
<1>1. s \in PipeState
  BY FitsIs
<1>2. n \in PipeState
  BY <1>1, ZenonT(60) DEF PipeState
<1>3. /\ n.queue = s.queue /\ n.res = s.res /\ n.first = s.first /\ n.second = s.second
      /\ n.waiting = s.waiting /\ n.lastId = s.lastId /\ n.dummy = s.dummy
      /\ n.error = s.error /\ n.wire = s.wire
      /\ n.block = s.block /\ n.ran = s.ran /\ n.thrown = s.thrown
  BY <1>1 DEF PipeState
<1> QED
  BY <1>2, <1>3, Unregistered

LEMMA QueryInserted ==
  ASSUME NEW p, PipeFits(p), NEW q \in Id, q = p.lastId + 1,
         NEW n \in PipeState,
         n.queue = p.queue \cup {q}, n.res = p.res,
         n.first = IF p.first = End THEN q ELSE p.first,
         n.second = IF p.second = End THEN q ELSE p.second,
         n.waiting = p.waiting + 1, n.lastId = q, n.dummy = p.dummy,
         n.error = p.error, n.registered, n.wire = p.wire,
         n.block = p.block, n.ran = p.ran
  PROVE  PipeFits(n) /\ q \in Unsent(n)
<1>1. /\ p \in PipeState /\ p.queue \in SUBSET Id /\ p.lastId \in Nat
      /\ \A x \in p.queue : x \in Id /\ x \in Nat /\ x < End /\ x < q
      /\ p.first \in p.queue \cup {End} /\ p.second \in p.queue \cup {End}
      /\ p.first \in Nat /\ p.second \in Nat /\ p.first <= p.second /\ p.second <= End
      /\ q \in Nat /\ q < End /\ End \in Nat /\ q \notin p.queue
  <2>1. q \in Nat /\ q < End /\ End \in Nat
    BY Ids
  <2>2. \A x \in p.queue : x \in Id /\ x \in Nat /\ x < End /\ x <= p.lastId
    BY FitsIs
  <2>3. p.lastId \in Nat
    BY FitsIs
  <2>4. \A x \in p.queue : x < q
    BY <2>1, <2>2, <2>3
  <2> QED
    BY <2>1, <2>2, <2>4, FitsIs
<1>2. n.queue \in SUBSET Id /\ \A x \in n.queue : x = q \/ x \in p.queue
  BY <1>1
<1>3. /\ {n.first, n.second} \subseteq n.queue \cup {End} /\ n.first <= n.second
      /\ n.first \in Nat /\ n.second \in Nat /\ n.second <= q
      /\ HavePending(n) = HavePending(p)
  BY <1>1 DEF HavePending
<1>4. Pending(n) = Pending(p)
  <2>1. ASSUME NEW x \in p.queue
        PROVE  n.first <= x /\ x < n.second <=> p.first <= x /\ x < p.second
    BY <1>1
  <2>2. ~(q < n.second)
    BY <1>1, <1>3
  <2> QED
    BY <1>1, <2>1, <2>2 DEF Pending, Between
<1>5. Unissued(n) \subseteq Unissued(p)
  <2>1. ASSUME NEW x \in Id, x > q PROVE x > p.lastId
    BY <1>1, <2>1, Ids
  <2>2. q > p.lastId
    BY <1>1
  <2>3. ASSUME NEW x \in p.queue, x >= n.second PROVE x >= p.second
    BY <1>1, <2>3
  <2> QED
    BY <1>1, <2>1, <2>2, <2>3 DEF Unissued
<1>6. Unsent(n) = Unsent(p) \cup {q} /\ q \notin Unsent(p)
  <2>1. \A x \in p.queue : x >= n.second <=> x >= p.second
    BY <1>1
  <2> QED
    BY <1>1, <1>3, <2>1 DEF Unsent, Between
<1>7. Cardinality(Unsent(n)) = Cardinality(Unsent(p)) + 1 /\ Cardinality(Unsent(p)) \in Nat
  <2>1. IsFiniteSet(Unsent(p)) /\ Cardinality(Unsent(p)) \in Nat
    BY <1>1, BetweenIs DEF Unsent
  <2>2. \A S, x : IsFiniteSet(S) /\ x \notin S => Cardinality(S \cup {x}) = Cardinality(S) + 1
    BY FS_AddElement, Zenon
  <2> HIDE DEF Unsent
  <2> QED
    BY <1>6, <2>1, <2>2, Zenon
<1>8. QueueFits(n)
  <2>1. /\ p.waiting \in 0 .. Cardinality(Unsent(p))
        /\ p.error = NoError => p.waiting = Cardinality(Unsent(p))
    BY DEF PipeFits, QueueFits, Unsent
  <2>2. /\ n.waiting \in 0 .. Cardinality(Unsent(n))
        /\ n.error = NoError => n.waiting = Cardinality(Unsent(n))
    BY <1>7, <2>1
  <2>3. n.queue \subseteq 1 .. n.lastId
    BY <1>1, <1>2, Ids
  <2> QED
    BY <1>3, <2>2, <2>3 DEF QueueFits, Unsent
<1>9. ErrorFits(n)
  <2>1. ErrorFits(p)
    BY DEF PipeFits
  <2>2. ASSUME p.error # NoError
        PROVE  /\ ~HavePending(n) /\ n.error <= n.lastId + 1
               /\ \A x \in n.queue : x < n.error => x < n.first
    <3>1. /\ ~HavePending(p) /\ p.error <= q /\ p.error \in Nat
          /\ \A x \in p.queue : x < p.error => x < p.first
      BY <1>1, <2>1, <2>2, StateIs DEF ErrorFits
    <3>2. ~(q < n.error)
      BY <1>1, <3>1
    <3>3. \A x \in p.queue : x < p.error => x < n.first
      BY <1>1, <3>1
    <3> QED
      BY <1>1, <1>2, <1>3, <3>1, <3>2, <3>3
  <2> QED
    BY <2>2 DEF ErrorFits
<1>10. ResultsFit(n)
  <2>1. ResultsFit(p)
    BY DEF PipeFits
  <2>2. \A x \in n.queue : x < n.first => x \in p.queue /\ x < p.first
    BY <1>1, <1>2
  <2>3. \A x \in n.queue : x < n.first => n.res[x] # None
    BY <2>1, <2>2 DEF ResultsFit
  <2>4. \A x \in Unissued(n) \cup Pending(n) : x \in Unissued(p) \cup Pending(p)
    BY <1>4, <1>5
  <2> QED
    BY <1>5, <2>1, <2>3, <2>4 DEF ResultsFit
<1>11. ToldFits(n)
  <2>1. ToldFits(p)
    BY DEF PipeFits
  <2>2. \A x \in Id : x <= p.lastId => x <= n.lastId /\ x # q
    BY <1>1, Ids
  <2> QED
    BY <1>1, <2>1, <2>2 DEF ToldFits
<1>12. WireFits(n)
  <2>1. ASSUME HavePending(p)
        PROVE  DummyFits(n) /\ AnswersFit(n)
    <3>1. n.first = p.first /\ DummyFits(p) /\ AnswersFit(p)
      BY <1>1, <2>1 DEF PipeFits, WireFits, HavePending
    <3>2. DummyFits(n)
      BY <1>4, <3>1 DEF DummyFits
    <3>3. ASSUME NEW x \in Pending(p), Succ(p, x) \in Pending(p)
          PROVE  Succ(n, x) = Succ(p, x)
      <4>1. x \in p.queue /\ Succ(p, x) \in p.queue
        BY <3>3 DEF Pending, Between
      <4>2. x \in Nat /\ x < End /\ Succ(p, x) < q
        BY <1>1, <4>1
      <4>3. Succ(p, x) > x /\ \A j \in p.queue : j > x => Succ(p, x) <= j
        BY <1>1, <4>2, SuccIs
      <4>4. \A j \in n.queue : j > x => Succ(p, x) <= j
        <5>1. Succ(p, x) <= q /\ Succ(p, x) \in Nat
          BY <1>1, <4>1, <4>2
        <5> QED
          BY <1>2, <4>3, <5>1
      <4>5. n.queue \in SUBSET Id /\ Succ(p, x) \in n.queue
        BY <1>2, <4>1
      <4> HIDE DEF Succ
      <4> QED
        BY <4>2, <4>3, <4>4, <4>5, SuccIsThis
    <3>4. AnswersFit(n)
      <4> DEFINE from == IF p.dummy THEN 2 ELSE 1
      <4>1. ASSUME NEW i \in from .. Len(p.wire)
            PROVE  /\ p.wire[i].of \in Pending(p)
                   /\ i < Len(p.wire) => p.wire[i + 1].of = Succ(n, p.wire[i].of)
        <5>1. /\ \A k \in from .. Len(p.wire) : p.wire[k].of \in Pending(p)
              /\ i < Len(p.wire) => p.wire[i + 1].of = Succ(p, p.wire[i].of)
          BY <3>1 DEF AnswersFit
        <5>2. i < Len(p.wire) => i + 1 \in from .. Len(p.wire)
          BY <1>1, StateIs
        <5> QED
          BY <3>3, <5>1, <5>2
      <4> QED
        BY <1>4, <3>1, <4>1 DEF AnswersFit
    <3> QED
      BY <3>2, <3>4
  <2> QED
    BY <1>3, <2>1 DEF WireFits
<1> QED
  BY <1>6, <1>8, <1>9, <1>10, <1>11, <1>12 DEF PipeFits

-----------------------------------------------------------------------------
(* The calls, as long as every cancel came to its end. *)
WholeInv ==
  /\ PipeFits(pipe) /\ ~pipe.thrown
  /\ kind \in [Id -> Kind]
  /\ told \in [Id -> {"nothing", "ok", "error", "skipped"}]

(* A call that ends in n, and what it tells of the queries. *)
LEMMA CallFits ==
  ASSUME NEW n, PipeFits(n), ~n.thrown, kind \in [Id -> Kind], UNCHANGED kind, pipe' = n,
         told' \in [Id -> {"nothing", "ok", "error", "skipped"}],
         \A q \in Id : told'[q] = "ok" =>
           /\ q <= n.lastId /\ q \notin n.queue
           /\ n.block # "auto" => n.ran[q] = 1
  PROVE  WholeInv'
<1>1. /\ n \in PipeState /\ QueueFits(n) /\ ErrorFits(n) /\ ResultsFit(n)
      /\ WireFits(n)
  BY DEF PipeFits
<1>2. (pipe \in PipeState /\ QueueFits(pipe) /\ ErrorFits(pipe) /\ ResultsFit(pipe))'
  BY <1>1
<1>3. WireFits(pipe)'
  BY <1>1 DEF WireFits, DummyFits
<1>4. ToldFits(pipe)'
  BY DEF ToldFits
<1>5. PipeFits(pipe)'
  BY <1>2, <1>3, <1>4 DEF PipeFits
<1> QED
  BY <1>5 DEF WholeInv

LEMMA NextFits ==
  ASSUME NEW s, PipeFits(s), kind \in [Id -> Kind],
         told \in [Id -> {"nothing", "ok", "error", "skipped"}],
         pipe' = [s EXCEPT !.thrown = FALSE], UNCHANGED <<kind, told>>
  PROVE  WholeInv'
<1> DEFINE n == [s EXCEPT !.thrown = FALSE]
<1>1. PipeFits(n) /\ ~n.thrown
  BY ReturnFits
<1>2. pipe' = n
  OBVIOUS
<1> HIDE DEF n
<1>3. ToldFits(n)
  BY <1>1 DEF PipeFits
<1> QED
  BY <1>1, <1>2, <1>3, CallFits DEF ToldFits

LEMMA WholeStarts == PipelineInit => WholeInv
<1> SUFFICES ASSUME PipelineInit PROVE WholeInv
  OBVIOUS
<1>1. PICK b \in {"auto", "open"} :
        pipe = [queue |-> {}, res |-> [q \in Id |-> None],
                first |-> End, second |-> End, retain |-> 0, waiting |-> 0,
                lastId |-> 0, dummy |-> FALSE, error |-> NoError,
                registered |-> TRUE, wire |-> << >>, block |-> b,
                batch |-> {},
                ran |-> [q \in Id |-> 0], thrown |-> FALSE]
  BY DEF PipelineInit
<1>2. kind \in [Id -> Kind] /\ told = [q \in Id |-> "nothing"]
  BY DEF PipelineInit
<1>3. pipe \in PipeState
  <2>1. None \in Answer
    BY Ids DEF None, Answer
  <2>2. /\ {} \in SUBSET Id /\ [q \in Id |-> None] \in [Id -> Answer]
        /\ End \in 1 .. End /\ 0 \in 0 .. MaxRetain /\ 0 \in -MaxQueries .. MaxQueries
        /\ 0 \in 0 .. MaxQueries /\ NoError \in 0 .. NoError /\ << >> \in Seq(Answer)
        /\ b \in {"auto", "open", "failed"} /\ [q \in Id |-> 0] \in [Id -> Nat]
        /\ FALSE \in BOOLEAN /\ TRUE \in BOOLEAN
    BY <2>1, Ids, PipelineAssumption
  <2> QED
    BY <1>1, <2>2, ZenonT(60) DEF PipeState
<1>4. /\ pipe.queue = {} /\ pipe.res = [q \in Id |-> None] /\ pipe.first = End
      /\ pipe.second = End /\ pipe.waiting = 0 /\ pipe.lastId = 0
      /\ pipe.error = NoError /\ pipe.registered /\ ~pipe.thrown
      /\ pipe.ran = [q \in Id |-> 0]
  BY <1>1
<1>5. ~HavePending(pipe) /\ Between(pipe, pipe.second, End) = {}
      /\ Pending(pipe) = {}
  BY <1>4 DEF HavePending, Between, Pending
<1>6. QueueFits(pipe)
  BY <1>4, <1>5, Ids, FS_EmptySet DEF QueueFits
<1>7. ErrorFits(pipe) /\ WireFits(pipe)
  BY <1>4, <1>5 DEF ErrorFits, WireFits
<1>8. ResultsFit(pipe)
  BY <1>4, <1>5, Ids DEF ResultsFit, Unissued
<1>9. ToldFits(pipe)
  BY <1>2 DEF ToldFits
<1> QED
  BY <1>2, <1>3, <1>4, <1>6, <1>7, <1>8, <1>9, Zenon DEF WholeInv, PipeFits

(* insert *)
LEMMA InsertFits ==
  ASSUME WholeInv, Insert
  PROVE  WholeInv'
<1> DEFINE q == pipe.lastId + 1
           s == [Attached(pipe) EXCEPT !.lastId = q,
                           !.queue = @ \cup {q}, !.waiting = @ + 1,
                           !.second = IF @ = End THEN q ELSE @,
                           !.first = IF @ = End THEN q ELSE @]
           Received == IF HavePending(s) THEN ReceiveIfAvailable(s) ELSE {s}
<1>1. /\ PipeFits(pipe) /\ pipe \in PipeState /\ ~pipe.thrown
      /\ kind \in [Id -> Kind] /\ told \in [Id -> {"nothing", "ok", "error", "skipped"}]
  BY DEF WholeInv, PipeFits
<1>2. /\ pipe.lastId < MaxQueries /\ UNCHANGED <<kind, told>>
      /\ Return(IF s.waiting <= s.retain THEN {s}
                ELSE Then(Received, LAMBDA r : IssueIf(r, ~HavePending(r))))
  BY DEF Insert
<1>3. q \in Id
  BY <1>1, <1>2, StateIs, Ids
<1>4. s = [pipe EXCEPT !.registered = TRUE, !.lastId = q,
              !.queue = pipe.queue \cup {q}, !.waiting = pipe.waiting + 1,
              !.second = IF pipe.second = End THEN q ELSE pipe.second,
              !.first = IF pipe.first = End THEN q ELSE pipe.first]
  BY <1>1 DEF Attached, PipeState
<1>5. pipe.waiting + 1 \in -MaxQueries .. MaxQueries
  <2> DEFINE B == Between(pipe, pipe.second, End)
  <2>1. pipe.queue \in SUBSET (Id \ {q}) /\ Cardinality(B) \in Nat
    <3>1. \A x \in pipe.queue : x # q
      BY <1>1, FitsIs
    <3> QED
      BY <1>1, <3>1, FitsIs, BetweenIs
  <2>2. Cardinality(B) < MaxQueries
    <3>1. B \in SUBSET Id /\ B # Id
      BY <1>3, <2>1 DEF Between
    <3>2. Cardinality(B) <= Cardinality(Id) /\ Cardinality(B) # Cardinality(Id)
      BY <3>1, IdsAreFinite, FS_Subset
    <3> QED
      BY <2>1, <3>2, IdsAreFinite, Ids
  <2>3. pipe.waiting \in 0 .. Cardinality(B)
    BY <1>1 DEF PipeFits, QueueFits
  <2> QED
    BY <2>1, <2>2, <2>3, Ids
<1>6. s \in PipeState
  <2> DEFINE first == IF pipe.first = End THEN q ELSE pipe.first
             second == IF pipe.second = End THEN q ELSE pipe.second
             w == [pipe EXCEPT !.registered = TRUE, !.lastId = q,
                      !.queue = pipe.queue \cup {q}, !.waiting = pipe.waiting + 1]
  <2>1. /\ TRUE \in BOOLEAN /\ q \in 0 .. MaxQueries /\ pipe.queue \cup {q} \in SUBSET Id
        /\ second \in 1 .. End /\ first \in 1 .. End
    BY <1>1, <1>3, StateIs, Ids
  <2>2. s = [w EXCEPT !.second = second, !.first = first]
    BY <1>4
  <2> HIDE DEF first, second, s
  <2>3. w \in PipeState
    BY <1>1, <1>5, <2>1, ZenonT(60) DEF PipeState
  <2> HIDE DEF w
  <2> QED
    BY <2>1, <2>2, <2>3, ZenonT(60) DEF PipeState
<1>7. /\ s.queue = pipe.queue \cup {q} /\ s.res = pipe.res
      /\ s.first = IF pipe.first = End THEN q ELSE pipe.first
      /\ s.second = IF pipe.second = End THEN q ELSE pipe.second
      /\ s.waiting = pipe.waiting + 1 /\ s.lastId = q /\ s.dummy = pipe.dummy
      /\ s.error = pipe.error /\ s.registered /\ s.wire = pipe.wire
      /\ s.block = pipe.block /\ s.ran = pipe.ran /\ ~s.thrown
  BY <1>1, <1>4, ZenonT(60) DEF PipeState
<1> HIDE DEF s
<1>8. PipeFits(s) /\ q \in Unsent(s)
  BY <1>1, <1>3, <1>6, <1>7, QueryInserted
<1>9. ASSUME NEW r \in Received
      PROVE  PipeFits(r) /\ Later(r, s) /\ ~r.thrown
  <2>1. CASE HavePending(s)
    BY <1>1, <1>7, <1>8, <1>9, <2>1, ReceiveIfAvailableIs DEF Fresh
  <2>2. CASE ~HavePending(s)
    BY <1>7, <1>8, <1>9, <2>2, LaterStill
  <2> QED
    BY <2>1, <2>2
<1>10. ASSUME NEW r \in Received
       PROVE  PipeFits(Issue(r)) \/ HavePending(r)
  <2> SUFFICES ASSUME ~HavePending(r) PROVE PipeFits(Issue(r))
    OBVIOUS
  <2>1. PipeFits(r) /\ Later(r, s) /\ ~r.thrown
    BY <1>9, <1>10
  <2>2. r.queue # {}
    BY <1>7, <2>1 DEF Later
  <2>3. r.error = NoError => q \in Unsent(r) /\ r.registered
    <3> SUFFICES ASSUME r.error = NoError PROVE q \in Unsent(r) /\ r.registered
      OBVIOUS
    <3>1. r.queue = s.queue /\ r.second = s.second /\ r.registered
      BY <1>7, <2>1 DEF Later
    <3>2. Unsent(r) = Unsent(s)
      BY <3>1 DEF Unsent, Between
    <3> QED
      BY <1>8, <3>1, <3>2
  <2> QED
    BY <1>1, <2>1, <2>2, <2>3, IssueIs
<1>11. PICK n \in (IF s.waiting <= s.retain THEN {s}
                   ELSE Then(Received, LAMBDA r : IssueIf(r, ~HavePending(r)))) :
         pipe' = [n EXCEPT !.thrown = FALSE]
  BY <1>2 DEF Return
<1> HIDE DEF Received
<1>12. PipeFits(n)
  <2>1. CASE n = s
    BY <1>8, <2>1
  <2>2. CASE n \in Then(Received, LAMBDA r : IssueIf(r, ~HavePending(r)))
    <3>1. PICK r \in Received : n \in IF r.thrown THEN {r} ELSE IssueIf(r, ~HavePending(r))
      BY <2>2 DEF Then
    <3> QED
      BY <1>9, <1>10, <3>1 DEF IssueIf
  <2> QED
    BY <1>11, <2>1, <2>2
<1> QED
  BY <1>1, <1>2, <1>11, <1>12, NextFits

LEMMA Ends ==
  /\ End \in 1 .. End /\ 0 \in -MaxQueries .. MaxQueries
  /\ \A s : s.queue \in SUBSET Id => Between(s, End, End) = {}
<1>1. End \in 1 .. End /\ 0 \in -MaxQueries .. MaxQueries
  BY Ids
<1>2. ASSUME NEW x \in Id PROVE ~(End <= x /\ x < End)
  BY Ids
<1> QED
  BY <1>1, <1>2, Zenon DEF Between

(* Everything that was issued is received, but for an error. *)
LEMMA NothingPending ==
  ASSUME NEW n, PipeFits(n), n.error = NoError => n.second <= n.first
  PROVE  ~HavePending(n)
<1>1. CASE n.error = NoError
  <2>1. n.first \in Nat /\ n.second \in Nat /\ n.first <= n.second
    BY FitsIs
  <2> QED
    BY <1>1, <2>1 DEF HavePending
<1>2. CASE n.error # NoError
  BY <1>2 DEF PipeFits, ErrorFits
<1> QED
  BY <1>1, <1>2

LEMMA ReceivedAll ==
  ASSUME NEW s, PipeFits(s), ~s.thrown, kind \in [Id -> Kind],
         NEW n \in IF HavePending(s) THEN Receive(s, s.second) ELSE {s}
  PROVE  PipeFits(n) /\ Later(n, s) /\ ~n.thrown /\ ~HavePending(n)
<1>1. CASE HavePending(s)
  <2>1. n \in Receive(s, s.second)
    BY <1>1
  <2>2. s.second \in s.queue \cup {End} /\ s.first < s.second /\ s.second <= s.second
    BY <1>1, PendingIs, FitsIs
  <2>3. PipeFits(n) /\ Later(n, s) /\ ~n.thrown /\ (n.error = NoError => s.second <= n.first)
    BY <1>1, <2>1, <2>2, ReceiveIs
  <2> QED
    BY <2>3, NothingPending DEF Later
<1>2. CASE ~HavePending(s)
  BY <1>2, LaterStill
<1> QED
  BY <1>1, <1>2

(* What is waiting can be issued. *)
LEMMA Issuable ==
  ASSUME NEW s, PipeFits(s), s.waiting # 0
  PROVE  s.queue # {} /\ (s.error = NoError => Unsent(s) # {} /\ s.registered)
<1>1. /\ s.waiting \in 0 .. Cardinality(Unsent(s))
      /\ s.error # NoError \/ s.waiting = 0 \/ s.registered
  BY DEF PipeFits, QueueFits, Unsent
<1>2. Unsent(s) # {}
  <2>1. Cardinality({}) = 0
    BY FS_EmptySet
  <2> QED
    BY <1>1, <2>1
<1> QED
  BY <1>1, <1>2 DEF Unsent, Between

(* complete *)
LEMMA CompleteFits ==
  ASSUME WholeInv, Complete
  PROVE  WholeInv'
<1> DEFINE Received == IF HavePending(pipe) THEN Receive(pipe, pipe.second) ELSE {pipe}
           Rest(r) == IF r.waiting # 0 /\ r.error = NoError
                        THEN Then({Issue(r)}, LAMBDA i : Receive(i, End))
                        ELSE {r}
           All == Then(Received, Rest)
<1>1. /\ PipeFits(pipe) /\ ~pipe.thrown
      /\ kind \in [Id -> Kind] /\ told \in [Id -> {"nothing", "ok", "error", "skipped"}]
  BY DEF WholeInv
<1>2. /\ UNCHANGED <<kind, told>>
      /\ Return(Then(All, LAMBDA r : {[r EXCEPT !.registered = FALSE]}))
  BY DEF Complete
<1>3. ASSUME NEW r \in All
      PROVE  PipeFits(r) /\ (~r.thrown => ~HavePending(r) /\ (r.error # NoError \/ r.waiting = 0))
  <2>1. PICK p \in Received : r \in IF p.thrown THEN {p} ELSE Rest(p)
    BY <1>3 DEF Then
  <2>2. PipeFits(p) /\ ~p.thrown /\ ~HavePending(p)
    BY <1>1, <2>1, ReceivedAll
  <2>3. CASE ~(p.waiting # 0 /\ p.error = NoError)
    BY <2>1, <2>2, <2>3
  <2>4. CASE p.waiting # 0 /\ p.error = NoError
    <3> DEFINE i == Issue(p)
    <3>1. /\ PipeFits(i)
          /\ ~i.thrown => i.error = NoError /\ HavePending(i) /\ i.second = End
      BY <1>1, <2>2, <2>4, Issuable, IssueIs, ZenonT(60)
    <3>2. r \in IF i.thrown THEN {i} ELSE Receive(i, End)
      BY <2>1, <2>2, <2>4 DEF Then
    <3> HIDE DEF i
    <3>3. CASE i.thrown
      BY <3>1, <3>2, <3>3
    <3>4. CASE ~i.thrown
      <4>1. HavePending(i) /\ i.second = End /\ r \in Receive(i, i.second)
        BY <3>1, <3>2, <3>4
      <4>2. PipeFits(r) /\ Later(r, i) /\ ~r.thrown /\ ~HavePending(r)
        BY <1>1, <3>1, <3>4, <4>1, ReceivedAll
      <4>3. r.error = NoError => r.waiting = 0
        <5>1. r.error = NoError => r.second = End /\ r.waiting = Cardinality(Between(r, r.second, End))
          BY <4>1, <4>2 DEF Later, PipeFits, QueueFits
        <5>2. Between(r, End, End) = {}
          BY <4>2, FitsIs, Ends
        <5> QED
          BY <5>1, <5>2, FS_EmptySet
      <4> QED
        BY <4>2, <4>3
    <3> QED
      BY <3>3, <3>4
  <2> QED
    BY <2>3, <2>4
<1>4. PICK n \in Then(All, LAMBDA r : {[r EXCEPT !.registered = FALSE]}) :
        pipe' = [n EXCEPT !.thrown = FALSE]
  BY <1>2 DEF Return
<1> HIDE DEF All
<1>5. PICK r \in All : n = IF r.thrown THEN r ELSE [r EXCEPT !.registered = FALSE]
  BY <1>4 DEF Then
<1>6. PipeFits(n)
  BY <1>3, <1>5, Detached
<1> QED
  BY <1>1, <1>2, <1>4, <1>6, NextFits

(* flush, where something is in the queue or nothing. *)
LEMMA Emptied ==
  ASSUME NEW s, PipeFits(s), NEW n \in PipeState,
         n.queue = {}, n.first = End, n.second = End, n.waiting = 0,
         n.res = s.res, n.lastId = s.lastId, n.error = s.error,
         n.block = s.block, n.ran = s.ran
  PROVE  PipeFits(n)
<1>1. ~HavePending(n) /\ Pending(n) = {} /\ Between(n, n.second, End) = {}
      /\ Unissued(n) \subseteq Unissued(s)
  BY DEF HavePending, Pending, Between, Unissued
<1>2. QueueFits(n)
  BY <1>1, Ids, FS_EmptySet DEF QueueFits
<1>3. ErrorFits(n)
  BY <1>1 DEF PipeFits, ErrorFits
<1>4. ResultsFit(n)
  BY <1>1 DEF PipeFits, ResultsFit
<1>5. WireFits(n)
  BY <1>1 DEF WireFits
<1>6. ToldFits(n)
  BY DEF PipeFits, ToldFits
<1> QED
  BY <1>2, <1>3, <1>4, <1>5, <1>6 DEF PipeFits

LEMMA FlushFits ==
  ASSUME WholeInv, Flush
  PROVE  WholeInv'
<1> DEFINE Received == IF HavePending(pipe) THEN Receive(pipe, pipe.second) ELSE {pipe}
           Empty(r) == [IF r.queue = {} THEN r ELSE Flushed(r) EXCEPT !.registered = FALSE]
<1>1. /\ PipeFits(pipe) /\ ~pipe.thrown
      /\ kind \in [Id -> Kind] /\ told \in [Id -> {"nothing", "ok", "error", "skipped"}]
  BY DEF WholeInv
<1>2. UNCHANGED <<kind, told>> /\ Return(Then(Received, LAMBDA r : {Empty(r)}))
  BY DEF Flush
<1>3. PICK n \in Then(Received, LAMBDA r : {Empty(r)}) : pipe' = [n EXCEPT !.thrown = FALSE]
  BY <1>2 DEF Return
<1>4. PICK r \in Received : n = IF r.thrown THEN r ELSE Empty(r)
  BY <1>3 DEF Then
<1>5. PipeFits(r) /\ ~r.thrown /\ ~HavePending(r) /\ n = Empty(r)
  BY <1>1, <1>4, ReceivedAll
<1>6. r \in PipeState
  BY <1>5, FitsIs
<1>7. PipeFits(n)
  <2>1. CASE r.queue = {}
    <3>1. n = [r EXCEPT !.registered = FALSE]
      BY <1>5, <2>1
    <3>2. n \in PipeState
      BY <1>6, <3>1, ZenonT(60) DEF PipeState
    <3>3. /\ n.queue = {} /\ n.res = r.res /\ n.first = r.first /\ n.second = r.second
          /\ n.waiting = r.waiting /\ n.lastId = r.lastId
          /\ n.error = r.error /\ n.block = r.block /\ n.ran = r.ran
      BY <1>6, <2>1, <3>1 DEF PipeState
    <3>4. r.first = End /\ r.second = End
      BY <1>5, <2>1, FitsIs
    <3>5. r.waiting = 0
      BY <1>5, <2>1, Issuable
    <3> QED
      BY <1>5, <3>2, <3>3, <3>4, <3>5, Emptied
  <2>2. CASE r.queue # {}
    <3>1. n = [r EXCEPT !.queue = {}, !.first = End, !.second = End, !.waiting = 0,
                        !.dummy = FALSE, !.registered = FALSE]
      BY <1>5, <2>2 DEF Flushed
    <3>2. n \in PipeState
      <4>1. End \in 1 .. End /\ 0 \in -MaxQueries .. MaxQueries
        BY Ends
      <4>2. {} \in SUBSET Id /\ FALSE \in BOOLEAN
        OBVIOUS
      <4> QED
        BY <1>6, <3>1, <4>1, <4>2, ZenonT(60) DEF PipeState
    <3>3. /\ n.queue = {} /\ n.res = r.res /\ n.first = End /\ n.second = End
          /\ n.waiting = 0 /\ n.lastId = r.lastId
          /\ n.error = r.error /\ n.block = r.block /\ n.ran = r.ran
      BY <1>6, <3>1 DEF PipeState
    <3> QED
      BY <1>5, <3>2, <3>3, Emptied
  <2> QED
    BY <2>1, <2>2
<1> QED
  BY <1>1, <1>2, <1>3, <1>7, NextFits

(* cancel, where the request finds the batch: results that were still to     *)
(* come are lost, and so is what their queries did.                          *)
LEMMA HalfFrom ==
  ASSUME NEW s, PipeFits(s), HavePending(s)
  PROVE  HalfFits(s)
<1>1. /\ s \in PipeState /\ QueueFits(s) /\ ErrorFits(s) /\ ResultsFit(s) /\ ToldFits(s)
      /\ DummyFits(s) /\ AnswersFit(s)
  BY DEF PipeFits, WireFits
<1>2. ASSUME NEW i \in 1 .. Len(s.wire), s.wire[i].of \in Id
      PROVE  s.res[s.wire[i].of] = None /\ told[s.wire[i].of] # "ok"
  <2>1. Len(s.wire) \in Nat
    BY <1>1, StateIs
  <2>2. s.dummy => s.wire[1].of = 0
    BY <1>1 DEF DummyFits
  <2>3. i \in (IF s.dummy THEN 2 ELSE 1) .. Len(s.wire)
    BY <1>2, <2>1, <2>2, Ids
  <2>4. s.wire[i].of \in Pending(s)
    BY <1>1, <2>3 DEF AnswersFit
  <2>5. s.res[s.wire[i].of] = None /\ s.wire[i].of \in s.queue
    BY <2>4, PendingIs, FitsIs
  <2> QED
    BY <1>1, <1>2, <2>5 DEF ToldFits
<1>3. ErasedFit(s)
  BY <1>2 DEF ErasedFit
<1> QED
  BY <1>1, <1>3 DEF HalfFits

LEMMA HalfIs ==
  ASSUME NEW s, HalfFits(s)
  PROVE  /\ s \in PipeState /\ s.queue \in SUBSET Id /\ HavePending(s)
         /\ \A q \in s.queue : q \in Id /\ q \in Nat /\ q < End
         /\ s.first \in s.queue /\ s.second \in s.queue \cup {End}
         /\ s.first \in Nat /\ s.second \in Nat /\ s.first < s.second /\ s.second <= End
         /\ s.error = NoError /\ s.registered
<1>1. s \in PipeState /\ QueueFits(s) /\ ErrorFits(s) /\ HavePending(s)
  BY DEF HalfFits
<1>2. s.queue \in SUBSET Id /\ s.first \in Nat /\ s.second \in 1 .. End
  BY <1>1, StateIs
<1>3. s.second \in Nat /\ s.second <= End /\ \A q \in s.queue : q \in Id /\ q \in Nat /\ q < End
  BY <1>2, Ids
<1>4. {s.first, s.second} \subseteq s.queue \cup {End} /\ s.first <= s.second /\ s.registered
  BY <1>1 DEF QueueFits
<1>5. s.first < s.second
  BY <1>1, <1>2, <1>3, <1>4 DEF HavePending
<1>6. s.first \in s.queue
  BY <1>2, <1>3, <1>4, <1>5, Ids
<1>7. s.error = NoError
  BY <1>1 DEF ErrorFits
<1> QED
  BY <1>1, <1>2, <1>3, <1>4, <1>5, <1>6, <1>7

(* Where cancel comes to i. *)
LEMMA Cancelled ==
  ASSUME NEW s, HalfFits(s),
         NEW i \in Between(s, Succ(s, s.first), s.second) \cup {s.second},
         NEW n \in PipeState,
         n.queue = s.queue \ Between(s, s.first, i), n.first = i, n.second = s.second,
         n.waiting = s.waiting, n.res = s.res, n.lastId = s.lastId, n.error = s.error,
         n.registered = s.registered, n.block # "auto" => s.block # "auto",
         \A q \in Id : n.ran[q] = s.ran[q]
                         \/ /\ n.ran[q] = 0
                            /\ s.block # "auto" => s.res[q] = None /\ told[q] # "ok",
         ErasedFit(n)
  PROVE  IF i = s.second THEN PipeFits(n) ELSE HalfFits(n)
<1>1. /\ s \in PipeState /\ s.queue \in SUBSET Id
      /\ \A q \in s.queue : q \in Id /\ q \in Nat /\ q < End
      /\ s.first \in s.queue /\ s.second \in s.queue \cup {End}
      /\ s.first \in Nat /\ s.second \in Nat /\ s.first < s.second /\ s.second <= End
      /\ s.error = NoError /\ s.registered
      /\ QueueFits(s) /\ ResultsFit(s) /\ ToldFits(s)
  BY HalfIs DEF HalfFits
<1>2. Succ(s, s.first) > s.first /\ Succ(s, s.first) \in Nat
  BY <1>1, SuccIs, Ids
<1>3. i \in Nat /\ s.first < i /\ i <= s.second /\ i \in s.queue \cup {End}
  <2>1. CASE i = s.second
    BY <1>1, <2>1
  <2>2. CASE i \in Between(s, Succ(s, s.first), s.second)
    <3>1. i \in s.queue /\ Succ(s, s.first) <= i /\ i < s.second
      BY <2>2 DEF Between
    <3> QED
      BY <1>1, <1>2, <3>1
  <2> QED
    BY <2>1, <2>2
<1>4. \A q \in n.queue : q \in s.queue /\ (q < s.first \/ i <= q)
  BY <1>1, <1>3 DEF Between
<1>5. i \in n.queue \cup {End} /\ s.second \in n.queue \cup {End}
  BY <1>1, <1>3 DEF Between
<1>6. Between(n, n.second, End) = Between(s, s.second, End)
  <2>1. \A q \in s.queue : s.second <= q => q \notin Between(s, s.first, i)
    BY <1>1, <1>3 DEF Between
  <2> QED
    BY <2>1 DEF Between
<1>7. Pending(n) \subseteq Pending(s) /\ Unissued(n) \subseteq Unissued(s)
  <2>1. \A q \in n.queue : i <= q => s.first <= q
    BY <1>1, <1>3, <1>4
  <2>2. Pending(n) \subseteq Pending(s)
    BY <1>4, <2>1 DEF Pending, Between
  <2>3. Unissued(n) \subseteq Unissued(s)
    BY <1>4 DEF Unissued
  <2> QED
    BY <2>2, <2>3
<1>8. QueueFits(n)
  <2>1. n.queue \subseteq 1 .. n.lastId
    BY <1>1, <1>4 DEF QueueFits
  <2> QED
    BY <1>1, <1>3, <1>5, <1>6, <2>1 DEF QueueFits
<1>9. ErrorFits(n)
  BY <1>1 DEF ErrorFits
<1>10. ResultsFit(n)
  <2>1. \A q \in n.queue : q < n.first => n.res[q] # None
    <3>1. \A q \in n.queue : q \in s.queue /\ (q < i => q < s.first)
      BY <1>1, <1>3, <1>4
    <3> QED
      BY <1>1, <3>1 DEF ResultsFit
  <2>2. \A q \in Id : n.block # "auto" /\ n.res[q] # None /\ n.res[q].ok => n.ran[q] = 1
    BY <1>1 DEF ResultsFit
  <2>3. \A q \in Id : n.ran[q] <= 1
    BY <1>1 DEF ResultsFit
  <2>4. \A q \in Unissued(n) \cup Pending(n) : n.res[q] = None
    BY <1>1, <1>7 DEF ResultsFit
  <2>5. \A q \in Unissued(n) : n.ran[q] = 0
    BY <1>1, <1>7 DEF ResultsFit, Unissued
  <2>6. \A q \in Id : n.res[q] # None =>
          n.res[q].of = q \/ (n.res[q].of = 0 /\ ~n.res[q].ok)
    BY <1>1 DEF ResultsFit
  <2> QED
    BY <2>1, <2>2, <2>3, <2>4, <2>5, <2>6 DEF ResultsFit
<1>11. ToldFits(n)
  <2>1. \A q \in Id : told[q] = "ok" => q \notin n.queue
    BY <1>1, <1>4 DEF ToldFits
  <2> QED
    BY <1>1, <2>1 DEF ToldFits
<1>12. CASE i = s.second
  <2>1. WireFits(n)
    BY <1>12 DEF WireFits, HavePending
  <2> QED
    BY <1>8, <1>9, <1>10, <1>11, <1>12, <2>1 DEF PipeFits
<1>13. CASE i # s.second
  <2>1. HavePending(n)
    BY <1>13 DEF HavePending
  <2> QED
    BY <1>8, <1>9, <1>10, <1>11, <1>13, <2>1 DEF HalfFits
<1> QED
  BY <1>12, <1>13

LEMMA CancelRequestIs ==
  ASSUME NEW p, HalfFits(p), NEW s \in CancelRequest(p)
  PROVE  /\ s \in PipeState /\ s.queue = p.queue /\ s.first = p.first
         /\ s.second = p.second
         /\ s.waiting = p.waiting /\ s.res = p.res /\ s.lastId = p.lastId
         /\ s.error = p.error /\ s.registered = p.registered /\ s.thrown = p.thrown
         /\ s.block # "auto" => p.block # "auto"
         /\ \A q \in Id : s.ran[q] = p.ran[q]
                            \/ /\ s.ran[q] = 0
                               /\ p.block # "auto" => p.res[q] = None /\ told[q] # "ok"
         /\ ErasedFit(s)
<1>1. p \in PipeState /\ ErasedFit(p)
  BY DEF HalfFits
<1> DEFINE cut(k) == {p.wire[i].of : i \in k + 1 .. Len(p.wire)}
           lost(k) == IF p.block = "auto" THEN p.batch ELSE cut(k)
           Found(k) == [FailBlock(p) EXCEPT
             !.wire = SubSeq(p.wire, 1, k) \o <<[of |-> 0, ok |-> FALSE]>>,
             !.ran = [q \in Id |-> IF q \in lost(k) THEN 0 ELSE @[q]]]
<1>2. s = p \/ \E k \in 0 .. Len(p.wire) - 1 : s = Found(k)
  BY DEF CancelRequest
<1>3. CASE s = p
  BY <1>1, <1>3
<1>4. CASE \E k \in 0 .. Len(p.wire) - 1 : s = Found(k)
  <2>1. PICK k \in 0 .. Len(p.wire) - 1 : s = Found(k)
    BY <1>4
  <2> DEFINE refusal == [of |-> 0, ok |-> FALSE]
             wire == SubSeq(p.wire, 1, k) \o <<refusal>>
             ran == [q \in Id |-> IF q \in lost(k) THEN 0 ELSE p.ran[q]]
  <2>2. p.wire \in Seq(Answer) /\ p.ran \in [Id -> Nat] /\ Len(p.wire) \in Nat
    BY <1>1, StateIs
  <2>3. FailBlock(p) = [p EXCEPT !.block = Worse(p.block)]
        /\ Worse(p.block) \in {"auto", "open", "failed"}
    BY <1>1, FailBlockIs
  <2>4. s = [p EXCEPT !.block = Worse(p.block), !.wire = wire, !.ran = ran]
    BY <1>1, <2>1, <2>3 DEF PipeState
  <2>5. refusal \in Answer /\ refusal.of = 0 /\ 0 \notin Id
    BY Ids DEF Answer
  <2> HIDE DEF refusal
  <2>6. /\ wire \in Seq(Answer) /\ Len(wire) = k + 1
        /\ \A i \in 1 .. k + 1 : wire[i] = IF i <= k THEN p.wire[i] ELSE refusal
    <3>1. /\ SubSeq(p.wire, 1, k) \in Seq(Answer) /\ Len(SubSeq(p.wire, 1, k)) = k
          /\ \A i \in 1 .. k : SubSeq(p.wire, 1, k)[i] = p.wire[i]
      BY <2>2
    <3> QED
      BY <2>2, <2>5, <3>1
  <2>7. ran \in [Id -> Nat]
    BY <2>2
  <2>8. ASSUME NEW q \in Id
        PROVE  ran[q] = p.ran[q]
                 \/ /\ ran[q] = 0
                    /\ p.block # "auto" => p.res[q] = None /\ told[q] # "ok"
    <3>1. ASSUME q \in cut(k) PROVE p.res[q] = None /\ told[q] # "ok"
      <4>1. PICK i \in k + 1 .. Len(p.wire) : q = p.wire[i].of
        BY <3>1
      <4>2. i \in 1 .. Len(p.wire)
        BY <2>2
      <4> QED
        BY <1>1, <4>1, <4>2 DEF ErasedFit
    <3> HIDE DEF cut
    <3> QED
      BY <3>1
  <2> HIDE DEF wire, ran, Found
  <2>9. s \in PipeState
    BY <1>1, <2>3, <2>4, <2>6, <2>7, ZenonT(60) DEF PipeState
  <2>10. /\ s.queue = p.queue /\ s.first = p.first /\ s.second = p.second
         /\ s.waiting = p.waiting /\ s.res = p.res /\ s.lastId = p.lastId
         /\ s.error = p.error /\ s.registered = p.registered /\ s.thrown = p.thrown
         /\ s.block = Worse(p.block) /\ s.ran = ran /\ s.wire = wire
    BY <1>1, <2>4 DEF PipeState
  <2>11. s.block # "auto" => p.block # "auto"
    BY <2>10 DEF Worse
  <2>12. ErasedFit(s)
    <3>1. ASSUME NEW i \in 1 .. Len(s.wire), s.wire[i].of \in Id
          PROVE  s.res[s.wire[i].of] = None /\ told[s.wire[i].of] # "ok"
      <4>1. i \in 1 .. k + 1 /\ s.wire[i] = IF i <= k THEN p.wire[i] ELSE refusal
        BY <2>6, <2>10
      <4>2. i <= k /\ i \in 1 .. Len(p.wire) /\ s.wire[i] = p.wire[i]
        BY <2>2, <2>5, <3>1, <4>1
      <4> QED
        BY <1>1, <2>10, <3>1, <4>2 DEF ErasedFit
    <3> QED
      BY <3>1 DEF ErasedFit
  <2> QED
    BY <2>8, <2>9, <2>10, <2>11, <2>12
<1> QED
  BY <1>2, <1>3, <1>4

LEMMA CancelFits ==
  ASSUME PipelineInv, Cancel
  PROVE  PipelineInv'
<1>1. HavePending(pipe) /\ UNCHANGED <<kind, told>>
  BY DEF Cancel
<1>2. PICK s \in CancelRequest(pipe) :
        \E i \in Between(s, Succ(s, s.first), s.second) \cup {s.second} :
          /\ pipe' = [s EXCEPT !.queue = @ \ Between(s, s.first, i), !.first = i]
          /\ CancelCall(i = s.second)
  BY DEF Cancel
<1>3. PICK i \in Between(s, Succ(s, s.first), s.second) \cup {s.second} :
          /\ pipe' = [s EXCEPT !.queue = @ \ Between(s, s.first, i), !.first = i]
          /\ CancelCall(i = s.second)
  BY <1>2
<1>4. /\ kind' \in [Id -> Kind] /\ told' \in [Id -> {"nothing", "ok", "error", "skipped"}]
      /\ cancelled \in Completion
  BY <1>1 DEF PipelineInv
<1>5. cancelled' = IF cancelled = "astray" THEN "astray"
                   ELSE IF i = s.second THEN "whole" ELSE "halfway"
  BY <1>3 DEF CancelCall
<1>6. CASE cancelled = "astray"
  BY <1>4, <1>5, <1>6 DEF PipelineInv, Completion
<1>7. CASE cancelled # "astray"
  <2>1. HalfFits(pipe) /\ ~pipe.thrown
    BY <1>1, <1>4, <1>7, HalfFrom DEF PipelineInv, Completion
  <2>2. /\ s \in PipeState /\ s.queue = pipe.queue /\ s.first = pipe.first
        /\ s.second = pipe.second
        /\ s.waiting = pipe.waiting /\ s.res = pipe.res /\ s.lastId = pipe.lastId
        /\ s.error = pipe.error /\ s.registered = pipe.registered /\ s.thrown = pipe.thrown
        /\ s.block # "auto" => pipe.block # "auto"
        /\ \A q \in Id : s.ran[q] = pipe.ran[q]
                           \/ /\ s.ran[q] = 0
                              /\ pipe.block # "auto" => pipe.res[q] = None /\ told[q] # "ok"
        /\ ErasedFit(s)
    BY <2>1, CancelRequestIs
  <2> DEFINE n == [s EXCEPT !.queue = s.queue \ Between(s, s.first, i), !.first = i]
  <2>3. pipe' = n
    BY <1>3
  <2>4. \A j : Between(s, s.first, j) = Between(pipe, pipe.first, j)
    BY <2>2 DEF Between
  <2>5. i \in Between(pipe, Succ(pipe, pipe.first), pipe.second) \cup {pipe.second}
    BY <2>2 DEF Between, Succ
  <2>6. n \in PipeState
    <3>1. s.queue \ Between(s, s.first, i) \in SUBSET Id /\ i \in 1 .. End
      <4>1. s.queue \in SUBSET Id /\ s.second \in 1 .. End
        BY <2>2, StateIs
      <4>2. i \in Id \/ i = s.second
        BY <4>1 DEF Between
      <4> QED
        BY <4>1, <4>2, Ids
    <3> QED
      BY <2>2, <3>1, ZenonT(60) DEF PipeState
  <2>7. /\ n.queue = s.queue \ Between(s, s.first, i) /\ n.first = i /\ n.second = s.second
        /\ n.waiting = s.waiting /\ n.res = s.res /\ n.lastId = s.lastId
        /\ n.error = s.error /\ n.registered = s.registered /\ n.thrown = s.thrown
        /\ n.block = s.block /\ n.ran = s.ran /\ n.wire = s.wire
    BY <2>2 DEF PipeState
  <2> HIDE DEF n
  <2>8. ErasedFit(n)
    BY <2>2, <2>7 DEF ErasedFit
  <2>9. /\ n.queue = pipe.queue \ Between(pipe, pipe.first, i) /\ n.first = i
        /\ n.second = pipe.second
        /\ n.waiting = pipe.waiting /\ n.res = pipe.res /\ n.lastId = pipe.lastId
        /\ n.error = pipe.error /\ n.registered = pipe.registered /\ ~n.thrown
        /\ n.block # "auto" => pipe.block # "auto"
        /\ \A q \in Id : n.ran[q] = pipe.ran[q]
                           \/ /\ n.ran[q] = 0
                              /\ pipe.block # "auto" => pipe.res[q] = None /\ told[q] # "ok"
    BY <2>1, <2>2, <2>4, <2>7
  <2>10. IF i = pipe.second THEN PipeFits(n) ELSE HalfFits(n)
    BY <2>1, <2>5, <2>6, <2>8, <2>9, Cancelled
  <2>11. CASE i = s.second
    <3>1. PipeFits(n) /\ cancelled' = "whole"
      BY <1>5, <1>7, <2>2, <2>10, <2>11
    <3>2. ToldFits(n)
      BY <3>1 DEF PipeFits
    <3>3. WholeInv'
      BY <1>1, <1>4, <2>3, <2>9, <3>1, <3>2, CallFits DEF PipelineInv, ToldFits
    <3> QED
      BY <3>1, <3>3 DEF WholeInv, PipelineInv, Completion
  <2>12. CASE i # s.second
    <3>1. HalfFits(n) /\ cancelled' = "halfway"
      BY <1>5, <1>7, <2>2, <2>10, <2>12
    <3>2. HalfFits(pipe)'
      <4>1. /\ n \in PipeState /\ HavePending(n) /\ QueueFits(n) /\ ErrorFits(n)
            /\ ResultsFit(n) /\ ErasedFit(n) /\ ToldFits(n)
        BY <3>1 DEF HalfFits
      <4>2. (/\ pipe \in PipeState /\ HavePending(pipe) /\ QueueFits(pipe) /\ ErrorFits(pipe)
             /\ ResultsFit(pipe))'
        BY <2>3, <4>1
      <4>3. ErasedFit(pipe)' /\ ToldFits(pipe)'
        BY <1>1, <2>3, <4>1 DEF ErasedFit, ToldFits
      <4> QED
        BY <4>2, <4>3 DEF HalfFits
    <3> QED
      BY <1>4, <2>3, <2>9, <3>1, <3>2 DEF PipelineInv, Completion
  <2> QED
    BY <2>11, <2>12
<1> QED
  BY <1>6, <1>7

(* retain and resume *)
LEMMA RetainFits ==
  ASSUME WholeInv, Retain
  PROVE  WholeInv'
<1>1. /\ PipeFits(pipe) /\ ~pipe.thrown /\ pipe \in PipeState
      /\ kind \in [Id -> Kind] /\ told \in [Id -> {"nothing", "ok", "error", "skipped"}]
  BY DEF WholeInv, PipeFits
<1>2. PICK k \in 0 .. MaxRetain :
        Return(IF [pipe EXCEPT !.retain = k].waiting >= k
                 THEN Resume([pipe EXCEPT !.retain = k]) ELSE {[pipe EXCEPT !.retain = k]})
  BY DEF Retain
<1> DEFINE s == [pipe EXCEPT !.retain = k]
           Received == IF HavePending(s) THEN ReceiveIfAvailable(s) ELSE {s}
           Rest(r) == IF ~HavePending(r) /\ r.waiting # 0
                        THEN Then({Issue(r)}, ReceiveIfAvailable) ELSE {r}
<1>3. PICK n \in IF s.waiting >= k THEN Resume(s) ELSE {s} : pipe' = [n EXCEPT !.thrown = FALSE]
  BY <1>2 DEF Return
<1>4. UNCHANGED <<kind, told>>
  BY DEF Retain
<1>5. s \in PipeState
  BY <1>1, <1>2, ZenonT(60) DEF PipeState
<1>6. /\ s.queue = pipe.queue /\ s.res = pipe.res /\ s.first = pipe.first
      /\ s.second = pipe.second
      /\ s.waiting = pipe.waiting /\ s.lastId = pipe.lastId /\ s.dummy = pipe.dummy
      /\ s.error = pipe.error /\ s.registered = pipe.registered /\ s.wire = pipe.wire
      /\ s.block = pipe.block /\ s.ran = pipe.ran /\ s.thrown = pipe.thrown
  BY <1>1 DEF PipeState
<1> HIDE DEF s
<1>7. PipeFits(s) /\ ~s.thrown
  BY <1>1, <1>5, <1>6, SamePipe
<1>8. ASSUME NEW r \in Received PROVE PipeFits(r) /\ ~r.thrown
  BY <1>1, <1>7, <1>8, ReceiveIfAvailableIs DEF Fresh
<1>9. ASSUME NEW r \in Received, NEW m \in Rest(r) PROVE PipeFits(m)
  <2>1. PipeFits(r) /\ ~r.thrown
    BY <1>8, <1>9
  <2>2. CASE ~(~HavePending(r) /\ r.waiting # 0)
    BY <1>9, <2>1, <2>2
  <2>3. CASE ~HavePending(r) /\ r.waiting # 0
    <3> DEFINE i == Issue(r)
    <3>1. PipeFits(i) /\ (~i.thrown => Fresh(i))
      BY <1>1, <2>1, <2>3, Issuable, IssueIs
    <3>2. m \in IF i.thrown THEN {i} ELSE ReceiveIfAvailable(i)
      BY <1>9, <2>3 DEF Then
    <3> HIDE DEF i
    <3> QED
      BY <1>1, <3>1, <3>2, ReceiveIfAvailableIs
  <2> QED
    BY <2>2, <2>3
<1>10. PipeFits(n)
  <2>1. CASE n = s
    BY <1>7, <2>1
  <2>2. CASE n \in Then(Received, Rest)
    <3>1. PICK r \in Received : n \in IF r.thrown THEN {r} ELSE Rest(r)
      BY <2>2 DEF Then
    <3> QED
      BY <1>8, <1>9, <3>1
  <2>3. n = s \/ n \in Then(Received, Rest)
    BY <1>3 DEF Resume
  <2> QED
    BY <2>1, <2>2, <2>3
<1> QED
  BY <1>1, <1>3, <1>4, <1>10, NextFits

(* A statement of the program's own, when nothing is pending. *)
LEMMA OtherExecFits ==
  ASSUME WholeInv, OtherExec
  PROVE  WholeInv'
<1>1. /\ PipeFits(pipe) /\ ~pipe.thrown /\ pipe \in PipeState
      /\ kind \in [Id -> Kind] /\ told \in [Id -> {"nothing", "ok", "error", "skipped"}]
  BY DEF WholeInv, PipeFits
<1> DEFINE n == [pipe EXCEPT !.wire = << >>]
<1>2. pipe' = n /\ UNCHANGED <<kind, told>> /\ ~pipe.registered
  BY DEF OtherExec
<1>3. n \in PipeState
  <2>1. << >> \in Seq(Answer)
    OBVIOUS
  <2> QED
    BY <1>1, <2>1, ZenonT(60) DEF PipeState
<1>4. /\ n.queue = pipe.queue /\ n.res = pipe.res /\ n.first = pipe.first
      /\ n.second = pipe.second
      /\ n.waiting = pipe.waiting /\ n.lastId = pipe.lastId
      /\ n.error = pipe.error /\ n.registered = pipe.registered
      /\ n.block = pipe.block /\ n.ran = pipe.ran /\ ~n.thrown
  BY <1>1 DEF PipeState
<1> HIDE DEF n
<1>5. ~HavePending(pipe)
  BY <1>1, <1>2 DEF PipeFits, QueueFits
<1>6. PipeFits(n)
  <2>1. n.error = pipe.error \/ (n.error <= Begin(pipe) /\ n.error <= pipe.lastId + 1)
    BY <1>4
  <2>2. /\ n.queue = pipe.queue /\ n.res = pipe.res /\ n.first = pipe.first
        /\ n.second = pipe.second
        /\ n.waiting = pipe.waiting /\ n.lastId = pipe.lastId
        /\ n.registered = pipe.registered
        /\ n.block = pipe.block /\ n.ran = pipe.ran
    BY <1>4
  <2> QED
    BY <1>1, <1>3, <1>5, <2>1, <2>2, SameIdlePipe
<1>7. ToldFits(n)
  BY <1>6 DEF PipeFits
<1> QED
  BY <1>1, <1>2, <1>4, <1>6, <1>7, CallFits DEF ToldFits

(* What retrieve does once everything up to its query is on its way.         *)
LEMMA Fetched ==
  ASSUME NEW r, PipeFits(r), ~r.thrown, kind \in [Id -> Kind], NEW q \in r.queue,
         HavePending(r) => q < r.second,
         ~HavePending(r) /\ r.error = NoError => q < r.first,
         NEW n \in CASE ~HavePending(r) -> {r}
                     [] HavePending(r) /\ q >= r.first -> Receive(r, Succ(r, q))
                     [] OTHER -> ReceiveIfAvailable(r)
  PROVE  PipeFits(n) /\ n.queue = r.queue /\ ~n.thrown /\ (q < n.error => q < n.first)
<1>1. /\ q \in Id /\ q \in Nat /\ q < End /\ r.queue \in SUBSET Id
      /\ r.first \in Nat /\ r.second \in Nat /\ r.second \in r.queue \cup {End}
  BY FitsIs
<1>2. ASSUME PipeFits(n), n.queue = r.queue, q < n.error,
             n.error = NoError => q < n.first
      PROVE  q < n.first
  BY <1>2 DEF PipeFits, ErrorFits
<1>3. CASE ~HavePending(r)
  BY <1>2, <1>3
<1>4. CASE HavePending(r) /\ q >= r.first
  <2> DEFINE stop == Succ(r, q)
  <2>1. n \in Receive(r, stop)
    BY <1>4
  <2>2. /\ stop \in r.queue \cup {End} /\ stop > q /\ stop \in Nat
        /\ \A j \in r.queue : j > q => stop <= j
    BY <1>1, SuccIs
  <2> HIDE DEF stop
  <2>3. stop <= r.second
    BY <1>1, <1>4, <2>2, FitsIs, Ids
  <2>4. r.first < stop
    BY <1>1, <1>4, <2>2
  <2>5. PipeFits(n) /\ Later(n, r) /\ ~n.thrown /\ (n.error = NoError => stop <= n.first)
    BY <1>4, <2>1, <2>2, <2>3, <2>4, ReceiveIs
  <2>6. n.error = NoError => q < n.first
    <3>1. n.first \in Nat
      BY <2>5, FitsIs
    <3> QED
      BY <1>1, <2>2, <2>5, <3>1
  <2> QED
    BY <1>2, <2>5, <2>6 DEF Later
<1>5. CASE HavePending(r) /\ ~(q >= r.first)
  <2>1. n \in ReceiveIfAvailable(r)
    BY <1>5
  <2>2. PipeFits(n) /\ Later(n, r) /\ ~n.thrown
    BY <1>5, <2>1, ReceiveIfAvailableIs DEF Fresh
  <2>3. n.error = NoError => q < n.first
    <3>1. n.first \in Nat
      BY <2>2, FitsIs
    <3> QED
      BY <1>1, <1>5, <2>2, <3>1 DEF Later
  <2> QED
    BY <1>2, <2>2, <2>3 DEF Later
<1> QED
  BY <1>3, <1>4, <1>5

LEMMA FetchIs ==
  ASSUME NEW s, PipeFits(s), ~s.thrown, kind \in [Id -> Kind], NEW q \in s.queue,
         NEW n \in Fetch(s, q)
  PROVE  PipeFits(n) /\ n.queue = s.queue /\ (~n.thrown /\ q < n.error => q < n.first)
<1> DEFINE Received == IF HavePending(s) THEN Receive(s, s.second) ELSE {s}
           Issued == IF s.second # End /\ q >= s.second
                       THEN Then(Received, LAMBDA r : IssueIf(r, r.error = NoError))
                       ELSE {s}
           Rest(r) == CASE ~HavePending(r) -> {r}
                        [] HavePending(r) /\ q >= r.first -> Receive(r, Succ(r, q))
                        [] OTHER -> ReceiveIfAvailable(r)
<1>1. /\ q \in Id /\ q \in Nat /\ q < End /\ s.second \in Nat /\ s.first \in Nat
      /\ s.first <= s.second
  BY FitsIs
<1>2. ASSUME NEW r \in Issued
      PROVE  /\ PipeFits(r) /\ r.queue = s.queue
             /\ ~r.thrown => /\ HavePending(r) => q < r.second
                             /\ ~HavePending(r) /\ r.error = NoError => q < r.first
  <2>1. CASE ~(s.second # End /\ q >= s.second)
    <3>1. r = s
      BY <1>2, <2>1
    <3>2. q < s.second
      BY <1>1, <2>1
    <3> QED
      BY <3>1, <3>2 DEF HavePending
  <2>2. CASE s.second # End /\ q >= s.second
    <3>1. PICK p \in Received : r \in IF p.thrown THEN {p} ELSE IssueIf(p, p.error = NoError)
      BY <1>2, <2>2 DEF Then
    <3>2. PipeFits(p) /\ ~p.thrown /\ ~HavePending(p) /\ Later(p, s)
      BY <3>1, ReceivedAll
    <3>3. CASE p.error # NoError
      <4>1. r = p
        BY <3>1, <3>2, <3>3 DEF IssueIf
      <4> QED
        BY <3>2, <3>3, <4>1 DEF Later
    <3>4. CASE p.error = NoError
      <4>1. r = Issue(p)
        BY <3>1, <3>2, <3>4 DEF IssueIf
      <4>2. p.queue = s.queue /\ p.second = s.second
        BY <3>2, <3>4 DEF Later
      <4>3. q \in Unsent(p)
        BY <1>1, <2>2, <4>2 DEF Unsent, Between
      <4>4. p.waiting # 0
        <5>1. p.waiting = Cardinality(Unsent(p))
          BY <3>2, <3>4 DEF PipeFits, QueueFits, Unsent
        <5>2. IsFiniteSet(Unsent(p))
          BY <3>2, FitsIs, BetweenIs DEF Unsent
        <5> HIDE DEF Unsent
        <5> QED
          BY <4>3, <5>1, <5>2, FS_EmptySet
      <4>5. /\ PipeFits(r) /\ r.queue = p.queue
            /\ ~r.thrown => r.error = NoError /\ HavePending(r) /\ r.second = End
        BY <3>2, <3>4, <4>1, <4>4, Issuable, IssueIs
      <4> QED
        BY <1>1, <4>2, <4>5
    <3> QED
      BY <3>3, <3>4
  <2> QED
    BY <2>1, <2>2
<1>3. PICK r \in Issued : n \in IF r.thrown THEN {r} ELSE Rest(r)
  BY DEF Fetch, Then
<1> HIDE DEF Issued
<1>4. CASE r.thrown
  BY <1>2, <1>3, <1>4
<1>5. CASE ~r.thrown
  <2>1. n \in Rest(r)
    BY <1>3, <1>5
  <2>2. /\ PipeFits(r) /\ q \in r.queue /\ r.queue = s.queue
        /\ HavePending(r) => q < r.second
        /\ ~HavePending(r) /\ r.error = NoError => q < r.first
    BY <1>2, <1>3, <1>5
  <2> QED
    BY <1>5, <2>1, <2>2, Fetched
<1> QED
  BY <1>4, <1>5

(* A query before the pending ones is taken out of the queue. *)
LEMMA TakenOut ==
  ASSUME NEW s, PipeFits(s), NEW q \in s.queue, q < s.first, NEW n \in PipeState,
         n.queue = s.queue \ {q}, n.res = s.res, n.first = s.first, n.second = s.second,
         n.waiting = s.waiting, n.lastId = s.lastId, n.dummy = s.dummy,
         n.error = s.error, n.registered = s.registered, n.wire = s.wire,
         n.block = s.block, n.ran = s.ran
  PROVE  PipeFits(n)
<1>1. /\ s \in PipeState /\ s.queue \in SUBSET Id
      /\ s.first \in s.queue \cup {End} /\ s.second \in s.queue \cup {End}
      /\ s.first \in Nat /\ s.second \in Nat /\ s.first <= s.second
      /\ q \in Nat /\ q \in Id /\ q < s.second /\ q < End
      /\ \A x \in s.queue : x \in Id /\ x \in Nat /\ x < End
  BY FitsIs
<1>2. \A i : Between(n, s.second, i) = Between(s, s.second, i)
             /\ Between(n, s.first, i) = Between(s, s.first, i)
  <2>1. ~(s.second <= q) /\ ~(s.first <= q)
    BY <1>1
  <2> QED
    BY <2>1, Zenon DEF Between
<1>3. ASSUME NEW x \in Pending(s)
      PROVE  Succ(n, x) = Succ(s, x)
  <2>1. x \in s.queue /\ s.first <= x /\ x \in Nat /\ ~(q > x)
    <3>1. x \in s.queue /\ s.first <= x
      BY <1>3 DEF Pending, Between
    <3> QED
      BY <1>1, <3>1
  <2>2. {j \in n.queue : j > x} = {j \in s.queue : j > x}
    BY <2>1, Zenon
  <2> QED
    BY <2>2 DEF Succ
<1>4. HavePending(n) = HavePending(s) /\ Pending(n) = Pending(s)
      /\ Unissued(n) = Unissued(s)
  <2>1. ~(q >= s.second)
    BY <1>1
  <2> QED
    BY <1>2, <2>1 DEF HavePending, Pending, Unissued
<1>5. QueueFits(n)
  <2>1. {n.first, n.second} \subseteq n.queue \cup {End}
    BY <1>1
  <2> QED
    BY <1>2, <1>4, <2>1 DEF PipeFits, QueueFits
<1>6. ErrorFits(n)
  BY <1>4 DEF PipeFits, ErrorFits
<1>7. ResultsFit(n)
  BY <1>4 DEF PipeFits, ResultsFit
<1>8. WireFits(n)
  BY <1>3, <1>4 DEF PipeFits, WireFits, DummyFits, AnswersFit
<1>9. ToldFits(n)
  BY DEF PipeFits, ToldFits
<1> QED
  BY <1>5, <1>6, <1>7, <1>8, <1>9 DEF PipeFits

(* retrieve *)
LEMMA RetrieveFits ==
  ASSUME WholeInv, Retrieve
  PROVE  WholeInv'
<1>1. /\ PipeFits(pipe) /\ ~pipe.thrown /\ UNCHANGED kind
      /\ kind \in [Id -> Kind] /\ told \in [Id -> {"nothing", "ok", "error", "skipped"}]
  BY DEF WholeInv, Retrieve
<1>2. PICK q \in pipe.queue :
        \/ /\ told' = [told EXCEPT ![q] = "skipped"]
           /\ UNCHANGED pipe
        \/ /\ q < pipe.error
           /\ \E s \in Fetch(pipe, q) :
                LET verdict == Verdict(s, q)
                    busy == IF s.waiting # 0 /\ ~HavePending(s) /\ s.error = NoError
                              THEN Issue(s) ELSE s
                IN IF verdict = "skipped" \/ busy.thrown
                     THEN /\ told' = [told EXCEPT ![q] = "skipped"]
                          /\ Return({IF verdict = "skipped" THEN s ELSE busy})
                   ELSE /\ told' = [told EXCEPT ![q] = verdict]
                        /\ Return({[busy EXCEPT !.queue = @ \ {q}]})
  BY DEF Retrieve
<1>3. q \in Id
  BY <1>1, FitsIs
<1>4. ASSUME NEW n, PipeFits(n), ~n.thrown, pipe' = n,
             told' = [told EXCEPT ![q] = "skipped"]
      PROVE  WholeInv'
  <2>1. /\ told' \in [Id -> {"nothing", "ok", "error", "skipped"}]
        /\ \A x \in Id : told'[x] = "ok" => told[x] = "ok"
    BY <1>1, <1>3, <1>4
  <2>2. ToldFits(n)
    BY <1>4 DEF PipeFits
  <2> QED
    BY <1>1, <1>4, <2>1, <2>2, CallFits DEF ToldFits
<1>5. CASE UNCHANGED pipe /\ told' = [told EXCEPT ![q] = "skipped"]
  BY <1>1, <1>4, <1>5
<1>6. ASSUME NEW s \in Fetch(pipe, q),
             LET verdict == Verdict(s, q)
                 busy == IF s.waiting # 0 /\ ~HavePending(s) /\ s.error = NoError
                           THEN Issue(s) ELSE s
             IN IF verdict = "skipped" \/ busy.thrown
                  THEN /\ told' = [told EXCEPT ![q] = "skipped"]
                       /\ Return({IF verdict = "skipped" THEN s ELSE busy})
                ELSE /\ told' = [told EXCEPT ![q] = verdict]
                     /\ Return({[busy EXCEPT !.queue = @ \ {q}]})
      PROVE  WholeInv'
  <2> DEFINE verdict == Verdict(s, q)
             busy == IF s.waiting # 0 /\ ~HavePending(s) /\ s.error = NoError
                       THEN Issue(s) ELSE s
  <2>1. PipeFits(s) /\ s.queue = pipe.queue /\ (~s.thrown /\ q < s.error => q < s.first)
    BY <1>1, <1>2, <1>6, FetchIs
  <2>2. ASSUME ~s.thrown
        PROVE  /\ PipeFits(busy) /\ busy.queue = s.queue /\ busy.lastId = s.lastId
               /\ busy.res = s.res /\ busy.first = s.first
    <3>1. CASE ~(s.waiting # 0 /\ ~HavePending(s) /\ s.error = NoError)
      BY <2>1, <3>1
    <3>2. CASE s.waiting # 0 /\ ~HavePending(s) /\ s.error = NoError
      <4>1. busy = Issue(s)
        BY <3>2
      <4> QED
        BY <1>1, <2>1, <2>2, <3>2, <4>1, Issuable, IssueIs
    <3> QED
      BY <3>1, <3>2
  <2>3. ~(q >= s.error) => q < s.error
    <3>1. s.error \in Nat /\ q \in Nat
      BY <2>1, <1>3, FitsIs, StateIs, Ids
    <3> QED
      BY <3>1
  <2>4. verdict \in {"ok", "error", "skipped"}
        /\ (verdict # "skipped" => ~s.thrown /\ q < s.error)
        /\ (verdict = "ok" => s.res[q].ok)
    BY <2>3 DEF Verdict
  <2>5. CASE verdict = "skipped"
    <3>1. told' = [told EXCEPT ![q] = "skipped"] /\ pipe' = [s EXCEPT !.thrown = FALSE]
      BY <1>6, <2>5 DEF Return
    <3> QED
      BY <1>4, <2>1, <3>1, ReturnFits
  <2>6. CASE verdict # "skipped" /\ busy.thrown
    <3>1. told' = [told EXCEPT ![q] = "skipped"] /\ pipe' = [busy EXCEPT !.thrown = FALSE]
      BY <1>6, <2>6 DEF Return
    <3>2. PipeFits(busy)
      BY <2>2, <2>4, <2>6
    <3> HIDE DEF busy
    <3> QED
      BY <1>4, <3>1, <3>2, ReturnFits
  <2>7. CASE verdict # "skipped" /\ ~busy.thrown
    <3>1. /\ told' = [told EXCEPT ![q] = verdict]
          /\ pipe' = [[busy EXCEPT !.queue = busy.queue \ {q}] EXCEPT !.thrown = FALSE]
      BY <1>6, <2>7 DEF Return
    <3>2. /\ PipeFits(busy) /\ q \in busy.queue /\ busy.res = s.res /\ q < busy.first
      BY <1>2, <2>1, <2>2, <2>4, <2>7
    <3> DEFINE n == [busy EXCEPT !.queue = busy.queue \ {q}]
    <3> HIDE DEF busy, verdict
    <3>3. busy \in PipeState
      BY <3>2, FitsIs
    <3>4. n \in PipeState
      <4>1. busy.queue \ {q} \in SUBSET Id
        BY <3>2, FitsIs
      <4> QED
        BY <3>3, <4>1, ZenonT(60) DEF PipeState
    <3>5. /\ n.queue = busy.queue \ {q} /\ n.res = busy.res
          /\ n.first = busy.first /\ n.second = busy.second
          /\ n.waiting = busy.waiting /\ n.lastId = busy.lastId /\ n.dummy = busy.dummy
          /\ n.error = busy.error /\ n.registered = busy.registered
          /\ n.wire = busy.wire /\ n.block = busy.block /\ n.ran = busy.ran
      BY <3>3 DEF PipeState
    <3> HIDE DEF n
    <3>6. PipeFits(n)
      BY <3>2, <3>4, <3>5, TakenOut
    <3> DEFINE m == [n EXCEPT !.thrown = FALSE]
    <3>7. /\ pipe' = m /\ PipeFits(m) /\ ~m.thrown /\ m.queue = n.queue /\ m.res = n.res
          /\ m.block = n.block /\ m.ran = n.ran
      BY <3>1, <3>6, ReturnFits DEF n
    <3> HIDE DEF m
    <3>8. told' \in [Id -> {"nothing", "ok", "error", "skipped"}]
      BY <1>1, <1>3, <2>4, <3>1
    <3>9. ASSUME NEW x \in Id, told'[x] = "ok"
          PROVE  /\ x <= m.lastId /\ x \notin m.queue
                 /\ m.block # "auto" => m.ran[x] = 1
      <4>1. CASE x # q
        <5>1. told[x] = "ok"
          BY <1>1, <3>1, <3>9, <4>1
        <5> QED
          BY <3>7, <5>1 DEF PipeFits, ToldFits
      <4>2. CASE x = q
        <5>1. verdict = "ok"
          BY <1>1, <1>3, <3>1, <3>9, <4>2
        <5>2. busy.res[q] # None /\ busy.res[q].ok /\ (busy.block # "auto" => busy.ran[q] = 1)
          BY <1>3, <2>4, <3>2, <5>1 DEF PipeFits, ResultsFit
        <5>3. q <= busy.lastId
          BY <3>2, FitsIs
        <5>4. m.lastId = n.lastId
          BY <3>4 DEF m, PipeState
        <5> QED
          BY <3>5, <3>7, <4>2, <5>2, <5>3, <5>4
      <4> QED
        BY <4>1, <4>2
    <3> QED
      BY <1>1, <3>7, <3>8, <3>9, CallFits
  <2> QED
    BY <2>5, <2>6, <2>7
<1> QED
  BY <1>2, <1>5, <1>6

-----------------------------------------------------------------------------
LEMMA PipelineStarts == PipelineInit => PipelineInv
<1> SUFFICES ASSUME PipelineInit PROVE PipelineInv
  OBVIOUS
<1>1. cancelled = "whole"
  BY DEF PipelineInit
<1> QED
  BY <1>1, WholeStarts DEF WholeInv, PipelineInv, Completion

(* Any call but cancel: with no cancel left halfway, those before it fit;    *)
(* with one, nothing is claimed from here on.                                *)
LEMMA OtherCallFits ==
  ASSUME PipelineInv, Insert \/ Complete \/ Flush \/ Retain \/ Retrieve \/ OtherExec
  PROVE  PipelineInv'
<1>1. cancelled' = IF cancelled = "whole" THEN "whole" ELSE "astray"
  BY DEF Insert, Complete, Flush, Retain, Retrieve, OtherExec, OtherCall
<1>2. CASE cancelled = "whole"
  <2>1. WholeInv
    BY <1>2 DEF PipelineInv, WholeInv
  <2>2. WholeInv'
    BY <2>1, InsertFits, CompleteFits, FlushFits, RetainFits, RetrieveFits, OtherExecFits
  <2> QED
    BY <1>1, <1>2, <2>2 DEF PipelineInv, WholeInv, Completion
<1>3. CASE cancelled # "whole"
  <2>1. kind' \in [Id -> Kind]
    BY DEF PipelineInv, Insert, Complete, Flush, Retain, Retrieve, OtherExec
  <2>2. told' \in [Id -> {"nothing", "ok", "error", "skipped"}]
    <3>1. told \in [Id -> {"nothing", "ok", "error", "skipped"}]
      BY DEF PipelineInv
    <3>2. CASE Retrieve
      <4>1. PICK q \in pipe.queue, v \in {"ok", "error", "skipped"} :
              told' = [told EXCEPT ![q] = v]
        <5>1. \A s, q : Verdict(s, q) \in {"ok", "error", "skipped"}
          BY DEF Verdict
        <5> QED
          BY <3>2, <5>1 DEF Retrieve
      <4> QED
        BY <3>1, <4>1
    <3>3. CASE UNCHANGED told
      BY <3>1, <3>3
    <3> QED
      BY <3>2, <3>3 DEF Insert, Complete, Flush, Retain, OtherExec
  <2> QED
    BY <1>1, <1>3, <2>1, <2>2 DEF PipelineInv, Completion
<1> QED
  BY <1>2, <1>3

LEMMA PipelineKept ==
  ASSUME PipelineInv, [PipelineNext]_pipeVars
  PROVE  PipelineInv'
<1>1. CASE UNCHANGED pipeVars
  <2>1. UNCHANGED <<pipe, kind, told, cancelled>>
    BY <1>1 DEF pipeVars
  <2>2. /\ PipeFits(pipe)' <=> PipeFits(pipe)
        /\ HalfFits(pipe)' <=> HalfFits(pipe)
    <3>1. /\ (pipe \in PipeState)' <=> pipe \in PipeState
          /\ QueueFits(pipe)' <=> QueueFits(pipe)
          /\ ErrorFits(pipe)' <=> ErrorFits(pipe)
          /\ ResultsFit(pipe)' <=> ResultsFit(pipe)
          /\ HavePending(pipe)' <=> HavePending(pipe)
      BY <2>1
    <3>2. WireFits(pipe)' <=> WireFits(pipe)
      BY <2>1 DEF WireFits, DummyFits
    <3>3. /\ ToldFits(pipe)' <=> ToldFits(pipe)
          /\ ErasedFit(pipe)' <=> ErasedFit(pipe)
      BY <2>1 DEF ToldFits, ErasedFit
    <3> QED
      BY <3>1, <3>2, <3>3 DEF PipeFits, HalfFits
  <2> QED
    BY <2>1, <2>2 DEF PipelineInv
<1> QED
  BY <1>1, CancelFits, OtherCallFits DEF PipelineNext

(* Between any two calls the members of the pipeline, the connection and the *)
(* server agree, whatever queries are inserted and however they fail, are    *)
(* cancelled, replayed or flushed (pipeline.cxx); and after a cancel that    *)
(* threw on its way, as long as no call but another cancel follows.          *)
THEOREM PipelineAlwaysFits == PipelineSpec => []PipelineInv
BY PipelineStarts, PipelineKept, PTL DEF PipelineSpec

(* Unless another call followed a cancel that threw on its way: no iterator  *)
(* is left to an erased query, nor are those of the issued range past each   *)
(* other; m_num_waiting counts what there is to issue, a finished query has  *)
(* its result, and a pipeline with results on their way is the transaction's *)
(* focus.                                                                    *)
THEOREM QueueAlwaysSound == PipelineSpec => [](cancelled # "astray" => QueueIsSound)
<1>1. PipelineInv => (cancelled # "astray" => QueueIsSound)
  <2> SUFFICES ASSUME PipelineInv, cancelled # "astray" PROVE QueueIsSound
    OBVIOUS
  <2>1. pipe \in PipeState /\ QueueFits(pipe) /\ ResultsFit(pipe)
    BY DEF PipelineInv, Completion, PipeFits, HalfFits
  <2>2. PipelineTypeOK
    BY <2>1 DEF PipelineInv, PipelineTypeOK
  <2>3. IteratorsAreValid /\ WaitingIsCounted /\ PendingHasFocus
    BY <2>1 DEF IteratorsAreValid, WaitingIsCounted, PendingHasFocus, QueueFits
  <2>4. FinishedHasResult
    <3>1. ASSUME NEW q \in pipe.queue, IsFinished(pipe, q) PROVE q < pipe.first
      <4>1. q < End
        BY <2>1, StateIs, Ids
      <4> QED
        BY <3>1, <4>1 DEF IsFinished
    <3> QED
      BY <2>1, <3>1 DEF FinishedHasResult, ResultsFit
  <2> QED
    BY <2>2, <2>3, <2>4 DEF QueueIsSound
<1> QED
  BY <1>1, PipelineAlwaysFits, PTL

(* A result is that of the query that holds it, or its whole batch's error,  *)
(* unless another call followed a cancel that threw on its way.              *)
THEOREM ResultsAlwaysOwn == PipelineSpec => []ResultsAreOwn
<1>1. PipelineInv => ResultsAreOwn
  BY DEF PipelineInv, Completion, PipeFits, HalfFits, ResultsFit, ResultsAreOwn
<1> QED
  BY <1>1, PipelineAlwaysFits, PTL

(* Unless another call followed a cancel that threw on its way, no query     *)
(* takes effect twice, replay or not; and one that retrieve said succeeded   *)
(* did, in a transaction block.                                              *)
THEOREM QueriesAlwaysRunAsTold ==
  PipelineSpec => [](cancelled # "astray" => QueriesRunAsTold)
<1>1. PipelineInv => (cancelled # "astray" => QueriesRunAsTold)
  BY DEF PipelineInv, Completion, PipeFits, HalfFits, ResultsFit, ToldFits,
         QueriesRunAsTold, NoneRunsTwice, SuccessRan
<1> QED
  BY <1>1, PipelineAlwaysFits, PTL
=============================================================================
