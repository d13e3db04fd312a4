------------------------------ MODULE PqTextProofs ------------------------------
(***************************************************************************)
(* Proofs about what is spelt as text and read again: integers of any      *)
(* width, binary strings of any length, and the rows that streams copy,    *)
(* with any texts in their fields, in every encoding in which the first    *)
(* byte of a character tells how long it is.                               *)
(***************************************************************************)
EXTENDS PqConversions, PqCopyText, SequenceTheorems, FiniteSetTheorems,
        WellFoundedInduction, TLAPS

-----------------------------------------------------------------------------
(* Induction over a set of numbers, and the function that a step defines. *)
LEMMA AllNumbers ==
  ASSUME NEW S, 0 \in S, \A n \in Nat : n \in S => n + 1 \in S
  PROVE  Nat \subseteq S
<1> DEFINE bad == Nat \ S
           less == OpToRel(<, Nat)
<1> SUFFICES ASSUME bad # {} PROVE FALSE
  OBVIOUS
<1>1. \A x, y \in Nat : <<y, x>> \in less <=> y < x
  BY DEF OpToRel
<1>2. IsWellFoundedOn(less, Nat) /\ bad \subseteq Nat
  BY NatLessThanWellFounded
<1>3. \A x : x \in bad <=> x \in Nat /\ x \notin S
  OBVIOUS
<1> HIDE DEF less, bad
<1>4. PICK x \in bad : \A y \in bad : <<y, x>> \notin less
  BY <1>2, WFMin
<1>5. x \in Nat /\ x # 0 /\ x - 1 \in Nat /\ x - 1 < x
  BY <1>3, <1>4
<1>6. x - 1 \notin bad
  BY <1>1, <1>4, <1>5
<1>7. x - 1 + 1 \in S
  BY <1>3, <1>5, <1>6
<1> QED
  BY <1>3, <1>4, <1>5, <1>7

Follows(f, s, F) ==
  \A n \in Nat : f[n] = IF n = 0 THEN s ELSE F[<<n - 1, f[n - 1]>>]

LEMMA StepsDefine ==
  ASSUME NEW S, NEW s \in S, NEW F \in [Nat \X S -> S]
  PROVE  \E f \in [Nat -> S] : Follows(f, s, F)
<1> DEFINE Start(n) == {g \in [0 .. n -> S] :
                          g[0] = s /\ \A i \in 1 .. n : g[i] = F[<<i - 1, g[i - 1]>>]}
           some == {n \in Nat : Start(n) # {}}
           same == {i \in Nat : \A m, n \in Nat : \A g \in Start(m), h \in Start(n) :
                                  i <= m /\ i <= n => g[i] = h[i]}
<1>1. Nat \subseteq some
  <2>1. 0 \in some
    <3>1. [i \in 0 .. 0 |-> s] \in Start(0)
      OBVIOUS
    <3> QED
      BY <3>1
  <2>2. ASSUME NEW n \in Nat, n \in some
        PROVE  n + 1 \in some
    <3>1. PICK g : g \in Start(n)
      BY <2>2
    <3> DEFINE h == [i \in 0 .. n + 1 |-> IF i <= n THEN g[i] ELSE F[<<n, g[n]>>]]
    <3>2. g \in [0 .. n -> S] /\ g[0] = s
          /\ \A i \in 1 .. n : g[i] = F[<<i - 1, g[i - 1]>>]
      BY <3>1
    <3>3. g[n] \in S /\ F[<<n, g[n]>>] \in S
      BY <3>2
    <3>4. h \in [0 .. n + 1 -> S] /\ h[0] = s
      BY <3>2, <3>3
    <3>5. ASSUME NEW i \in 1 .. n + 1
          PROVE  h[i] = F[<<i - 1, h[i - 1]>>]
      <4>1. i - 1 \in 0 .. n /\ i \in 0 .. n + 1 /\ i - 1 \in 0 .. n + 1
        OBVIOUS
      <4>2. h[i - 1] = g[i - 1]
        BY <4>1
      <4>3. CASE i <= n
        BY <3>2, <4>1, <4>2, <4>3
      <4>4. CASE i = n + 1
        BY <4>1, <4>2, <4>4
      <4> QED
        BY <4>3, <4>4
    <3> HIDE DEF h
    <3>6. h \in Start(n + 1)
      BY <3>4, <3>5
    <3> QED
      BY <3>6
  <2> HIDE DEF some
  <2> QED
    BY <2>1, <2>2, AllNumbers
<1>2. Nat \subseteq same
  <2>1. 0 \in same
    OBVIOUS
  <2>2. ASSUME NEW i \in Nat, i \in same
        PROVE  i + 1 \in same
    <3>1. ASSUME NEW m \in Nat, NEW n \in Nat, NEW g \in Start(m), NEW h \in Start(n),
                 i + 1 <= m, i + 1 <= n
          PROVE  g[i + 1] = h[i + 1]
      <4>1. i <= m /\ i <= n /\ i + 1 \in 1 .. m /\ i + 1 \in 1 .. n /\ i + 1 - 1 = i
        BY <3>1
      <4>2. g[i] = h[i]
        BY <2>2, <4>1
      <4>3. g[i + 1] = F[<<i, g[i]>>] /\ h[i + 1] = F[<<i, h[i]>>]
        BY <4>1
      <4> QED
        BY <4>2, <4>3
    <3> HIDE DEF Start
    <3> QED
      BY <3>1
  <2> HIDE DEF same
  <2> QED
    BY <2>1, <2>2, AllNumbers
<1> DEFINE one(n) == CHOOSE g : g \in Start(n)
           f == [n \in Nat |-> one(n)[n]]
<1>3. ASSUME NEW n \in Nat PROVE one(n) \in Start(n)
  <2>1. \E g : g \in Start(n)
    BY <1>1
  <2> HIDE DEF Start
  <2> QED
    BY <2>1
<1> HIDE DEF one
<1>4. f \in [Nat -> S]
  <2>1. ASSUME NEW n \in Nat PROVE one(n)[n] \in S
    BY <1>3
  <2> QED
    BY <2>1
<1>5. f[0] = s
  BY <1>3
<1>6. ASSUME NEW n \in Nat, n # 0
      PROVE  f[n] = F[<<n - 1, f[n - 1]>>]
  <2>1. n - 1 \in Nat /\ n \in 1 .. n /\ n - 1 <= n
    BY <1>6
  <2>2. one(n) \in Start(n) /\ one(n - 1) \in Start(n - 1)
    BY <1>3, <2>1
  <2>3. one(n)[n - 1] = one(n - 1)[n - 1]
    <3> HIDE DEF Start
    <3>1. n - 1 \in same
      BY <1>2, <2>1
    <3> QED
      BY <2>1, <2>2, <3>1
  <2>4. one(n)[n] = F[<<n - 1, one(n)[n - 1]>>]
    BY <2>1, <2>2
  <2> QED
    BY <2>1, <2>3, <2>4
<1> HIDE DEF f
<1>7. \A n \in Nat : f[n] = IF n = 0 THEN s ELSE F[<<n - 1, f[n - 1]>>]
  BY <1>5, <1>6
<1>8. Follows(f, s, F)
  BY <1>7 DEF Follows
<1> QED
  BY <1>4, <1>8


(* The same for a step that is there as long as a sequence. *)
Along(f, n, s, F) == f[0] = s /\ \A k \in 1 .. n : f[k] = F[<<k, f[k - 1]>>]

LEMMA StepsAlong ==
  ASSUME NEW S, NEW n \in Nat, NEW s \in S, NEW F \in [(1 .. n) \X S -> S]
  PROVE  \E f \in [0 .. n -> S] : Along(f, n, s, F)
<1> DEFINE G == [x \in Nat \X S |-> IF x[1] + 1 \in 1 .. n THEN F[<<x[1] + 1, x[2]>>] ELSE s]
<1>1. G \in [Nat \X S -> S]
  OBVIOUS
<1>2. \A k \in 1 .. n, t \in S : G[<<k - 1, t>>] = F[<<k, t>>]
  <2> SUFFICES ASSUME NEW k \in 1 .. n, NEW t \in S
               PROVE  G[<<k - 1, t>>] = F[<<k, t>>]
    OBVIOUS
  <2>1. k - 1 \in Nat /\ (k - 1) + 1 = k
    OBVIOUS
  <2> QED
    BY <2>1
<1> HIDE DEF G
<1>3. PICK g \in [Nat -> S] : Follows(g, s, G)
  BY <1>1, StepsDefine
<1> DEFINE f == [k \in 0 .. n |-> g[k]]
<1>4. f \in [0 .. n -> S] /\ f[0] = s
  <2>1. g[0] = s
    BY <1>3 DEF Follows
  <2>2. \A k \in 0 .. n : g[k] \in S /\ f[k] = g[k]
    BY <1>3
  <2>3. f \in [0 .. n -> S]
    BY <2>2
  <2> QED
    BY <2>1, <2>2, <2>3
<1>5. ASSUME NEW k \in 1 .. n PROVE f[k] = F[<<k, f[k - 1]>>]
  <2>1. k \in Nat /\ k # 0 /\ k - 1 \in 0 .. n /\ k \in 0 .. n
    OBVIOUS
  <2>2. g[k] = G[<<k - 1, g[k - 1]>>] /\ g[k - 1] \in S
    BY <1>3, <2>1 DEF Follows
  <2> QED
    BY <1>2, <2>1, <2>2
<1> HIDE DEF f
<1> QED
  BY <1>4, <1>5 DEF Along

(* Induction along a sequence. *)
LEMMA AllPlaces ==
  ASSUME NEW S, NEW n \in Nat, 0 \in S, \A k \in 1 .. n : k - 1 \in S => k \in S
  PROVE  0 .. n \subseteq S
<1> DEFINE T == {k \in Nat : k <= n => k \in S}
<1>1. 0 \in T
  OBVIOUS
<1>2. ASSUME NEW k \in Nat, k \in T PROVE k + 1 \in T
  <2>1. CASE k + 1 <= n
    <3>1. k + 1 \in 1 .. n /\ (k + 1) - 1 = k /\ k <= n
      BY <2>1
    <3>2. k \in S
      BY <1>2, <3>1
    <3>3. k + 1 \in S
      BY <3>1, <3>2
    <3> QED
      BY <3>3
  <2>2. CASE ~(k + 1 <= n)
    BY <2>2
  <2> QED
    BY <2>1, <2>2
<1> HIDE DEF T
<1>3. Nat \subseteq T
  BY <1>1, <1>2, AllNumbers
<1> QED
  BY <1>3 DEF T

(* A set of numbers has a least element, and Min finds it. *)
LEMMA LeastIs ==
  ASSUME NEW S \in SUBSET Nat, S # {}
  PROVE  Min(S) \in S /\ \A y \in S : Min(S) <= y
<1> DEFINE less == OpToRel(<, Nat)
<1>1. \A x, y \in Nat : <<y, x>> \in less <=> y < x
  BY DEF OpToRel
<1>2. IsWellFoundedOn(less, Nat)
  BY NatLessThanWellFounded
<1> HIDE DEF less
<1>3. PICK x \in S : \A y \in S : <<y, x>> \notin less
  BY <1>2, WFMin
<1>4. ASSUME NEW y \in S PROVE x <= y
  <2>1. x \in Nat /\ y \in Nat /\ ~(y < x)
    BY <1>1, <1>3
  <2> QED
    BY <2>1
<1> QED
  BY <1>4 DEF Min

-----------------------------------------------------------------------------
(* Powers, and the numbers that a type has. *)
LEMMA PowerIs ==
  ASSUME NEW b \in Nat
  PROVE  /\ Power(b, 0) = 1
         /\ \A n \in Nat : Power(b, n) \in Nat /\ Power(b, n + 1) = b * Power(b, n)
<1> DEFINE F == [x \in Nat \X Nat |-> b * x[2]]
           Raises(f) == f = [k \in Nat |-> IF k = 0 THEN 1 ELSE b * f[k - 1]]
           p == CHOOSE f : Raises(f)
<1>1. \A n : Power(b, n) = p[n]
  BY DEF Power
<1>2. \A x \in Nat : b * x \in Nat
  OBVIOUS
<1>3. F \in [Nat \X Nat -> Nat]
  BY <1>2
<1>4. \A k \in Nat, x \in Nat : F[<<k, x>>] = b * x
  OBVIOUS
<1> HIDE DEF F
<1>5. PICK g \in [Nat -> Nat] : Follows(g, 1, F)
  BY <1>3, StepsDefine
<1>6. Raises(g)
  <2>1. ASSUME NEW k \in Nat PROVE g[k] = IF k = 0 THEN 1 ELSE b * g[k - 1]
    <3>1. CASE k = 0
      BY <1>5, <3>1 DEF Follows
    <3>2. CASE k # 0
      <4>1. k - 1 \in Nat /\ g[k - 1] \in Nat
        BY <3>2
      <4>2. g[k] = F[<<k - 1, g[k - 1]>>]
        BY <1>5, <3>2 DEF Follows
      <4> QED
        BY <1>4, <3>2, <4>1, <4>2
    <3> QED
      BY <3>1, <3>2
  <2>2. g = [k \in Nat |-> g[k]]
    OBVIOUS
  <2> QED
    BY <2>1, <2>2
<1>7. Raises(p)
  <2> HIDE DEF Raises
  <2> QED
    BY <1>6
<1> HIDE DEF p
<1>8. p[0] = 1
  BY <1>7
<1>9. ASSUME NEW n \in Nat PROVE p[n + 1] = b * p[n]
  <2>1. n + 1 \in Nat /\ n + 1 # 0 /\ (n + 1) - 1 = n
    OBVIOUS
  <2>2. p[n + 1] = b * p[(n + 1) - 1]
    BY <1>7, <2>1
  <2> QED
    BY <2>1, <2>2
<1> HIDE DEF Raises
<1> DEFINE S == {n \in Nat : p[n] \in Nat}
<1>10. 0 \in S
  BY <1>8
<1>11. \A n \in Nat : n \in S => n + 1 \in S
  BY <1>2, <1>9
<1> HIDE DEF S
<1>12. Nat \subseteq S
  BY <1>10, <1>11, AllNumbers
<1> QED
  BY <1>1, <1>8, <1>9, <1>12 DEF S

LEMMA PowersGrow ==
  /\ \A n \in Nat : Power(2, n) \in Nat /\ Power(2, n) >= 1 /\ Power(2, n + 1) = 2 * Power(2, n)
  /\ \A n \in Nat : Power(10, n) \in Nat /\ Power(10, n) >= 1
                    /\ Power(10, n + 1) = 10 * Power(10, n)
  /\ \A n \in Nat : Power(2, n) <= Power(10, n)
  /\ Power(2, 0) = 1 /\ Power(10, 0) = 1
<1> DEFINE S == {n \in Nat : Power(2, n) >= 1 /\ Power(2, n) <= Power(10, n)}
<1>1. /\ Power(2, 0) = 1 /\ Power(10, 0) = 1
      /\ \A n \in Nat : Power(2, n) \in Nat /\ Power(2, n + 1) = 2 * Power(2, n)
      /\ \A n \in Nat : Power(10, n) \in Nat /\ Power(10, n + 1) = 10 * Power(10, n)
  BY PowerIs
<1>2. 0 \in S
  BY <1>1
<1>3. ASSUME NEW n \in Nat, n \in S PROVE n + 1 \in S
  <2> DEFINE x == Power(2, n)  y == Power(10, n)
  <2>1. x \in Nat /\ y \in Nat /\ x >= 1 /\ x <= y
    BY <1>1, <1>3
  <2>2. Power(2, n + 1) = 2 * x /\ Power(10, n + 1) = 10 * y
    BY <1>1
  <2> HIDE DEF x, y
  <2> QED
    BY <2>1, <2>2
<1> HIDE DEF S
<1>4. Nat \subseteq S
  BY <1>2, <1>3, AllNumbers
<1>5. \A n \in Nat : Power(2, n) >= 1 /\ Power(2, n) <= Power(10, n)
  BY <1>4 DEF S
<1>6. \A n \in Nat : Power(10, n) >= 1
  BY <1>1, <1>5
<1> QED
  BY <1>1, <1>5, <1>6

NumberType == [signed : BOOLEAN, bits : Nat \ {0}]

LEMMA RangeIs ==
  ASSUME NEW t \in NumberType
  PROVE  /\ Top(t) \in Nat /\ Bottom(t) \in Int /\ Bottom(t) <= 0
         /\ Bottom(t) = IF t.signed THEN -(Top(t) + 1) ELSE 0
         /\ Power(2, t.bits) \in Nat /\ Power(2, t.bits) = (Top(t) - Bottom(t)) + 1
         /\ Top(t) < Power(2, t.bits)
<1>1. t.bits \in Nat /\ t.bits - 1 \in Nat /\ (t.bits - 1) + 1 = t.bits /\ t.signed \in BOOLEAN
  BY DEF NumberType
<1> DEFINE h == Power(2, t.bits - 1)  p == Power(2, t.bits)
<1>2. h \in Nat /\ h >= 1 /\ p \in Nat /\ p = 2 * h
  <2>1. Power(2, (t.bits - 1) + 1) = 2 * Power(2, t.bits - 1)
    BY <1>1, PowersGrow
  <2> QED
    BY <1>1, <2>1, PowersGrow
<1>3. /\ Top(t) = IF t.signed THEN h - 1 ELSE p - 1
      /\ Bottom(t) = IF t.signed THEN -h ELSE 0
  BY DEF Top, Bottom
<1> HIDE DEF h, p
<1>4. /\ Top(t) \in Nat /\ Bottom(t) \in Int /\ Bottom(t) <= 0
      /\ Bottom(t) = (IF t.signed THEN -(Top(t) + 1) ELSE 0)
      /\ p = (Top(t) - Bottom(t)) + 1 /\ Top(t) < p
  BY <1>1, <1>2, <1>3
<1> QED
  BY <1>2, <1>4 DEF p

(* There is a number of digits that digits10 is. *)
LEMMA DigitsAre ==
  ASSUME NEW t \in NumberType
  PROVE  /\ Digits10(t) \in Nat
         /\ Power(10, Digits10(t) + 1) > Top(t) + 1
<1> DEFINE S == {d \in Nat : Power(10, d + 1) - 1 > Top(t)}
           Suits(d) == Power(10, d) - 1 <= Top(t) /\ Power(10, d + 1) - 1 > Top(t)
<1>1. t.bits \in Nat /\ Top(t) \in Nat /\ Top(t) < Power(2, t.bits)
  BY RangeIs DEF NumberType
<1>2. t.bits \in S
  <2> DEFINE x == Power(2, t.bits)  y == Power(10, t.bits)  z == Power(10, t.bits + 1)
  <2>1. x \in Nat /\ y \in Nat /\ x <= y /\ y >= 1 /\ z = 10 * y
    BY <1>1, PowersGrow
  <2>2. Top(t) < x
    BY <1>1
  <2> HIDE DEF x, y, z
  <2>3. z - 1 > Top(t)
    BY <1>1, <2>1, <2>2
  <2> QED
    BY <1>1, <2>3 DEF z
<1>3. S \in SUBSET Nat
  OBVIOUS
<1>4. PICK d \in S : \A e \in S : d <= e
  <2> HIDE DEF S
  <2> QED
    BY <1>2, <1>3, LeastIs
<1>7. d \in Nat /\ d <= t.bits /\ Power(10, d + 1) - 1 > Top(t)
  BY <1>2, <1>4
<1>8. Power(10, d) - 1 <= Top(t)
  <2>1. CASE d = 0
    BY <1>1, <2>1, PowersGrow
  <2>2. CASE d # 0
    <3>1. d - 1 \in Nat /\ d - 1 < d /\ (d - 1) + 1 = d
      BY <1>7, <2>2
    <3>2. d - 1 \notin S
      BY <1>4, <1>7, <3>1
    <3>3. ~(Power(10, d) - 1 > Top(t))
      BY <3>1, <3>2
    <3> QED
      BY <1>1, <1>7, <3>3, PowersGrow
  <2> QED
    BY <2>1, <2>2
<1>9. d \in 0 .. t.bits /\ Suits(d)
  BY <1>1, <1>7, <1>8
<1>10. Digits10(t) = CHOOSE e \in 0 .. t.bits : Suits(e)
  BY DEF Digits10
<1> HIDE DEF Suits
<1>11. Digits10(t) \in 0 .. t.bits /\ Suits(Digits10(t))
  BY <1>9, <1>10
<1> QED
  <2> DEFINE e == Digits10(t)
  <2>1. e \in Nat /\ Power(10, e + 1) - 1 > Top(t) /\ Power(10, e + 1) \in Nat
    BY <1>1, <1>11, PowersGrow DEF Suits
  <2> QED
    BY <1>1, <2>1

-----------------------------------------------------------------------------
(* What the digits of a text come to, from the first on. *)
Comes(f, v, d) ==
  f[0] = v /\ \A k \in 1 .. Len(d) : f[k] = ((f[k - 1] * 10) + d[k]) - 48

LEMMA ContinuedIs ==
  ASSUME NEW v \in Int, NEW d \in Seq(Int)
  PROVE  \E f \in [0 .. Len(d) -> Int] : Comes(f, v, d) /\ Continued(v, d) = f[Len(d)]
<1> DEFINE n == Len(d)
           F == [x \in (1 .. n) \X Int |-> ((x[2] * 10) + d[x[1]]) - 48]
           Reads(f) == f = [k \in 0 .. Len(d) |->
                              IF k = 0 THEN v ELSE ((f[k - 1] * 10) + d[k]) - 48]
           r == CHOOSE f : Reads(f)
<1>1. Continued(v, d) = r[Len(d)]
  BY DEF Continued
<1>2. n \in Nat /\ n = Len(d) /\ \A k \in 1 .. n : d[k] \in Int
  OBVIOUS
<1>3. F \in [(1 .. n) \X Int -> Int]
  BY <1>2
<1>4. \A k \in 1 .. n, x \in Int : F[<<k, x>>] = ((x * 10) + d[k]) - 48
  OBVIOUS
<1> HIDE DEF F, n
<1>5. PICK g \in [0 .. n -> Int] : Along(g, n, v, F)
  BY <1>2, <1>3, StepsAlong
<1>6. Comes(g, v, d)
  <2>1. \A k \in 1 .. n : k - 1 \in 0 .. n
    BY <1>2
  <2> QED
    BY <1>2, <1>4, <1>5, <2>1 DEF Comes, Along
<1>7. Reads(g)
  <2>1. \A k \in 0 .. n : g[k] = IF k = 0 THEN v ELSE ((g[k - 1] * 10) + d[k]) - 48
    <3>1. \A k \in 0 .. n : k = 0 \/ k \in 1 .. n
      BY <1>2
    <3> QED
      BY <1>2, <1>6, <3>1 DEF Comes
  <2>2. g = [k \in 0 .. n |-> g[k]]
    BY <1>5
  <2> QED
    BY <1>2, <2>1, <2>2
<1>8. Reads(r)
  <2> HIDE DEF Reads
  <2> QED
    BY <1>7
<1> HIDE DEF r
<1>9. Comes(r, v, d)
  <2>1. 0 \in 0 .. n /\ \A k \in 1 .. n : k \in 0 .. n /\ k # 0
    BY <1>2
  <2> QED
    BY <1>2, <1>8, <2>1 DEF Comes
<1> DEFINE S == {k \in 0 .. n : r[k] = g[k]}
<1>10. 0 \in S
  BY <1>2, <1>6, <1>9 DEF Comes
<1>11. ASSUME NEW k \in 1 .. n, k - 1 \in S PROVE k \in S
  BY <1>2, <1>6, <1>9, <1>11 DEF Comes
<1>12. 0 .. n \subseteq S
  <2> HIDE DEF S
  <2> QED
    BY <1>2, <1>10, <1>11, AllPlaces
<1> QED
  BY <1>1, <1>2, <1>6, <1>12

(* There is but one such function. *)
LEMMA ComesTo ==
  ASSUME NEW v \in Int, NEW d \in Seq(Int), NEW f, Comes(f, v, d)
  PROVE  Continued(v, d) = f[Len(d)]
<1>1. PICK g \in [0 .. Len(d) -> Int] : Comes(g, v, d) /\ Continued(v, d) = g[Len(d)]
  BY ContinuedIs
<1> DEFINE n == Len(d)  S == {k \in 0 .. n : f[k] = g[k]}
<1>2. n \in Nat /\ n = Len(d)
  OBVIOUS
<1> HIDE DEF n
<1>3. 0 \in S
  BY <1>1, <1>2 DEF Comes
<1>4. ASSUME NEW k \in 1 .. n, k - 1 \in S PROVE k \in S
  BY <1>1, <1>2, <1>4 DEF Comes
<1>5. 0 .. n \subseteq S
  <2> HIDE DEF S
  <2> QED
    BY <1>2, <1>3, <1>4, AllPlaces
<1> QED
  BY <1>1, <1>2, <1>5

LEMMA ContinuedType ==
  ASSUME NEW v \in Int, NEW d \in Seq(Int)
  PROVE  Continued(v, d) \in Int /\ Continued(v, << >>) = v
<1>1. Continued(v, d) \in Int
  <2>1. PICK g \in [0 .. Len(d) -> Int] : Continued(v, d) = g[Len(d)]
    BY ContinuedIs
  <2> QED
    BY <2>1
<1> DEFINE f == [k \in {0} |-> v]
<1>2. f[0] = v /\ Len(<< >>) = 0 /\ << >> \in Seq(Int) /\ 1 .. 0 = {}
  OBVIOUS
<1>3. Comes(f, v, << >>)
  BY <1>2 DEF Comes
<1> HIDE DEF f
<1>4. Continued(v, << >>) = f[Len(<< >>)]
  BY <1>2, <1>3, ComesTo
<1> QED
  BY <1>1, <1>2, <1>4

(* Digits are read to the end, or one at a time, from either end. *)
LEMMA ContinuedAlong ==
  ASSUME NEW v \in Int, NEW d \in Seq(Int), NEW f, Comes(f, v, d), NEW k \in 0 .. Len(d)
  PROVE  Continued(v, SubSeq(d, 1, k)) = f[k]
<1>1. SubSeq(d, 1, k) \in Seq(Int) /\ Len(SubSeq(d, 1, k)) = k
      /\ \A i \in 1 .. k : SubSeq(d, 1, k)[i] = d[i]
  OBVIOUS
<1>2. Comes(f, v, SubSeq(d, 1, k))
  BY <1>1 DEF Comes
<1> QED
  BY <1>1, <1>2, ComesTo

LEMMA ContinuedNext ==
  ASSUME NEW v \in Int, NEW d \in Seq(Int), NEW k \in 0 .. Len(d), k < Len(d)
  PROVE  Continued(v, SubSeq(d, 1, k + 1)) = ((Continued(v, SubSeq(d, 1, k)) * 10) + d[k + 1]) - 48
<1>1. PICK f \in [0 .. Len(d) -> Int] : Comes(f, v, d)
  BY ContinuedIs
<1>2. k + 1 \in 0 .. Len(d) /\ k + 1 \in 1 .. Len(d) /\ (k + 1) - 1 = k
  OBVIOUS
<1>3. f[k + 1] = ((f[k] * 10) + d[k + 1]) - 48
  BY <1>1, <1>2 DEF Comes
<1> QED
  BY <1>1, <1>2, <1>3, ContinuedAlong

LEMMA ContinuedFirst ==
  ASSUME NEW v \in Int, NEW c \in Int, NEW d \in Seq(Int)
  PROVE  Continued(v, <<c>> \o d) = Continued(((v * 10) + c) - 48, d)
<1> DEFINE w == ((v * 10) + c) - 48  e == <<c>> \o d
<1>1. w \in Int /\ e \in Seq(Int) /\ Len(e) = Len(d) + 1 /\ e[1] = c
      /\ \A k \in 1 .. Len(d) : e[k + 1] = d[k]
  OBVIOUS
<1>2. PICK f \in [0 .. Len(e) -> Int] : Comes(f, v, e) /\ Continued(v, e) = f[Len(e)]
  BY <1>1, ContinuedIs
<1> HIDE DEF e
<1> DEFINE g == [k \in 0 .. Len(d) |-> f[k + 1]]
<1>3. Comes(g, w, d)
  <2>1. g[0] = w
    <3>1. 1 \in 1 .. Len(e) /\ 1 - 1 = 0 /\ 0 \in 0 .. Len(d)
      BY <1>1
    <3>2. f[1] = ((f[0] * 10) + e[1]) - 48 /\ f[0] = v
      BY <1>2, <3>1 DEF Comes
    <3> QED
      BY <1>1, <3>1, <3>2
  <2>2. ASSUME NEW k \in 1 .. Len(d) PROVE g[k] = ((g[k - 1] * 10) + d[k]) - 48
    <3>1. k + 1 \in 1 .. Len(e) /\ (k + 1) - 1 = k /\ k \in 0 .. Len(d)
          /\ k - 1 \in 0 .. Len(d) /\ (k - 1) + 1 = k
      BY <1>1
    <3>2. f[k + 1] = ((f[k] * 10) + e[k + 1]) - 48
      BY <1>2, <3>1 DEF Comes
    <3> QED
      BY <1>1, <3>1, <3>2
  <2> QED
    BY <2>1, <2>2 DEF Comes
<1>4. Continued(w, d) = g[Len(d)]
  BY <1>1, <1>3, ComesTo
<1> QED
  BY <1>1, <1>2, <1>4 DEF e

(* A number only grows with further digits. *)
LEMMA ContinuedGrows ==
  ASSUME NEW d \in Seq(Int), \A i \in DOMAIN d : d[i] \in Digit, NEW k \in 0 .. Len(d)
  PROVE  /\ Continued(0, SubSeq(d, 1, k)) \in Nat
         /\ Continued(0, SubSeq(d, 1, k)) <= Continued(0, d)
<1>1. PICK f \in [0 .. Len(d) -> Int] : Comes(f, 0, d) /\ Continued(0, d) = f[Len(d)]
  BY ContinuedIs
<1> DEFINE n == Len(d)
           S == {i \in 0 .. n : f[i] >= 0 /\ (i >= k => f[i] >= f[k])}
<1>2. n \in Nat /\ n = Len(d) /\ k \in 0 .. n /\ \A i \in 1 .. n : d[i] - 48 \in 0 .. 9
  BY DEF Digit
<1>3. f \in [0 .. n -> Int] /\ f[0] = 0
      /\ \A i \in 1 .. n : f[i] = ((f[i - 1] * 10) + d[i]) - 48
  BY <1>1 DEF Comes
<1> HIDE DEF n
<1>4. 0 \in S
  BY <1>2, <1>3
<1>5. ASSUME NEW i \in 1 .. n, i - 1 \in S PROVE i \in S
  <2>1. f[i] = ((f[i - 1] * 10) + d[i]) - 48 /\ f[i - 1] \in Int /\ f[i - 1] >= 0
        /\ i \in 0 .. n
    <3>1. i - 1 \in 0 .. n /\ i \in 0 .. n
      BY <1>2
    <3> QED
      BY <1>3, <1>5, <3>1
  <2> DEFINE x == f[i - 1]  y == d[i] - 48  z == f[i]
  <2>2. z = (x * 10) + y /\ x \in Nat /\ y \in 0 .. 9
    BY <1>2, <2>1
  <2> HIDE DEF x, y, z
  <2>3. z >= 0 /\ z >= x
    BY <2>2
  <2>4. f[i] >= 0 /\ f[i] >= f[i - 1]
    BY <2>3 DEF x, z
  <2>5. i >= k => f[i] >= f[k]
    <3>1. CASE i = k
      BY <1>3, <2>1, <3>1
    <3>2. CASE i > k
      <4>1. i - 1 >= k /\ f[k] \in Int /\ f[i] \in Int
        <5>1. i \in Int /\ k \in Int /\ i \in 0 .. n
          BY <1>2, <2>1
        <5>2. i - 1 >= k
          BY <3>2, <5>1
        <5>3. f[k] \in Int /\ f[i] \in Int
          BY <1>2, <1>3, <5>1
        <5> QED
          BY <5>2, <5>3
      <4>2. f[i - 1] >= f[k]
        BY <1>5, <4>1
      <4> QED
        BY <2>1, <2>4, <4>1, <4>2
    <3> QED
      BY <1>2, <3>1, <3>2
  <2> QED
    BY <2>1, <2>4, <2>5
<1>6. 0 .. n \subseteq S
  <2> HIDE DEF S
  <2> QED
    BY <1>2, <1>4, <1>5, AllPlaces
<1>7. f[k] \in Nat /\ f[k] <= f[n]
  <2>1. k \in S /\ n \in S /\ n >= k
    BY <1>2, <1>6
  <2> QED
    BY <1>2, <1>3, <2>1, SMTT(30)
<1>8. Continued(0, SubSeq(d, 1, k)) = f[k]
  BY <1>1, ContinuedAlong
<1> QED
  BY <1>1, <1>2, <1>7, <1>8

-----------------------------------------------------------------------------
(* What a text stands for. *)
AllDigits(d) == \A i \in DOMAIN d : d[i] \in Digit

LEMMA BytesAre ==
  ASSUME NEW d \in Seq(Byte)
  PROVE  d \in Seq(Int) /\ Len(d) \in Nat /\ (d # << >> => Head(d) = d[1] /\ 1 \in DOMAIN d)
<1>1. Len(d) \in Nat /\ d \in [1 .. Len(d) -> Byte] /\ Byte \subseteq Int
  <2>1. Byte \subseteq Int
    BY DEF Byte
  <2> HIDE DEF Byte
  <2>2. Len(d) \in Nat /\ d \in [1 .. Len(d) -> Byte]
    OBVIOUS
  <2> QED
    BY <2>1, <2>2
<1>2. d \in [1 .. Len(d) -> Int]
  BY <1>1
<1>3. d \in Seq(Int)
  BY <1>1, <1>2
<1> HIDE DEF Byte
<1>4. d # << >> => Head(d) = d[1] /\ 1 \in DOMAIN d
  OBVIOUS
<1> QED
  BY <1>1, <1>3, <1>4

LEMMA DigitsGrow ==
  ASSUME NEW d \in Seq(Int), AllDigits(d)
  PROVE  Continued(0, d) >= 0
<1> DEFINE k == Len(d)
<1>1. k \in 0 .. Len(d) /\ SubSeq(d, 1, k) = d
  OBVIOUS
<1> HIDE DEF k
<1>2. Continued(0, SubSeq(d, 1, k)) \in Nat
  BY <1>1, ContinuedGrows DEF AllDigits
<1>3. Continued(0, d) \in Nat
  BY <1>1, <1>2
<1> QED
  BY <1>3

LEMMA DenotedPlain ==
  ASSUME NEW t \in NumberType, NEW d \in Seq(Byte), d # << >>, d[1] # Minus \/ ~t.signed
  PROVE  Denoted(d, t) = IF AllDigits(d) /\ Continued(0, d) <= Top(t)
                           THEN {Continued(0, d)} ELSE {}
<1>1. d \in Seq(Int) /\ Head(d) = d[1] /\ Len(d) \in Nat
  BY BytesAre
<1>2. Denoted(d, t) = IF /\ d # << >> /\ AllDigits(d)
                         /\ Bottom(t) <= Continued(0, d) /\ Continued(0, d) <= Top(t)
                        THEN {Continued(0, d)} ELSE {}
  BY <1>1 DEF Denoted, IsNumeral, AllDigits, Magnitude
<1>3. Continued(0, d) \in Int /\ Bottom(t) \in Int /\ Bottom(t) <= 0
  BY <1>1, ContinuedType, RangeIs
<1>4. AllDigits(d) => Continued(0, d) >= 0
  BY <1>1, DigitsGrow
<1> QED
  BY <1>2, <1>3, <1>4

LEMMA DenotedMinus ==
  ASSUME NEW t \in NumberType, NEW x \in Seq(Byte), x # << >>, x[1] = Minus, t.signed
  PROVE  LET d == Tail(x)
         IN Denoted(x, t) = IF d # << >> /\ AllDigits(d) /\ Bottom(t) <= -Continued(0, d)
                              THEN {-Continued(0, d)} ELSE {}
<1> DEFINE d == Tail(x)
<1>1. d \in Seq(Byte) /\ d \in Seq(Int) /\ Head(x) = x[1] /\ Len(d) \in Nat
  <2>1. d \in Seq(Byte)
    OBVIOUS
  <2> HIDE DEF d
  <2> QED
    BY <2>1, BytesAre
<1>2. Denoted(x, t) = IF /\ d # << >> /\ AllDigits(d)
                         /\ Bottom(t) <= -Continued(0, d) /\ -Continued(0, d) <= Top(t)
                        THEN {-Continued(0, d)} ELSE {}
  BY <1>1 DEF Denoted, IsNumeral, AllDigits, Magnitude
<1> HIDE DEF d
<1>3. Continued(0, d) \in Int /\ Top(t) \in Nat
  BY <1>1, ContinuedType, RangeIs
<1>4. AllDigits(d) => Continued(0, d) >= 0
  BY <1>1, DigitsGrow
<1>5. Denoted(x, t) = IF d # << >> /\ AllDigits(d) /\ Bottom(t) <= -Continued(0, d)
                        THEN {-Continued(0, d)} ELSE {}
  BY <1>2, <1>3, <1>4
<1> QED
  BY <1>5 DEF d

LEMMA DenotedNothing ==
  ASSUME NEW t, NEW x \in Seq(Byte),
         \/ x = << >>
         \/ x[1] \notin Digit /\ (x[1] # Minus \/ ~t.signed \/ Len(x) = 1)
  PROVE  Denoted(x, t) = {}
<1>1. CASE x = << >>
  BY <1>1 DEF Denoted, IsNumeral
<1>2. CASE x # << >>
  <2>1. Head(x) = x[1] /\ 1 \in DOMAIN x /\ (Len(x) = 1 => Tail(x) = << >>)
    <3>1. Len(x) = 1 => Tail(x) = << >>
      <4> SUFFICES ASSUME Len(x) = 1 PROVE Tail(x) = << >>
        OBVIOUS
      <4>1. Tail(x) \in Seq(Byte) /\ Len(Tail(x)) = 0
        BY <1>2
      <4>2. \A y \in Seq(Byte) : Len(y) = 0 => y = << >>
        OBVIOUS
      <4> QED
        BY <4>1, <4>2, Zenon
    <3> QED
      BY <1>2, <3>1, BytesAre
  <2>2. x[1] \notin Digit
    BY <1>2
  <2> QED
    BY <1>2, <2>1, <2>2 DEF Denoted, IsNumeral
<1> QED
  BY <1>1, <1>2

(* Blanks end where something else begins. *)
BlanksOf(x) ==
  LET nonblank == {i \in 0 .. Len(x) - 1 : x[i + 1] \notin {Blank, 9}}
  IN IF nonblank = {} THEN Len(x) ELSE CHOOSE i \in nonblank : \A k \in nonblank : i <= k

UnblankedOf(x) == SubSeq(x, BlanksOf(x) + 1, Len(x))

LEMMA BlanksEnd ==
  ASSUME NEW x \in Seq(Byte)
  PROVE  /\ BlanksOf(x) \in 0 .. Len(x)
         /\ BlanksOf(x) < Len(x) => x[BlanksOf(x) + 1] \notin {Blank, 9}
         /\ x # << >> /\ x[1] \notin {Blank, 9} => BlanksOf(x) = 0
<1> DEFINE nonblank == {i \in 0 .. Len(x) - 1 : x[i + 1] \notin {Blank, 9}}
           First(i) == i \in nonblank /\ \A k \in nonblank : i <= k
<1>1. BlanksOf(x) = IF nonblank = {} THEN Len(x)
                    ELSE CHOOSE i \in nonblank : \A k \in nonblank : i <= k
  BY DEF BlanksOf
<1>2. Len(x) \in Nat /\ nonblank \in SUBSET Nat
      /\ \A i \in nonblank : i \in 0 .. Len(x) /\ x[i + 1] \notin {Blank, 9}
  OBVIOUS
<1>3. x # << >> /\ x[1] \notin {Blank, 9} => 0 \in nonblank
  BY <1>2
<1> HIDE DEF nonblank
<1>4. nonblank # {} => BlanksOf(x) \in nonblank /\ \A k \in nonblank : BlanksOf(x) <= k
  <2> SUFFICES ASSUME nonblank # {}
               PROVE  BlanksOf(x) \in nonblank /\ \A k \in nonblank : BlanksOf(x) <= k
    OBVIOUS
  <2>1. \E i \in nonblank : \A k \in nonblank : i <= k
    BY <1>2, LeastIs
  <2> QED
    BY <1>1, <2>1
<1>5. nonblank = {} => BlanksOf(x) = Len(x)
  BY <1>1
<1>6. BlanksOf(x) < Len(x) => nonblank # {}
  BY <1>2, <1>5
<1>7. 0 \in nonblank => BlanksOf(x) = 0
  <2> SUFFICES ASSUME 0 \in nonblank PROVE BlanksOf(x) = 0
    OBVIOUS
  <2>1. BlanksOf(x) \in Nat /\ BlanksOf(x) <= 0
    BY <1>2, <1>4
  <2> QED
    BY <2>1
<1>8. BlanksOf(x) \in 0 .. Len(x)
  <2>1. CASE nonblank = {}
    <3>1. Len(x) \in 0 .. Len(x)
      BY <1>2
    <3> QED
      BY <1>5, <2>1, <3>1
  <2>2. CASE nonblank # {}
    BY <1>2, <1>4, <2>2
  <2> QED
    BY <2>1, <2>2
<1>9. BlanksOf(x) < Len(x) => x[BlanksOf(x) + 1] \notin {Blank, 9}
  BY <1>2, <1>4, <1>6
<1> QED
  BY <1>3, <1>7, <1>8, <1>9

LEMMA UnblankedIs ==
  ASSUME NEW x \in Seq(Byte)
  PROVE  /\ UnblankedOf(x) \in Seq(Byte) /\ Len(UnblankedOf(x)) = Len(x) - BlanksOf(x)
         /\ \A i \in 1 .. Len(UnblankedOf(x)) : UnblankedOf(x)[i] = x[BlanksOf(x) + i]
         /\ BlanksOf(x) = 0 => UnblankedOf(x) = x
<1> DEFINE b == BlanksOf(x)
<1>1. b \in 0 .. Len(x) /\ Len(x) \in Nat
  BY BlanksEnd
<1>2. UnblankedOf(x) = SubSeq(x, b + 1, Len(x))
  BY DEF UnblankedOf
<1> HIDE DEF b
<1>3. /\ UnblankedOf(x) \in Seq(Byte) /\ Len(UnblankedOf(x)) = Len(x) - b
      /\ \A i \in 1 .. Len(UnblankedOf(x)) : UnblankedOf(x)[i] = x[b + i]
      /\ b = 0 => UnblankedOf(x) = x
  BY <1>1, <1>2
<1> QED
  BY <1>3 DEF b

-----------------------------------------------------------------------------
(* The arithmetic of a type: nothing leaves it that is not refused. *)
LEMMA TimesTenIs ==
  ASSUME type \in NumberType, NEW n \in Int, Bottom(type) <= n * 10, n * 10 <= Top(type)
  PROVE  TimesTen(n) = n * 10
<1> DEFINE b == Bottom(type)  p == Power(2, type.bits)  x == n * 10
<1>1. b \in Int /\ p \in Nat /\ p = (Top(type) - b) + 1 /\ Top(type) \in Nat /\ x \in Int
  BY RangeIs
<1>2. TimesTen(n) = ((x - b) % p) + b
  BY DEF TimesTen
<1>3. b <= x /\ x <= Top(type)
  OBVIOUS
<1> HIDE DEF b, p, x
<1>4. x - b \in Nat /\ x - b < p
  BY <1>1, <1>3
<1>5. (x - b) % p = x - b
  BY <1>1, <1>4
<1>6. TimesTen(n) = x
  BY <1>1, <1>2, <1>5
<1> QED
  BY <1>6 DEF x

LEMMA OverflowIs ==
  ASSUME type \in NumberType
  PROVE  /\ \A n \in 0 .. Top(type) : MultiplyOverflows(n) <=> n * 10 > Top(type)
         /\ \A n \in Bottom(type) .. 0 : MultiplyOverflows(n) <=> n * 10 < Bottom(type)
<1> DEFINE b == Bottom(type)  h == Top(type)
<1>1. b \in Int /\ b <= 0 /\ h \in Nat
  BY RangeIs
<1>2. \A n : MultiplyOverflows(n) <=> n > Tenth(h) \/ n < Tenth(b)
  BY DEF MultiplyOverflows
<1> HIDE DEF b, h
<1>3. Tenth(h) \in Nat /\ Tenth(h) * 10 <= h /\ h <= (Tenth(h) * 10) + 9
  BY <1>1 DEF Tenth
<1>4. Tenth(b) \in Int /\ Tenth(b) <= 0 /\ Tenth(b) * 10 >= b /\ (Tenth(b) * 10) - 9 <= b
  <2>1. CASE b < 0
    <3> DEFINE c == -b  q == c \div 10
    <3>1. c \in Nat /\ b = -c /\ Tenth(b) = -q
      BY <1>1, <2>1 DEF Tenth
    <3>2. q \in Nat /\ q * 10 <= c /\ c <= (q * 10) + 9
      BY <3>1
    <3> HIDE DEF c, q
    <3> QED
      BY <1>1, <3>1, <3>2
  <2>2. CASE b = 0
    BY <2>2 DEF Tenth
  <2> QED
    BY <1>1, <2>1, <2>2
<1> DEFINE x == Tenth(h)  y == Tenth(b)
<1>5. \A n \in 0 .. h : (n > x \/ n < y) <=> n * 10 > h
  <2> HIDE DEF x, y
  <2>1. x \in Nat /\ x * 10 <= h /\ h <= (x * 10) + 9 /\ y \in Int /\ y <= 0
    BY <1>3, <1>4 DEF x, y
  <2> QED
    BY <1>1, <2>1
<1>6. \A n \in b .. 0 : (n > x \/ n < y) <=> n * 10 < b
  <2> HIDE DEF x, y
  <2>1. y \in Int /\ y * 10 >= b /\ (y * 10) - 9 <= b /\ x \in Nat
    BY <1>3, <1>4 DEF x, y
  <2> QED
    BY <1>1, <2>1
<1>7. /\ \A n \in 0 .. h : MultiplyOverflows(n) <=> n * 10 > h
      /\ \A n \in b .. 0 : MultiplyOverflows(n) <=> n * 10 < b
  BY <1>2, <1>5, <1>6
<1> QED
  BY <1>7 DEF b, h

-----------------------------------------------------------------------------
(* A text that is read from s on has been read up to i. *)
ReadSoFar(x, s, i, n) ==
  /\ s < Len(x) /\ i \in s .. Len(x)
  /\ \A j \in s + 1 .. i : x[j] \in Digit
  /\ n = Continued(0, SubSeq(x, s + 1, i))

Reading ==
  /\ job = "add" =>
       /\ ReadSoFar(image, AfterBlanks, at, value) /\ value <= Top(type)
       /\ image[AfterBlanks + 1] \in Digit
  /\ job = "subtract" =>
       /\ ReadSoFar(image, AfterBlanks + 1, at, -value) /\ Bottom(type) <= value
       /\ image[AfterBlanks + 1] = Minus /\ type.signed

(* What is left of a number, and the digits there are, are the number. *)
Writing ==
  /\ made /\ at = 0 /\ AllDigits(image)
  /\ Len(image) <= Digits10(type) + 1
  /\ value \in Nat /\ value <= Power(2, type.bits)
  /\ value < Power(10, (Digits10(type) + 1) - Len(image))
  /\ Continued(value, image) = Positive(origin[1])
  /\ job = "write" => (image # << >> => value > 0)
  /\ job = "sign" => image # << >> /\ value = 0

NumberFits ==
  /\ job \in {"write", "sign", "read", "add", "subtract", "done", "thrown"}
  /\ image \in Seq(Byte) /\ behind \in Byte \ Digit /\ value \in Int
  /\ made => \E v \in Bottom(type) .. Top(type) : origin = <<v>>
  /\ job \in {"write", "sign"} => Writing
  /\ made /\ job \notin {"write", "sign"} =>
       Denoted(Unblanked, type) = {origin[1]} /\ Len(image) + 1 <= SizeBuffer(type)
  /\ job = "read" => at = 0 /\ value = 0
  /\ Reading
  /\ job = "done" => Denoted(Unblanked, type) = {value}
  /\ job = "thrown" => Denoted(Unblanked, type) = {} /\ value = 0
  /\ at \in 0 .. Len(image) + 1

(* What esc_bin makes of data. *)
Escaped(data) ==
  <<Slash, LetterX>> \o
    [i \in 1 .. 2 * Len(data) |->
       IF i % 2 = 1 THEN HexDigit(data[(i + 1) \div 2] \div 16)
       ELSE HexDigit(data[i \div 2] % 16)]

HexFits ==
  /\ job \in {"escape", "unescape", "done", "thrown"}
  /\ made => origin \in Seq(Byte)
  /\ job = "escape" => made
  /\ job # "escape" => image \in Seq(Byte) /\ (made => image = Escaped(origin))
  /\ job = "done" => HexIsExact /\ (made => value = origin)
  /\ job = "thrown" => ~made

Nulls(k) == {i \in 1 .. k : origin[i].kind = "null"}

(* What is written so far overruns by no more than the commas. *)
ArrayFits ==
  /\ job \in {"elements", "done", "thrown"} /\ made
  /\ origin \in Seq(Elements)
  /\ job = "elements" =>
       \E k \in 0 .. Len(origin) :
         /\ todo = SubSeq(origin, k + 1, Len(origin)) /\ at \in Nat
         /\ k = 0 => at = 1
         /\ at + 2 <= Budget(SubSeq(origin, 1, k)) + k + Cardinality(Nulls(k))
  /\ job \in {"done", "thrown"} => ShortByCommas

ConversionInv ==
  \/ type \in Types /\ NumberFits
  \/ type = ByteString /\ HexFits
  \/ type = Arrays /\ ArrayFits

-----------------------------------------------------------------------------
(* A digit more, the end of the text, and what any text comes to that goes on. *)
LEMMA ReadTo ==
  ASSUME NEW x \in Seq(Byte), NEW s \in Nat, NEW i, NEW n, ReadSoFar(x, s, i, n)
  PROVE  LET d == SubSeq(x, s + 1, Len(x))
         IN /\ d \in Seq(Int) /\ Len(d) = Len(x) - s /\ d # << >> /\ d[1] = x[s + 1]
            /\ \A j \in 1 .. Len(d) : d[j] = x[s + j]
            /\ i - s \in 0 .. Len(d) /\ n = Continued(0, SubSeq(d, 1, i - s)) /\ n \in Int
<1> DEFINE d == SubSeq(x, s + 1, Len(x))  k == i - s  e == SubSeq(x, s + 1, i)
<1>1. Len(x) \in Nat /\ s < Len(x) /\ i \in s .. Len(x) /\ n = Continued(0, e)
  BY DEF ReadSoFar
<1>2. d \in Seq(Byte) /\ Len(d) = Len(x) - s /\ \A j \in 1 .. Len(d) : d[j] = x[s + j]
  BY <1>1
<1>3. k \in 0 .. Len(d) /\ Len(d) >= 1
  BY <1>1, <1>2
<1>4. e \in Seq(Byte) /\ Len(e) = k /\ \A j \in 1 .. k : e[j] = x[s + j]
  BY <1>1
<1> HIDE DEF d, e, k
<1>5. SubSeq(d, 1, k) = e
  <2>1. SubSeq(d, 1, k) \in Seq(Byte) /\ Len(SubSeq(d, 1, k)) = k
        /\ \A j \in 1 .. k : SubSeq(d, 1, k)[j] = x[s + j]
    BY <1>2, <1>3
  <2> QED
    BY <1>3, <1>4, <2>1
<1>6. d \in Seq(Int) /\ e \in Seq(Int)
  BY <1>2, <1>4, BytesAre
<1>7. n \in Int
  BY <1>1, <1>6, ContinuedType
<1>8. d # << >> /\ d[1] = x[s + 1]
  BY <1>2, <1>3
<1> QED
  BY <1>1, <1>2, <1>3, <1>5, <1>6, <1>7, <1>8 DEF d, k

LEMMA ReadStarts ==
  ASSUME NEW x \in Seq(Byte), NEW s \in Nat, s < Len(x)
  PROVE  ReadSoFar(x, s, s, 0)
<1>1. Len(x) \in Nat /\ s \in s .. Len(x) /\ s + 1 .. s = {}
  OBVIOUS
<1>2. SubSeq(x, s + 1, s) = << >>
  BY <1>1
<1>3. Continued(0, << >>) = 0
  <2>1. << >> \in Seq(Int) /\ 0 \in Int
    OBVIOUS
  <2> QED
    BY <2>1, ContinuedType
<1> QED
  BY <1>1, <1>2, <1>3 DEF ReadSoFar

LEMMA ReadNext ==
  ASSUME NEW x \in Seq(Byte), NEW s \in Nat, NEW i, NEW n, ReadSoFar(x, s, i, n),
         i < Len(x), x[i + 1] \in Digit
  PROVE  ReadSoFar(x, s, i + 1, (n * 10) + (x[i + 1] - 48))
<1> DEFINE d == SubSeq(x, s + 1, Len(x))  k == i - s  m == (n * 10) + (x[i + 1] - 48)
<1>1. d \in Seq(Int) /\ Len(d) = Len(x) - s /\ (\A j \in 1 .. Len(d) : d[j] = x[s + j])
      /\ k \in 0 .. Len(d) /\ n = Continued(0, SubSeq(d, 1, k)) /\ n \in Int
  BY ReadTo
<1>2. Len(x) \in Nat /\ i \in Nat /\ s < Len(x) /\ i \in s .. Len(x)
      /\ \A j \in s + 1 .. i : x[j] \in Digit
  BY DEF ReadSoFar
<1>3. k < Len(d) /\ k + 1 \in 1 .. Len(d) /\ s + (k + 1) = i + 1
  BY <1>1, <1>2
<1>4. SubSeq(d, 1, k + 1) = SubSeq(x, s + 1, i + 1)
  BY <1>2
<1>5. d[k + 1] = x[i + 1] /\ x[i + 1] \in Int
  <2>1. d[k + 1] = x[s + (k + 1)]
    BY <1>1, <1>3
  <2>2. x[i + 1] \in Int
    BY DEF Digit
  <2> QED
    BY <1>3, <2>1, <2>2
<1> HIDE DEF d, k
<1>6. Continued(0, SubSeq(d, 1, k + 1)) = ((n * 10) + d[k + 1]) - 48
  <2>1. 0 \in Int /\ k \in 0 .. Len(d) /\ k < Len(d) /\ d \in Seq(Int)
    BY <1>1, <1>3
  <2>2. Continued(0, SubSeq(d, 1, k + 1)) =
          ((Continued(0, SubSeq(d, 1, k)) * 10) + d[k + 1]) - 48
    BY ONLY <2>1, ContinuedNext, Zenon
  <2> QED
    BY <1>1, <2>2
<1>7. Continued(0, SubSeq(x, s + 1, i + 1)) = m
  <2> DEFINE y == x[i + 1]
  <2>1. y \in Int /\ n \in Int /\ d[k + 1] = y /\ m = (n * 10) + (y - 48)
    BY <1>1, <1>5
  <2> HIDE DEF y, m
  <2>2. ((n * 10) + y) - 48 = m
    BY <2>1
  <2> QED
    BY <1>4, <1>6, <2>1, <2>2
<1> HIDE DEF m
<1>8. i + 1 \in s .. Len(x)
  BY <1>2
<1>9. \A j \in s + 1 .. i + 1 : x[j] \in Digit
  BY <1>2
<1> QED
  BY <1>2, <1>7, <1>8, <1>9 DEF ReadSoFar, m

LEMMA ReadEnds ==
  ASSUME NEW x \in Seq(Byte), NEW s \in Nat, NEW i, NEW n, ReadSoFar(x, s, i, n)
  PROVE  LET d == SubSeq(x, s + 1, Len(x))
         IN /\ i = Len(x) => AllDigits(d) /\ Continued(0, d) = n
            /\ i < Len(x) /\ x[i + 1] \notin Digit => ~AllDigits(d)
            /\ n \in Int /\ (AllDigits(d) => 0 <= n /\ n <= Continued(0, d))
<1> DEFINE d == SubSeq(x, s + 1, Len(x))  k == i - s
<1>1. d \in Seq(Int) /\ Len(d) = Len(x) - s /\ (\A j \in 1 .. Len(d) : d[j] = x[s + j])
      /\ k \in 0 .. Len(d) /\ n = Continued(0, SubSeq(d, 1, k)) /\ n \in Int
  BY ReadTo
<1>2. Len(x) \in Nat /\ i \in Nat /\ s < Len(x) /\ i \in s .. Len(x)
      /\ \A j \in s + 1 .. i : x[j] \in Digit
  BY DEF ReadSoFar
<1>3. s + (k + 1) = i + 1
  BY <1>2
<1>4. (i = Len(x)) <=> (k = Len(d))
  BY <1>1, <1>2
<1>5. DOMAIN d = 1 .. Len(d)
  BY <1>1
<1> HIDE DEF d
<1>6. i = Len(x) => AllDigits(d) /\ Continued(0, d) = n
  <2> SUFFICES ASSUME i = Len(x) PROVE AllDigits(d) /\ Continued(0, d) = n
    OBVIOUS
  <2>1. \A j \in 1 .. Len(d) : s + j \in s + 1 .. i
    BY <1>1, <1>2
  <2>2. AllDigits(d)
    BY <1>1, <1>2, <1>5, <2>1 DEF AllDigits
  <2>3. SubSeq(d, 1, k) = d
    BY <1>1, <1>4
  <2> QED
    BY <1>1, <2>2, <2>3
<1>7. i < Len(x) /\ x[i + 1] \notin Digit => ~AllDigits(d)
  <2> SUFFICES ASSUME i < Len(x), x[i + 1] \notin Digit PROVE ~AllDigits(d)
    OBVIOUS
  <2>1. k + 1 \in 1 .. Len(d)
    BY <1>1, <1>2, <1>4, SMTT(30)
  <2>2. d[k + 1] = x[s + (k + 1)]
    BY <1>1, <2>1
  <2>3. d[k + 1] = x[i + 1]
    BY <1>3, <2>2
  <2> QED
    BY <1>5, <2>1, <2>3 DEF AllDigits
<1>8. AllDigits(d) => 0 <= n /\ n <= Continued(0, d)
  <2> HIDE DEF k
  <2> SUFFICES ASSUME AllDigits(d) PROVE 0 <= n /\ n <= Continued(0, d)
    OBVIOUS
  <2>1. Continued(0, SubSeq(d, 1, k)) \in Nat /\ Continued(0, SubSeq(d, 1, k)) <= Continued(0, d)
    BY <1>1, ContinuedGrows DEF AllDigits
  <2> QED
    BY <1>1, <2>1
<1> QED
  BY <1>1, <1>6, <1>7, <1>8 DEF d

LEMMA ReadNat ==
  ASSUME NEW x \in Seq(Byte), NEW s \in Nat, NEW i, NEW n, ReadSoFar(x, s, i, n)
  PROVE  n \in Nat
<1> DEFINE e == SubSeq(x, s + 1, i)  k == i - s
<1>1. Len(x) \in Nat /\ s < Len(x) /\ i \in s .. Len(x) /\ n = Continued(0, e)
      /\ \A j \in s + 1 .. i : x[j] \in Digit
  BY DEF ReadSoFar
<1>2. e \in Seq(Byte) /\ Len(e) = k /\ k \in Nat /\ \A j \in 1 .. k : e[j] = x[s + j]
  BY <1>1
<1>3. \A j \in 1 .. k : s + j \in s + 1 .. i
  BY <1>1
<1>7. DOMAIN e = 1 .. k
  BY <1>2
<1> HIDE DEF e, k
<1>4. AllDigits(e)
  BY <1>1, <1>2, <1>3, <1>7 DEF AllDigits
<1>5. e \in Seq(Int)
  BY <1>2, BytesAre
<1>6. 0 \in Int /\ Continued(0, e) \in Int
  BY <1>5, ContinuedType
<1> QED
  BY <1>1, <1>4, <1>5, <1>6, DigitsGrow

(* Where the digits of an unblanked text begin, and what it then stands for. *)
LEMMA StandsFor ==
  ASSUME NEW t \in NumberType, NEW x \in Seq(Byte), BlanksOf(x) < Len(x)
  PROVE  LET b == BlanksOf(x)
             d == SubSeq(x, b + 1, Len(x))
             e == SubSeq(x, b + 2, Len(x))
         IN /\ x[b + 1] # Minus \/ ~t.signed =>
                 Denoted(UnblankedOf(x), t) = IF AllDigits(d) /\ Continued(0, d) <= Top(t)
                                                THEN {Continued(0, d)} ELSE {}
            /\ x[b + 1] = Minus /\ t.signed /\ b + 1 < Len(x) =>
                 Denoted(UnblankedOf(x), t) =
                   IF AllDigits(e) /\ Bottom(t) <= -Continued(0, e)
                     THEN {-Continued(0, e)} ELSE {}
            /\ x[b + 1] \notin Digit /\ (x[b + 1] # Minus \/ ~t.signed \/ b + 1 = Len(x)) =>
                 Denoted(UnblankedOf(x), t) = {}
<1> DEFINE b == BlanksOf(x)  d == SubSeq(x, b + 1, Len(x))  e == SubSeq(x, b + 2, Len(x))
           u == UnblankedOf(x)
<1>1. b \in Nat /\ b < Len(x) /\ Len(x) \in Nat
  BY BlanksEnd
<1>2. u = d /\ u \in Seq(Byte) /\ Len(u) = Len(x) - b /\ \A i \in 1 .. Len(u) : u[i] = x[b + i]
  BY UnblankedIs DEF UnblankedOf
<1> HIDE DEF u, b
<1>3. u # << >> /\ u[1] = x[b + 1]
  <2>1. Len(u) >= 1 /\ 1 \in 1 .. Len(u)
    BY <1>1, <1>2
  <2>2. u # << >>
    BY <2>1
  <2> QED
    BY <1>2, <2>1, <2>2, Zenon
<1>4. e = Tail(u) /\ (b + 1 < Len(x) => e # << >>)
  <2>1. Tail(u) = SubSeq(u, 2, Len(u)) /\ Tail(u) \in Seq(Byte) /\ Len(Tail(u)) = Len(u) - 1
    BY <1>2, <1>3, SMTT(30)
  <2>2. \A j \in 1 .. Len(u) - 1 : Tail(u)[j] = x[(b + 1) + j]
    <3> SUFFICES ASSUME NEW j \in 1 .. Len(u) - 1 PROVE Tail(u)[j] = x[(b + 1) + j]
      OBVIOUS
    <3>1. j + 1 \in 1 .. Len(u) /\ b + (j + 1) = (b + 1) + j
      BY <1>1, <1>2, SMTT(30)
    <3>2. Tail(u)[j] = u[j + 1]
      BY <1>2, <1>3, <3>1
    <3> QED
      BY <1>2, <3>1, <3>2
  <2>3. e \in Seq(Byte) /\ Len(e) = Len(u) - 1
        /\ \A j \in 1 .. Len(u) - 1 : e[j] = x[(b + 1) + j]
    BY <1>1, <1>2, SMTT(30)
  <2> DEFINE w == Tail(u)  l == Len(u) - 1
  <2> HIDE DEF e, w, l, d
  <2>4. e = w
    <3>1. e \in Seq(Byte) /\ w \in Seq(Byte) /\ Len(e) = l /\ Len(w) = l /\ l \in Nat
          /\ \A j \in 1 .. l : e[j] = w[j]
      BY <1>1, <1>2, <1>3, <2>1, <2>2, <2>3 DEF w, l
    <3> QED
      BY ONLY <3>1
  <2>5. b + 1 < Len(x) => e # << >>
    <3>1. b + 1 < Len(x) => Len(e) # 0
      BY <1>1, <1>2, <2>3
    <3> QED
      BY <3>1
  <2> USE DEF w
  <2> QED
    BY <2>4, <2>5
<1>5. b + 1 = Len(x) => Len(u) = 1
  BY <1>1, <1>2
<1> HIDE DEF d, e
<1>6. x[b + 1] # Minus \/ ~t.signed =>
        Denoted(u, t) = IF AllDigits(d) /\ Continued(0, d) <= Top(t) THEN {Continued(0, d)} ELSE {}
  BY <1>2, <1>3, DenotedPlain
<1>7. x[b + 1] = Minus /\ t.signed /\ b + 1 < Len(x) =>
        Denoted(u, t) = IF AllDigits(e) /\ Bottom(t) <= -Continued(0, e)
                          THEN {-Continued(0, e)} ELSE {}
  BY <1>2, <1>3, <1>4, DenotedMinus
<1>8. x[b + 1] \notin Digit /\ (x[b + 1] # Minus \/ ~t.signed \/ b + 1 = Len(x)) =>
        Denoted(u, t) = {}
  BY <1>2, <1>3, <1>5, DenotedNothing
<1> QED
  BY <1>6, <1>7, <1>8 DEF b, d, e, u

-----------------------------------------------------------------------------
LEMMA TextIs ==
  /\ AfterBlanks = BlanksOf(image) /\ Unblanked = UnblankedOf(image)
  /\ AfterBlanks' = BlanksOf(image') /\ Unblanked' = UnblankedOf(image')
  BY DEF AfterBlanks, Unblanked, BlanksOf, UnblankedOf

LEMMA TypesAre ==
  /\ \A t \in Types : t \in NumberType /\ t # ByteString /\ t # Arrays
  /\ ByteString # Arrays
<1>1. \A t \in NumberType : t.bits # 0
  BY DEF NumberType
<1>2. ByteString.bits = 0 /\ Arrays.bits = 0 /\ ByteString.signed # Arrays.signed
  BY DEF ByteString, Arrays
<1>3. Types \subseteq NumberType
  BY ConversionAssumption DEF NumberType
<1> QED
  BY <1>1, <1>2, <1>3

(* A step that reads: what the text is, stays. *)
LEMMA ReadingKept ==
  ASSUME type \in Types, NumberFits, job \in {"read", "add", "subtract"},
         Unchanged, image' = image, job' \in {"add", "subtract", "done", "thrown"},
         Reading', at' \in 0 .. Len(image) + 1, value' \in Int,
         job' = "done" => Denoted(UnblankedOf(image), type) = {value'},
         job' = "thrown" => Denoted(UnblankedOf(image), type) = {} /\ value' = 0
  PROVE  type' \in Types /\ NumberFits'
<1>1. type' = type /\ behind' = behind /\ origin' = origin /\ made' = made
  BY DEF Unchanged
<1>2. Unblanked = UnblankedOf(image) /\ Unblanked' = UnblankedOf(image)
  BY TextIs
<1>3. /\ image \in Seq(Byte) /\ behind \in Byte \ Digit
      /\ made => \E v \in Bottom(type) .. Top(type) : origin = <<v>>
      /\ made => Denoted(Unblanked, type) = {origin[1]} /\ Len(image) + 1 <= SizeBuffer(type)
  BY DEF NumberFits
<1>4. job' \in {"write", "sign", "read", "add", "subtract", "done", "thrown"}
      /\ job' \notin {"write", "sign", "read"}
  OBVIOUS
<1> QED
  BY <1>1, <1>2, <1>3, <1>4 DEF NumberFits

LEMMA ReadFirstKept ==
  ASSUME type \in Types, NumberFits, ReadFirst
  PROVE  type' \in Types /\ NumberFits'
<1> DEFINE b == AfterBlanks
<1>1. job = "read" /\ image \in Seq(Byte) /\ at = 0 /\ type \in NumberType
  BY TypesAre DEF ReadFirst, NumberFits
<1>2. b = BlanksOf(image) /\ b \in 0 .. Len(image) /\ Len(image) \in Nat
      /\ AfterBlanks' = BlanksOf(image')
  BY <1>1, BlanksEnd, TextIs
<1>3. Unchanged /\ image' = image /\ type' = type
  BY DEF ReadFirst, Unchanged
<1>4. b < Len(image) => ByteOf(b) = image[b + 1]
  BY DEF ByteOf
<1>5. Top(type) \in Nat /\ Bottom(type) \in Int /\ Bottom(type) <= 0
  BY <1>1, RangeIs
<1> HIDE DEF b
<1>6. CASE b < Len(image) /\ image[b + 1] \in Digit /\ Becomes("add", 0) /\ at' = b
  <2>1. ReadSoFar(image, b, b, 0)
    BY <1>1, <1>2, <1>6, ReadStarts
  <2>2. job' = "add" /\ value' = 0
    BY <1>6 DEF Becomes
  <2>3. Reading'
    BY <1>2, <1>3, <1>5, <1>6, <2>1, <2>2 DEF Reading
  <2>4. at' \in 0 .. Len(image) + 1
    BY <1>2, <1>6
  <2> QED
    BY <1>1, <1>3, <2>2, <2>3, <2>4, ReadingKept
<1>7. CASE b < Len(image) /\ image[b + 1] = Minus /\ type.signed /\ b + 1 < Len(image)
           /\ Becomes("subtract", 0) /\ at' = b + 1
  <2>1. ReadSoFar(image, b + 1, b + 1, 0)
    <3>1. b + 1 \in Nat
      BY <1>2
    <3> QED
      BY <1>1, <1>7, <3>1, ReadStarts
  <2>2. job' = "subtract" /\ value' = 0 /\ (-value') = 0
    <3>1. job' = "subtract" /\ value' = 0
      BY <1>7 DEF Becomes
    <3>2. (-value') \in Int /\ (-value') >= 0 /\ (-value') <= 0
      BY <3>1
    <3>3. \A n \in Int : n >= 0 /\ n <= 0 => n = 0
      OBVIOUS
    <3> QED
      BY <3>1, <3>2, <3>3, Zenon
  <2>3. Reading'
    BY <1>2, <1>3, <1>5, <1>7, <2>1, <2>2 DEF Reading
  <2>4. at' \in 0 .. Len(image) + 1
    BY <1>2, <1>7
  <2> QED
    BY <1>1, <1>3, <2>2, <2>3, <2>4, ReadingKept
<1>8. CASE /\ Becomes("thrown", 0) /\ at' = at
           /\ \/ b = Len(image)
              \/ /\ b < Len(image) /\ image[b + 1] \notin Digit
                 /\ image[b + 1] # Minus \/ ~type.signed \/ ~(b + 1 < Len(image))
  <2>1. Denoted(UnblankedOf(image), type) = {}
    <3>1. CASE b = Len(image)
      <4>1. UnblankedOf(image) \in Seq(Byte) /\ Len(UnblankedOf(image)) = 0
        <5>1. UnblankedOf(image) \in Seq(Byte) /\ Len(UnblankedOf(image)) = Len(image) - b
          BY <1>1, <1>2, UnblankedIs
        <5> QED
          BY <1>2, <3>1, <5>1
      <4>2. UnblankedOf(image) = << >>
        BY <4>1
      <4> QED
        BY <4>1, <4>2, DenotedNothing
    <3>2. CASE b < Len(image)
      <4>1. ~(b + 1 < Len(image)) => b + 1 = Len(image)
        BY <1>2, <3>2
      <4>2. image[b + 1] \notin Digit
            /\ (image[b + 1] # Minus \/ ~type.signed \/ b + 1 = Len(image))
        BY <1>2, <1>8, <3>2, <4>1
      <4> QED
        BY <1>1, <1>2, <3>2, <4>2, StandsFor
    <3> QED
      BY <1>8, <3>1, <3>2
  <2>2. job' = "thrown" /\ value' = 0
    BY <1>8 DEF Becomes
  <2>3. Reading'
    BY <2>2 DEF Reading
  <2>4. at' \in 0 .. Len(image) + 1
    BY <1>1, <1>2, <1>8
  <2> QED
    BY <1>1, <1>3, <2>1, <2>2, <2>3, <2>4, ReadingKept
<1> QED
  <2>1. LET i == b
        IN CASE i = Len(image) -> Becomes("thrown", 0) /\ UNCHANGED at
             [] i < Len(image) /\ ByteOf(i) \in Digit -> Becomes("add", 0) /\ at' = i
             [] i < Len(image) /\ ByteOf(i) = Minus /\ type.signed /\ i + 1 < Len(image) ->
                  Becomes("subtract", 0) /\ at' = i + 1
             [] OTHER -> Becomes("thrown", 0) /\ UNCHANGED at
    BY DEF ReadFirst, b
  <2>2. Minus \notin Digit
    BY DEF Minus, Digit
  <2>3. CASE b = Len(image)
    <3>1. Becomes("thrown", 0) /\ at' = at
      BY <1>2, <2>1, <2>3
    <3> QED
      BY <1>8, <2>3, <3>1
  <2>4. CASE b < Len(image)
    <3>1. b # Len(image)
      BY <1>2, <2>4
    <3>2. CASE image[b + 1] \in Digit
      <4>1. Becomes("add", 0) /\ at' = b
        BY <1>4, <2>1, <2>2, <2>4, <3>1, <3>2
      <4> QED
        BY <1>6, <2>4, <3>2, <4>1
    <3>3. CASE image[b + 1] = Minus /\ type.signed /\ b + 1 < Len(image)
      <4>1. Becomes("subtract", 0) /\ at' = b + 1
        BY <1>4, <2>1, <2>2, <2>4, <3>1, <3>3
      <4> QED
        BY <1>7, <2>4, <3>3, <4>1
    <3>4. CASE image[b + 1] \notin Digit
               /\ (image[b + 1] # Minus \/ ~type.signed \/ ~(b + 1 < Len(image)))
      <4>1. Becomes("thrown", 0) /\ at' = at
        BY <1>4, <2>1, <2>4, <3>1, <3>4
      <4> QED
        BY <1>8, <2>4, <3>4, <4>1
    <3> QED
      BY <3>2, <3>3, <3>4
  <2> QED
    BY <1>2, <2>3, <2>4

LEMMA AbsorbPositiveKept ==
  ASSUME type \in Types, NumberFits, AbsorbPositive
  PROVE  type' \in Types /\ NumberFits'
<1> DEFINE b == AfterBlanks  d == SubSeq(image, b + 1, Len(image))
           c == ByteOf(at) - 48  m == (value * 10) + c
<1>1. job = "add" /\ image \in Seq(Byte) /\ type \in NumberType /\ behind \notin Digit
  BY TypesAre DEF AbsorbPositive, NumberFits
<1>2. b = BlanksOf(image) /\ b \in Nat /\ Len(image) \in Nat /\ AfterBlanks' = BlanksOf(image')
  BY <1>1, BlanksEnd, TextIs
<1>3. Unchanged /\ image' = image /\ type' = type
  BY DEF AbsorbPositive, Unchanged
<1>4. ReadSoFar(image, b, at, value) /\ value <= Top(type) /\ image[b + 1] \in Digit
  BY <1>1 DEF NumberFits, Reading
<1>5. b < Len(image) /\ at \in b .. Len(image) /\ at \in Nat
  BY <1>2, <1>4 DEF ReadSoFar
<1>6. Top(type) \in Nat /\ Bottom(type) \in Int /\ Bottom(type) <= 0
  BY <1>1, RangeIs
<1>7. Denoted(UnblankedOf(image), type) = IF AllDigits(d) /\ Continued(0, d) <= Top(type)
                                           THEN {Continued(0, d)} ELSE {}
  <2>1. image[b + 1] # Minus
    BY <1>4 DEF Digit, Minus
  <2> QED
    BY <1>1, <1>2, <1>5, <2>1, StandsFor
<1>8. value \in Nat
  BY <1>1, <1>2, <1>4, ReadNat
<1>9. CASE ByteOf(at) \in Digit
  <2>1. at < Len(image) /\ ByteOf(at) = image[at + 1] /\ image[at + 1] \in Digit
    BY <1>1, <1>2, <1>5, <1>9 DEF ByteOf, Nul, Digit
  <2>2. c \in 0 .. 9 /\ m \in Nat /\ at + 1 \in 0 .. Len(image) + 1
    BY <1>2, <1>5, <1>8, <1>9, <2>1, SMTT(30) DEF Digit
  <2>3. ReadSoFar(image, b, at + 1, m)
    BY <1>1, <1>2, <1>4, <2>1, ReadNext
  <2>4. MultiplyOverflows(value) \/ AddOverflows(TimesTen(value), c) <=> m > Top(type)
    <3>1. MultiplyOverflows(value) <=> value * 10 > Top(type)
      BY <1>1, <1>4, <1>6, <1>8, OverflowIs
    <3>2. ~MultiplyOverflows(value) => TimesTen(value) = value * 10
      BY <1>1, <1>6, <1>8, <3>1, TimesTenIs
    <3>3. \A n : AddOverflows(n, c) <=> n > Top(type) - c
      BY DEF AddOverflows
    <3> DEFINE h == Top(type)
    <3> HIDE DEF c, h
    <3>4. value * 10 > h => m > h
      BY <1>6, <1>8, <2>2 DEF h
    <3>5. value * 10 > h - c <=> m > h
      BY <1>6, <1>8, <2>2 DEF h
    <3> QED
      BY <3>1, <3>2, <3>3, <3>4, <3>5 DEF h
  <2>5. at' = at + 1
        /\ IF MultiplyOverflows(value) \/ AddOverflows(TimesTen(value), c)
             THEN Becomes("thrown", 0) ELSE Becomes("add", TimesTen(value) + c)
    BY <1>9 DEF AbsorbPositive
  <2>6. at' \in 0 .. Len(image) + 1
    BY <2>2, <2>5
  <2>7. CASE m > Top(type)
    <3>1. job' = "thrown" /\ value' = 0
      BY <2>4, <2>5, <2>7 DEF Becomes
    <3>2. ~(AllDigits(d) /\ Continued(0, d) <= Top(type))
      <4>1. AllDigits(d) => m <= Continued(0, d)
        BY <1>1, <1>2, <2>3, ReadEnds
      <4>2. Continued(0, d) \in Int
        <5>1. d \in Seq(Int) /\ 0 \in Int
          BY <1>1, <1>2, <1>4, ReadTo, SMTT(30)
        <5> QED
          BY <5>1, ContinuedType
      <4> HIDE DEF m, d
      <4>3. m \in Int
        BY <2>2
      <4> QED
        BY <1>6, <2>7, <4>1, <4>2, <4>3
    <3>3. Denoted(UnblankedOf(image), type) = {}
      BY <1>7, <3>2
    <3>4. Reading'
      BY <3>1 DEF Reading
    <3> QED
      BY <1>1, <1>3, <2>6, <3>1, <3>3, <3>4, ReadingKept
  <2>8. CASE ~(m > Top(type))
    <3>1. TimesTen(value) = value * 10
      <4>1. ~(value * 10 > Top(type))
        <5> HIDE DEF c
        <5> QED
          BY <1>6, <1>8, <2>2, <2>8
      <4> QED
        BY <1>1, <1>6, <1>8, <4>1, TimesTenIs
    <3>2. job' = "add" /\ value' = m
      BY <2>4, <2>5, <2>8, <3>1 DEF Becomes
    <3>3. m <= Top(type)
      BY <1>6, <2>2, <2>8
    <3>4. Reading'
      BY <1>2, <1>3, <1>4, <2>3, <2>5, <3>2, <3>3 DEF Reading
    <3> QED
      BY <1>1, <1>3, <2>2, <2>6, <3>2, <3>4, ReadingKept
  <2> QED
    BY <2>7, <2>8
<1>10. CASE ByteOf(at) \notin Digit
  <2>1. at' = at /\ EndReading
    BY <1>10 DEF AbsorbPositive
  <2>2. at' \in 0 .. Len(image) + 1
    BY <1>2, <1>5, <2>1
  <2>3. CASE at < Len(image)
    <3>1. job' = "thrown" /\ value' = 0
      BY <2>1, <2>3 DEF EndReading, Becomes
    <3>2. image[at + 1] \notin Digit
      BY <1>10, <2>3 DEF ByteOf
    <3>3. ~AllDigits(d)
      BY <1>1, <1>2, <1>4, <2>3, <3>2, ReadEnds
    <3>4. Denoted(UnblankedOf(image), type) = {}
      BY <1>7, <3>3
    <3>5. Reading'
      BY <3>1 DEF Reading
    <3> QED
      BY <1>1, <1>3, <1>8, <2>2, <3>1, <3>4, <3>5, ReadingKept
  <2>4. CASE ~(at < Len(image))
    <3>1. job' = "done" /\ value' = value
      BY <2>1, <2>4 DEF EndReading, Becomes
    <3>2. at = Len(image)
      BY <1>2, <1>5, <2>4
    <3>3. AllDigits(d) /\ Continued(0, d) = value
      BY <1>1, <1>2, <1>4, <3>2, ReadEnds
    <3>4. Denoted(UnblankedOf(image), type) = {value'}
      BY <1>4, <1>7, <3>1, <3>3
    <3>5. Reading'
      BY <3>1 DEF Reading
    <3> QED
      BY <1>1, <1>3, <1>8, <2>2, <3>1, <3>4, <3>5, ReadingKept
  <2> QED
    BY <2>3, <2>4
<1> QED
  BY <1>9, <1>10

LEMMA AbsorbNegativeKept ==
  ASSUME type \in Types, NumberFits, AbsorbNegative
  PROVE  type' \in Types /\ NumberFits'
<1> DEFINE b == AfterBlanks  s == b + 1  d == SubSeq(image, b + 2, Len(image))
           c == ByteOf(at) - 48  n == -value  m == (n * 10) + c
<1>1. job = "subtract" /\ image \in Seq(Byte) /\ type \in NumberType
  BY TypesAre DEF AbsorbNegative, NumberFits
<1>2. b = BlanksOf(image) /\ b \in Nat /\ Len(image) \in Nat /\ AfterBlanks' = BlanksOf(image')
  BY <1>1, BlanksEnd, TextIs
<1>3. Unchanged /\ image' = image /\ type' = type
  BY DEF AbsorbNegative, Unchanged
<1>4. ReadSoFar(image, s, at, n) /\ Bottom(type) <= value
      /\ image[b + 1] = Minus /\ type.signed
  BY <1>1 DEF NumberFits, Reading
<1>5. s < Len(image) /\ at \in s .. Len(image) /\ at \in Nat /\ s \in Nat
      /\ s + 1 = b + 2 /\ b < Len(image) /\ b + 1 < Len(image)
  BY <1>2, <1>4 DEF ReadSoFar
<1>6. Top(type) \in Nat /\ Bottom(type) \in Int /\ Bottom(type) <= 0
  BY <1>1, RangeIs
<1>7. Denoted(UnblankedOf(image), type) = IF AllDigits(d) /\ Bottom(type) <= -Continued(0, d)
                                           THEN {-Continued(0, d)} ELSE {}
  BY <1>1, <1>2, <1>4, <1>5, StandsFor
<1>8. d = SubSeq(image, s + 1, Len(image))
  BY <1>5
<1>9. d \in Seq(Int) /\ Continued(0, d) \in Int
  <2>1. d \in Seq(Int) /\ 0 \in Int
    BY <1>1, <1>4, <1>5, <1>8, ReadTo, SMTT(30)
  <2> QED
    BY <2>1, ContinuedType
<1>10. n \in Nat
  BY <1>1, <1>4, <1>5, ReadNat
<1>11. value \in Int /\ n = -value
  BY DEF NumberFits
<1>12. \A x, y \in Int : x = -y => y = -x
  OBVIOUS
<1>13. value = -n
  BY <1>10, <1>11, <1>12
<1>14. CASE at < Len(image) /\ ByteOf(at) \in Digit
  <2>1. at < Len(image) /\ ByteOf(at) = image[at + 1] /\ image[at + 1] \in Digit
    BY <1>14 DEF ByteOf
  <2>2. c \in 0 .. 9 /\ at + 1 \in 0 .. Len(image) + 1
    BY <1>2, <1>5, <1>14 DEF Digit
  <2>3. ReadSoFar(image, s, at + 1, m)
    <3> HIDE DEF n
    <3> QED
      BY <1>1, <1>4, <1>5, <2>1, ReadNext
  <2> HIDE DEF c, n
  <2>4. m \in Nat
    BY <1>10, <2>2
  <2>5. /\ MultiplyOverflows(value) <=> value * 10 < Bottom(type)
        /\ ~MultiplyOverflows(value) => TimesTen(value) = value * 10
    <3>1. value \in Bottom(type) .. 0
      BY <1>4, <1>6, <1>10, <1>11, <1>13
    <3>2. MultiplyOverflows(value) <=> value * 10 < Bottom(type)
      BY <1>1, <3>1, OverflowIs
    <3>3. value * 10 >= Bottom(type) => TimesTen(value) = value * 10
      BY <1>1, <1>6, <1>11, <3>1, TimesTenIs
    <3> QED
      BY <1>6, <1>11, <3>2, <3>3
  <2>6. /\ MultiplyOverflows(value) \/ SubtractOverflows(TimesTen(value), c) <=> m > -Bottom(type)
        /\ ~MultiplyOverflows(value) => TimesTen(value) - c = -m
    <3> DEFINE l == Bottom(type)
    <3>1. \A k : SubtractOverflows(k, c) <=> k < l + c
      BY DEF SubtractOverflows
    <3> HIDE DEF l
    <3>2. value * 10 < l => m > -l
      BY <1>6, <1>10, <1>13, <2>2 DEF l
    <3>3. value * 10 < l + c <=> m > -l
      BY <1>6, <1>10, <1>13, <2>2 DEF l
    <3>4. (value * 10) - c = -m
      BY <1>10, <1>13, <2>2
    <3> QED
      BY <2>5, <3>1, <3>2, <3>3, <3>4 DEF l
  <2>7. at' = at + 1
        /\ IF MultiplyOverflows(value) \/ SubtractOverflows(TimesTen(value), c)
             THEN Becomes("thrown", 0) ELSE Becomes("subtract", TimesTen(value) - c)
    BY <1>14 DEF AbsorbNegative, c
  <2>8. at' \in 0 .. Len(image) + 1
    BY <2>2, <2>7
  <2> HIDE DEF m
  <2>9. CASE m > -Bottom(type)
    <3>1. job' = "thrown" /\ value' = 0
      BY <2>6, <2>7, <2>9 DEF Becomes
    <3>2. ~(AllDigits(d) /\ Bottom(type) <= -Continued(0, d))
      <4>1. AllDigits(d) => m <= Continued(0, d)
        BY <1>1, <1>5, <1>8, <2>3, ReadEnds
      <4> HIDE DEF d
      <4> QED
        BY <1>6, <1>9, <2>4, <2>9, <4>1
    <3>3. Denoted(UnblankedOf(image), type) = {}
      BY <1>7, <3>2
    <3>4. Reading'
      BY <3>1 DEF Reading
    <3> QED
      BY <1>1, <1>3, <2>8, <3>1, <3>3, <3>4, ReadingKept
  <2>10. CASE ~(m > -Bottom(type))
    <3>1. job' = "subtract" /\ value' = -m
      BY <2>6, <2>7, <2>10 DEF Becomes
    <3>2. value' \in Int /\ m = -value' /\ Bottom(type) <= value'
      BY <1>6, <1>12, <2>4, <2>10, <3>1
    <3>3. Reading'
      <4>1. AfterBlanks' + 1 = s /\ AfterBlanks' = b
        BY <1>2, <1>3
      <4>2. ReadSoFar(image', AfterBlanks' + 1, at', -value')
        BY <1>3, <2>3, <2>7, <3>2, <4>1
      <4> QED
        BY <1>3, <1>4, <3>1, <3>2, <4>1, <4>2 DEF Reading
    <3> QED
      BY <1>1, <1>3, <2>8, <3>1, <3>2, <3>3, ReadingKept
  <2> QED
    BY <2>9, <2>10
<1>15. CASE ~(at < Len(image) /\ ByteOf(at) \in Digit)
  <2>1. at' = at /\ EndReading
    BY <1>15 DEF AbsorbNegative
  <2>2. at' \in 0 .. Len(image) + 1
    BY <1>2, <1>5, <2>1
  <2> HIDE DEF n
  <2>3. CASE at < Len(image)
    <3>1. job' = "thrown" /\ value' = 0
      BY <2>1, <2>3 DEF EndReading, Becomes
    <3>2. image[at + 1] \notin Digit
      BY <1>15, <2>3 DEF ByteOf
    <3>3. ~AllDigits(d)
      BY <1>1, <1>4, <1>5, <1>8, <2>3, <3>2, ReadEnds
    <3>4. Denoted(UnblankedOf(image), type) = {}
      BY <1>7, <3>3
    <3>5. Reading'
      BY <3>1 DEF Reading
    <3> QED
      BY <1>1, <1>3, <2>2, <3>1, <3>4, <3>5, ReadingKept
  <2>4. CASE ~(at < Len(image))
    <3>1. job' = "done" /\ value' = value
      BY <2>1, <2>4 DEF EndReading, Becomes
    <3>2. at = Len(image)
      BY <1>2, <1>5, <2>4
    <3>3. AllDigits(d) /\ Continued(0, d) = n
      BY <1>1, <1>4, <1>5, <1>8, <3>2, ReadEnds
    <3>4. Denoted(UnblankedOf(image), type) = {value'}
      BY <1>4, <1>7, <1>13, <3>1, <3>3
    <3>5. Reading'
      BY <3>1 DEF Reading
    <3> QED
      BY <1>1, <1>3, <1>11, <2>2, <3>1, <3>4, <3>5, ReadingKept
  <2> QED
    BY <2>3, <2>4
<1> QED
  BY <1>14, <1>15

LEMMA DenotedOne ==
  ASSUME NEW t \in NumberType, NEW x \in Seq(Byte), Denoted(x, t) # {}
  PROVE  \E n \in Bottom(t) .. Top(t) : Denoted(x, t) = {n}
<1> DEFINE negative == x # << >> /\ Head(x) = Minus /\ t.signed
           d == IF negative THEN Tail(x) ELSE x
           n == IF negative THEN -Magnitude(d) ELSE Magnitude(d)
<1>1. Denoted(x, t) = IF IsNumeral(d) /\ Bottom(t) <= n /\ n <= Top(t) THEN {n} ELSE {}
  BY DEF Denoted
<1>2. d \in Seq(Byte)
  OBVIOUS
<1> HIDE DEF d, negative
<1>3. Continued(0, d) \in Int
  <2>1. d \in Seq(Int) /\ 0 \in Int
    BY <1>2, BytesAre
  <2> QED
    BY <2>1, ContinuedType
<1>4. n \in Int
  BY <1>3 DEF Magnitude
<1> HIDE DEF n
<1>5. Denoted(x, t) = {n} /\ Bottom(t) <= n /\ n <= Top(t)
  BY <1>1
<1>6. Bottom(t) \in Int /\ Top(t) \in Int
  BY RangeIs
<1>7. n \in Bottom(t) .. Top(t)
  BY <1>4, <1>5, <1>6
<1> QED
  BY <1>5, <1>7

LEMMA FromCharsKept ==
  ASSUME type \in Types, NumberFits, FromChars
  PROVE  type' \in Types /\ NumberFits'
<1>1. job = "read" /\ image \in Seq(Byte) /\ type \in NumberType /\ at = 0
      /\ Len(image) \in Nat
  BY TypesAre DEF FromChars, NumberFits
<1>2. Unchanged /\ image' = image /\ at' = at
  BY DEF FromChars
<1>3. at' \in 0 .. Len(image) + 1
  BY <1>1, <1>2
<1>4. Unblanked = UnblankedOf(image) /\ UnblankedOf(image) \in Seq(Byte)
  BY <1>1, TextIs, UnblankedIs
<1>5. CASE Denoted(Unblanked, type) = {}
  <2>1. job' = "thrown" /\ value' = 0
    BY <1>5 DEF FromChars, Becomes
  <2>2. Reading'
    BY <2>1 DEF Reading
  <2> QED
    BY <1>1, <1>2, <1>3, <1>4, <1>5, <2>1, <2>2, ReadingKept
<1>6. CASE Denoted(Unblanked, type) # {}
  <2>1. PICK n \in Bottom(type) .. Top(type) : Denoted(Unblanked, type) = {n}
    BY <1>1, <1>4, <1>6, DenotedOne
  <2>2. job' = "done" /\ value' = n
    BY <1>6, <2>1 DEF FromChars, Becomes
  <2>3. value' \in Int
    BY <1>1, <2>1, <2>2, RangeIs
  <2>4. Reading'
    BY <2>2 DEF Reading
  <2> QED
    BY <1>1, <1>2, <1>3, <1>4, <2>1, <2>2, <2>3, <2>4, ReadingKept
<1> QED
  BY <1>5, <1>6

-----------------------------------------------------------------------------
(* Writing. *)
LEMMA WriteDigitKept ==
  ASSUME type \in Types, NumberFits, WriteDigit
  PROVE  type' \in Types /\ NumberFits'
<1> DEFINE q == value \div 10  r == value % 10  c == 48 + r
           l == Len(image)  room == Digits10(type) + 1  v == origin[1]
<1>1. job = "write" /\ image \in Seq(Byte) /\ behind \in Byte \ Digit /\ type \in NumberType
      /\ Writing /\ made /\ (\E n \in Bottom(type) .. Top(type) : origin = <<n>>)
  BY TypesAre DEF WriteDigit, NumberFits, Writing
<1>2. value \in Nat /\ value <= Power(2, type.bits) /\ value < Power(10, room - l)
      /\ Continued(value, image) = Positive(v) /\ (image # << >> => value > 0)
      /\ AllDigits(image) /\ l <= room /\ at = 0
  BY <1>1 DEF Writing
<1>3. type' = type /\ behind' = behind /\ origin' = origin /\ made' = made /\ at' = at
      /\ image' = <<c>> \o image /\ value' = q
      /\ job' = IF q > 0 THEN "write" ELSE "sign"
  BY DEF WriteDigit, Unchanged, Becomes
<1>4. q \in Nat /\ r \in 0 .. 9 /\ value = (q * 10) + r /\ c \in Digit /\ c \in Byte /\ c \in Int
  BY <1>2 DEF Digit, Byte
<1>5. room \in Nat /\ l \in Nat /\ room - l \in Nat
  BY <1>1, <1>2, DigitsAre
<1>6. room - l >= 1
  <2>1. CASE room = l
    <3>1. room - l = 0 /\ value < 1 /\ l >= 1
      <4>1. room - l = 0
        BY <1>5, <2>1
      <4>2. Power(10, 0) = 1
        BY PowersGrow
      <4>3. l >= 1
        BY <1>1, <2>1, DigitsAre
      <4> QED
        BY <1>2, <4>1, <4>2, <4>3
    <3>2. image # << >>
      BY <1>1, <3>1
    <3> QED
      BY <1>2, <3>1, <3>2
  <2>2. CASE room # l
    BY <1>2, <1>5, <2>2
  <2> QED
    BY <2>1, <2>2
<1>7. image' \in Seq(Byte) /\ Len(image') = l + 1 /\ image' # << >> /\ image'[1] = c
      /\ \A i \in 2 .. l + 1 : image'[i] = image[i - 1]
  BY <1>1, <1>3, <1>4
<1>8. AllDigits(image')
  <2>1. DOMAIN image' = 1 .. l + 1 /\ DOMAIN image = 1 .. l
    BY <1>1, <1>7
  <2>2. ASSUME NEW i \in 1 .. l + 1 PROVE image'[i] \in Digit
    <3>1. CASE i = 1
      BY <1>4, <1>7, <3>1, Zenon
    <3>2. CASE i # 1
      <4>1. i \in 2 .. l + 1 /\ i - 1 \in 1 .. l
        BY <1>5, <3>2
      <4>2. image[i - 1] \in Digit
        BY <1>2, <2>1, <4>1 DEF AllDigits
      <4> QED
        BY <1>7, <4>1, <4>2
    <3> QED
      BY <3>1, <3>2
  <2> QED
    BY <2>1, <2>2 DEF AllDigits
<1> HIDE DEF c, q, r, l, room
<1>9. Continued(q, image') = Positive(v)
  <2>1. image \in Seq(Int)
    BY <1>1, BytesAre
  <2>2. ((q * 10) + c) - 48 = value
    BY <1>4 DEF c
  <2>3. Continued(q, <<c>> \o image) = Continued(((q * 10) + c) - 48, image)
    BY <1>4, <2>1, ContinuedFirst
  <2> QED
    BY <1>2, <1>3, <2>2, <2>3
<1>10. q < Power(10, room - Len(image'))
  <2> DEFINE k == room - (l + 1)
  <2>1. k \in Nat /\ k + 1 = room - l
    BY <1>5, <1>6
  <2>2. Power(10, k) \in Nat /\ Power(10, k + 1) = 10 * Power(10, k)
    <3> HIDE DEF k
    <3> QED
      BY <2>1, PowersGrow
  <2>3. q < Power(10, k)
    <3> DEFINE p == Power(10, k)
    <3>1. p \in Nat /\ value < 10 * p
      BY <1>2, <2>1, <2>2
    <3> HIDE DEF p
    <3>2. q < p
      BY <1>4, <3>1
    <3> QED
      BY <3>2 DEF p
  <2> QED
    BY <1>7, <2>3
<1>11. q <= Power(2, type.bits)
  <2>1. Power(2, type.bits) \in Nat
    BY <1>1, RangeIs
  <2> QED
    BY <1>2, <1>4, <2>1
<1>12. Writing'
  <2>1. job' = "write" => value' > 0
    BY <1>3
  <2>2. job' = "sign" => value' = 0
    BY <1>3, <1>4
  <2>3. Len(image') <= Digits10(type) + 1
    BY <1>5, <1>6, <1>7 DEF room
  <2>4. value' < Power(10, (Digits10(type) + 1) - Len(image'))
    BY <1>3, <1>10 DEF room
  <2> QED
    BY <1>1, <1>2, <1>3, <1>4, <1>7, <1>8, <1>9, <1>11, <2>1, <2>2, <2>3, <2>4 DEF Writing
<1>13. at' \in 0 .. Len(image') + 1
  BY <1>2, <1>3, <1>5, <1>7
<1>14. job' \in {"write", "sign"} /\ value' \in Int
  BY <1>3, <1>4
<1>15. Reading'
  BY <1>14 DEF Reading
<1> QED
  BY <1>1, <1>3, <1>7, <1>12, <1>13, <1>14, <1>15 DEF NumberFits

LEMMA WriteSignKept ==
  ASSUME type \in Types, NumberFits, WriteSign
  PROVE  type' \in Types /\ NumberFits'
<1> DEFINE l == Len(image)  room == Digits10(type) + 1
           sign == IF origin[1] < 0 THEN <<Minus>> ELSE << >>
<1>1. job = "sign" /\ image \in Seq(Byte) /\ behind \in Byte \ Digit /\ type \in NumberType
      /\ Writing /\ made /\ (\E n \in Bottom(type) .. Top(type) : origin = <<n>>)
  BY TypesAre DEF WriteSign, NumberFits, Writing
<1>2. value = 0 /\ image # << >> /\ Continued(value, image) = Positive(origin[1])
      /\ AllDigits(image) /\ l <= room
  BY <1>1 DEF Writing
<1>3. type' = type /\ behind' = behind /\ origin' = origin /\ made' = made /\ at' = 0
      /\ image' = sign \o image /\ value' = 0 /\ job' = "read"
  BY DEF WriteSign, Unchanged, Becomes
<1>4. PICK v \in Bottom(type) .. Top(type) : origin = <<v>>
  BY <1>1
<1>5. v \in Int /\ origin[1] = v /\ Bottom(type) <= v /\ v <= Top(type)
      /\ (v < 0 => type.signed)
  <2>1. Bottom(type) \in Int /\ Top(type) \in Int /\ (~type.signed => Bottom(type) = 0)
    BY <1>1, RangeIs
  <2>2. v \in Int /\ Bottom(type) <= v /\ v <= Top(type)
    BY <1>4, <2>1
  <2>3. v < 0 => type.signed
    BY <2>1, <2>2
  <2> QED
    BY <1>4, <2>2, <2>3
<1>6. room \in Nat /\ l \in Nat /\ SizeBuffer(type) = (IF type.signed THEN 1 ELSE 0) + room + 1
  BY <1>1, DigitsAre DEF SizeBuffer
<1>7. image[1] \in Digit
  <2>1. 1 \in DOMAIN image
    BY <1>1, <1>2, BytesAre
  <2> QED
    BY <1>2, <2>1 DEF AllDigits
<1>8. image' \in Seq(Byte) /\ Denoted(UnblankedOf(image'), type) = {v}
      /\ Len(image') + 1 <= SizeBuffer(type)
  <2>1. CASE v < 0
    <3>1. image' = <<Minus>> \o image
      BY <1>3, <1>5, <2>1
    <3>2. image' \in Seq(Byte) /\ image'[1] = Minus /\ image' # << >> /\ Tail(image') = image
          /\ Len(image') = l + 1
      <4>1. Minus \in Byte
        BY DEF Minus, Byte
      <4> QED
        BY <1>1, <3>1, <4>1
    <3>3. UnblankedOf(image') = image'
      <4>1. image'[1] \notin {Blank, 9}
        BY <3>2 DEF Minus, Blank
      <4>2. BlanksOf(image') = 0
        BY <3>2, <4>1, BlanksEnd
      <4> QED
        BY <3>2, <4>2, UnblankedIs
    <3>4. Continued(0, image) = -v /\ -Continued(0, image) = v
      <4>1. \A x, y \in Int : x = -y => y = -x
        OBVIOUS
      <4>2. Continued(0, image) = -v
        BY <1>2, <1>5, <2>1 DEF Positive
      <4>3. -v \in Int
        BY <1>5
      <4> QED
        BY <1>5, <4>1, <4>2, <4>3
    <3>5. Denoted(image', type) = {v}
      BY <1>1, <1>2, <1>5, <2>1, <3>2, <3>4, DenotedMinus
    <3>6. Len(image') + 1 <= SizeBuffer(type)
      BY <1>2, <1>5, <1>6, <2>1, <3>2
    <3> QED
      BY <3>2, <3>3, <3>5, <3>6
  <2>2. CASE ~(v < 0)
    <3>1. image' = image
      BY <1>1, <1>3, <1>5, <2>2
    <3>2. UnblankedOf(image) = image
      <4>1. image[1] \notin {Blank, 9}
        BY <1>7 DEF Digit, Blank
      <4>2. BlanksOf(image) = 0
        BY <1>1, <1>2, <4>1, BlanksEnd
      <4> QED
        BY <1>1, <4>2, UnblankedIs
    <3>3. Continued(0, image) = v
      BY <1>2, <1>5, <2>2 DEF Positive
    <3>4. image[1] # Minus
      BY <1>7 DEF Digit, Minus
    <3>5. Denoted(image, type) = {v}
      BY <1>1, <1>2, <1>5, <3>3, <3>4, DenotedPlain
    <3>6. Len(image) + 1 <= SizeBuffer(type)
      BY <1>2, <1>6
    <3> QED
      BY <1>1, <3>1, <3>2, <3>5, <3>6
  <2> QED
    BY <2>1, <2>2
<1>9. Unblanked' = UnblankedOf(image')
  BY TextIs
<1>10. at' \in 0 .. Len(image') + 1
  BY <1>3, <1>8
<1>11. Reading'
  BY <1>3 DEF Reading
<1> HIDE DEF sign, l, room
<1> QED
  BY <1>1, <1>3, <1>5, <1>8, <1>9, <1>10, <1>11 DEF NumberFits

-----------------------------------------------------------------------------
(* Binary data. *)
LEMMA NibblesAre ==
  /\ \A c \in Byte : Nibble(c) \in -1 .. 15
  /\ \A n \in 0 .. 15 : HexDigit(n) \in Byte /\ Nibble(HexDigit(n)) = n
  /\ \A c, e \in Byte : Nibble(c) # -1 /\ Nibble(e) # -1 =>
       (Nibble(c) = Nibble(e) <=> c - e \in {-32, 0, 32})
<1>1. \A c \in Byte : /\ c \in 48 .. 57 => Nibble(c) = c - 48
                      /\ c \in 97 .. 102 => Nibble(c) = c - 87
                      /\ c \in 65 .. 70 => Nibble(c) = c - 55
                      /\ c \notin 48 .. 57 \cup 97 .. 102 \cup 65 .. 70 => Nibble(c) = -1
  BY DEF Byte, Nibble, Digit
<1>2. \A n \in 0 .. 15 : HexDigit(n) \in Byte /\ (n < 10 => HexDigit(n) = n + 48)
                          /\ (n >= 10 => HexDigit(n) = n + 87)
  BY DEF HexDigit, Byte
<1>3. ASSUME NEW c \in Byte PROVE Nibble(c) \in -1 .. 15
  BY <1>1 DEF Byte
<1>4. ASSUME NEW n \in 0 .. 15 PROVE Nibble(HexDigit(n)) = n
  <2>1. CASE n < 10
    <3>1. HexDigit(n) = n + 48 /\ HexDigit(n) \in Byte /\ HexDigit(n) \in 48 .. 57
      BY <1>2, <2>1
    <3>2. Nibble(HexDigit(n)) = HexDigit(n) - 48
      BY <1>1, <3>1
    <3> QED
      BY <3>1, <3>2
  <2>2. CASE n >= 10
    <3>1. HexDigit(n) = n + 87 /\ HexDigit(n) \in Byte /\ HexDigit(n) \in 97 .. 102
      BY <1>2, <2>2
    <3>2. Nibble(HexDigit(n)) = HexDigit(n) - 87
      BY <1>1, <3>1
    <3> QED
      BY <3>1, <3>2
  <2> QED
    BY <2>1, <2>2
<1>5. ASSUME NEW c \in Byte, NEW e \in Byte, Nibble(c) # -1, Nibble(e) # -1
      PROVE  Nibble(c) = Nibble(e) <=> c - e \in {-32, 0, 32}
  <2>1. c \in 48 .. 57 \cup 97 .. 102 \cup 65 .. 70 /\ e \in 48 .. 57 \cup 97 .. 102 \cup 65 .. 70
    BY <1>1, <1>5
  <2> DEFINE x == Nibble(c)  y == Nibble(e)
  <2>2. /\ c \in 48 .. 57 => x = c - 48
        /\ c \in 97 .. 102 => x = c - 87
        /\ c \in 65 .. 70 => x = c - 55
        /\ e \in 48 .. 57 => y = e - 48
        /\ e \in 97 .. 102 => y = e - 87
        /\ e \in 65 .. 70 => y = e - 55
    BY <1>1
  <2> HIDE DEF x, y
  <2>3. x = y <=> c - e \in {-32, 0, 32}
    BY <2>1, <2>2
  <2> QED
    BY <2>3 DEF x, y
<1> QED
  BY <1>2, <1>3, <1>4, <1>5

LEMMA BehindIs ==
  ASSUME NEW u \in Seq(Byte), NEW v \in Seq(Byte)
  PROVE  /\ u \o v \in Seq(Byte) /\ Len(u \o v) = Len(u) + Len(v)
         /\ \A k \in 1 .. Len(u) : (u \o v)[k] = u[k]
         /\ \A k \in 1 .. Len(v) : (u \o v)[Len(u) + k] = v[k]
<1>1. u \o v \in Seq(Byte) /\ Len(u \o v) = Len(u) + Len(v)
  OBVIOUS
<1>2. \A k \in 1 .. Len(u) : (u \o v)[k] = u[k]
  OBVIOUS
<1>3. ASSUME NEW k \in 1 .. Len(v) PROVE (u \o v)[Len(u) + k] = v[k]
  <2>1. Len(u) + k \in 1 .. Len(u) + Len(v) /\ (Len(u) + k) - Len(u) = k /\ ~(Len(u) + k <= Len(u))
    OBVIOUS
  <2> QED
    BY <2>1
<1> QED
  BY <1>1, <1>2, <1>3

LEMMA EscapedIs ==
  ASSUME NEW data \in Seq(Byte)
  PROVE  /\ Escaped(data) \in Seq(Byte) /\ Len(Escaped(data)) = 2 * Len(data) + 2
         /\ SubSeq(Escaped(data), 1, 2) = <<Slash, LetterX>>
         /\ \A i \in 1 .. Len(data) :
              /\ Nibble(Escaped(data)[2 * i + 1]) = data[i] \div 16
              /\ Nibble(Escaped(data)[2 * i + 2]) = data[i] % 16
<1> DEFINE n == Len(data)
           h == [i \in 1 .. 2 * n |-> IF i % 2 = 1 THEN HexDigit(data[(i + 1) \div 2] \div 16)
                                     ELSE HexDigit(data[i \div 2] % 16)]
           w == <<Slash, LetterX>>
           e == w \o h
<1>1. n \in Nat /\ 2 * n \in Nat /\ \A i \in 1 .. n : data[i] \in Byte
  OBVIOUS
<1>2. \A y \in Byte : y \div 16 \in 0 .. 15 /\ y % 16 \in 0 .. 15
  BY DEF Byte
<1>3. ASSUME NEW i \in 1 .. 2 * n PROVE h[i] \in Byte
  <2>1. i % 2 = 1 => (i + 1) \div 2 \in 1 .. n
    BY <1>1
  <2>2. i % 2 # 1 => i \div 2 \in 1 .. n
    BY <1>1
  <2>3. h[i] = IF i % 2 = 1 THEN HexDigit(data[(i + 1) \div 2] \div 16)
               ELSE HexDigit(data[i \div 2] % 16)
    OBVIOUS
  <2> HIDE DEF h
  <2>4. CASE i % 2 = 1
    <3>1. data[(i + 1) \div 2] \div 16 \in 0 .. 15
      BY <1>1, <1>2, <2>1, <2>4
    <3> QED
      BY <2>3, <2>4, <3>1, NibblesAre
  <2>5. CASE i % 2 # 1
    <3>1. data[i \div 2] % 16 \in 0 .. 15
      BY <1>1, <1>2, <2>2, <2>5
    <3> QED
      BY <2>3, <2>5, <3>1, NibblesAre
  <2> QED
    BY <2>4, <2>5
<1>4. ASSUME NEW i \in 1 .. n
      PROVE  /\ 2 * i \in 1 .. 2 * n /\ 2 * i - 1 \in 1 .. 2 * n
             /\ h[2 * i - 1] = HexDigit(data[i] \div 16) /\ h[2 * i] = HexDigit(data[i] % 16)
  <2>1. 2 * i \in 1 .. 2 * n /\ 2 * i - 1 \in 1 .. 2 * n
    BY <1>1
  <2>2. (2 * i - 1) % 2 = 1 /\ ((2 * i - 1) + 1) \div 2 = i /\ (2 * i) % 2 = 0 /\ (2 * i) \div 2 = i
    BY <1>1
  <2> QED
    BY <2>1, <2>2
<1>5. h \in Seq(Byte) /\ Len(h) = 2 * n
  <2>1. h \in [1 .. 2 * n -> Byte]
    BY <1>3
  <2> HIDE DEF h
  <2> QED
    BY <1>1, <2>1
<1> HIDE DEF h
<1>6. w \in Seq(Byte) /\ Len(w) = 2 /\ w[1] = Slash /\ w[2] = LetterX
  BY DEF Slash, LetterX, Byte
<1>7. e \in Seq(Byte) /\ Len(e) = 2 * n + 2 /\ e[1] = Slash /\ e[2] = LetterX
      /\ \A k \in 1 .. 2 * n : e[2 + k] = h[k]
  <2> HIDE DEF w
  <2>1. /\ w \o h \in Seq(Byte) /\ Len(w \o h) = Len(w) + Len(h)
        /\ \A k \in 1 .. Len(w) : (w \o h)[k] = w[k]
        /\ \A k \in 1 .. Len(h) : (w \o h)[Len(w) + k] = h[k]
    BY <1>5, <1>6, BehindIs
  <2>2. 1 \in 1 .. Len(w) /\ 2 \in 1 .. Len(w)
    BY <1>6
  <2>3. e[1] = Slash /\ e[2] = LetterX
    BY <1>6, <2>1, <2>2
  <2>4. e \in Seq(Byte) /\ Len(e) = 2 * n + 2
    BY <1>1, <1>5, <1>6, <2>1
  <2>5. \A k \in 1 .. 2 * n : e[2 + k] = h[k]
    BY <1>5, <1>6, <2>1
  <2> QED
    BY <2>3, <2>4, <2>5
<1>8. Escaped(data) = e
  BY DEF Escaped, h
<1> HIDE DEF e
<1>9. SubSeq(e, 1, 2) = w
  <2>1. SubSeq(e, 1, 2) \in Seq(Byte) /\ Len(SubSeq(e, 1, 2)) = 2
        /\ SubSeq(e, 1, 2)[1] = Slash /\ SubSeq(e, 1, 2)[2] = LetterX
    BY <1>1, <1>7
  <2> DEFINE u == SubSeq(e, 1, 2)
  <2> HIDE DEF u, w
  <2>2. u \in Seq(Byte) /\ Len(u) = 2 /\ u[1] = w[1] /\ u[2] = w[2]
    BY <1>6, <2>1 DEF u
  <2>3. u = w
    BY <1>6, <2>2
  <2> QED
    BY <2>3 DEF u
<1>10. ASSUME NEW i \in 1 .. n
       PROVE  Nibble(e[2 * i + 1]) = data[i] \div 16 /\ Nibble(e[2 * i + 2]) = data[i] % 16
  <2>1. 2 * i + 1 = 2 + (2 * i - 1) /\ 2 * i + 2 = 2 + (2 * i)
    BY <1>1
  <2>2. e[2 * i + 1] = HexDigit(data[i] \div 16) /\ e[2 * i + 2] = HexDigit(data[i] % 16)
    BY <1>4, <1>7, <2>1
  <2>3. data[i] \div 16 \in 0 .. 15 /\ data[i] % 16 \in 0 .. 15
    BY <1>1, <1>2
  <2>4. \A k \in 0 .. 15 : Nibble(HexDigit(k)) = k
    BY NibblesAre
  <2> QED
    BY <2>2, <2>3, <2>4, Zenon
<1> QED
  BY <1>7, <1>8, <1>9, <1>10

LEMMA EscBinKept ==
  ASSUME type = ByteString, HexFits, EscBin
  PROVE  type' = ByteString /\ HexFits'
<1>1. job = "escape" /\ made /\ origin \in Seq(Byte)
  BY DEF EscBin, HexFits
<1>2. type' = type /\ origin' = origin /\ made' = made /\ job' = "unescape"
  BY DEF EscBin, Unchanged, Becomes
<1>3. image' = Escaped(origin)
  BY DEF EscBin, Escaped
<1>4. Escaped(origin) \in Seq(Byte)
  BY <1>1, EscapedIs
<1> QED
  BY <1>1, <1>2, <1>3, <1>4 DEF HexFits

LEMMA UnescBinKept ==
  ASSUME type = ByteString, HexFits, UnescBin
  PROVE  type' = ByteString /\ HexFits'
<1> DEFINE n == Len(image) \div 2 - 1
           pairs == [i \in 1 .. n |-> <<Nibble(image[2 * i + 1]), Nibble(image[2 * i + 2])>>]
           data == [i \in DOMAIN pairs |-> pairs[i][1] * 16 + pairs[i][2]]
           Bad == \/ Len(image) < 2 \/ Len(image) % 2 # 0
                  \/ SubSeq(image, 1, 2) # <<Slash, LetterX>>
                  \/ \E i \in DOMAIN pairs : -1 \in {pairs[i][1], pairs[i][2]}
           Upper(i) == Nibble(image[2 * i + 1])
           Lower(i) == Nibble(image[2 * i + 2])
<1>1. job = "unescape" /\ image \in Seq(Byte) /\ Len(image) \in Nat
      /\ (made => origin \in Seq(Byte) /\ image = Escaped(origin))
  <2>1. job = "unescape"
    BY DEF UnescBin
  <2>2. image \in Seq(Byte) /\ (made => origin \in Seq(Byte) /\ image = Escaped(origin))
    BY <2>1 DEF HexFits
  <2>3. Len(image) \in Nat
    BY <2>2
  <2> QED
    BY <2>1, <2>2, <2>3
<1>2. type' = type /\ origin' = origin /\ made' = made /\ image' = image
  BY DEF UnescBin, Unchanged
<1>3. IF Bad THEN Becomes("thrown", << >>) ELSE Becomes("done", data)
  BY DEF UnescBin
<1>4. \A i \in 1 .. n : pairs[i][1] = Upper(i) /\ pairs[i][2] = Lower(i)
  OBVIOUS
<1>5. \A i \in 1 .. n : 2 * i + 1 \in 1 .. Len(image) /\ 2 * i + 2 \in 1 .. Len(image)
  BY <1>1
<1>6. \A i \in 1 .. n : image[2 * i + 1] \in Byte /\ image[2 * i + 2] \in Byte
  BY <1>1, <1>5
<1>7. Bad <=> \/ Len(image) < 2 \/ Len(image) % 2 # 0
              \/ SubSeq(image, 1, 2) # <<Slash, LetterX>>
              \/ \E i \in 1 .. n : Upper(i) = -1 \/ Lower(i) = -1
  <2> DEFINE P == pairs
  <2>1. DOMAIN P = 1 .. n
    OBVIOUS
  <2>2. \A i \in 1 .. n : P[i][1] = Upper(i) /\ P[i][2] = Lower(i)
    BY <1>4
  <2> HIDE DEF pairs, Upper, Lower, n
  <2> QED
    BY <2>1, <2>2
<1>8. DOMAIN data = 1 .. n /\ \A i \in 1 .. n : data[i] = Upper(i) * 16 + Lower(i)
  OBVIOUS
<1>9. data = [i \in 1 .. n |-> data[i]]
  OBVIOUS
<1> HIDE DEF pairs, data, Bad
<1>10. made => ~Bad /\ \A i \in 1 .. n : i \in 1 .. Len(origin) /\ data[i] = origin[i]
  <2> SUFFICES ASSUME made
               PROVE  ~Bad /\ \A i \in 1 .. n : i \in 1 .. Len(origin) /\ data[i] = origin[i]
    OBVIOUS
  <2>1. /\ origin \in Seq(Byte) /\ Len(origin) \in Nat
        /\ Len(image) = 2 * Len(origin) + 2 /\ SubSeq(image, 1, 2) = <<Slash, LetterX>>
        /\ \A i \in 1 .. Len(origin) : Upper(i) = origin[i] \div 16 /\ Lower(i) = origin[i] % 16
    BY <1>1, EscapedIs
  <2>2. n = Len(origin) /\ Len(image) % 2 = 0 /\ ~(Len(image) < 2)
    <3> DEFINE d == Len(origin)  l == Len(image)
    <3>1. d \in Nat /\ l = 2 * d + 2
      BY <2>1
    <3>2. n = (l \div 2) - 1
      OBVIOUS
    <3> HIDE DEF d, l, n
    <3>3. l \div 2 = d + 1 /\ l % 2 = 0 /\ ~(l < 2)
      BY <3>1
    <3> QED
      BY <3>1, <3>2, <3>3 DEF d, l
  <2>3. ASSUME NEW i \in 1 .. n
        PROVE  i \in 1 .. Len(origin) /\ data[i] = origin[i] /\ Upper(i) # -1 /\ Lower(i) # -1
    <3> DEFINE y == origin[i]
    <3>1. i \in 1 .. Len(origin) /\ y \in 0 .. 255
      <4>1. i \in 1 .. Len(origin)
        BY <2>2
      <4>2. y \in Byte
        BY <2>1, <4>1
      <4> HIDE DEF y
      <4> QED
        BY <4>1, <4>2 DEF Byte
    <3>2. Upper(i) = y \div 16 /\ Lower(i) = y % 16 /\ data[i] = Upper(i) * 16 + Lower(i)
      BY <1>8, <2>1, <3>1
    <3> HIDE DEF y, Upper, Lower
    <3>3. Upper(i) * 16 + Lower(i) = y /\ Upper(i) # -1 /\ Lower(i) # -1
      BY <3>1, <3>2
    <3> QED
      BY <3>1, <3>2, <3>3 DEF y
  <2> HIDE DEF Upper, Lower, n
  <2> QED
    BY <1>7, <2>1, <2>2, <2>3
<1>11. CASE Bad
  <2>1. job' = "thrown" /\ value' = << >>
    BY <1>3, <1>11 DEF Becomes
  <2> QED
    BY <1>1, <1>2, <1>10, <1>11, <2>1 DEF HexFits
<1>12. CASE ~Bad
  <2>1. job' = "done" /\ value' = data
    BY <1>3, <1>12 DEF Becomes
  <2>2. n \in Nat /\ Len(image) = 2 * n + 2 /\ \A i \in 1 .. n : Upper(i) # -1 /\ Lower(i) # -1
    BY <1>1, <1>7, <1>12
  <2>3. Len(data) = n /\ DOMAIN data = 1 .. n
    <3> HIDE DEF n
    <3>1. data \in Seq({data[i] : i \in 1 .. n})
      BY <1>8, <1>9, <2>2, SMTT(30)
    <3> QED
      BY <1>8, <2>2, <3>1
  <2>4. \A i \in 1 .. n : Upper(i) \in 0 .. 15 /\ Lower(i) \in 0 .. 15
    <3>1. \A c \in Byte : Nibble(c) # -1 => Nibble(c) \in 0 .. 15
      BY NibblesAre
    <3> QED
      BY <1>6, <2>2, <3>1, Zenon
  <2>5. ASSUME NEW i \in 1 .. n, NEW k \in 1 .. n
        PROVE  data[i] = data[k] <=>
                 /\ image[2 * i + 1] - image[2 * k + 1] \in {-32, 0, 32}
                 /\ image[2 * i + 2] - image[2 * k + 2] \in {-32, 0, 32}
    <3>1. \A c, e \in Byte : Nibble(c) # -1 /\ Nibble(e) # -1 =>
            (Nibble(c) = Nibble(e) <=> c - e \in {-32, 0, 32})
      BY NibblesAre
    <3>2. /\ Upper(i) = Upper(k) <=> image[2 * i + 1] - image[2 * k + 1] \in {-32, 0, 32}
          /\ Lower(i) = Lower(k) <=> image[2 * i + 2] - image[2 * k + 2] \in {-32, 0, 32}
      BY <1>6, <2>2, <3>1, ZenonT(60)
    <3>3. data[i] = Upper(i) * 16 + Lower(i) /\ data[k] = Upper(k) * 16 + Lower(k)
      BY <1>8
    <3>4. Upper(i) \in 0 .. 15 /\ Lower(i) \in 0 .. 15 /\ Upper(k) \in 0 .. 15 /\ Lower(k) \in 0 .. 15
      BY <2>4
    <3> HIDE DEF Upper, Lower
    <3>5. data[i] = data[k] <=> Upper(i) = Upper(k) /\ Lower(i) = Lower(k)
      <4> DEFINE w == Upper(i)  x == Lower(i)  y == Upper(k)  z == Lower(k)
      <4>1. w \in 0 .. 15 /\ x \in 0 .. 15 /\ y \in 0 .. 15 /\ z \in 0 .. 15
            /\ data[i] = w * 16 + x /\ data[k] = y * 16 + z
        BY <3>3, <3>4
      <4> HIDE DEF w, x, y, z, data
      <4>2. w * 16 + x = y * 16 + z <=> w = y /\ x = z
        BY ONLY <4>1
      <4>3. data[i] = data[k] <=> w = y /\ x = z
        BY <4>1, <4>2
      <4> QED
        BY <4>3 DEF w, x, y, z
    <3> QED
      BY <3>2, <3>5
  <2>6. HexIsExact'
    <3>1. DOMAIN value' = 1 .. n /\ Len(value') = n
      BY <2>1, <2>3
    <3>2. Len(image') = 2 * Len(value') + 2
      BY <1>2, <2>2, <3>1
    <3>3. \A i \in DOMAIN value' : \A c \in {image'[2 * i + 1], image'[2 * i + 2]} :
            Nibble(c) \in 0 .. 15
      BY <1>2, <2>4, <3>1
    <3>4. \A i, k \in DOMAIN value' :
            value'[i] = value'[k] <=>
              /\ image'[2 * i + 1] - image'[2 * k + 1] \in {-32, 0, 32}
              /\ image'[2 * i + 2] - image'[2 * k + 2] \in {-32, 0, 32}
      <4>1. DOMAIN value' = 1 .. n /\ image' = image /\ value' = data
        BY <1>2, <2>1, <3>1
      <4>2. ASSUME NEW i \in DOMAIN value', NEW k \in DOMAIN value'
            PROVE  value'[i] = value'[k] <=>
                     /\ image'[2 * i + 1] - image'[2 * k + 1] \in {-32, 0, 32}
                     /\ image'[2 * i + 2] - image'[2 * k + 2] \in {-32, 0, 32}
        <5>1. i \in 1 .. n /\ k \in 1 .. n
          BY <4>1
        <5> HIDE DEF n
        <5>2. data[i] = data[k] <=>
                 /\ image[2 * i + 1] - image[2 * k + 1] \in {-32, 0, 32}
                 /\ image[2 * i + 2] - image[2 * k + 2] \in {-32, 0, 32}
          BY <2>5, <5>1
        <5> QED
          BY <4>1, <5>2
      <4> QED
        BY <4>2
    <3> QED
      BY <3>2, <3>3, <3>4 DEF HexIsExact
  <2>7. made => data = origin
    <3> SUFFICES ASSUME made PROVE data = origin
      OBVIOUS
    <3>1. origin \in Seq(Byte) /\ Len(origin) \in Nat /\ Len(image) = 2 * Len(origin) + 2
      BY <1>1, EscapedIs
    <3>2. n = Len(origin)
      BY <3>1
    <3> HIDE DEF n
    <3>3. \A i \in 1 .. n : data[i] = origin[i]
      BY <1>10
    <3>4. origin = [i \in 1 .. n |-> origin[i]]
      BY <3>1, <3>2
    <3> QED
      BY <1>9, <3>3, <3>4
  <2> QED
    BY <1>1, <1>2, <2>1, <2>6, <2>7 DEF HexFits
<1> QED
  BY <1>11, <1>12

-----------------------------------------------------------------------------
(* Arrays. *)
Part(e) == CASE e.kind = "safe"   -> e.room
             [] e.kind = "null"   -> NullLength - 1
             [] e.kind = "quoted" -> (2 * e.length) + 2

LEMMA ElementsAre ==
  \A e \in Elements :
    /\ e.kind \in {"safe", "null", "quoted"} /\ e.length \in Nat /\ e.escapes \in Nat
    /\ e.room \in Nat /\ Part(e) \in Nat
    /\ e.kind = "safe" => Part(e) = e.room /\ e.length <= e.room
    /\ e.kind = "null" => Part(e) = 3
    /\ e.kind = "quoted" => Part(e) = (2 * e.length) + 2 /\ e.escapes <= e.length
<1> SUFFICES ASSUME NEW e \in Elements
             PROVE  /\ e.kind \in {"safe", "null", "quoted"} /\ e.length \in Nat
                    /\ e.escapes \in Nat /\ e.room \in Nat /\ Part(e) \in Nat
                    /\ e.kind = "safe" => Part(e) = e.room /\ e.length <= e.room
                    /\ e.kind = "null" => Part(e) = 3
                    /\ e.kind = "quoted" => Part(e) = (2 * e.length) + 2 /\ e.escapes <= e.length
  OBVIOUS
<1>1. /\ e.kind \in {"safe", "null", "quoted"} /\ e.length \in Nat /\ e.escapes \in Nat
      /\ e.room \in Nat
      /\ IF e.kind = "safe" THEN e.length <= e.room ELSE e.escapes <= e.length
  BY ConversionAssumption
<1>2. Part(e) = IF e.kind = "safe" THEN e.room
                ELSE IF e.kind = "null" THEN 3 ELSE (2 * e.length) + 2
  BY <1>1 DEF Part, NullLength
<1> QED
  BY <1>1, <1>2

(* The estimate is a sum, and that of a beginning is where it was then. *)
Sums(f, d) == f[0] = 3 /\ \A k \in 1 .. Len(d) : f[k] = f[k - 1] + Part(d[k])

LEMMA BudgetIs ==
  ASSUME NEW d \in Seq(Elements)
  PROVE  \E f \in [0 .. Len(d) -> Nat] : Sums(f, d) /\ Budget(d) = f[Len(d)]
<1> DEFINE n == Len(d)
           F == [x \in (1 .. n) \X Nat |-> x[2] + Part(d[x[1]])]
           Adds(f) == f = [k \in 0 .. Len(d) |-> IF k = 0 THEN 3 ELSE f[k - 1] + Part(d[k])]
           r == CHOOSE f : Adds(f)
<1>1. Budget(d) = r[Len(d)]
  BY DEF Budget, Part
<1>2. n \in Nat /\ n = Len(d) /\ \A k \in 1 .. n : Part(d[k]) \in Nat
  BY ElementsAre
<1>3. F \in [(1 .. n) \X Nat -> Nat]
  <2>1. \A k \in 1 .. n, x \in Nat : x + Part(d[k]) \in Nat
    BY <1>2
  <2> HIDE DEF n
  <2> QED
    BY <2>1
<1>4. \A k \in 1 .. n, x \in Nat : F[<<k, x>>] = x + Part(d[k])
  OBVIOUS
<1> HIDE DEF F, n
<1>5. PICK g \in [0 .. n -> Nat] : Along(g, n, 3, F)
  BY <1>2, <1>3, StepsAlong
<1>6. Sums(g, d)
  <2>1. \A k \in 1 .. n : k - 1 \in 0 .. n
    BY <1>2
  <2> QED
    BY <1>2, <1>4, <1>5, <2>1 DEF Sums, Along
<1>7. Adds(g)
  <2>1. \A k \in 0 .. n : g[k] = IF k = 0 THEN 3 ELSE g[k - 1] + Part(d[k])
    <3>1. \A k \in 0 .. n : k = 0 \/ k \in 1 .. n
      BY <1>2
    <3> QED
      BY <1>2, <1>6, <3>1 DEF Sums
  <2>2. g = [k \in 0 .. n |-> g[k]]
    BY <1>5
  <2> QED
    BY <1>2, <2>1, <2>2
<1>8. Adds(r)
  <2> HIDE DEF Adds
  <2> QED
    BY <1>7
<1> HIDE DEF r
<1>9. Sums(r, d)
  <2>1. 0 \in 0 .. n /\ \A k \in 1 .. n : k \in 0 .. n /\ k # 0
    BY <1>2
  <2> QED
    BY <1>2, <1>8, <2>1 DEF Sums
<1> DEFINE S == {k \in 0 .. n : r[k] = g[k]}
<1>10. 0 \in S
  BY <1>2, <1>6, <1>9 DEF Sums
<1>11. ASSUME NEW k \in 1 .. n, k - 1 \in S PROVE k \in S
  BY <1>2, <1>6, <1>9, <1>11 DEF Sums
<1>12. 0 .. n \subseteq S
  <2> HIDE DEF S
  <2> QED
    BY <1>2, <1>10, <1>11, AllPlaces
<1> QED
  BY <1>1, <1>2, <1>6, <1>12

LEMMA SumsTo ==
  ASSUME NEW d \in Seq(Elements), NEW f, Sums(f, d)
  PROVE  Budget(d) = f[Len(d)]
<1>1. PICK g \in [0 .. Len(d) -> Nat] : Sums(g, d) /\ Budget(d) = g[Len(d)]
  BY BudgetIs
<1> DEFINE n == Len(d)  S == {k \in 0 .. n : f[k] = g[k]}
<1>2. n \in Nat /\ n = Len(d)
  OBVIOUS
<1> HIDE DEF n
<1>3. 0 \in S
  BY <1>1, <1>2 DEF Sums
<1>4. ASSUME NEW k \in 1 .. n, k - 1 \in S PROVE k \in S
  BY <1>1, <1>2, <1>4 DEF Sums
<1>5. 0 .. n \subseteq S
  <2> HIDE DEF S
  <2> QED
    BY <1>2, <1>3, <1>4, AllPlaces
<1> QED
  BY <1>1, <1>2, <1>5

LEMMA BudgetAlong ==
  ASSUME NEW d \in Seq(Elements), NEW f, Sums(f, d), NEW k \in 0 .. Len(d)
  PROVE  Budget(SubSeq(d, 1, k)) = f[k]
<1>1. SubSeq(d, 1, k) \in Seq(Elements) /\ Len(SubSeq(d, 1, k)) = k
      /\ \A i \in 1 .. k : SubSeq(d, 1, k)[i] = d[i]
  OBVIOUS
<1>2. Sums(f, SubSeq(d, 1, k))
  BY <1>1 DEF Sums
<1> QED
  BY <1>1, <1>2, SumsTo

LEMMA BudgetNext ==
  ASSUME NEW d \in Seq(Elements)
  PROVE  /\ Budget(SubSeq(d, 1, 0)) = 3 /\ Budget(d) \in Nat
         /\ \A k \in 0 .. Len(d) : Budget(SubSeq(d, 1, k)) \in Nat
         /\ \A k \in 0 .. Len(d) : k < Len(d) =>
              Budget(SubSeq(d, 1, k + 1)) = Budget(SubSeq(d, 1, k)) + Part(d[k + 1])
<1>1. PICK f \in [0 .. Len(d) -> Nat] : Sums(f, d) /\ Budget(d) = f[Len(d)]
  BY BudgetIs
<1>2. Len(d) \in Nat /\ 0 \in 0 .. Len(d) /\ Len(d) \in 0 .. Len(d)
  OBVIOUS
<1>3. \A k \in 0 .. Len(d) : Budget(SubSeq(d, 1, k)) = f[k] /\ f[k] \in Nat
  BY <1>1, BudgetAlong
<1>4. f[0] = 3
  BY <1>1 DEF Sums
<1>5. ASSUME NEW k \in 0 .. Len(d), k < Len(d)
      PROVE  Budget(SubSeq(d, 1, k + 1)) = Budget(SubSeq(d, 1, k)) + Part(d[k + 1])
  <2>1. k + 1 \in 0 .. Len(d) /\ k + 1 \in 1 .. Len(d) /\ (k + 1) - 1 = k
    BY <1>5
  <2>2. f[k + 1] = f[k] + Part(d[k + 1])
    BY <1>1, <2>1 DEF Sums
  <2> QED
    BY <1>3, <2>1, <2>2
<1> QED
  BY <1>1, <1>2, <1>3, <1>4, <1>5

LEMMA NullsAre ==
  /\ Cardinality(Nulls(0)) = 0
  /\ \A k \in Nat : Cardinality(Nulls(k)) \in Nat
  /\ \A k \in Nat : Cardinality(Nulls(k + 1)) =
                      Cardinality(Nulls(k)) + (IF origin[k + 1].kind = "null" THEN 1 ELSE 0)
<1>1. Nulls(0) = {}
  BY DEF Nulls
<1>2. ASSUME NEW k \in Nat PROVE IsFiniteSet(Nulls(k)) /\ Cardinality(Nulls(k)) \in Nat
  <2>1. IsFiniteSet(1 .. k)
    BY FS_Interval
  <2>2. Nulls(k) \subseteq 1 .. k
    BY DEF Nulls
  <2> QED
    BY <2>1, <2>2, FS_Subset, FS_CardinalityType
<1>3. ASSUME NEW k \in Nat
      PROVE  Cardinality(Nulls(k + 1)) =
               Cardinality(Nulls(k)) + (IF origin[k + 1].kind = "null" THEN 1 ELSE 0)
  <2>1. 1 .. k + 1 = (1 .. k) \cup {k + 1} /\ k + 1 \notin 1 .. k
    OBVIOUS
  <2>2. CASE origin[k + 1].kind = "null"
    <3>1. Nulls(k + 1) = Nulls(k) \cup {k + 1} /\ k + 1 \notin Nulls(k)
      BY <2>1, <2>2 DEF Nulls
    <3>2. Cardinality(Nulls(k) \cup {k + 1}) = Cardinality(Nulls(k)) + 1
      BY <1>2, <3>1, FS_AddElement
    <3> QED
      BY <2>2, <3>1, <3>2
  <2>3. CASE origin[k + 1].kind # "null"
    <3>1. Nulls(k + 1) = Nulls(k)
      BY <2>1, <2>3 DEF Nulls
    <3> QED
      BY <1>2, <2>3, <3>1
  <2> QED
    BY <2>2, <2>3
<1>4. Cardinality(Nulls(0)) = 0
  BY <1>1, FS_EmptySet
<1> QED
  BY <1>2, <1>3, <1>4

LEMMA WriteElementKept ==
  ASSUME type = Arrays, ArrayFits, WriteElement
  PROVE  type' = Arrays /\ ArrayFits'
<1> DEFINE n == Len(origin)  e == Head(todo)  room == Budget(origin)
           needed == IF build = "loop" THEN e.room + 1 ELSE e.length + 1
           step == CASE e.kind = "safe" -> e.length
                     [] e.kind = "null" -> NullLength
                     [] e.kind = "quoted" -> e.length + e.escapes + 2
<1>1. job = "elements" /\ todo # << >> /\ made /\ origin \in Seq(Elements)
  BY DEF WriteElement, ArrayFits
<1>2. PICK k \in 0 .. n :
        /\ todo = SubSeq(origin, k + 1, n) /\ at \in Nat
        /\ k = 0 => at = 1
        /\ at + 2 <= Budget(SubSeq(origin, 1, k)) + k + Cardinality(Nulls(k))
  BY <1>1 DEF ArrayFits
<1>3. type' = type /\ origin' = origin /\ made' = made
  BY DEF WriteElement
<1>4. IF e.kind = "safe" /\ room - at < needed
        THEN Becomes("thrown", 0) /\ UNCHANGED <<at, todo>>
        ELSE /\ at' = at + 1 + step
             /\ todo' = Tail(todo) /\ UNCHANGED <<job, value>>
  BY DEF WriteElement
<1>5. n \in Nat /\ k \in Nat /\ k < n /\ k + 1 \in 1 .. n /\ e = origin[k + 1] /\ e \in Elements
      /\ Tail(todo) = SubSeq(origin, (k + 1) + 1, n)
  <2>1. n \in Nat /\ k \in Nat
    BY <1>1, <1>2
  <2>2. k < n
    <3>1. k = n => todo = << >>
      BY <1>1, <1>2
    <3> QED
      BY <1>1, <1>2, <2>1, <3>1
  <2>3. k + 1 \in 1 .. n
    BY <2>1, <2>2
  <2>4. e = origin[k + 1] /\ e \in Elements
    BY <1>1, <1>2, <2>1, <2>2
  <2>5. Tail(todo) = SubSeq(origin, (k + 1) + 1, n)
    <3> DEFINE u == Tail(todo)  w == SubSeq(origin, (k + 1) + 1, n)
    <3>1. todo \in Seq(Elements) /\ Len(todo) = n - k /\ \A i \in 1 .. n - k : todo[i] = origin[k + i]
      BY <1>1, <1>2, <2>1, <2>2
    <3>2. u \in Seq(Elements) /\ Len(u) = (n - k) - 1 /\ \A i \in 1 .. (n - k) - 1 : u[i] = todo[i + 1]
      BY <1>1, <2>1, <2>2, <3>1
    <3>3. w \in Seq(Elements) /\ Len(w) = (n - k) - 1
          /\ \A i \in 1 .. (n - k) - 1 : w[i] = origin[(k + 1) + i]
      BY <1>1, <2>1, <2>2
    <3>4. \A i \in 1 .. (n - k) - 1 : i + 1 \in 1 .. n - k /\ k + (i + 1) = (k + 1) + i
      BY <2>1
    <3> HIDE DEF u, w, n
    <3>5. ASSUME NEW i \in 1 .. (n - k) - 1 PROVE u[i] = w[i]
      <4>1. u[i] = todo[i + 1] /\ w[i] = origin[(k + 1) + i]
        BY <3>2, <3>3
      <4>2. todo[i + 1] = origin[k + (i + 1)] /\ k + (i + 1) = (k + 1) + i
        BY <3>1, <3>4
      <4> QED
        BY <4>1, <4>2
    <3>6. u = w
      BY <3>2, <3>3, <3>5
    <3> QED
      BY <3>6 DEF u, w
  <2> QED
    BY <2>1, <2>2, <2>3, <2>4, <2>5
<1> DEFINE before == Budget(SubSeq(origin, 1, k))  after == Budget(SubSeq(origin, 1, k + 1))
           nulls == Cardinality(Nulls(k))  nullsAfter == Cardinality(Nulls(k + 1))
<1>6. before \in Nat /\ after = before + Part(e) /\ nulls \in Nat
      /\ nullsAfter = nulls + (IF e.kind = "null" THEN 1 ELSE 0)
  BY <1>1, <1>5, BudgetNext, NullsAre
<1> HIDE DEF e
<1>7. /\ e.kind \in {"safe", "null", "quoted"} /\ e.length \in Nat /\ e.escapes \in Nat
      /\ e.room \in Nat /\ Part(e) \in Nat
      /\ e.kind = "safe" => Part(e) = e.room /\ e.length <= e.room
      /\ e.kind = "null" => Part(e) = 3
      /\ e.kind = "quoted" => Part(e) = (2 * e.length) + 2 /\ e.escapes <= e.length
  BY <1>5, ElementsAre
<1>8. CASE e.kind = "safe" /\ room - at < needed
  <2>1. n # 1
    <3> SUFFICES ASSUME n = 1 PROVE FALSE
      OBVIOUS
    <3>1. k = 0 /\ at = 1
      BY <1>2, <1>5
    <3>2. before = 3 /\ after = room
      <4>1. SubSeq(origin, 1, k + 1) = origin
        BY <1>1, <3>1
      <4>2. before = 3
        BY <1>1, <3>1, BudgetNext
      <4> QED
        BY <4>1, <4>2
    <3> HIDE DEF before, after, room
    <3>3. room = 3 + e.room
      BY <1>6, <1>7, <1>8, <3>2
    <3> QED
      BY <1>7, <1>8, <3>1, <3>3
  <2>2. job' = "thrown"
    BY <1>4, <1>8 DEF Becomes
  <2>3. origin # << >> /\ n - 1 > 0
    <3>1. n - 1 > 0
      <4>1. n \in Nat /\ k \in Nat /\ k < n /\ n # 1
        BY <1>5, <2>1
      <4> HIDE DEF n
      <4> QED
        BY <4>1
    <3>2. Len(<< >>) = 0
      OBVIOUS
    <3>3. origin # << >>
      BY <1>5, <3>2
    <3> QED
      BY <3>1, <3>3
  <2>4. ShortByCommas'
    BY <1>3, <2>2, <2>3 DEF ShortByCommas
  <2> QED
    BY <1>1, <1>3, <2>2, <2>4 DEF ArrayFits
<1>9. CASE ~(e.kind = "safe" /\ room - at < needed)
  <2>1. job' = job /\ at' = at + 1 + step /\ todo' = Tail(todo)
    BY <1>4, <1>9
  <2>2. /\ e.kind = "safe" => step = e.length
        /\ e.kind = "null" => step = 4
        /\ e.kind = "quoted" => step = e.length + e.escapes + 2
    BY <1>7 DEF NullLength
  <2> HIDE DEF step
  <2>3. step \in Nat
    BY <1>7, <2>2
  <2>4. at' + 2 <= after + (k + 1) + nullsAfter
    <3> HIDE DEF before, after, nulls, nullsAfter
    <3>1. at + 2 <= before + k + nulls
      BY <1>2 DEF before, nulls
    <3>2. at \in Nat /\ k \in Nat
      BY <1>2, <1>5
    <3>6. /\ e.kind = "safe" => nullsAfter = nulls
          /\ e.kind = "null" => nullsAfter = nulls + 1
          /\ e.kind = "quoted" => nullsAfter = nulls
      BY <1>6
    <3> DEFINE p == Part(e)  length == e.length  escapes == e.escapes
    <3>7. p \in Nat /\ length \in Nat /\ escapes \in Nat /\ after = before + p
      BY <1>6, <1>7
    <3>3. CASE e.kind = "safe"
      <4>1. nullsAfter = nulls /\ length <= p /\ step = length
        BY <1>7, <2>2, <3>3, <3>6
      <4> HIDE DEF p, length, escapes
      <4> QED
        BY <1>6, <2>1, <3>1, <3>2, <3>7, <4>1
    <3>4. CASE e.kind = "null"
      <4>1. nullsAfter = nulls + 1 /\ p = 3 /\ step = 4
        BY <1>7, <2>2, <3>4, <3>6
      <4> HIDE DEF p, length, escapes
      <4> QED
        BY <1>6, <2>1, <3>1, <3>2, <3>7, <4>1
    <3>5. CASE e.kind = "quoted"
      <4>1. nullsAfter = nulls /\ p = (2 * length) + 2 /\ escapes <= length
            /\ step = length + escapes + 2
        BY <1>7, <2>2, <3>5, <3>6
      <4> HIDE DEF p, length, escapes
      <4> QED
        BY <1>6, <2>1, <3>1, <3>2, <3>7, <4>1
    <3> QED
      BY <1>7, <3>3, <3>4, <3>5
  <2>5. at' \in Nat /\ k + 1 \in 0 .. n /\ k + 1 # 0
    BY <1>2, <1>5, <2>1, <2>3
  <2>6. todo' = SubSeq(origin, (k + 1) + 1, n)
    BY <1>5, <2>1
  <2>7. \A i : Nulls(i)' = Nulls(i)
    BY <1>3 DEF Nulls
  <2>8. \E i \in 0 .. Len(origin') :
          /\ todo' = SubSeq(origin', i + 1, Len(origin')) /\ at' \in Nat
          /\ i = 0 => at' = 1
          /\ at' + 2 <= Budget(SubSeq(origin', 1, i)) + i + Cardinality(Nulls(i)')
    <3> DEFINE i == k + 1
    <3>1. i \in 0 .. n /\ todo' = SubSeq(origin, i + 1, n) /\ at' \in Nat /\ i # 0
          /\ at' + 2 <= Budget(SubSeq(origin, 1, i)) + i + Cardinality(Nulls(i)')
      BY <2>4, <2>5, <2>6, <2>7
    <3> HIDE DEF i
    <3>2. origin' = origin
      BY <1>3
    <3> QED
      BY <3>1, <3>2
  <2> QED
    BY <1>1, <1>3, <2>1, <2>8 DEF ArrayFits
<1> QED
  BY <1>8, <1>9

LEMMA WriteEndKept ==
  ASSUME type = Arrays, ArrayFits, WriteEnd
  PROVE  type' = Arrays /\ ArrayFits'
<1> DEFINE n == Len(origin)  nulls == {i \in DOMAIN origin : origin[i].kind = "null"}
           room == Budget(origin)
<1>1. job = "elements" /\ todo = << >> /\ made /\ origin \in Seq(Elements)
  BY DEF WriteEnd, ArrayFits
<1>2. PICK k \in 0 .. n :
        /\ todo = SubSeq(origin, k + 1, n) /\ at \in Nat
        /\ at + 2 <= Budget(SubSeq(origin, 1, k)) + k + Cardinality(Nulls(k))
  BY <1>1 DEF ArrayFits
<1>3. type' = type /\ origin' = origin /\ made' = made /\ job' = "done"
      /\ at' = (IF origin = << >> THEN at ELSE at - 1) + 2
  BY DEF WriteEnd, Unchanged, Becomes
<1>4. k = n /\ n \in Nat /\ SubSeq(origin, 1, k) = origin
  <2>1. n \in Nat /\ Len(todo) = 0
    BY <1>1
  <2>2. Len(SubSeq(origin, k + 1, n)) = n - k
    BY <1>1, <1>2, <2>1
  <2>3. k = n
    BY <1>2, <2>1, <2>2
  <2> QED
    BY <1>1, <2>1, <2>3
<1>5. Nulls(k) = nulls
  BY <1>1, <1>4 DEF Nulls
<1>6. room \in Nat /\ Cardinality(nulls) \in Nat
  BY <1>1, <1>4, <1>5, BudgetNext, NullsAre
<1> HIDE DEF nulls, room
<1>7. at + 2 <= room + n + Cardinality(nulls)
  BY <1>2, <1>4, <1>5 DEF room
<1>8. at' <= room + (IF origin = << >> THEN 0 ELSE n - 1) + Cardinality(nulls)
  <2>1. origin = << >> => n = 0
    OBVIOUS
  <2> QED
    BY <1>2, <1>3, <1>4, <1>6, <1>7, <2>1
<1>9. ShortByCommas'
  BY <1>3, <1>8 DEF ShortByCommas, nulls, room
<1> QED
  BY <1>1, <1>3, <1>9 DEF ArrayFits

-----------------------------------------------------------------------------
(* What a program may convert, and every step. *)
LEMMA ConversionStarts ==
  ASSUME Behind \cap Digit = {}, ConversionInit
  PROVE  ConversionInv
<1>1. CASE /\ type \in Types /\ job = "write" /\ image = << >> /\ at = 0 /\ behind = Nul
           /\ \E v \in Bottom(type) .. Top(type) : origin = <<v>> /\ value = Positive(v)
           /\ todo = << >> /\ made = TRUE
  <2>1. type \in NumberType
    BY <1>1, TypesAre
  <2>2. PICK v \in Bottom(type) .. Top(type) : origin = <<v>> /\ value = Positive(v)
    BY <1>1
  <2> DEFINE b == Bottom(type)  h == Top(type)  p == Power(2, type.bits)
             room == Digits10(type) + 1  q == Power(10, room)
  <2>3. b \in Int /\ b <= 0 /\ h \in Nat /\ p \in Nat /\ p = (h - b) + 1
        /\ b = (IF type.signed THEN -(h + 1) ELSE 0)
    BY <2>1, RangeIs
  <2>4. room \in Nat /\ q \in Nat /\ q > h + 1
    <3>1. room \in Nat /\ q > h + 1
      BY <2>1, DigitsAre
    <3> HIDE DEF room
    <3> QED
      BY <3>1, PowersGrow
  <2> HIDE DEF b, h, p, q, room
  <2>5. v \in Int /\ b <= v /\ v <= h
    BY <2>2, <2>3 DEF b, h
  <2>6. value \in Nat /\ value <= p /\ value < q
    <3>1. v \in Nat => value = v
      BY <2>2 DEF Positive
    <3>2. v < 0 => value = -v
      BY <2>2 DEF Positive
    <3> QED
      BY <2>3, <2>4, <2>5, <3>1, <3>2
  <2>7. Continued(value, image) = Positive(origin[1])
    <3>1. << >> \in Seq(Int) /\ value \in Int
      BY <2>6
    <3>2. Continued(value, << >>) = value
      BY <3>1, ContinuedType
    <3> QED
      BY <1>1, <2>2, <3>2
  <2>8. image \in Seq(Byte) /\ Len(image) = 0 /\ AllDigits(image)
    BY <1>1 DEF AllDigits
  <2>9. Writing
    <3>1. value < Power(10, (Digits10(type) + 1) - Len(image)) /\ Len(image) <= Digits10(type) + 1
      <4>1. room - 0 = room /\ 0 <= room
        BY <2>4
      <4> QED
        BY <2>6, <2>8, <4>1 DEF room, q
    <3> QED
      BY <1>1, <2>6, <2>7, <2>8, <3>1 DEF Writing, p
  <2>10. behind \in Byte \ Digit
    BY <1>1 DEF Nul, Byte, Digit
  <2>11. at \in 0 .. Len(image) + 1
    BY <1>1, <2>8
  <2>12. NumberFits
    BY <1>1, <2>2, <2>6, <2>8, <2>9, <2>10, <2>11 DEF NumberFits, Reading, b, h
  <2> QED
    BY <1>1, <2>12 DEF ConversionInv
<1>2. CASE /\ type \in Types /\ job = "read" /\ image \in Texts /\ at = 0 /\ behind \in Behind
           /\ origin = << >> /\ value = 0 /\ todo = << >> /\ made = FALSE
  <2>1. image \in Seq(Byte) /\ behind \in Byte \ Digit
    BY <1>2, ConversionAssumption DEF Byte
  <2>2. at \in 0 .. Len(image) + 1
    BY <1>2, <2>1
  <2>3. NumberFits
    BY <1>2, <2>1, <2>2 DEF NumberFits, Reading
  <2> QED
    BY <1>2, <2>3 DEF ConversionInv
<1>3. CASE /\ type = ByteString /\ job = "escape" /\ image = << >> /\ at = 0 /\ behind = Nul
           /\ origin \in Binaries /\ value = << >> /\ todo = << >> /\ made = TRUE
  <2>1. origin \in Seq(Byte)
    BY <1>3, ConversionAssumption DEF Byte
  <2>2. HexFits
    BY <1>3, <2>1 DEF HexFits
  <2> QED
    BY <1>3, <2>2 DEF ConversionInv
<1>4. CASE /\ type = ByteString /\ job = "unescape" /\ image \in HexTexts /\ at = 0
           /\ behind = Nul /\ origin = << >> /\ value = << >> /\ todo = << >> /\ made = FALSE
  <2>1. image \in Seq(Byte)
    BY <1>4, ConversionAssumption DEF Byte
  <2>2. HexFits
    BY <1>4, <2>1 DEF HexFits
  <2> QED
    BY <1>4, <2>2 DEF ConversionInv
<1>5. CASE /\ type = Arrays /\ job = "elements" /\ image = << >> /\ at = 1 /\ behind = Nul
           /\ origin \in SeqOf(Elements, MaxElements) /\ value = 0 /\ todo = origin /\ made = TRUE
  <2>1. origin \in Seq(Elements)
    <3>1. PICK m \in 0 .. MaxElements : origin \in [1 .. m -> Elements]
      BY <1>5 DEF SeqOf
    <3>2. m \in Nat
      BY ConversionAssumption
    <3> QED
      BY <3>1, <3>2
  <2>2. Len(origin) \in Nat /\ 0 \in 0 .. Len(origin) /\ SubSeq(origin, 0 + 1, Len(origin)) = origin
    BY <2>1
  <2>3. at + 2 <= Budget(SubSeq(origin, 1, 0)) + 0 + Cardinality(Nulls(0))
    <3>1. Budget(SubSeq(origin, 1, 0)) = 3 /\ Cardinality(Nulls(0)) = 0
      BY <2>1, BudgetNext, NullsAre
    <3> QED
      BY <1>5, <3>1
  <2>4. ArrayFits
    BY <1>5, <2>1, <2>2, <2>3 DEF ArrayFits
  <2> QED
    BY <1>5, <2>4 DEF ConversionInv
<1> QED
  BY <1>1, <1>2, <1>3, <1>4, <1>5 DEF ConversionInit

LEMMA ConversionKept == ConversionInv /\ [ConversionNext]_conversionVars => ConversionInv'
<1> SUFFICES ASSUME ConversionInv, [ConversionNext]_conversionVars PROVE ConversionInv'
  OBVIOUS
<1>1. CASE UNCHANGED conversionVars
  <2>1. UNCHANGED <<job, type, build, value, image, at, behind, todo, origin, made>>
    BY <1>1 DEF conversionVars
  <2>2. type \in Types /\ NumberFits => NumberFits'
    BY <2>1 DEF NumberFits, Writing, Reading, Unblanked, AfterBlanks
  <2>3. HexFits => HexFits'
    BY <2>1 DEF HexFits, HexIsExact
  <2>4. ArrayFits => ArrayFits'
    BY <2>1 DEF ArrayFits, Nulls, ShortByCommas
  <2> QED
    BY <2>1, <2>2, <2>3, <2>4 DEF ConversionInv
<1>2. CASE type \in Types /\ NumberFits /\ ConversionNext
  <2>1. job \in {"write", "sign", "read", "add", "subtract", "done", "thrown"}
    BY <1>2 DEF NumberFits
  <2>2. WriteDigit \/ WriteSign \/ ReadFirst \/ AbsorbPositive \/ AbsorbNegative \/ FromChars
    BY <1>2, <2>1 DEF ConversionNext, EscBin, UnescBin, WriteElement, WriteEnd
  <2>3. type' \in Types /\ NumberFits'
    BY <1>2, <2>2, WriteDigitKept, WriteSignKept, ReadFirstKept, AbsorbPositiveKept,
       AbsorbNegativeKept, FromCharsKept
  <2> QED
    BY <2>3 DEF ConversionInv
<1>3. CASE type = ByteString /\ HexFits /\ ConversionNext
  <2>1. job \in {"escape", "unescape", "done", "thrown"}
    BY <1>3 DEF HexFits
  <2>2. EscBin \/ UnescBin
    BY <1>3, <2>1 DEF ConversionNext, WriteDigit, WriteSign, ReadFirst, AbsorbPositive,
       AbsorbNegative, FromChars, WriteElement, WriteEnd
  <2>3. type' = ByteString /\ HexFits'
    BY <1>3, <2>2, EscBinKept, UnescBinKept
  <2> QED
    BY <2>3 DEF ConversionInv
<1>4. CASE type = Arrays /\ ArrayFits /\ ConversionNext
  <2>1. job \in {"elements", "done", "thrown"}
    BY <1>4 DEF ArrayFits
  <2>2. WriteElement \/ WriteEnd
    BY <1>4, <2>1 DEF ConversionNext, WriteDigit, WriteSign, ReadFirst, AbsorbPositive,
       AbsorbNegative, FromChars, EscBin, UnescBin
  <2>3. type' = Arrays /\ ArrayFits'
    BY <1>4, <2>2, WriteElementKept, WriteEndKept
  <2> QED
    BY <2>3 DEF ConversionInv
<1> QED
  BY <1>1, <1>2, <1>3, <1>4 DEF ConversionInv

LEMMA ConversionTypeFollows == ConversionInv => ConversionTypeOK
<1>1. ASSUME type \in Types, NumberFits PROVE ConversionTypeOK
  <2> DEFINE b == Bottom(type)  h == Top(type)  p == Power(2, type.bits)
  <2>1. type \in NumberType /\ value \in Int /\ image \in Seq(Byte) /\ at \in 0 .. Len(image) + 1
        /\ job \in {"write", "sign", "read", "add", "subtract", "done", "thrown"}
    BY <1>1, TypesAre DEF NumberFits
  <2>2. b \in Int /\ b <= 0 /\ h \in Nat /\ p \in Nat /\ h < p
    BY <2>1, RangeIs
  <2>3. CASE job \in {"write", "sign"}
    <3>1. value \in Nat /\ value <= p
      BY <1>1, <2>3 DEF NumberFits, Writing
    <3>2. value \in b .. p
      <4> HIDE DEF b, p
      <4> QED
        BY <2>2, <3>1
    <3> QED
      BY <2>1, <2>3, <3>2 DEF ConversionTypeOK
  <2>4. CASE job \in {"read", "thrown"}
    <3>1. value = 0
      BY <1>1, <2>4 DEF NumberFits
    <3>2. value \in b .. p
      BY <2>2, <3>1
    <3> QED
      BY <2>1, <2>4, <3>2 DEF ConversionTypeOK
  <2>5. CASE job = "done"
    <3>1. Denoted(Unblanked, type) = {value}
      BY <1>1, <2>5 DEF NumberFits
    <3>2. Unblanked \in Seq(Byte)
      BY <2>1, TextIs, UnblankedIs
    <3>3. PICK n \in b .. h : {value} = {n}
      BY <2>1, <3>1, <3>2, DenotedOne
    <3>4. value \in b .. h
      BY <3>3
    <3>5. value \in b .. p /\ value <= h
      <4> HIDE DEF b, h, p
      <4> QED
        BY <2>2, <3>4
    <3> QED
      BY <2>1, <2>5, <3>5 DEF ConversionTypeOK
  <2>6. CASE job = "add"
    <3>1. ReadSoFar(image, AfterBlanks, at, value) /\ value <= h
      BY <1>1, <2>6 DEF NumberFits, Reading
    <3>2. AfterBlanks \in Nat
      BY <2>1, TextIs, BlanksEnd
    <3>3. value \in Nat
      BY <2>1, <3>1, <3>2, ReadNat
    <3>4. value \in b .. p
      <4> HIDE DEF b, p
      <4> QED
        BY <2>2, <3>1, <3>3
    <3> QED
      BY <2>1, <2>6, <3>1, <3>4 DEF ConversionTypeOK
  <2>7. CASE job = "subtract"
    <3>1. ReadSoFar(image, AfterBlanks + 1, at, -value) /\ b <= value
      BY <1>1, <2>7 DEF NumberFits, Reading
    <3>2. AfterBlanks + 1 \in Nat
      BY <2>1, TextIs, BlanksEnd
    <3>3. -value \in Nat
      BY <2>1, <3>1, <3>2, ReadNat
    <3>4. value <= 0
      BY <2>1, <3>3
    <3>5. value \in b .. p /\ value <= h
      <4> HIDE DEF b, h, p
      <4> QED
        BY <2>1, <2>2, <3>1, <3>4 DEF b
    <3> QED
      BY <2>1, <2>7, <3>5 DEF ConversionTypeOK
  <2> QED
    BY <2>1, <2>3, <2>4, <2>5, <2>6, <2>7
<1>2. ASSUME type = ByteString, HexFits PROVE ConversionTypeOK
  BY <1>2, TypesAre DEF HexFits, ConversionTypeOK
<1>3. ASSUME type = Arrays, ArrayFits PROVE ConversionTypeOK
  BY <1>3, TypesAre DEF ArrayFits, ConversionTypeOK
<1> QED
  BY <1>1, <1>2, <1>3 DEF ConversionInv

LEMMA ExactFollows == ConversionInv => ConversionsAreExact
<1>1. ASSUME type \in Types, NumberFits PROVE ConversionsAreExact
  <2>1. type \in NumberType /\ type # ByteString /\ type # Arrays /\ image \in Seq(Byte)
        /\ job \in {"write", "sign", "read", "add", "subtract", "done", "thrown"}
    BY <1>1, TypesAre DEF NumberFits
  <2>2. ReadsNumbers
    BY <1>1 DEF NumberFits, ReadsNumbers
  <2>3. ReadsWhatIsWritten
    <3> SUFFICES ASSUME made
                 PROVE  job # "thrown" /\ (job = "done" => origin = <<value>>)
      BY <2>1 DEF ReadsWhatIsWritten
    <3>1. PICK v : origin = <<v>>
      BY <1>1 DEF NumberFits
    <3>2. job \in {"done", "thrown"} => Denoted(Unblanked, type) = {v}
      BY <1>1, <3>1 DEF NumberFits
    <3>3. job # "thrown"
      BY <1>1, <3>2 DEF NumberFits
    <3>4. job = "done" => {v} = {value}
      BY <1>1, <3>2 DEF NumberFits
    <3> QED
      BY <3>1, <3>3, <3>4
  <2>4. NumbersFit
    <3>1. Len(image) \in Nat /\ Digits10(type) \in Nat
      BY <2>1, DigitsAre
    <3>2. job \in {"write", "sign"} => Len(image) + 1 <= SizeBuffer(type)
      <4> SUFFICES ASSUME job \in {"write", "sign"} PROVE Len(image) + 1 <= SizeBuffer(type)
        OBVIOUS
      <4>1. Len(image) <= Digits10(type) + 1
        BY <1>1 DEF NumberFits, Writing
      <4> QED
        BY <3>1, <4>1 DEF SizeBuffer
    <3> QED
      BY <1>1, <3>2 DEF NumberFits, NumbersFit
  <2>5. HexIsExact /\ ShortByCommas
    BY <2>1 DEF HexIsExact, ShortByCommas
  <2> QED
    BY <2>2, <2>3, <2>4, <2>5 DEF ConversionsAreExact
<1>2. ASSUME type = ByteString, HexFits PROVE ConversionsAreExact
  <2>1. type \notin Types /\ type # Arrays
    BY <1>2, TypesAre
  <2>2. ReadsNumbers /\ NumbersFit /\ ShortByCommas
    BY <2>1 DEF ReadsNumbers, NumbersFit, ShortByCommas
  <2>3. ReadsWhatIsWritten
    BY <1>2 DEF HexFits, ReadsWhatIsWritten
  <2>4. HexIsExact
    <3>1. job = "done" => HexIsExact
      BY <1>2 DEF HexFits
    <3>2. job # "done" => HexIsExact
      BY DEF HexIsExact
    <3> QED
      BY <3>1, <3>2
  <2> QED
    BY <2>2, <2>3, <2>4 DEF ConversionsAreExact
<1>3. ASSUME type = Arrays, ArrayFits PROVE ConversionsAreExact
  <2>1. type \notin Types /\ type # ByteString
    BY <1>3, TypesAre
  <2>2. ReadsNumbers /\ NumbersFit /\ HexIsExact
    BY <2>1 DEF ReadsNumbers, NumbersFit, HexIsExact
  <2>3. ReadsWhatIsWritten
    BY <1>3 DEF ReadsWhatIsWritten
  <2>4. ShortByCommas
    <3>1. job \in {"done", "thrown"} => ShortByCommas
      BY <1>3 DEF ArrayFits
    <3>2. job \notin {"done", "thrown"} => ShortByCommas
      BY DEF ShortByCommas
    <3> QED
      BY <3>1, <3>2
  <2> QED
    BY <2>2, <2>3, <2>4 DEF ConversionsAreExact
<1> QED
  BY <1>1, <1>2, <1>3 DEF ConversionInv

(* What is written or read so far is a part of the number, the data or the   *)
(* array there is, in every step of a conversion of any type, if no digit    *)
(* lies behind a text (strconv.cxx, util.cxx, array composition).            *)
THEOREM ConversionsAlwaysFit ==
  ASSUME Behind \cap Digit = {}
  PROVE  ConversionSpec => []ConversionInv
<1>1. ConversionInit => ConversionInv
  BY ConversionStarts
<1>2. ConversionInv /\ [ConversionNext]_conversionVars => ConversionInv'
  BY ConversionKept
<1> QED
  BY <1>1, <1>2, PTL DEF ConversionSpec

(* No number ever leaves its type, on the way to its text or from it, though *)
(* strconv.cxx multiplies before it knows what the product is.               *)
THEOREM ConversionsTyped ==
  ASSUME Behind \cap Digit = {}
  PROVE  ConversionSpec => []ConversionTypeOK
<1>1. ConversionInv => ConversionTypeOK
  BY ConversionTypeFollows
<1> QED
  BY <1>1, ConversionsAlwaysFit, PTL

(* For integral types of any width, data and arrays of any length: a number, *)
(* the lowest of its type among them, and binary data become a text that has *)
(* room and that becomes what it was; a text that stands for a number of the *)
(* type becomes that and all others throw; an array overruns its estimate by *)
(* no more than its commas and nulls (strconv.cxx, util.cxx, conversions.hxx).*)
THEOREM ConversionsAlwaysExact ==
  ASSUME Behind \cap Digit = {}
  PROVE  ConversionSpec => []ConversionsAreExact
<1>1. ConversionInv => ConversionsAreExact
  BY ExactFollows
<1> QED
  BY <1>1, ConversionsAlwaysFit, PTL

(* A sequence, from its first element to its last. *)
LEMMA OneMore ==
  ASSUME NEW S, NEW x \in Seq(S)
  PROVE  /\ SubSeq(x, 1, 0) = << >> /\ SubSeq(x, 1, Len(x)) = x
         /\ \A k \in 1 .. Len(x) :
              /\ SubSeq(x, 1, k) = Append(SubSeq(x, 1, k - 1), x[k])
              /\ SubSeq(x, 1, k - 1) \in Seq(S) /\ x[k] \in S
<1>1. SubSeq(x, 1, 0) = << >>
  BY SubSeqEmpty
<1>2. SubSeq(x, 1, Len(x)) = x
  BY SubSeqFull
<1>3. ASSUME NEW k \in 1 .. Len(x)
      PROVE  /\ SubSeq(x, 1, k) = Append(SubSeq(x, 1, k - 1), x[k])
             /\ SubSeq(x, 1, k - 1) \in Seq(S) /\ x[k] \in S
  <2>1. 1 \in 1 .. Len(x) /\ k \in 1 .. Len(x)
    OBVIOUS
  <2>2. SubSeq(x, 1, k) = SubSeq(x, 1, k - 1) \o <<x[k]>>
    BY <2>1, SubSeqRecursiveSecond
  <2>3. x[k] \in S /\ SubSeq(x, 1, k - 1) \in Seq(S)
    OBVIOUS
  <2> QED
    BY <2>2, <2>3, AppendIsConcat
<1> QED
  BY <1>1, <1>2, <1>3

-----------------------------------------------------------------------------
(* FlattenSeq, from the first sequence to the last. *)
Flattens(g, xs) == g[0] = << >> /\ \A k \in 1 .. Len(xs) : g[k] = g[k - 1] \o xs[k]

LEMMA FlattenIs ==
  ASSUME NEW S, NEW xs \in Seq(Seq(S))
  PROVE  \E g \in [0 .. Len(xs) -> Seq(S)] : Flattens(g, xs) /\ FlattenSeq(xs) = g[Len(xs)]
<1> DEFINE n == Len(xs)
           F == [x \in (1 .. n) \X Seq(S) |-> x[2] \o xs[x[1]]]
           Reads(f) == f = [i \in 1 .. Len(xs) |->
                              IF i = 1 THEN xs[i] ELSE f[i - 1] \o xs[i]]
           r == CHOOSE f : Reads(f)
<1>1. n \in Nat /\ n = Len(xs) /\ \A k \in 1 .. n : xs[k] \in Seq(S)
  OBVIOUS
<1>2. FlattenSeq(xs) = IF Len(xs) = 0 THEN xs ELSE r[Len(xs)]
  BY DEF FlattenSeq
<1>3. F \in [(1 .. n) \X Seq(S) -> Seq(S)]
  <2> SUFFICES ASSUME NEW k \in 1 .. n, NEW x \in Seq(S) PROVE x \o xs[k] \in Seq(S)
    OBVIOUS
  <2> QED
    BY <1>1
<1>4. \A k \in 1 .. n, x \in Seq(S) : F[<<k, x>>] = x \o xs[k]
  OBVIOUS
<1>5. << >> \in Seq(S)
  OBVIOUS
<1> HIDE DEF F, n
<1>6. PICK g \in [0 .. n -> Seq(S)] : Along(g, n, << >>, F)
  BY <1>1, <1>3, <1>5, StepsAlong
<1>7. g[0] = << >> /\ \A k \in 1 .. n : g[k] = g[k - 1] \o xs[k]
  <2>1. \A k \in 1 .. n : k - 1 \in 0 .. n
    BY <1>1
  <2> QED
    BY <1>4, <1>6, <2>1 DEF Along
<1>8. CASE n = 0
  <2>1. xs = << >>
    <3>1. Len(xs) = 0
      BY <1>1, <1>8
    <3> QED
      BY <3>1
  <2>2. FlattenSeq(xs) = g[n]
    BY <1>1, <1>2, <1>7, <1>8, <2>1
  <2> QED
    BY <1>1, <1>7, <2>2 DEF Flattens
<1>9. CASE n # 0
  <2> DEFINE h == [i \in 1 .. n |-> g[i]]
  <2>1. Reads(h)
    <3>1. \A i \in 1 .. n : h[i] = IF i = 1 THEN xs[i] ELSE h[i - 1] \o xs[i]
      <4> SUFFICES ASSUME NEW i \in 1 .. n
                   PROVE  h[i] = IF i = 1 THEN xs[i] ELSE h[i - 1] \o xs[i]
        OBVIOUS
      <4>1. g[i] = g[i - 1] \o xs[i] /\ h[i] = g[i]
        BY <1>7
      <4>2. CASE i = 1
        <5>1. g[i - 1] = << >> /\ xs[i] \in Seq(S)
          BY <1>1, <1>7, <4>2
        <5>2. << >> \o xs[i] = xs[i]
          BY <5>1
        <5> QED
          BY <4>1, <4>2, <5>1, <5>2
      <4>3. CASE i # 1
        <5>1. i - 1 \in 1 .. n
          BY <1>1, <4>3
        <5> QED
          BY <4>1, <4>3, <5>1
      <4> QED
        BY <4>2, <4>3
    <3>2. h = [i \in 1 .. n |-> h[i]]
      OBVIOUS
    <3> HIDE DEF h
    <3>3. [i \in 1 .. n |-> h[i]] = [i \in 1 .. n |-> IF i = 1 THEN xs[i] ELSE h[i - 1] \o xs[i]]
      BY <3>1
    <3> QED
      BY <1>1, <3>2, <3>3
  <2>2. Reads(r)
    <3> HIDE DEF Reads
    <3> QED
      BY <2>1
  <2>3. \A i \in 1 .. n : r[i] = IF i = 1 THEN xs[i] ELSE r[i - 1] \o xs[i]
    BY <1>1, <2>2
  <2> HIDE DEF r
  <2> DEFINE T == {k \in 0 .. n : k = 0 \/ r[k] = g[k]}
  <2>4. 0 \in T
    BY <1>1
  <2>5. ASSUME NEW k \in 1 .. n, k - 1 \in T PROVE k \in T
    <3>1. r[k] = IF k = 1 THEN xs[k] ELSE r[k - 1] \o xs[k]
      BY <2>3
    <3>2. h[k] = IF k = 1 THEN xs[k] ELSE h[k - 1] \o xs[k]
      BY <1>1, <2>1
    <3>3. h[k] = g[k] /\ (k # 1 => h[k - 1] = g[k - 1] /\ k - 1 # 0)
      BY <1>1
    <3> HIDE DEF h
    <3>4. k # 1 => r[k - 1] = g[k - 1]
      BY <2>5, <3>3
    <3>5. r[k] = g[k]
      BY <3>1, <3>2, <3>3, <3>4
    <3> QED
      BY <1>1, <3>5
  <2>6. 0 .. n \subseteq T
    <3> HIDE DEF T
    <3> QED
      BY <1>1, <2>4, <2>5, AllPlaces
  <2>7. r[n] = g[n]
    BY <1>1, <1>9, <2>6
  <2> QED
    BY <1>1, <1>2, <1>7, <1>9, <2>7 DEF Flattens
<1> QED
  BY <1>8, <1>9

LEMMA FlattensTo ==
  ASSUME NEW S, NEW xs \in Seq(Seq(S)), NEW f, Flattens(f, xs)
  PROVE  FlattenSeq(xs) = f[Len(xs)]
<1>1. PICK g \in [0 .. Len(xs) -> Seq(S)] : Flattens(g, xs) /\ FlattenSeq(xs) = g[Len(xs)]
  BY FlattenIs
<1> DEFINE n == Len(xs)  T == {k \in 0 .. n : f[k] = g[k]}
<1>2. n \in Nat /\ n = Len(xs)
  OBVIOUS
<1> HIDE DEF n
<1>3. 0 \in T
  BY <1>1, <1>2 DEF Flattens
<1>4. ASSUME NEW k \in 1 .. n, k - 1 \in T PROVE k \in T
  <2>1. f[k - 1] = g[k - 1]
    BY <1>4
  <2>2. f[k] = f[k - 1] \o xs[k]
    BY <1>2 DEF Flattens
  <2>3. g[k] = g[k - 1] \o xs[k]
    BY <1>1, <1>2 DEF Flattens
  <2>4. f[k] = g[k]
    BY <2>1, <2>2, <2>3
  <2> QED
    BY <1>2, <2>4
<1>5. 0 .. n \subseteq T
  <2> HIDE DEF T
  <2> QED
    BY <1>2, <1>3, <1>4, AllPlaces
<1> QED
  BY <1>1, <1>2, <1>5

LEMMA FlattenMore ==
  ASSUME NEW S, NEW xs \in Seq(Seq(S)), NEW x \in Seq(S)
  PROVE  /\ FlattenSeq(Append(xs, x)) = FlattenSeq(xs) \o x
         /\ FlattenSeq(xs) \in Seq(S)
<1> DEFINE ys == Append(xs, x)  n == Len(xs)
<1>1. ys \in Seq(Seq(S)) /\ Len(ys) = n + 1 /\ ys[n + 1] = x /\ n \in Nat /\ n = Len(xs)
      /\ \A k \in 1 .. n : ys[k] = xs[k]
  OBVIOUS
<1> HIDE DEF ys, n
<1>2. PICK g \in [0 .. Len(ys) -> Seq(S)] : Flattens(g, ys) /\ FlattenSeq(ys) = g[Len(ys)]
  BY <1>1, FlattenIs
<1>3. n + 1 \in 1 .. Len(ys) /\ (n + 1) - 1 = n /\ n \in 0 .. Len(ys)
      /\ \A k \in 1 .. n : k \in 1 .. Len(ys)
  BY <1>1
<1>4. Flattens(g, xs)
  BY <1>1, <1>2, <1>3 DEF Flattens
<1>5. FlattenSeq(xs) = g[n]
  BY <1>1, <1>4, FlattensTo
<1>6. g[n + 1] = g[n] \o x
  BY <1>1, <1>2, <1>3 DEF Flattens
<1> QED
  BY <1>1, <1>2, <1>3, <1>5, <1>6 DEF ys

LEMMA FlattenNone == FlattenSeq(<< >>) = << >>
  BY DEF FlattenSeq

-----------------------------------------------------------------------------
(* Encodings in which the first byte of a character tells how long it is, and *)
(* in which a byte of ASCII is a character wherever one begins.               *)
SelfDelimiting(e) ==
  /\ \A f \in Forms[e] :
       /\ f \in Seq(SUBSET Byte) /\ Len(f) \in 1 .. 4
       /\ \A h \in Forms[e] : f[1] \cap h[1] # {} => Len(f) = Len(h)
  /\ \A b \in Ascii : \E f \in Forms[e] : Len(f) = 1 /\ b \in f[1]

(* x is at position p of a text. *)
Occurs(x, t, p) == p + Len(x) <= Len(t) /\ \A i \in 1 .. Len(x) : t[p + i] = x[i]

(* A character of an encoding. *)
IsChar(e, g) == \E f \in Forms[e] : Len(f) = Len(g) /\ Fits(f, g, 0)

LEMMA ScanIs ==
  ASSUME NEW e, SelfDelimiting(e), NEW t \in Seq(Byte), NEW p \in Nat, p < Len(t)
  PROVE  /\ Scan(e, t, p) = Throws \/ \E f \in Forms[e] : Fits(f, t, p)
         /\ \A f \in Forms[e] : Fits(f, t, p) => Scan(e, t, p) = p + Len(f)
<1> DEFINE fitting == {f \in Forms[e] : Fits(f, t, p)}
<1>1. SubSeq(t, 1, Len(t)) = t
  OBVIOUS
<1>2. ~(p >= Len(t))
  OBVIOUS
<1>3. Scan(e, t, p) = IF fitting = {} THEN Throws ELSE p + Width(CHOOSE f \in fitting : TRUE)
  <2>1. Scan(e, t, p) = ScanTo(e, t, Len(t), p)
    BY DEF Scan
  <2>2. ScanTo(e, t, Len(t), p) =
          LET part == SubSeq(t, 1, Len(t))
              fit == {f \in Forms[e] : Fits(f, part, p)}
          IN IF fit = {} THEN Throws ELSE p + Width(CHOOSE f \in fit : TRUE)
    BY <1>2 DEF ScanTo
  <2> QED
    BY <1>1, <2>1, <2>2
<1>4. \A f \in fitting : f \in Forms[e] /\ Fits(f, t, p)
  OBVIOUS
<1>5. \A f \in Forms[e] : Fits(f, t, p) => f \in fitting
  OBVIOUS
<1> HIDE DEF fitting
<1>6. ASSUME NEW f \in Forms[e], NEW h \in Forms[e], Fits(f, t, p), Fits(h, t, p)
      PROVE  Width(h) = Len(f)
  <2>1. Len(f) \in 1 .. 4 /\ Len(h) \in 1 .. 4 /\ f \in Seq(SUBSET Byte) /\ h \in Seq(SUBSET Byte)
    BY DEF SelfDelimiting
  <2>2. 1 \in DOMAIN f /\ 1 \in DOMAIN h
    BY <2>1
  <2>3. t[p + 1] \in f[1] /\ t[p + 1] \in h[1]
    BY <1>6, <2>2 DEF Fits
  <2>4. Len(h) = Len(f)
    BY <2>3 DEF SelfDelimiting
  <2> QED
    BY <2>1, <2>4 DEF Width
<1>7. ASSUME NEW f \in Forms[e], Fits(f, t, p) PROVE Scan(e, t, p) = p + Len(f)
  <2>1. fitting # {}
    BY <1>5, <1>7
  <2> DEFINE h == CHOOSE h \in fitting : TRUE
  <2>2. h \in fitting
    BY <2>1
  <2> HIDE DEF h
  <2>3. Width(h) = Len(f)
    BY <1>4, <1>6, <1>7, <2>2
  <2> QED
    BY <1>3, <2>1, <2>3 DEF h
<1>8. fitting # {} => \E f \in Forms[e] : Fits(f, t, p)
  BY <1>4
<1> QED
  BY <1>3, <1>7, <1>8

(* A character is scanned as one wherever it is. *)
LEMMA CharScans ==
  ASSUME NEW e, SelfDelimiting(e), NEW t \in Seq(Byte), NEW p \in Nat,
         NEW g \in Seq(Byte), IsChar(e, g), Occurs(g, t, p)
  PROVE  Scan(e, t, p) = p + Len(g) /\ Len(g) \in 1 .. 4
<1>1. PICK f \in Forms[e] : Len(f) = Len(g) /\ Fits(f, g, 0)
  BY DEF IsChar
<1>2. f \in Seq(SUBSET Byte) /\ Len(f) \in 1 .. 4 /\ DOMAIN f = 1 .. Len(g)
  <2>1. f \in Seq(SUBSET Byte) /\ Len(f) \in 1 .. 4
    BY DEF SelfDelimiting
  <2>2. DOMAIN f = 1 .. Len(f)
    BY <2>1
  <2> QED
    BY <1>1, <2>1, <2>2
<1>3. \A i \in 1 .. Len(g) : g[i] \in f[i]
  <2>1. \A i \in 1 .. Len(g) : 0 + i = i
    OBVIOUS
  <2> QED
    BY <1>1, <1>2, <2>1 DEF Fits
<1>4. Fits(f, t, p)
  <2>1. p + Len(f) <= Len(t) /\ \A i \in 1 .. Len(g) : t[p + i] = g[i]
    BY <1>1 DEF Occurs
  <2>2. \A i \in DOMAIN f : t[p + i] \in f[i]
    BY <1>2, <1>3, <2>1
  <2> QED
    BY <2>1, <2>2 DEF Fits
<1>5. p < Len(t)
  BY <1>1, <1>2 DEF Occurs
<1>6. Scan(e, t, p) = p + Len(f)
  BY <1>4, <1>5, ScanIs
<1> QED
  BY <1>1, <1>2, <1>6

(* What is scanned is a character. *)
LEMMA ScanFindsChar ==
  ASSUME NEW e, SelfDelimiting(e), NEW t \in Seq(Byte), NEW p \in Nat, p < Len(t),
         Scan(e, t, p) # Throws
  PROVE  LET q == Scan(e, t, p)
         IN /\ q \in p + 1 .. Len(t) /\ q \in Nat
            /\ SubSeq(t, p + 1, q) \in Seq(Byte) /\ Len(SubSeq(t, p + 1, q)) = q - p
            /\ IsChar(e, SubSeq(t, p + 1, q)) /\ Occurs(SubSeq(t, p + 1, q), t, p)
            /\ t[p + 1] \in Ascii => q = p + 1
<1> DEFINE q == Scan(e, t, p)  g == SubSeq(t, p + 1, q)
<1>1. PICK f \in Forms[e] : Fits(f, t, p)
  BY ScanIs
<1>2. q = p + Len(f)
  BY <1>1, ScanIs
<1>3. f \in Seq(SUBSET Byte) /\ Len(f) \in 1 .. 4 /\ DOMAIN f = 1 .. Len(f)
  BY DEF SelfDelimiting
<1>4. p + Len(f) <= Len(t) /\ \A i \in 1 .. Len(f) : t[p + i] \in f[i]
  BY <1>1, <1>3 DEF Fits
<1>5. q \in p + 1 .. Len(t) /\ q \in Nat /\ q - p = Len(f)
  BY <1>2, <1>3, <1>4
<1> HIDE DEF q
<1>6. g \in Seq(Byte) /\ Len(g) = q - p /\ \A i \in 1 .. q - p : g[i] = t[p + i]
  BY <1>5
<1> HIDE DEF g
<1>7. IsChar(e, g)
  <2>1. \A i \in 1 .. Len(f) : 0 + i = i
    BY <1>3
  <2>2. Fits(f, g, 0)
    BY <1>3, <1>4, <1>5, <1>6, <2>1 DEF Fits
  <2> QED
    BY <1>5, <1>6, <2>2 DEF IsChar
<1>8. Occurs(g, t, p)
  BY <1>5, <1>6 DEF Occurs
<1>9. ASSUME t[p + 1] \in Ascii PROVE q = p + 1
  <2>1. PICK h \in Forms[e] : Len(h) = 1 /\ t[p + 1] \in h[1]
    BY <1>9 DEF SelfDelimiting
  <2>2. t[p + 1] \in f[1]
    BY <1>3, <1>4
  <2>3. Len(f) = Len(h)
    BY <2>1, <2>2 DEF SelfDelimiting
  <2> QED
    BY <1>2, <2>1, <2>3
<1> QED
  BY <1>5, <1>6, <1>7, <1>8, <1>9 DEF q, g

LEMMA AsciiIsChar ==
  ASSUME NEW e, SelfDelimiting(e), NEW c \in Ascii
  PROVE  IsChar(e, <<c>>) /\ <<c>> \in Seq(Byte)
<1>1. PICK f \in Forms[e] : Len(f) = 1 /\ c \in f[1]
  BY DEF SelfDelimiting
<1>2. f \in Seq(SUBSET Byte) /\ DOMAIN f = 1 .. 1
  BY <1>1 DEF SelfDelimiting
<1>3. Len(<<c>>) = 1 /\ <<c>>[1] = c
  OBVIOUS
<1>4. Fits(f, <<c>>, 0)
  <2>1. \A i \in DOMAIN f : i = 1 /\ 0 + i = 1
    BY <1>2
  <2> QED
    BY <1>1, <1>3, <2>1 DEF Fits
<1> QED
  BY <1>1, <1>3, <1>4 DEF IsChar, Ascii, Byte

(* So are all but two of the encodings. *)
LEMMA DelimitingEncodings ==
  ASSUME NEW e \in Encoding \ {"GB18030", "MULE_INTERNAL"}
  PROVE  SelfDelimiting(e)
<1>1. /\ e = "MONOBYTE" => Forms[e] = MONOBYTE
      /\ e = "BIG5" => Forms[e] = BIG5
      /\ e = "EUC_CN" => Forms[e] = EUC_CN
      /\ e = "EUC_JP" => Forms[e] = EUC_JP
      /\ e = "EUC_KR" => Forms[e] = EUC_KR
      /\ e = "EUC_TW" => Forms[e] = EUC_TW
      /\ e = "GBK" => Forms[e] = GBK
      /\ e = "JOHAB" => Forms[e] = JOHAB
      /\ e = "SJIS" => Forms[e] = SJIS
      /\ e = "UHC" => Forms[e] = UHC
      /\ e = "UTF8" => Forms[e] = UTF8
  BY DEF Forms
<1>2. e \in {"MONOBYTE", "BIG5", "EUC_CN", "EUC_JP", "EUC_KR", "EUC_TW", "GBK", "JOHAB",
             "SJIS", "UHC", "UTF8"}
  BY DEF Encoding, Forms
<1> DEFINE Delimits(F) ==
             /\ \A f \in F :
                  /\ f \in Seq(SUBSET Byte) /\ Len(f) \in 1 .. 4
                  /\ \A h \in F : f[1] \cap h[1] # {} => Len(f) = Len(h)
             /\ \A b \in Ascii : \E f \in F : Len(f) = 1 /\ b \in f[1]
<1>3. SelfDelimiting(e) <=> Delimits(Forms[e])
  BY DEF SelfDelimiting
<1>4. Delimits(UTF8)
  BY DEF UTF8, Byte, Ascii, Follow
<1>5. Delimits(SJIS)
  BY DEF SJIS, Byte, Ascii
<1>6. Delimits(GBK)
  BY DEF GBK, Byte, Ascii, High
<1>7. Delimits(MONOBYTE)
  BY DEF MONOBYTE, Byte, Ascii
<1>8. Delimits(EUC_TW)
  BY DEF EUC_TW, Byte, Ascii, High
<1>9. Delimits(BIG5)
  BY DEF BIG5, Byte, Ascii, High
<1>10. Delimits(EUC_CN)
  BY DEF EUC_CN, Byte, Ascii, High
<1>11. Delimits(EUC_JP)
  BY DEF EUC_JP, Byte, Ascii, High
<1>12. Delimits(EUC_KR)
  BY DEF EUC_KR, Byte, Ascii, High
<1>13. Delimits(JOHAB)
  BY DEF JOHAB, Byte, Ascii
<1>14. Delimits(UHC)
  BY DEF UHC, Byte, Ascii, High
<1> HIDE DEF Delimits
<1> QED
  BY <1>1, <1>2, <1>3, <1>4, <1>5, <1>6, <1>7, <1>8, <1>9, <1>10, <1>11, <1>12, <1>13, <1>14

-----------------------------------------------------------------------------
(* A line of COPY is put together from tokens, each for some bytes of a field.*)
Marked == {8, 9, 10, 11, 12, 13, BackSlash}

Token(text, means) == [text |-> text, means |-> means]

Escapes == {Token(<<BackSlash, LetterOf(c)>>, <<c>>) : c \in Marked \ {BackSlash}}
           \cup {Token(<<BackSlash, BackSlash>>, <<BackSlash>>)}

Plain(e) == {Token(g, g) : g \in {x \in Seq(Byte) : IsChar(e, x) /\ x[1] \notin Marked}}

OctalOf(c) == <<BackSlash, 48 + (c \div 64), 48 + ((c \div 8) % 8), 48 + (c % 8)>>

Octals == {Token(OctalOf(c), <<c>>) : c \in Byte}

(* What parse_line understands, and what the server does. *)
ClientTokens(e) == Escapes \cup Plain(e)

ServerTokens(e) == Escapes \cup Plain(e) \cup Octals

Tokens == [text : Seq(Byte), means : Seq(Byte)]

(* The letters of a character, and back. *)
LEMMA LettersAre ==
  /\ \A c \in Marked \ {BackSlash} :
       /\ HasLetter(c) /\ LetterOf(c) \in {98, 102, 110, 114, 116, 118}
       /\ IsLetter(LetterOf(c)) /\ CharOf(LetterOf(c)) = c
  /\ \A c : HasLetter(c) <=> c \in Marked \ {BackSlash}
  /\ ~IsLetter(BackSlash) /\ ~IsLetter(LetterN)
<1>1. \A l \in Letters : l \in {<<8, 98>>, <<12, 102>>, <<10, 110>>, <<13, 114>>, <<9, 116>>,
                                <<11, 118>>}
  BY DEF Letters
<1>2. \A c : HasLetter(c) <=> c \in Marked \ {BackSlash}
  BY DEF HasLetter, Letters, Marked, BackSlash
<1>3. ~IsLetter(BackSlash) /\ ~IsLetter(LetterN)
  BY DEF IsLetter, Letters, BackSlash, LetterN
<1>4. ASSUME NEW l \in Letters PROVE LetterOf(l[1]) = l[2] /\ CharOf(l[2]) = l[1]
  <2>1. \A m \in Letters : (m[1] = l[1] <=> m = l) /\ (m[2] = l[2] <=> m = l)
    BY <1>4 DEF Letters
  <2> DEFINE a == CHOOSE m \in Letters : m[1] = l[1]
             k == CHOOSE m \in Letters : m[2] = l[2]
  <2>2. a = l
    BY <1>4, <2>1
  <2>3. k = l
    BY <1>4, <2>1
  <2> QED
    BY <2>2, <2>3 DEF LetterOf, CharOf
<1>5. ASSUME NEW c \in Marked \ {BackSlash}
      PROVE  LetterOf(c) \in {98, 102, 110, 114, 116, 118} /\ IsLetter(LetterOf(c))
             /\ CharOf(LetterOf(c)) = c
  <2>1. PICK l \in Letters : l[1] = c
    BY <1>2 DEF HasLetter
  <2>2. l[2] \in {98, 102, 110, 114, 116, 118}
    BY <1>1, <2>1
  <2> QED
    BY <1>4, <2>1, <2>2 DEF IsLetter
<1> QED
  BY <1>2, <1>3, <1>5

LEMMA TokensAre ==
  ASSUME NEW e
  PROVE  ClientTokens(e) \subseteq ServerTokens(e) /\ ServerTokens(e) \subseteq Tokens
<1>1. Escapes \subseteq Tokens
  <2> SUFFICES ASSUME NEW t \in Escapes PROVE t \in Tokens
    OBVIOUS
  <2>1. CASE t = Token(<<BackSlash, BackSlash>>, <<BackSlash>>)
    BY <2>1 DEF Token, Tokens, BackSlash, Byte
  <2>2. ASSUME NEW c \in Marked \ {BackSlash}, t = Token(<<BackSlash, LetterOf(c)>>, <<c>>)
        PROVE  t \in Tokens
    <3>1. LetterOf(c) \in Byte /\ c \in Byte /\ BackSlash \in Byte
      BY LettersAre DEF Marked, Byte, BackSlash
    <3>2. <<BackSlash, LetterOf(c)>> \in Seq(Byte) /\ <<c>> \in Seq(Byte)
      BY <3>1
    <3> QED
      BY <2>2, <3>2 DEF Token, Tokens
  <2> QED
    BY <2>1, <2>2 DEF Escapes
<1>2. Plain(e) \subseteq Tokens
  BY DEF Plain, Token, Tokens
<1>3. Octals \subseteq Tokens
  <2> SUFFICES ASSUME NEW c \in Byte PROVE Token(OctalOf(c), <<c>>) \in Tokens
    BY DEF Octals
  <2>1. 48 + (c \div 64) \in Byte /\ 48 + ((c \div 8) % 8) \in Byte /\ 48 + (c % 8) \in Byte
    BY DEF Byte
  <2>2. OctalOf(c) \in Seq(Byte) /\ <<c>> \in Seq(Byte)
    BY <2>1 DEF OctalOf, BackSlash, Byte
  <2> QED
    BY <2>2 DEF Token, Tokens
<1> QED
  BY <1>1, <1>2, <1>3 DEF ClientTokens, ServerTokens

-----------------------------------------------------------------------------
(* Pairs of a text and what it means that tokens make: the smallest set that *)
(* has the empty pair and all that one more token makes.                     *)
Pairs == Seq(Byte) \X Seq(Byte)

MadeOf(T, Q) ==
  /\ << << >>, << >> >> \in Q
  /\ \A w \in Q, t \in T : <<w[1] \o t.text, w[2] \o t.means>> \in Q

Spelt(T) == {w \in Pairs : \A Q \in SUBSET Pairs : MadeOf(T, Q) => w \in Q}

LEMMA SpeltGrows ==
  ASSUME NEW T \in SUBSET Tokens
  PROVE  MadeOf(T, Spelt(T))
<1>1. << << >>, << >> >> \in Spelt(T)
  <2>1. << >> \in Seq(Byte)
    OBVIOUS
  <2>2. << << >>, << >> >> \in Pairs
    BY <2>1 DEF Pairs
  <2> QED
    BY <2>2 DEF Spelt, MadeOf
<1>2. ASSUME NEW w \in Spelt(T), NEW t \in T
      PROVE  <<w[1] \o t.text, w[2] \o t.means>> \in Spelt(T)
  <2>1. w \in Pairs /\ \A Q \in SUBSET Pairs : MadeOf(T, Q) => w \in Q
    BY DEF Spelt
  <2>2. t.text \in Seq(Byte) /\ t.means \in Seq(Byte)
    BY DEF Tokens
  <2>3. w[1] \in Seq(Byte) /\ w[2] \in Seq(Byte)
    BY <2>1 DEF Pairs
  <2>4. w[1] \o t.text \in Seq(Byte) /\ w[2] \o t.means \in Seq(Byte)
    BY <2>2, <2>3
  <2>5. <<w[1] \o t.text, w[2] \o t.means>> \in Pairs
    BY <2>4 DEF Pairs
  <2> QED
    BY <2>1, <2>5 DEF Spelt, MadeOf
<1> QED
  BY <1>1, <1>2 DEF MadeOf

LEMMA SpeltMore ==
  ASSUME NEW T \in SUBSET Tokens, NEW x, NEW f, <<x, f>> \in Spelt(T), NEW t \in T
  PROVE  <<x \o t.text, f \o t.means>> \in Spelt(T)
<1> DEFINE w == <<x, f>>
<1>1. <<w[1] \o t.text, w[2] \o t.means>> \in Spelt(T)
  BY SpeltGrows DEF MadeOf
<1> QED
  BY <1>1

(* What a field is shown as: a null is not spelt. *)
FieldSpelt(T) == Spelt(T) \cup {<< <<BackSlash, LetterN>>, NullField>>}

LinePairs == Seq(Byte) \X Seq(Seq(Int))

LineMade(T, Q) ==
  /\ << << >>, << >> >> \in Q
  /\ \A w \in Q, v \in FieldSpelt(T) : <<(w[1] \o v[1]) \o <<Tab>>, Append(w[2], v[2])>> \in Q

(* Lines with a tab behind each field, and their fields. *)
Lines(T) == {w \in LinePairs : \A Q \in SUBSET LinePairs : LineMade(T, Q) => w \in Q}

LEMMA BytesAreInts ==
  ASSUME NEW x \in Seq(Byte)
  PROVE  x \in Seq(Int)
<1>1. Byte \subseteq Int
  BY DEF Byte
<1> QED
  BY <1>1, SeqMonotonic

LEMMA FieldSpeltAre ==
  ASSUME NEW T, NEW v \in FieldSpelt(T)
  PROVE  v = <<v[1], v[2]>> /\ v[1] \in Seq(Byte) /\ v[2] \in Seq(Int)
<1>1. CASE v \in Spelt(T)
  <2>1. v \in Seq(Byte) \X Seq(Byte)
    BY <1>1 DEF Spelt, Pairs
  <2>2. v[2] \in Seq(Byte) => v[2] \in Seq(Int)
    BY BytesAreInts
  <2> QED
    BY <2>1, <2>2
<1>2. CASE v = << <<BackSlash, LetterN>>, NullField>>
  BY <1>2 DEF BackSlash, LetterN, NullField, Byte
<1> QED
  BY <1>1, <1>2 DEF FieldSpelt

LEMMA LinesGrow ==
  ASSUME NEW T
  PROVE  LineMade(T, Lines(T))
<1>1. << << >>, << >> >> \in Lines(T)
  <2>1. << >> \in Seq(Byte) /\ << >> \in Seq(Seq(Int))
    OBVIOUS
  <2>2. << << >>, << >> >> \in LinePairs
    BY <2>1 DEF LinePairs
  <2> QED
    BY <2>2 DEF Lines, LineMade
<1>2. ASSUME NEW w \in Lines(T), NEW v \in FieldSpelt(T)
      PROVE  <<(w[1] \o v[1]) \o <<Tab>>, Append(w[2], v[2])>> \in Lines(T)
  <2>1. w \in LinePairs /\ \A Q \in SUBSET LinePairs : LineMade(T, Q) => w \in Q
    BY DEF Lines
  <2>2. v[1] \in Seq(Byte) /\ v[2] \in Seq(Int)
    BY FieldSpeltAre
  <2>3. w[1] \in Seq(Byte) /\ w[2] \in Seq(Seq(Int)) /\ <<Tab>> \in Seq(Byte)
    BY <2>1 DEF LinePairs, Tab, Byte
  <2>4. (w[1] \o v[1]) \o <<Tab>> \in Seq(Byte)
    BY <2>2, <2>3
  <2>5. Append(w[2], v[2]) \in Seq(Seq(Int))
    BY <2>2, <2>3
  <2>6. <<(w[1] \o v[1]) \o <<Tab>>, Append(w[2], v[2])>> \in LinePairs
    BY <2>4, <2>5 DEF LinePairs
  <2> QED
    BY <2>1, <2>6 DEF Lines, LineMade
<1> QED
  BY <1>1, <1>2 DEF LineMade

LEMMA LinesMore ==
  ASSUME NEW T, NEW b, NEW F, <<b, F>> \in Lines(T), NEW x, NEW f, <<x, f>> \in FieldSpelt(T)
  PROVE  <<(b \o x) \o <<Tab>>, Append(F, f)>> \in Lines(T)
<1> DEFINE w == <<b, F>>  v == <<x, f>>
<1>1. <<(w[1] \o v[1]) \o <<Tab>>, Append(w[2], v[2])>> \in Lines(T)
  BY LinesGrow DEF LineMade
<1> QED
  BY <1>1

(* A line has a last field, or none. *)
LastField(T, b, F) ==
  \E a, G, x, f : /\ <<a, G>> \in Lines(T) /\ <<x, f>> \in FieldSpelt(T)
                 /\ b = (a \o x) \o <<Tab>> /\ F = Append(G, f)

LEMMA LastOfLine ==
  ASSUME NEW T, NEW b, NEW F, <<b, F>> \in Lines(T)
  PROVE  (b = << >> /\ F = << >>) \/ LastField(T, b, F)
<1> DEFINE Q == {w \in Lines(T) :
                   \/ w = << << >>, << >> >>
                   \/ \E u \in Lines(T), v \in FieldSpelt(T) :
                        w = <<(u[1] \o v[1]) \o <<Tab>>, Append(u[2], v[2])>>}
<1>1. Q \in SUBSET LinePairs
  BY DEF Lines
<1>2. LineMade(T, Q)
  <2>1. << << >>, << >> >> \in Q
    BY LinesGrow DEF LineMade
  <2>2. \A w \in Q, v \in FieldSpelt(T) :
          <<(w[1] \o v[1]) \o <<Tab>>, Append(w[2], v[2])>> \in Q
    BY LinesGrow DEF LineMade
  <2> HIDE DEF Q
  <2> QED
    BY <2>1, <2>2 DEF LineMade
<1>3. <<b, F>> \in Q
  <2> HIDE DEF Q
  <2> QED
    BY <1>1, <1>2 DEF Lines
<1>4. CASE <<b, F>> = << << >>, << >> >>
  BY <1>4
<1>5. ASSUME NEW u \in Lines(T), NEW v \in FieldSpelt(T),
             <<b, F>> = <<(u[1] \o v[1]) \o <<Tab>>, Append(u[2], v[2])>>
      PROVE  LastField(T, b, F)
  <2>1. u = <<u[1], u[2]>>
    BY DEF Lines, LinePairs
  <2>2. v = <<v[1], v[2]>>
    BY FieldSpeltAre
  <2>3. b = (u[1] \o v[1]) \o <<Tab>> /\ F = Append(u[2], v[2])
    BY <1>5
  <2> QED
    BY <2>1, <2>2, <2>3 DEF LastField
<1> QED
  BY <1>3, <1>4, <1>5

-----------------------------------------------------------------------------
(* States of the loops over a line. *)
LineState == [read : Nat, fields : Seq(Seq(Int)), field : Seq(Int)]

At(n, F, f) == [read |-> n, fields |-> F, field |-> f]

LEMMA StatesAre ==
  ASSUME NEW s \in LineState
  PROVE  /\ s = At(s.read, s.fields, s.field)
         /\ s.read \in Nat /\ s.fields \in Seq(Seq(Int)) /\ s.field \in Seq(Int)
  BY DEF LineState, At

LEMMA StepsOfState ==
  ASSUME NEW s \in LineState
  PROVE  /\ \A n \in Nat, x \in Seq(Int) :
              /\ Taken(s, n, x) = At(s.read + n, s.fields, s.field \o x)
              /\ Taken(s, n, x) \in LineState
         /\ NullTaken(s) = At(s.read + 2, s.fields, NullField) /\ NullTaken(s) \in LineState
         /\ FieldEnded(s) = At(s.read + 1, Append(s.fields, s.field), << >>)
         /\ FieldEnded(s) \in LineState
<1>1. s.read \in Nat /\ s.fields \in Seq(Seq(Int)) /\ s.field \in Seq(Int)
  BY DEF LineState
<1>2. ASSUME NEW n \in Nat, NEW x \in Seq(Int)
      PROVE  /\ Taken(s, n, x) = At(s.read + n, s.fields, s.field \o x)
             /\ Taken(s, n, x) \in LineState
  <2>1. s.field \o x \in Seq(Int) /\ s.read + n \in Nat
    BY <1>1
  <2>3. Taken(s, n, x) = At(s.read + n, s.fields, s.field \o x)
    BY DEF Taken, At
  <2> QED
    BY <1>1, <2>1, <2>3 DEF LineState, At
<1>3. NullTaken(s) = At(s.read + 2, s.fields, NullField) /\ NullTaken(s) \in LineState
  <2>1. NullTaken(s) = At(s.read + 2, s.fields, NullField)
    BY DEF NullTaken, At
  <2>2. NullField \in Seq(Int) /\ s.read + 2 \in Nat
    BY <1>1 DEF NullField
  <2> QED
    BY <1>1, <2>1, <2>2 DEF LineState, At
<1>4. FieldEnded(s) = At(s.read + 1, Append(s.fields, s.field), << >>)
      /\ FieldEnded(s) \in LineState
  <2>1. Append(s.fields, s.field) \in Seq(Seq(Int)) /\ << >> \in Seq(Int) /\ s.read + 1 \in Nat
    BY <1>1
  <2>2. FieldEnded(s) = At(s.read + 1, Append(s.fields, s.field), << >>)
    BY DEF FieldEnded, At
  <2> QED
    BY <2>1, <2>2 DEF LineState, At
<1> QED
  BY <1>2, <1>3, <1>4

LEMMA OccursBoth ==
  ASSUME NEW t \in Seq(Byte), NEW p \in Nat, NEW x \in Seq(Byte), NEW y \in Seq(Byte)
  PROVE  Occurs(x \o y, t, p) <=> Occurs(x, t, p) /\ Occurs(y, t, p + Len(x))
<1> DEFINE z == x \o y
<1>1. /\ Len(z) = Len(x) + Len(y) /\ Len(x) \in Nat /\ Len(y) \in Nat /\ Len(t) \in Nat
      /\ \A i \in 1 .. Len(z) : z[i] = IF i <= Len(x) THEN x[i] ELSE y[i - Len(x)]
  OBVIOUS
<1> HIDE DEF z
<1>2. ASSUME Occurs(z, t, p) PROVE Occurs(x, t, p) /\ Occurs(y, t, p + Len(x))
  <2>1. p + Len(z) <= Len(t) /\ \A i \in 1 .. Len(z) : t[p + i] = z[i]
    BY <1>2 DEF Occurs
  <2>2. \A i \in 1 .. Len(x) : t[p + i] = x[i]
    <3>1. \A i \in 1 .. Len(x) : i \in 1 .. Len(z) /\ i <= Len(x)
      BY <1>1
    <3> QED
      BY <1>1, <2>1, <3>1
  <2>3. ASSUME NEW i \in 1 .. Len(y) PROVE t[(p + Len(x)) + i] = y[i]
    <3>1. Len(x) + i \in 1 .. Len(z) /\ ~(Len(x) + i <= Len(x)) /\ (Len(x) + i) - Len(x) = i
          /\ (p + Len(x)) + i = p + (Len(x) + i)
      BY <1>1
    <3>2. t[p + (Len(x) + i)] = z[Len(x) + i] /\ z[Len(x) + i] = y[(Len(x) + i) - Len(x)]
      BY <1>1, <2>1, <3>1
    <3> QED
      BY <3>1, <3>2
  <2>4. p + Len(x) <= Len(t) /\ (p + Len(x)) + Len(y) <= Len(t)
    BY <1>1, <2>1
  <2> QED
    BY <2>2, <2>3, <2>4 DEF Occurs
<1>3. ASSUME Occurs(x, t, p), Occurs(y, t, p + Len(x)) PROVE Occurs(z, t, p)
  <2>1. (\A i \in 1 .. Len(x) : t[p + i] = x[i]) /\ (p + Len(x)) + Len(y) <= Len(t)
        /\ \A i \in 1 .. Len(y) : t[(p + Len(x)) + i] = y[i]
    BY <1>3 DEF Occurs
  <2>2. ASSUME NEW i \in 1 .. Len(z) PROVE t[p + i] = z[i]
    <3>1. CASE i <= Len(x)
      <4>1. i \in 1 .. Len(x)
        BY <1>1, <3>1
      <4>2. t[p + i] = x[i]
        BY <2>1, <4>1
      <4>3. z[i] = x[i]
        BY <1>1, <3>1
      <4> QED
        BY <4>2, <4>3
    <3>2. CASE ~(i <= Len(x))
      <4>1. i - Len(x) \in 1 .. Len(y) /\ (p + Len(x)) + (i - Len(x)) = p + i
        BY <1>1, <3>2
      <4>2. t[(p + Len(x)) + (i - Len(x))] = y[i - Len(x)]
        BY <2>1, <4>1
      <4> QED
        BY <1>1, <3>2, <4>1, <4>2
    <3> QED
      BY <3>1, <3>2
  <2>3. p + Len(z) <= Len(t)
    BY <1>1, <2>1
  <2> QED
    BY <2>2, <2>3 DEF Occurs
<1> QED
  BY <1>2, <1>3 DEF z

(* A set of states that a loop over the line gets to, token by token. *)
Understands(R, T, line) ==
  /\ R \subseteq LineState /\ LineStart \in R
  /\ \A s \in R :
       /\ \A t \in T : Occurs(t.text, line, s.read) => Taken(s, Len(t.text), t.means) \in R
       /\ Occurs(<<BackSlash, LetterN>>, line, s.read) /\ s.field = << >> => NullTaken(s) \in R
       /\ Occurs(<<Tab>>, line, s.read) => FieldEnded(s) \in R

LEMMA FieldIsRead ==
  ASSUME NEW T \in SUBSET Tokens, NEW line \in Seq(Byte), NEW R, Understands(R, T, line),
         NEW s \in R, s.field = << >>,
         NEW x, NEW f, <<x, f>> \in FieldSpelt(T), Occurs(x, line, s.read)
  PROVE  At(s.read + Len(x), s.fields, f) \in R
<1>1. s \in LineState
  BY DEF Understands
<1>2. CASE <<x, f>> = << <<BackSlash, LetterN>>, NullField>>
  <2>1. NullTaken(s) \in R
    BY <1>2 DEF Understands
  <2>2. Len(x) = 2
    BY <1>2
  <2>3. NullTaken(s) = At(s.read + 2, s.fields, NullField)
    BY <1>1, StepsOfState
  <2> QED
    BY <1>2, <2>1, <2>2, <2>3
<1>3. CASE <<x, f>> \in Spelt(T)
  <2> DEFINE Q == {w \in Pairs : Occurs(w[1], line, s.read) =>
                                   At(s.read + Len(w[1]), s.fields, w[2]) \in R}
  <2>1. << << >>, << >> >> \in Q
    <3>1. s = At(s.read, s.fields, << >>) /\ s.read + 0 = s.read
      BY <1>1, StatesAre
    <3>2. Len(<< >>) = 0 /\ << >> \in Seq(Byte)
      OBVIOUS
    <3>3. At(s.read + Len(<< >>), s.fields, << >>) \in R
      BY <3>1, <3>2
    <3> QED
      BY <3>2, <3>3 DEF Pairs
  <2>2. ASSUME NEW w \in Q, NEW t \in T
        PROVE  <<w[1] \o t.text, w[2] \o t.means>> \in Q
    <3>1. w[1] \in Seq(Byte) /\ w[2] \in Seq(Byte) /\ t.text \in Seq(Byte)
          /\ t.means \in Seq(Byte)
      BY DEF Pairs, Tokens
    <3> DEFINE y == w[1] \o t.text  g == w[2] \o t.means
    <3>2. y \in Seq(Byte) /\ g \in Seq(Byte) /\ Len(y) = Len(w[1]) + Len(t.text)
          /\ Len(w[1]) \in Nat /\ Len(t.text) \in Nat
      BY <3>1
    <3>3. ASSUME Occurs(y, line, s.read) PROVE At(s.read + Len(y), s.fields, g) \in R
      <4>1. Occurs(w[1], line, s.read) /\ Occurs(t.text, line, s.read + Len(w[1]))
        BY <1>1, <3>1, <3>3, OccursBoth, StatesAre
      <4> DEFINE u == At(s.read + Len(w[1]), s.fields, w[2])
      <4>2. u \in R /\ u.read = s.read + Len(w[1]) /\ u.fields = s.fields /\ u.field = w[2]
        BY <4>1 DEF At
      <4> HIDE DEF u
      <4>3. Taken(u, Len(t.text), t.means) \in R
        BY <4>1, <4>2 DEF Understands
      <4>4. u \in LineState /\ t.means \in Seq(Int)
        BY <3>1, <4>2, BytesAreInts DEF Understands
      <4>5. Taken(u, Len(t.text), t.means) = At(u.read + Len(t.text), u.fields, g)
        BY <3>2, <4>2, <4>4, StepsOfState
      <4>6. u.read + Len(t.text) = s.read + Len(y)
        <5>1. s.read \in Nat
          BY <1>1, StatesAre
        <5>2. \A n, k \in Nat : (s.read + n) + k = s.read + (n + k)
          BY <5>1
        <5>3. (s.read + Len(w[1])) + Len(t.text) = s.read + (Len(w[1]) + Len(t.text))
          BY <3>2, <5>2
        <5> QED
          BY <3>2, <4>2, <5>3
      <4> QED
        BY <4>2, <4>3, <4>5, <4>6
    <3>4. <<y, g>> \in Pairs
      BY <3>2 DEF Pairs
    <3> HIDE DEF y, g
    <3>5. <<y, g>> \in Q
      BY <3>3, <3>4
    <3> QED
      BY <3>5 DEF y, g
  <2>3. Q \in SUBSET Pairs /\ MadeOf(T, Q)
    <3>1. Q \in SUBSET Pairs
      OBVIOUS
    <3> HIDE DEF Q
    <3> QED
      BY <2>1, <2>2, <3>1 DEF MadeOf
  <2>4. <<x, f>> \in Q
    <3> HIDE DEF Q
    <3> QED
      BY <1>3, <2>3 DEF Spelt
  <2> QED
    BY <2>4
<1> QED
  BY <1>2, <1>3 DEF FieldSpelt

LEMMA LinesAre ==
  ASSUME NEW T, NEW b, NEW F, <<b, F>> \in Lines(T)
  PROVE  b \in Seq(Byte) /\ F \in Seq(Seq(Int))
  BY DEF Lines, LinePairs

LEMMA LineIsRead ==
  ASSUME NEW T \in SUBSET Tokens, NEW line \in Seq(Byte), NEW R, Understands(R, T, line),
         NEW b, NEW F, <<b, F>> \in Lines(T), Occurs(b, line, 0)
  PROVE  At(Len(b), F, << >>) \in R
<1> DEFINE Q == {w \in LinePairs : Occurs(w[1], line, 0) => At(Len(w[1]), w[2], << >>) \in R}
<1>1. << << >>, << >> >> \in Q
  <2>1. Len(<< >>) = 0 /\ << >> \in Seq(Byte) /\ << >> \in Seq(Seq(Int))
    OBVIOUS
  <2>2. LineStart = At(0, << >>, << >>) /\ LineStart \in R
    BY DEF LineStart, At, Understands
  <2>3. << << >>, << >> >> \in LinePairs
    BY <2>1 DEF LinePairs
  <2> QED
    BY <2>1, <2>2, <2>3
<1>2. ASSUME NEW w \in Q, NEW v \in FieldSpelt(T)
      PROVE  <<(w[1] \o v[1]) \o <<Tab>>, Append(w[2], v[2])>> \in Q
  <2>1. w[1] \in Seq(Byte) /\ w[2] \in Seq(Seq(Int)) /\ <<Tab>> \in Seq(Byte)
    BY DEF LinePairs, Tab, Byte
  <2>2. v = <<v[1], v[2]>> /\ v[1] \in Seq(Byte) /\ v[2] \in Seq(Int)
    BY FieldSpeltAre
  <2> DEFINE x == w[1] \o v[1]  y == x \o <<Tab>>  G == Append(w[2], v[2])
  <2>3. x \in Seq(Byte) /\ Len(x) = Len(w[1]) + Len(v[1])
        /\ Len(w[1]) \in Nat /\ Len(v[1]) \in Nat
    BY <2>1, <2>2
  <2>4. y \in Seq(Byte) /\ Len(y) = Len(x) + 1 /\ Len(x) \in Nat
    <3> HIDE DEF x
    <3>1. x \in Seq(Byte) /\ <<Tab>> \in Seq(Byte) /\ Len(<<Tab>>) = 1
      BY <2>1, <2>3
    <3> QED
      BY <3>1
  <2>5. G \in Seq(Seq(Int))
    BY <2>1, <2>2
  <2>6. ASSUME Occurs(y, line, 0) PROVE At(Len(y), G, << >>) \in R
    <3>1. Occurs(x, line, 0) /\ Occurs(<<Tab>>, line, 0 + Len(x))
      <4> HIDE DEF x
      <4> QED
        BY <2>1, <2>3, <2>6, OccursBoth
    <3>2. Occurs(w[1], line, 0) /\ Occurs(v[1], line, 0 + Len(w[1]))
      BY <2>1, <2>2, <3>1, OccursBoth
    <3> DEFINE u == At(Len(w[1]), w[2], << >>)
    <3>3. u \in R /\ u.read = Len(w[1]) /\ u.fields = w[2] /\ u.field = << >>
      BY <3>2 DEF At
    <3> HIDE DEF u
    <3>4. At(u.read + Len(v[1]), u.fields, v[2]) \in R
      <4>1. 0 + Len(w[1]) = u.read
        BY <2>3, <3>3
      <4>2. <<v[1], v[2]>> \in FieldSpelt(T) /\ Occurs(v[1], line, u.read)
        BY <2>2, <3>2, <4>1
      <4> QED
        BY <3>3, <4>2, FieldIsRead
    <3> DEFINE k == At(Len(x), w[2], v[2])
    <3>5. k \in R /\ k.read = Len(x) /\ k.fields = w[2] /\ k.field = v[2]
      <4>1. u.read + Len(v[1]) = Len(x)
        BY <2>3, <3>3
      <4> HIDE DEF x
      <4> QED
        BY <3>3, <3>4, <4>1 DEF At
    <3> HIDE DEF k
    <3>6. FieldEnded(k) \in R
      <4>1. 0 + Len(x) = k.read
        BY <2>4, <3>5
      <4> HIDE DEF x
      <4> QED
        BY <3>1, <3>5, <4>1 DEF Understands
    <3>7. FieldEnded(k) = At(Len(x) + 1, G, << >>)
      <4>1. k \in LineState
        BY <3>5 DEF Understands
      <4> QED
        BY <3>5, <4>1, StepsOfState
    <3> QED
      BY <2>4, <3>6, <3>7
  <2>7. <<y, G>> \in LinePairs
    BY <2>4, <2>5 DEF LinePairs
  <2> HIDE DEF y, G
  <2>8. <<y, G>> \in Q
    BY <2>6, <2>7
  <2> QED
    BY <2>8 DEF y, x, G
<1>3. Q \in SUBSET LinePairs /\ LineMade(T, Q)
  <2>1. Q \in SUBSET LinePairs
    OBVIOUS
  <2> HIDE DEF Q
  <2> QED
    BY <1>1, <1>2, <2>1 DEF LineMade
<1>4. <<b, F>> \in Q
  <2> HIDE DEF Q
  <2> QED
    BY <1>3 DEF Lines
<1> QED
  BY <1>4

(* A line without its last tab is read to its end. *)
LEMMA FrontIsRead ==
  ASSUME NEW T \in SUBSET Tokens, NEW b, NEW F, <<b, F>> \in Lines(T), F # << >>
  PROVE  /\ b # << >> /\ Front(b) \in Seq(Byte)
         /\ \A R : Understands(R, T, Front(b)) =>
              \E s \in R : s.read = Len(Front(b)) /\ Append(s.fields, s.field) = F
<1>1. PICK a, G, x, f : /\ <<a, G>> \in Lines(T) /\ <<x, f>> \in FieldSpelt(T)
                        /\ b = (a \o x) \o <<Tab>> /\ F = Append(G, f)
  <2>1. LastField(T, b, F)
    BY LastOfLine
  <2> QED
    BY <2>1 DEF LastField
<1>2. a \in Seq(Byte) /\ x \in Seq(Byte)
  <2>1. <<x, f>>[1] \in Seq(Byte)
    BY <1>1, FieldSpeltAre
  <2> QED
    BY <1>1, <2>1, LinesAre
<1> DEFINE y == a \o x
<1>3. y \in Seq(Byte) /\ Len(y) = Len(a) + Len(x) /\ Len(a) \in Nat /\ Len(x) \in Nat
      /\ Len(y) \in Nat
  BY <1>2
<1>4. b = y \o <<Tab>>
  BY <1>1
<1>5. b # << >> /\ Front(b) = y
  <2> HIDE DEF y
  <2>1. <<Tab>> \in Seq(Byte)
    BY DEF Tab, Byte
  <2>2. b \in Seq(Byte) /\ Len(b) = Len(y) + 1 /\ \A i \in 1 .. Len(y) : b[i] = y[i]
    BY <1>3, <1>4, <2>1
  <2>3. b # << >> /\ Len(b) - 1 = Len(y)
    BY <1>3, <2>2
  <2>4. SubSeq(b, 1, Len(y)) \in Seq(Byte) /\ Len(SubSeq(b, 1, Len(y))) = Len(y)
        /\ \A i \in 1 .. Len(y) : SubSeq(b, 1, Len(y))[i] = b[i]
    BY <1>3, <2>2
  <2>5. SubSeq(b, 1, Len(y)) = y
    BY <1>3, <2>2, <2>4, SeqEqual
  <2> QED
    BY <2>3, <2>5 DEF Front
<1>6. ASSUME NEW R, Understands(R, T, Front(b))
      PROVE  \E s \in R : s.read = Len(Front(b)) /\ Append(s.fields, s.field) = F
  <2>1. Occurs(y, y, 0)
    <3> HIDE DEF y
    <3>1. \A i \in 1 .. Len(y) : 0 + i = i
      BY <1>3
    <3> QED
      BY <1>3, <3>1 DEF Occurs
  <2>2. Occurs(a, y, 0) /\ Occurs(x, y, 0 + Len(a))
    BY <1>2, <1>3, <2>1, OccursBoth
  <2> HIDE DEF y
  <2> DEFINE u == At(Len(a), G, << >>)
  <2>3. Understands(R, T, y)
    BY <1>5, <1>6
  <2>4. u \in R
    BY <1>1, <1>3, <2>2, <2>3, LineIsRead
  <2>5. u.read = 0 + Len(a) /\ u.fields = G /\ u.field = << >>
    BY <1>3 DEF At
  <2> HIDE DEF u
  <2>6. At(u.read + Len(x), u.fields, f) \in R
    BY <1>1, <1>3, <2>2, <2>3, <2>4, <2>5, FieldIsRead
  <2> DEFINE k == At(u.read + Len(x), u.fields, f)
  <2>7. k.read = Len(y) /\ k.fields = G /\ k.field = f
    BY <1>3, <2>5 DEF At
  <2> HIDE DEF k
  <2> QED
    BY <1>1, <1>5, <2>6, <2>7 DEF k
<1> QED
  BY <1>3, <1>5, <1>6

-----------------------------------------------------------------------------
(* What is joined first makes no difference. *)
LEMMA BytesTogether ==
  ASSUME NEW b \in Seq(Byte), NEW u \in Seq(Byte), NEW x \in Seq(Byte), NEW c \in Byte
  PROVE  b \o (u \o (x \o <<c>>)) = ((b \o u) \o x) \o <<c>>
<1>1. u \o (x \o <<c>>) = (u \o x) \o <<c>>
  BY ConcatAssociative
<1> QED
  BY <1>1, ConcatAssociative

LEMMA FieldsTogether ==
  ASSUME NEW G \in Seq(Seq(Int)), NEW f \in Seq(Seq(Int)), NEW h \in Seq(Int)
  PROVE  G \o Append(f, h) = Append(G \o f, h)
<1>1. Append(f, h) = f \o <<h>> /\ G \o f \in Seq(Seq(Int)) /\ <<h>> \in Seq(Seq(Int))
  BY AppendIsConcat, ConcatProperties
<1>2. Append(G \o f, h) = (G \o f) \o <<h>>
  BY <1>1, AppendIsConcat
<1>3. G \o (f \o <<h>>) = (G \o f) \o <<h>>
  BY <1>1, ConcatAssociative
<1> QED
  BY <1>1, <1>2, <1>3

LEMMA JoinsOne ==
  ASSUME NEW T, NEW b \in Seq(Byte), NEW u \in Seq(Byte), NEW x \in Seq(Byte),
         NEW G \in Seq(Seq(Int)), NEW f \in Seq(Seq(Int)), NEW h \in Seq(Int),
         <<b \o u, G \o f>> \in Lines(T), <<x, h>> \in FieldSpelt(T)
  PROVE  <<b \o (u \o (x \o <<Tab>>)), G \o Append(f, h)>> \in Lines(T)
<1> DEFINE B == b \o u  H == G \o f
<1>1. b \o (u \o (x \o <<Tab>>)) = (B \o x) \o <<Tab>>
  <2>1. Tab \in Byte
    BY DEF Tab, Byte
  <2> QED
    BY <2>1, BytesTogether
<1>2. G \o Append(f, h) = Append(H, h)
  BY FieldsTogether
<1>3. <<B, H>> \in Lines(T)
  OBVIOUS
<1> HIDE DEF B, H
<1>4. <<(B \o x) \o <<Tab>>, Append(H, h)>> \in Lines(T)
  BY <1>3, LinesMore
<1> QED
  BY <1>1, <1>2, <1>4

(* The fields of a row, one behind the other. *)
LEMMA Joins ==
  ASSUME NEW T \in SUBSET Tokens, NEW b, NEW G, <<b, G>> \in Lines(T),
         NEW F \in Seq(Seq(Int)), NEW Y \in Seq(Seq(Byte)), Len(Y) = Len(F),
         \A i \in 1 .. Len(F) : \E x : Y[i] = x \o <<Tab>> /\ <<x, F[i]>> \in FieldSpelt(T)
  PROVE  <<b \o FlattenSeq(Y), G \o F>> \in Lines(T)
<1> DEFINE n == Len(F)
           B(k) == b \o FlattenSeq(SubSeq(Y, 1, k))
           H(k) == G \o SubSeq(F, 1, k)
           S == {k \in 0 .. n : <<B(k), H(k)>> \in Lines(T)}
<1>1. n \in Nat /\ b \in Seq(Byte) /\ G \in Seq(Seq(Int))
  BY LinesAre
<1>2. 0 \in S
  <2>1. SubSeq(Y, 1, 0) = << >> /\ SubSeq(F, 1, 0) = << >>
    BY OneMore
  <2>2. B(0) = b /\ H(0) = G
    BY <1>1, <2>1, FlattenNone, ConcatEmptySeq
  <2> HIDE DEF B, H
  <2>3. <<B(0), H(0)>> \in Lines(T) /\ 0 \in 0 .. n
    BY <1>1, <2>2
  <2> QED
    BY <2>3
<1>3. ASSUME NEW k \in 1 .. n, k - 1 \in S PROVE k \in S
  <2> DEFINE y == SubSeq(Y, 1, k - 1)  f == SubSeq(F, 1, k - 1)
  <2>1. /\ SubSeq(Y, 1, k) = Append(y, Y[k]) /\ y \in Seq(Seq(Byte)) /\ Y[k] \in Seq(Byte)
        /\ SubSeq(F, 1, k) = Append(f, F[k]) /\ f \in Seq(Seq(Int)) /\ F[k] \in Seq(Int)
    <3>1. k \in 1 .. Len(Y) /\ k \in 1 .. Len(F) /\ Y[k] \in Seq(Byte) /\ F[k] \in Seq(Int)
      OBVIOUS
    <3>2. SubSeq(Y, 1, k) = Append(y, Y[k]) /\ y \in Seq(Seq(Byte))
      BY <3>1, OneMore
    <3>3. SubSeq(F, 1, k) = Append(f, F[k]) /\ f \in Seq(Seq(Int))
      BY <3>1, OneMore
    <3> QED
      BY <3>1, <3>2, <3>3
  <2> HIDE DEF y, f
  <2>2. PICK x : Y[k] = x \o <<Tab>> /\ <<x, F[k]>> \in FieldSpelt(T)
    OBVIOUS
  <2>3. x \in Seq(Byte) /\ <<Tab>> \in Seq(Byte)
    <3>1. <<x, F[k]>>[1] \in Seq(Byte)
      BY <2>2, FieldSpeltAre
    <3> QED
      BY <3>1 DEF Tab, Byte
  <2>4. FlattenSeq(Append(y, Y[k])) = FlattenSeq(y) \o Y[k] /\ FlattenSeq(y) \in Seq(Byte)
    BY <2>1, FlattenMore
  <2> DEFINE u == FlattenSeq(y)  z == x \o <<Tab>>  h == F[k]
  <2>5. B(k - 1) = b \o u /\ B(k) = b \o (u \o z) /\ H(k - 1) = G \o f
        /\ H(k) = G \o Append(f, h) /\ u \in Seq(Byte) /\ h \in Seq(Int)
    BY <2>1, <2>2, <2>4 DEF y, f
  <2>6. <<x, h>> \in FieldSpelt(T)
    BY <2>2
  <2> HIDE DEF B, H, u, h
  <2>7. <<b \o u, G \o f>> \in Lines(T)
    BY <1>3, <2>5
  <2>8. <<b \o (u \o z), G \o Append(f, h)>> \in Lines(T)
    BY <1>1, <2>1, <2>3, <2>5, <2>6, <2>7, JoinsOne
  <2> HIDE DEF z
  <2>9. <<B(k), H(k)>> \in Lines(T) /\ k \in 0 .. n
    BY <1>1, <2>5, <2>8
  <2> QED
    BY <2>9
<1>4. 0 .. n \subseteq S
  <2> HIDE DEF S
  <2> QED
    BY <1>1, <1>2, <1>3, AllPlaces
<1>5. n \in 0 .. n /\ n \in S
  <2> HIDE DEF S
  <2> QED
    BY <1>1, <1>4
<1>6. SubSeq(Y, 1, n) = Y /\ SubSeq(F, 1, n) = F
  BY OneMore
<1> QED
  BY <1>5, <1>6

(* Bytes, one after the other, as escape_field_to_buffer writes them. *)
LEMMA ByteIsToken ==
  ASSUME NEW e, SelfDelimiting(e), NEW c \in Byte
  PROVE  Token(EscapedByte(c), <<c>>) \in ServerTokens(e) /\ EscapedByte(c) \in Seq(Byte)
<1>1. Token(EscapedByte(c), <<c>>) \in ServerTokens(e)
  <2>1. CASE HasLetter(c)
    <3>1. c \in Marked \ {BackSlash}
      BY <2>1, LettersAre
    <3>2. EscapedByte(c) = <<BackSlash, LetterOf(c)>>
      BY <2>1 DEF EscapedByte
    <3> QED
      BY <3>1, <3>2 DEF ServerTokens, Escapes
  <2>2. CASE c = BackSlash
    <3>1. ~HasLetter(c)
      BY <2>2, LettersAre
    <3>2. EscapedByte(c) = <<BackSlash, BackSlash>>
      BY <2>2, <3>1 DEF EscapedByte
    <3> QED
      BY <2>2, <3>2 DEF ServerTokens, Escapes
  <2>3. CASE ~HasLetter(c) /\ c # BackSlash /\ (c < 32 \/ c > 126)
    <3>1. EscapedByte(c) = OctalOf(c)
      BY <2>3 DEF EscapedByte, OctalOf
    <3> QED
      BY <3>1 DEF ServerTokens, Octals
  <2>4. CASE ~HasLetter(c) /\ c # BackSlash /\ ~(c < 32 \/ c > 126)
    <3>1. EscapedByte(c) = <<c>>
      BY <2>4 DEF EscapedByte
    <3>2. c \in Ascii /\ c \notin Marked
      BY <2>4, LettersAre DEF Byte, Ascii
    <3>3. IsChar(e, <<c>>) /\ <<c>> \in Seq(Byte) /\ <<c>>[1] \notin Marked
      BY <3>2, AsciiIsChar
    <3> QED
      BY <3>1, <3>3 DEF ServerTokens, Plain
  <2> QED
    BY <2>1, <2>2, <2>3, <2>4
<1>2. Token(EscapedByte(c), <<c>>) \in Tokens
  BY <1>1, TokensAre
<1> QED
  BY <1>1, <1>2 DEF Token, Tokens

LEMMA BytesAreSpelt ==
  ASSUME NEW e, SelfDelimiting(e), NEW f \in Seq(Byte)
  PROVE  <<FlattenSeq([j \in DOMAIN f |-> EscapedByte(f[j])]), f>> \in Spelt(ServerTokens(e))
<1> DEFINE n == Len(f)  T == ServerTokens(e)
           Y == [j \in DOMAIN f |-> EscapedByte(f[j])]
           B(k) == FlattenSeq(SubSeq(Y, 1, k))
           H(k) == SubSeq(f, 1, k)
           S == {k \in 0 .. n : <<B(k), H(k)>> \in Spelt(T)}
<1>1. n \in Nat /\ DOMAIN f = 1 .. n /\ \A i \in 1 .. n : f[i] \in Byte
  OBVIOUS
<1>2. T \in SUBSET Tokens
  BY TokensAre
<1> HIDE DEF T
<1>3. Y \in Seq(Seq(Byte)) /\ Len(Y) = n /\ \A i \in 1 .. n : Y[i] = EscapedByte(f[i])
  <2>1. \A i \in 1 .. n : EscapedByte(f[i]) \in Seq(Byte)
    BY <1>1, ByteIsToken
  <2> QED
    BY <1>1, <2>1
<1> HIDE DEF Y
<1>4. 0 \in S
  <2>1. SubSeq(Y, 1, 0) = << >> /\ SubSeq(f, 1, 0) = << >>
    BY <1>3, OneMore
  <2>2. << << >>, << >> >> \in Spelt(T)
    BY <1>2, SpeltGrows DEF MadeOf
  <2>3. B(0) = << >> /\ H(0) = << >>
    BY <2>1, FlattenNone
  <2> HIDE DEF B, H
  <2>4. <<B(0), H(0)>> \in Spelt(T) /\ 0 \in 0 .. n
    BY <1>1, <2>2, <2>3
  <2> QED
    BY <2>4
<1>5. ASSUME NEW k \in 1 .. n, k - 1 \in S PROVE k \in S
  <2> DEFINE y == SubSeq(Y, 1, k - 1)  g == SubSeq(f, 1, k - 1)  t == Token(Y[k], <<f[k]>>)
  <2>1. /\ SubSeq(Y, 1, k) = Append(y, Y[k]) /\ y \in Seq(Seq(Byte)) /\ Y[k] \in Seq(Byte)
    BY <1>3, OneMore
  <2>2. SubSeq(f, 1, k) = Append(g, f[k]) /\ g \in Seq(Byte) /\ f[k] \in Byte
    BY OneMore
  <2>3. t \in T
    BY <1>1, <1>3, <2>2, ByteIsToken DEF T
  <2>4. B(k - 1) = FlattenSeq(y) /\ H(k - 1) = g
    BY DEF y, g
  <2>5. B(k) = FlattenSeq(y) \o Y[k] /\ H(k) = g \o <<f[k]>>
    <3> HIDE DEF y, g
    <3>1. FlattenSeq(Append(y, Y[k])) = FlattenSeq(y) \o Y[k]
      BY <2>1, FlattenMore
    <3>2. Append(g, f[k]) = g \o <<f[k]>>
      BY <2>2, AppendIsConcat
    <3> QED
      BY <2>1, <2>2, <3>1, <3>2
  <2>6. t.text = Y[k] /\ t.means = <<f[k]>>
    BY DEF Token
  <2> HIDE DEF B, H, t
  <2>7. <<B(k - 1) \o t.text, H(k - 1) \o t.means>> \in Spelt(T)
    BY <1>2, <1>5, <2>3, SpeltMore
  <2>8. B(k) = B(k - 1) \o t.text /\ H(k) = H(k - 1) \o t.means
    BY <2>4, <2>5, <2>6
  <2>9. <<B(k), H(k)>> \in Spelt(T) /\ k \in 0 .. n
    BY <1>1, <2>7, <2>8
  <2> QED
    BY <2>9
<1>6. 0 .. n \subseteq S
  <2> HIDE DEF S
  <2> QED
    BY <1>1, <1>4, <1>5, AllPlaces
<1>7. n \in 0 .. n /\ n \in S
  <2> HIDE DEF S
  <2> QED
    BY <1>1, <1>6
<1>8. SubSeq(Y, 1, n) = Y /\ SubSeq(f, 1, n) = f
  BY <1>3, OneMore
<1> QED
  BY <1>7, <1>8 DEF Y, T

(* A row that the program writes, behind what there is in the buffer. *)
IsField(e, f) == f = NullField \/ IsText(e, f)

LEMMA FieldsAreInts ==
  ASSUME NEW e, NEW f, IsField(e, f)
  PROVE  f \in Seq(Int) /\ (f # NullField => f \in Seq(Byte))
<1>1. CASE f = NullField
  BY <1>1 DEF NullField
<1>2. CASE f # NullField
  <2>1. f \in Seq(Byte)
    BY <1>2 DEF IsField, IsText
  <2> QED
    BY <1>2, <2>1, BytesAreInts
<1> QED
  BY <1>1, <1>2

LEMMA AppendedIsLine ==
  ASSUME NEW e, SelfDelimiting(e), NEW b, NEW G, <<b, G>> \in Lines(ServerTokens(e)),
         NEW F \in Seq(Seq(Int)), \A i \in 1 .. Len(F) : IsField(e, F[i])
  PROVE  <<Appended(b, F), G \o F>> \in Lines(ServerTokens(e))
<1> DEFINE X(i) == IF F[i] = NullField THEN <<BackSlash, LetterN>>
                   ELSE FlattenSeq([j \in DOMAIN F[i] |-> EscapedByte(F[i][j])])
           Y == [i \in DOMAIN F |-> X(i) \o <<Tab>>]
           T == ServerTokens(e)
<1>1. Appended(b, F) = b \o FlattenSeq(Y)
  BY DEF Appended
<1>2. ASSUME NEW i \in 1 .. Len(F) PROVE <<X(i), F[i]>> \in FieldSpelt(T)
  <2>1. CASE F[i] = NullField
    BY <2>1 DEF FieldSpelt
  <2>2. CASE F[i] # NullField
    <3>1. F[i] \in Seq(Byte)
      BY <2>2, FieldsAreInts
    <3>2. <<FlattenSeq([j \in DOMAIN F[i] |-> EscapedByte(F[i][j])]), F[i]>> \in Spelt(T)
      BY <3>1, BytesAreSpelt
    <3> QED
      BY <2>2, <3>2 DEF FieldSpelt
  <2> QED
    BY <2>1, <2>2
<1> HIDE DEF X, T
<1>3. ASSUME NEW i \in 1 .. Len(F) PROVE X(i) \o <<Tab>> \in Seq(Byte)
  <2>1. <<X(i), F[i]>>[1] \in Seq(Byte)
    BY <1>2, FieldSpeltAre
  <2>2. X(i) \in Seq(Byte) /\ <<Tab>> \in Seq(Byte)
    BY <2>1 DEF Tab, Byte
  <2> QED
    BY <2>2, ConcatProperties
<1>4. Len(F) \in Nat /\ DOMAIN F = 1 .. Len(F)
  OBVIOUS
<1>5. Y \in Seq(Seq(Byte)) /\ Len(Y) = Len(F) /\ \A i \in 1 .. Len(F) : Y[i] = X(i) \o <<Tab>>
  BY <1>3, <1>4
<1> HIDE DEF Y
<1>6. T \in SUBSET Tokens /\ <<b, G>> \in Lines(T)
  BY TokensAre DEF T
<1>7. <<b \o FlattenSeq(Y), G \o F>> \in Lines(T)
  BY <1>2, <1>5, <1>6, Joins
<1> QED
  BY <1>1, <1>7 DEF T

-----------------------------------------------------------------------------
(* A loop, as the function of its rounds. *)
Rounds(g, n, s, F) == g[0] = s /\ \A k \in 1 .. n : g[k] = F[g[k - 1]]

LEMMA LoopRuns ==
  ASSUME NEW S, NEW n \in Nat, NEW s \in S, NEW F \in [S -> S]
  PROVE  \E g \in [0 .. n -> S] : Rounds(g, n, s, F)
<1> DEFINE H == [x \in (1 .. n) \X S |-> F[x[2]]]
<1>1. H \in [(1 .. n) \X S -> S] /\ \A k \in 1 .. n, x \in S : H[<<k, x>>] = F[x]
  OBVIOUS
<1> HIDE DEF H
<1>2. PICK g \in [0 .. n -> S] : Along(g, n, s, H)
  BY <1>1, StepsAlong
<1>3. \A k \in 1 .. n : k - 1 \in 0 .. n
  OBVIOUS
<1>4. \A k \in 1 .. n : g[k] = F[g[k - 1]]
  BY <1>1, <1>2, <1>3 DEF Along
<1> QED
  BY <1>2, <1>4 DEF Rounds, Along

(* What a round does where a token, a null or a tab is. *)
Takes(F, T, line) ==
  \A s \in LineState :
    /\ s.read >= Len(line) => F[s] = s
    /\ \A t \in T : Occurs(t.text, line, s.read) =>
         Len(t.text) > 0 /\ F[s] = Taken(s, Len(t.text), t.means)
    /\ Occurs(<<BackSlash, LetterN>>, line, s.read) /\ s.field = << >> => F[s] = NullTaken(s)
    /\ Occurs(<<Tab>>, line, s.read) => F[s] = FieldEnded(s)

(* The states that it reaches in as many rounds as there are bytes. *)
Reached(g, line) ==
  {s \in LineState : s.read <= Len(line) /\ \E k \in 0 .. s.read : g[k] = s}

LEMMA LoopUnderstands ==
  ASSUME NEW T \in SUBSET Tokens, NEW line \in Seq(Byte), NEW F \in [LineState -> LineState],
         Takes(F, T, line), NEW g, Rounds(g, Len(line), LineStart, F)
  PROVE  Understands(Reached(g, line), T, line)
<1> DEFINE R == Reached(g, line)  n == Len(line)
<1>1. n \in Nat
  OBVIOUS
<1>2. R \subseteq LineState
  BY DEF Reached
<1>3. LineStart \in R
  <2>1. LineStart \in LineState /\ LineStart.read = 0
    <3>1. << >> \in Seq(Seq(Int)) /\ << >> \in Seq(Int)
      OBVIOUS
    <3> QED
      BY <3>1 DEF LineStart, LineState
  <2>2. g[0] = LineStart
    BY DEF Rounds
  <2> QED
    BY <1>1, <2>1, <2>2 DEF Reached
<1>4. ASSUME NEW s \in R, NEW m \in Nat, m > 0, s.read + m <= n,
             F[s] \in LineState, F[s].read = s.read + m
      PROVE  F[s] \in R
  <2>1. PICK k \in 0 .. s.read : g[k] = s
    BY DEF Reached
  <2>2. s.read \in Nat /\ s.read <= n
    BY DEF Reached, LineState
  <2>4. k + 1 \in 1 .. n /\ (k + 1) - 1 = k /\ k + 1 \in 0 .. (s.read + m)
    BY <1>1, <1>4, <2>1, <2>2
  <2>5. g[k + 1] = F[s]
    BY <2>1, <2>4 DEF Rounds
  <2>6. k + 1 \in 0 .. F[s].read /\ F[s].read <= Len(line)
    BY <1>4, <2>4
  <2> QED
    BY <1>4, <2>5, <2>6 DEF Reached
<1>5. ASSUME NEW s \in R, NEW t \in T, Occurs(t.text, line, s.read)
      PROVE  Taken(s, Len(t.text), t.means) \in R
  <2>1. s \in LineState /\ t.text \in Seq(Byte) /\ t.means \in Seq(Byte) /\ Len(t.text) \in Nat
    BY <1>2 DEF Tokens
  <2>2. Len(t.text) > 0 /\ F[s] = Taken(s, Len(t.text), t.means)
    BY <1>5, <2>1 DEF Takes
  <2>3. F[s] \in LineState
    BY <2>1
  <2>4. F[s].read = s.read + Len(t.text)
    BY <2>2 DEF Taken
  <2>5. s.read + Len(t.text) <= n
    BY <1>5 DEF Occurs
  <2> QED
    BY <1>4, <2>1, <2>2, <2>3, <2>4, <2>5
<1>6. ASSUME NEW s \in R, Occurs(<<BackSlash, LetterN>>, line, s.read), s.field = << >>
      PROVE  NullTaken(s) \in R
  <2>1. s \in LineState
    BY <1>2
  <2>2. F[s] = NullTaken(s) /\ F[s] \in LineState
    BY <1>6, <2>1 DEF Takes
  <2>3. F[s].read = s.read + 2
    BY <2>2 DEF NullTaken
  <2>4. s.read + 2 <= n
    BY <1>6 DEF Occurs
  <2> QED
    BY <1>4, <2>2, <2>3, <2>4
<1>7. ASSUME NEW s \in R, Occurs(<<Tab>>, line, s.read)
      PROVE  FieldEnded(s) \in R
  <2>1. s \in LineState
    BY <1>2
  <2>2. F[s] = FieldEnded(s) /\ F[s] \in LineState
    BY <1>7, <2>1 DEF Takes
  <2>3. F[s].read = s.read + 1
    BY <2>2 DEF FieldEnded
  <2>4. s.read + 1 <= n
    BY <1>7 DEF Occurs
  <2> QED
    BY <1>4, <2>2, <2>3, <2>4
<1> HIDE DEF R
<1> QED
  BY <1>2, <1>3, <1>5, <1>6, <1>7 DEF Understands, R

(* At the end of the line the loop stays where it is. *)
LEMMA LoopEnds ==
  ASSUME NEW T \in SUBSET Tokens, NEW line \in Seq(Byte), NEW F \in [LineState -> LineState],
         Takes(F, T, line), NEW g, Rounds(g, Len(line), LineStart, F),
         NEW s \in Reached(g, line), s.read = Len(line)
  PROVE  g[Len(line)] = s
<1> DEFINE n == Len(line)
<1>1. n \in Nat /\ s \in LineState /\ s.read >= Len(line)
  BY DEF Reached
<1>2. PICK k \in 0 .. n : g[k] = s
  BY DEF Reached
<1>3. F[s] = s
  BY <1>1 DEF Takes
<1> DEFINE S == {j \in 0 .. n : j >= k => g[j] = s}
<1>4. 0 \in S
  BY <1>1, <1>2
<1>5. ASSUME NEW j \in 1 .. n, j - 1 \in S PROVE j \in S
  <2>1. g[j] = F[g[j - 1]]
    BY DEF Rounds
  <2>2. CASE j - 1 >= k
    BY <1>3, <1>5, <2>1, <2>2
  <2>3. CASE ~(j - 1 >= k)
    <3>1. j >= k => j = k
      BY <2>3
    <3> QED
      BY <1>2, <3>1
  <2> QED
    BY <2>2, <2>3
<1>6. 0 .. n \subseteq S
  <2> HIDE DEF S
  <2> QED
    BY <1>1, <1>4, <1>5, AllPlaces
<1>7. n \in S
  <2>1. n \in 0 .. n
    BY <1>1
  <2> HIDE DEF S
  <2> QED
    BY <1>6, <2>1
<1>8. n >= k
  BY <1>1, <1>2
<1> QED
  BY <1>7, <1>8

(* So the fields of a line are what they were put together from. *)
LEMMA LoopReadsFields ==
  ASSUME NEW T \in SUBSET Tokens, NEW b, NEW G, <<b, G>> \in Lines(T), G # << >>,
         NEW F \in [LineState -> LineState], Takes(F, T, Front(b)),
         NEW g, Rounds(g, Len(Front(b)), LineStart, F)
  PROVE  Append(g[Len(Front(b))].fields, g[Len(Front(b))].field) = G
<1> DEFINE line == Front(b)
<1>1. line \in Seq(Byte) /\ \A R : Understands(R, T, line) =>
        \E s \in R : s.read = Len(line) /\ Append(s.fields, s.field) = G
  BY FrontIsRead
<1> HIDE DEF line
<1>2. Understands(Reached(g, line), T, line)
  BY <1>1, LoopUnderstands DEF line
<1>3. PICK s \in Reached(g, line) : s.read = Len(line) /\ Append(s.fields, s.field) = G
  BY <1>1, <1>2
<1>4. g[Len(line)] = s
  BY <1>1, <1>3, LoopEnds DEF line
<1> QED
  BY <1>3, <1>4 DEF line

-----------------------------------------------------------------------------
(* Rounds of the server and of the client. *)
LEMMA BytesIn ==
  ASSUME NEW line \in Seq(Byte), NEW p \in Nat, NEW x \in Seq(Byte), Occurs(x, line, p)
  PROVE  /\ p + Len(x) <= Len(line) /\ Len(x) \in Nat /\ Len(line) \in Nat
         /\ \A i \in 0 .. Len(x) - 1 : ByteIn(line, p + i) = x[i + 1]
<1>1. Len(x) \in Nat /\ Len(line) \in Nat /\ p + Len(x) <= Len(line)
  BY DEF Occurs
<1>2. ASSUME NEW i \in 0 .. Len(x) - 1 PROVE ByteIn(line, p + i) = x[i + 1]
  <2>1. i + 1 \in 1 .. Len(x) /\ p + i < Len(line) /\ (p + i) + 1 = p + (i + 1)
    BY <1>1
  <2>2. line[p + (i + 1)] = x[i + 1]
    BY <2>1 DEF Occurs
  <2> QED
    BY <2>1, <2>2 DEF ByteIn
<1> QED
  BY <1>1, <1>2

LEMMA AsciiScans ==
  ASSUME NEW e, SelfDelimiting(e), NEW line \in Seq(Byte), NEW p \in Nat, p < Len(line),
         ByteIn(line, p) \in Ascii
  PROVE  Scan(e, line, p) = p + 1
<1> DEFINE c == ByteIn(line, p)
<1>1. c = line[p + 1] /\ c \in Ascii
  BY DEF ByteIn
<1> HIDE DEF c
<1>2. Occurs(<<c>>, line, p)
  <2>1. Len(line) \in Nat /\ Len(<<c>>) = 1 /\ <<c>>[1] = c
    OBVIOUS
  <2> QED
    BY <1>1, <2>1 DEF Occurs
<1>3. IsChar(e, <<c>>) /\ <<c>> \in Seq(Byte)
  BY <1>1, AsciiIsChar
<1>4. Scan(e, line, p) = p + Len(<<c>>)
  BY <1>2, <1>3, CharScans
<1> QED
  BY <1>4

(* Two bytes with a backslash first. *)
LEMMA EscapeOccurs ==
  ASSUME NEW e, SelfDelimiting(e), NEW line \in Seq(Byte), NEW p \in Nat,
         NEW x \in Seq(Byte), Len(x) >= 2, x[1] = BackSlash, Occurs(x, line, p)
  PROVE  /\ p < Len(line) /\ p + 2 <= Len(line) /\ p + Len(x) <= Len(line)
         /\ Scan(e, line, p) = p + 1
         /\ ByteIn(line, p) = BackSlash /\ ByteIn(line, p + 1) = x[2]
<1>1. /\ p + Len(x) <= Len(line) /\ Len(x) \in Nat /\ Len(line) \in Nat
      /\ \A i \in 0 .. Len(x) - 1 : ByteIn(line, p + i) = x[i + 1]
  BY BytesIn
<1>2. 0 \in 0 .. Len(x) - 1 /\ 1 \in 0 .. Len(x) - 1
  BY <1>1
<1>3. ByteIn(line, p) = BackSlash /\ ByteIn(line, p + 1) = x[2]
  <2>1. ByteIn(line, p + 0) = x[0 + 1] /\ ByteIn(line, p + 1) = x[1 + 1]
    BY <1>1, <1>2
  <2> QED
    BY <2>1
<1>4. p < Len(line) /\ p + 2 <= Len(line)
  BY <1>1
<1>5. Scan(e, line, p) = p + 1
  <2>1. BackSlash \in Ascii
    BY DEF BackSlash, Ascii
  <2> QED
    BY <1>3, <1>4, <2>1, AsciiScans
<1> QED
  BY <1>1, <1>3, <1>4, <1>5

(* A character that COPY does not mark. *)
LEMMA PlainOccurs ==
  ASSUME NEW e, SelfDelimiting(e), NEW line \in Seq(Byte), NEW p \in Nat,
         NEW x \in Seq(Byte), IsChar(e, x), x[1] \notin Marked, Occurs(x, line, p)
  PROVE  /\ p < Len(line) /\ Len(x) \in 1 .. 4 /\ Scan(e, line, p) = p + Len(x)
         /\ SubSeq(line, p + 1, p + Len(x)) = x
         /\ Len(x) = 1 => /\ x = <<ByteIn(line, p)>>
                          /\ ByteIn(line, p) # Tab /\ ByteIn(line, p) # BackSlash
<1>1. Scan(e, line, p) = p + Len(x) /\ Len(x) \in 1 .. 4
  BY CharScans
<1>2. /\ p + Len(x) <= Len(line) /\ Len(line) \in Nat
      /\ \A i \in 1 .. Len(x) : line[p + i] = x[i]
  BY DEF Occurs
<1>3. SubSeq(line, p + 1, p + Len(x)) = x
  <2> DEFINE y == SubSeq(line, p + 1, p + Len(x))
  <2>1. y \in Seq(Byte) /\ Len(y) = Len(x) /\ \A i \in 1 .. Len(x) : y[i] = line[p + i]
    BY <1>1, <1>2
  <2> HIDE DEF y
  <2>2. \A i \in 1 .. Len(x) : y[i] = x[i]
    BY <1>2, <2>1
  <2>3. y = x
    BY <2>1, <2>2, SeqEqual
  <2> QED
    BY <2>3 DEF y
<1>4. p < Len(line)
  BY <1>1, <1>2
<1>5. ByteIn(line, p) = x[1]
  <2>1. 1 \in 1 .. Len(x)
    BY <1>1
  <2> QED
    BY <1>2, <1>4, <2>1 DEF ByteIn
<1>6. ASSUME Len(x) = 1 PROVE x = <<ByteIn(line, p)>>
  BY <1>5, <1>6
<1>7. ByteIn(line, p) # Tab /\ ByteIn(line, p) # BackSlash
  BY <1>5 DEF Marked, Tab, BackSlash
<1> QED
  BY <1>1, <1>3, <1>4, <1>6, <1>7

LEMMA TabOccurs ==
  ASSUME NEW e, SelfDelimiting(e), NEW line \in Seq(Byte), NEW p \in Nat,
         Occurs(<<Tab>>, line, p)
  PROVE  p < Len(line) /\ Scan(e, line, p) = p + 1 /\ ByteIn(line, p) = Tab
<1>1. p + 1 <= Len(line) /\ line[p + 1] = Tab
  <2>1. Len(<<Tab>>) = 1 /\ <<Tab>>[1] = Tab
    OBVIOUS
  <2> QED
    BY <2>1 DEF Occurs
<1>2. p < Len(line) /\ ByteIn(line, p) = Tab
  <2>1. Len(line) \in Nat
    OBVIOUS
  <2> QED
    BY <1>1, <2>1 DEF ByteIn
<1> QED
  BY <1>2, AsciiScans DEF Tab, Ascii

(* The next byte is one, or there is none. *)
LEMMA ByteInIs ==
  ASSUME NEW line \in Seq(Byte), NEW p \in Nat
  PROVE  ByteIn(line, p) \in Int /\ (p < Len(line) => ByteIn(line, p) \in Byte)
<1> DEFINE c == ByteIn(line, p)
<1>1. p < Len(line) => c \in Byte
  <2>1. p < Len(line) => line[p + 1] \in Byte
    OBVIOUS
  <2> QED
    BY <2>1 DEF ByteIn
<1>2. ~(p < Len(line)) => c = -1
  BY DEF ByteIn
<1> HIDE DEF c
<1>3. c \in Int
  <2>1. Byte \subseteq Int /\ -1 \in Int
    BY DEF Byte
  <2> QED
    BY <1>1, <1>2, <2>1, Zenon
<1> QED
  BY <1>1, <1>3 DEF c

LEMMA MeansByte ==
  ASSUME NEW c \in Int
  PROVE  (IF IsLetter(c) THEN CharOf(c) ELSE c) \in Int
<1>1. CASE IsLetter(c)
  <2> DEFINE k == CHOOSE m \in Letters : m[2] = c
  <2>1. \E m \in Letters : m[2] = c
    BY <1>1 DEF IsLetter
  <2>2. k \in Letters
    BY <2>1
  <2> HIDE DEF k
  <2>3. k[1] \in Int
    BY <2>2 DEF Letters
  <2> QED
    BY <1>1, <2>3 DEF CharOf, k
<1> QED
  BY <1>1

(* A round of COPY FROM. *)
LEMMA StoreKeepsType ==
  ASSUME SelfDelimiting(encoding), NEW line \in Seq(Byte), NEW s \in LineState
  PROVE  StoreNext(line, s) \in LineState
<1> DEFINE p == s.read  next == Scan(encoding, line, p)
           c == ByteIn(line, p)  e == ByteIn(line, p + 1)
           octal(n) == ByteIn(line, p + n) - 48
           octet == octal(1) * 64 + octal(2) * 8 + octal(3)
           means == IF IsLetter(e) THEN CharOf(e) ELSE e
<1>1. p \in Nat /\ Len(line) \in Nat
  BY DEF LineState
<1>2. StoreNext(line, s) =
        IF p >= Len(line) THEN s
        ELSE IF next > p + 1 THEN Taken(s, next - p, SubSeq(line, p + 1, next))
        ELSE IF c = Tab THEN FieldEnded(s)
        ELSE IF c # BackSlash THEN Taken(s, 1, <<c>>)
        ELSE IF e = LetterN THEN NullTaken(s)
        ELSE IF e \in 48 .. 55 THEN Taken(s, 4, <<octet>>)
        ELSE Taken(s, 2, <<means>>)
  BY DEF StoreNext
<1>3. c \in Int /\ means \in Int /\ octet \in Int
  <2>1. \A n \in Nat : ByteIn(line, p + n) \in Int
    BY <1>1, ByteInIs
  <2>2. c \in Int /\ e \in Int
    BY <1>1, ByteInIs
  <2>3. octal(1) \in Int /\ octal(2) \in Int /\ octal(3) \in Int
    BY <2>1
  <2>4. means \in Int
    BY <2>2, MeansByte
  <2> HIDE DEF octal
  <2> QED
    BY <2>2, <2>3, <2>4
<1>4. p < Len(line) /\ next > p + 1 =>
        next - p \in Nat /\ SubSeq(line, p + 1, next) \in Seq(Int)
  <2> SUFFICES ASSUME p < Len(line), next > p + 1
               PROVE  next - p \in Nat /\ SubSeq(line, p + 1, next) \in Seq(Int)
    OBVIOUS
  <2>1. next # Throws
    BY <1>1 DEF Throws
  <2>2. next \in p + 1 .. Len(line) /\ SubSeq(line, p + 1, next) \in Seq(Byte)
    BY <1>1, <2>1, ScanFindsChar
  <2> QED
    BY <1>1, <2>2, BytesAreInts
<1> HIDE DEF c, e, octet, means, next, p
<1>5. <<c>> \in Seq(Int) /\ <<octet>> \in Seq(Int) /\ <<means>> \in Seq(Int)
  BY <1>3
<1>6. /\ Taken(s, 1, <<c>>) \in LineState /\ Taken(s, 4, <<octet>>) \in LineState
      /\ Taken(s, 2, <<means>>) \in LineState
  BY <1>5, StepsOfState
<1>7. p < Len(line) /\ next > p + 1 =>
        Taken(s, next - p, SubSeq(line, p + 1, next)) \in LineState
  BY <1>4, StepsOfState
<1>8. NullTaken(s) \in LineState /\ FieldEnded(s) \in LineState
  BY StepsOfState
<1>9. p >= Len(line) \/ p < Len(line)
  BY <1>1
<1> QED
  BY <1>2, <1>6, <1>7, <1>8, <1>9

LEMMA StoreTakesToken ==
  ASSUME SelfDelimiting(encoding), NEW line \in Seq(Byte), NEW s \in LineState,
         NEW t \in ServerTokens(encoding), Occurs(t.text, line, s.read)
  PROVE  Len(t.text) > 0 /\ StoreNext(line, s) = Taken(s, Len(t.text), t.means)
<1> DEFINE p == s.read  x == t.text
<1>1. p \in Nat /\ Len(line) \in Nat /\ x \in Seq(Byte) /\ Occurs(x, line, p)
  BY TokensAre DEF LineState, Tokens
<1>2. ASSUME NEW c \in Marked \ {BackSlash}, t = Token(<<BackSlash, LetterOf(c)>>, <<c>>)
      PROVE  Len(t.text) > 0 /\ StoreNext(line, s) = Taken(s, Len(t.text), t.means)
  <2>1. t.text = <<BackSlash, LetterOf(c)>> /\ t.means = <<c>> /\ Len(t.text) = 2
        /\ t.text[1] = BackSlash /\ t.text[2] = LetterOf(c)
    BY <1>2 DEF Token
  <2>2. /\ p < Len(line) /\ Scan(encoding, line, p) = p + 1
        /\ ByteIn(line, p) = BackSlash /\ ByteIn(line, p + 1) = LetterOf(c)
    <3>1. Len(x) >= 2 /\ x[1] = BackSlash /\ x[2] = LetterOf(c)
      BY <2>1
    <3> HIDE DEF x, p
    <3> QED
      BY <1>1, <3>1, EscapeOccurs
  <2>3. LetterOf(c) # LetterN /\ LetterOf(c) \notin 48 .. 55 /\ IsLetter(LetterOf(c))
        /\ CharOf(LetterOf(c)) = c
    BY LettersAre DEF LetterN
  <2>4. ~(p >= Len(line)) /\ ~(p + 1 > p + 1) /\ BackSlash # Tab
    BY <1>1, <2>2 DEF Tab, BackSlash
  <2>5. StoreNext(line, s) = Taken(s, 2, <<c>>)
    BY <2>2, <2>3, <2>4 DEF StoreNext
  <2> QED
    BY <2>1, <2>5
<1>3. CASE t = Token(<<BackSlash, BackSlash>>, <<BackSlash>>)
  <2>1. t.text = <<BackSlash, BackSlash>> /\ t.means = <<BackSlash>> /\ Len(t.text) = 2
        /\ t.text[1] = BackSlash /\ t.text[2] = BackSlash
    BY <1>3 DEF Token
  <2>2. /\ p < Len(line) /\ Scan(encoding, line, p) = p + 1
        /\ ByteIn(line, p) = BackSlash /\ ByteIn(line, p + 1) = BackSlash
    <3>1. Len(x) >= 2 /\ x[1] = BackSlash /\ x[2] = BackSlash
      BY <2>1
    <3> HIDE DEF x, p
    <3> QED
      BY <1>1, <3>1, EscapeOccurs
  <2>3. BackSlash # LetterN /\ BackSlash \notin 48 .. 55 /\ ~IsLetter(BackSlash)
    BY LettersAre DEF LetterN, BackSlash
  <2>4. ~(p >= Len(line)) /\ ~(p + 1 > p + 1) /\ BackSlash # Tab
    BY <1>1, <2>2 DEF Tab, BackSlash
  <2>5. StoreNext(line, s) = Taken(s, 2, <<BackSlash>>)
    BY <2>2, <2>3, <2>4 DEF StoreNext
  <2> QED
    BY <2>1, <2>5
<1>4. ASSUME NEW g \in Seq(Byte), IsChar(encoding, g), g[1] \notin Marked, t = Token(g, g)
      PROVE  Len(t.text) > 0 /\ StoreNext(line, s) = Taken(s, Len(t.text), t.means)
  <2>1. t.text = g /\ t.means = g /\ Occurs(g, line, p)
    BY <1>4 DEF Token
  <2>2. /\ p < Len(line) /\ Len(g) \in 1 .. 4 /\ Scan(encoding, line, p) = p + Len(g)
        /\ SubSeq(line, p + 1, p + Len(g)) = g
        /\ Len(g) = 1 => /\ g = <<ByteIn(line, p)>>
                         /\ ByteIn(line, p) # Tab /\ ByteIn(line, p) # BackSlash
    BY <1>1, <1>4, <2>1, PlainOccurs
  <2> DEFINE next == Scan(encoding, line, p)  m == Len(g)
  <2>3. p < Len(line) /\ m \in 1 .. 4 /\ next = p + m /\ m = Len(g)
    BY <2>2
  <2>4. StoreNext(line, s) =
          IF next > p + 1 THEN Taken(s, next - p, SubSeq(line, p + 1, next))
          ELSE IF ByteIn(line, p) = Tab THEN FieldEnded(s)
          ELSE IF ByteIn(line, p) # BackSlash THEN Taken(s, 1, <<ByteIn(line, p)>>)
          ELSE StoreNext(line, s)
    <3>1. ~(p >= Len(line))
      BY <1>1, <2>3
    <3> QED
      BY <3>1 DEF StoreNext
  <2> HIDE DEF next, m
  <2>5. CASE m = 1
    <3>1. ~(next > p + 1)
      BY <1>1, <2>3, <2>5
    <3>2. StoreNext(line, s) = Taken(s, 1, <<ByteIn(line, p)>>)
      BY <2>2, <2>3, <2>4, <2>5, <3>1
    <3>3. g = <<ByteIn(line, p)>>
      BY <2>2, <2>3, <2>5
    <3>4. Len(g) > 0 /\ StoreNext(line, s) = Taken(s, Len(g), g)
      BY <2>3, <2>5, <3>2, <3>3
    <3> QED
      BY <2>1, <3>4
  <2>6. CASE m # 1
    <3>1. next > p + 1 /\ next - p = m /\ m > 0
      BY <1>1, <2>3, <2>6
    <3>2. SubSeq(line, p + 1, next) = g
      BY <2>2, <2>3
    <3>3. Len(g) > 0 /\ StoreNext(line, s) = Taken(s, Len(g), g)
      BY <2>3, <2>4, <3>1, <3>2
    <3> QED
      BY <2>1, <3>3
  <2> QED
    BY <2>5, <2>6
<1>5. ASSUME NEW c \in Byte, t = Token(OctalOf(c), <<c>>)
      PROVE  Len(t.text) > 0 /\ StoreNext(line, s) = Taken(s, Len(t.text), t.means)
  <2> DEFINE a == 48 + (c \div 64)  b == 48 + ((c \div 8) % 8)  d == 48 + (c % 8)
  <2>1. /\ t.text = <<BackSlash, a, b, d>> /\ t.means = <<c>> /\ Len(t.text) = 4
        /\ t.text[1] = BackSlash /\ t.text[2] = a /\ t.text[3] = b /\ t.text[4] = d
    BY <1>5 DEF Token, OctalOf
  <2>2. a \in 48 .. 55 /\ a # LetterN /\ (a - 48) * 64 + (b - 48) * 8 + (d - 48) = c
    <3> DEFINE q == c \div 8  u == c \div 64
    <3>1. c \in Nat /\ c <= 255
      BY DEF Byte
    <3>2. q \in Nat /\ c = (8 * q) + (c % 8)
      BY <3>1
    <3>3. u \in 0 .. 3
      BY <3>1
    <3>4. q = (8 * u) + (q % 8)
      BY <3>1
    <3>5. a - 48 = u /\ b - 48 = q % 8 /\ d - 48 = c % 8 /\ c % 8 \in Nat /\ q % 8 \in Nat
      BY <3>1, <3>2, <3>3
    <3>6. a \in 48 .. 55 /\ a # LetterN
      BY <3>3 DEF LetterN
    <3> HIDE DEF q, u, a, b, d
    <3>7. (a - 48) * 64 + (b - 48) * 8 + (d - 48) = c
      BY <3>2, <3>3, <3>4, <3>5, SMTT(30)
    <3> QED
      BY <3>6, <3>7
  <2> HIDE DEF a, b, d
  <2>3. /\ p < Len(line) /\ Scan(encoding, line, p) = p + 1
        /\ ByteIn(line, p) = BackSlash /\ ByteIn(line, p + 1) = a
    <3>1. Len(x) >= 2 /\ x[1] = BackSlash /\ x[2] = a
      BY <2>1
    <3> HIDE DEF x, p
    <3> QED
      BY <1>1, <3>1, EscapeOccurs
  <2>4. ByteIn(line, p + 2) = b /\ ByteIn(line, p + 3) = d
    <3>1. \A i \in 0 .. Len(t.text) - 1 : ByteIn(line, p + i) = t.text[i + 1]
      BY <1>1, BytesIn
    <3>2. 2 \in 0 .. Len(t.text) - 1 /\ 3 \in 0 .. Len(t.text) - 1
      BY <2>1
    <3>3. ByteIn(line, p + 2) = t.text[2 + 1] /\ ByteIn(line, p + 3) = t.text[3 + 1]
      BY <3>1, <3>2
    <3> QED
      BY <2>1, <3>3
  <2>5. ~(p >= Len(line)) /\ ~(Scan(encoding, line, p) > p + 1) /\ BackSlash # Tab
    BY <1>1, <2>3 DEF BackSlash, Tab
  <2>6. StoreNext(line, s) = Taken(s, 4, <<(a - 48) * 64 + (b - 48) * 8 + (d - 48)>>)
    BY <2>2, <2>3, <2>4, <2>5 DEF StoreNext
  <2> QED
    BY <2>1, <2>2, <2>6
<1> QED
  BY <1>2, <1>3, <1>4, <1>5 DEF ServerTokens, Escapes, Plain, Octals

LEMMA NullOccurs ==
  ASSUME NEW e, SelfDelimiting(e), NEW line \in Seq(Byte), NEW p \in Nat,
         Occurs(<<BackSlash, LetterN>>, line, p)
  PROVE  /\ p < Len(line) /\ p + 2 <= Len(line) /\ Scan(e, line, p) = p + 1
         /\ ByteIn(line, p) = BackSlash /\ ByteIn(line, p + 1) = LetterN
<1> DEFINE x == <<BackSlash, LetterN>>
<1>1. x \in Seq(Byte) /\ Len(x) >= 2 /\ x[1] = BackSlash /\ x[2] = LetterN
      /\ Occurs(x, line, p)
  BY DEF BackSlash, LetterN, Byte
<1> HIDE DEF x
<1> QED
  BY <1>1, EscapeOccurs

LEMMA StoreTakes ==
  ASSUME SelfDelimiting(encoding), NEW line \in Seq(Byte)
  PROVE  LET F == [s \in LineState |-> StoreNext(line, s)]
         IN  F \in [LineState -> LineState] /\ Takes(F, ServerTokens(encoding), line)
<1> DEFINE F == [s \in LineState |-> StoreNext(line, s)]
<1>1. F \in [LineState -> LineState] /\ \A s \in LineState : F[s] = StoreNext(line, s)
  BY StoreKeepsType
<1> HIDE DEF F
<1>2. ASSUME NEW s \in LineState
      PROVE  /\ s.read >= Len(line) => F[s] = s
             /\ \A t \in ServerTokens(encoding) : Occurs(t.text, line, s.read) =>
                  Len(t.text) > 0 /\ F[s] = Taken(s, Len(t.text), t.means)
             /\ Occurs(<<BackSlash, LetterN>>, line, s.read) /\ s.field = << >> =>
                  F[s] = NullTaken(s)
             /\ Occurs(<<Tab>>, line, s.read) => F[s] = FieldEnded(s)
  <2> DEFINE p == s.read
  <2>1. p \in Nat /\ Len(line) \in Nat
    BY DEF LineState
  <2>2. ASSUME p >= Len(line) PROVE F[s] = s
    BY <1>1, <2>2 DEF StoreNext
  <2>3. ASSUME NEW t \in ServerTokens(encoding), Occurs(t.text, line, s.read)
        PROVE  Len(t.text) > 0 /\ F[s] = Taken(s, Len(t.text), t.means)
    BY <1>1, <2>3, StoreTakesToken
  <2>4. ASSUME Occurs(<<BackSlash, LetterN>>, line, p) PROVE F[s] = NullTaken(s)
    <3>1. /\ p < Len(line) /\ Scan(encoding, line, p) = p + 1
          /\ ByteIn(line, p) = BackSlash /\ ByteIn(line, p + 1) = LetterN
      BY <2>1, <2>4, NullOccurs
    <3>2. ~(p >= Len(line)) /\ ~(p + 1 > p + 1) /\ BackSlash # Tab
      BY <2>1, <3>1 DEF Tab, BackSlash
    <3>3. StoreNext(line, s) = NullTaken(s)
      BY <3>1, <3>2 DEF StoreNext
    <3> QED
      BY <1>1, <3>3
  <2>5. ASSUME Occurs(<<Tab>>, line, p) PROVE F[s] = FieldEnded(s)
    <3>1. p < Len(line) /\ Scan(encoding, line, p) = p + 1 /\ ByteIn(line, p) = Tab
      BY <2>1, <2>5, TabOccurs
    <3>2. ~(p >= Len(line)) /\ ~(p + 1 > p + 1)
      BY <2>1, <3>1
    <3>3. StoreNext(line, s) = FieldEnded(s)
      BY <3>1, <3>2 DEF StoreNext
    <3> QED
      BY <1>1, <3>3
  <2> QED
    BY <2>2, <2>3, <2>4, <2>5
<1>3. Takes(F, ServerTokens(encoding), line)
  BY <1>2 DEF Takes
<1> QED
  BY <1>1, <1>3 DEF F

(* The server stores the fields that a line was put together from. *)
LEMMA StoredIs ==
  ASSUME SelfDelimiting(encoding), NEW b, NEW G, G # << >>,
         <<b, G>> \in Lines(ServerTokens(encoding)) \cup Lines(ClientTokens(encoding))
  PROVE  b # << >> /\ Stored(Front(b)) = G
<1> DEFINE line == Front(b)  n == Len(line)
           F == [s \in LineState |-> StoreNext(line, s)]
           Reads(f) == f = [k \in 0 .. Len(line) |->
                              IF k = 0 THEN LineStart ELSE StoreNext(line, f[k - 1])]
           r == CHOOSE f : Reads(f)
<1>1. PICK T \in {ServerTokens(encoding), ClientTokens(encoding)} : <<b, G>> \in Lines(T)
  OBVIOUS
<1>2. T \in SUBSET Tokens /\ T \subseteq ServerTokens(encoding)
  BY <1>1, TokensAre
<1>3. b # << >> /\ line \in Seq(Byte)
  BY <1>1, <1>2, FrontIsRead
<1>4. Stored(line) = Append(r[n].fields, r[n].field)
  BY DEF Stored
<1> HIDE DEF line, F
<1>5. n \in Nat
  BY <1>3
<1>6. F \in [LineState -> LineState] /\ Takes(F, ServerTokens(encoding), line)
  BY <1>3, StoreTakes DEF F
<1>7. Takes(F, T, line)
  BY <1>2, <1>6 DEF Takes
<1>8. LineStart \in LineState
  <2>1. << >> \in Seq(Seq(Int)) /\ << >> \in Seq(Int)
    OBVIOUS
  <2> QED
    BY <2>1 DEF LineStart, LineState
<1>9. PICK g \in [0 .. n -> LineState] : Rounds(g, n, LineStart, F)
  BY <1>5, <1>6, <1>8, LoopRuns
<1>10. g = [k \in 0 .. n |-> IF k = 0 THEN LineStart ELSE StoreNext(line, g[k - 1])]
  <2>1. ASSUME NEW k \in 0 .. n
        PROVE  g[k] = IF k = 0 THEN LineStart ELSE StoreNext(line, g[k - 1])
    <3>1. CASE k = 0
      BY <1>9, <3>1 DEF Rounds
    <3>2. CASE k # 0
      <4>1. k \in 1 .. n /\ k - 1 \in 0 .. n
        BY <1>5, <3>2
      <4>2. g[k] = F[g[k - 1]] /\ g[k - 1] \in LineState
        BY <1>9, <4>1 DEF Rounds
      <4> QED
        BY <3>2, <4>2 DEF F
    <3> QED
      BY <3>1, <3>2
  <2> QED
    BY <1>9, <2>1
<1>11. Reads(r)
  <2>1. Reads(g)
    BY <1>10
  <2> HIDE DEF Reads
  <2> QED
    BY <2>1
<1>12. Rounds(r, n, LineStart, F)
  <2>1. r[0] = LineStart
    <3>1. 0 \in 0 .. n
      BY <1>5
    <3> HIDE DEF r
    <3> QED
      BY <1>11, <3>1
  <2>2. \A k \in 0 .. n : r[k] \in LineState
    <3> DEFINE S == {k \in 0 .. n : r[k] \in LineState}
    <3>1. 0 \in S
      BY <1>5, <1>8, <2>1
    <3>2. ASSUME NEW k \in 1 .. n, k - 1 \in S PROVE k \in S
      <4>1. k \in 0 .. n /\ k # 0 /\ r[k - 1] \in LineState
        BY <1>5, <3>2
      <4>2. r[k] = StoreNext(line, r[k - 1])
        BY <1>11, <4>1
      <4> HIDE DEF r
      <4> QED
        BY <1>3, <4>1, <4>2, StoreKeepsType
    <3>3. 0 .. n \subseteq S
      <4> HIDE DEF S
      <4> QED
        BY <1>5, <3>1, <3>2, AllPlaces
    <3> QED
      BY <3>3
  <2>3. ASSUME NEW k \in 1 .. n PROVE r[k] = F[r[k - 1]]
    <3>1. k \in 0 .. n /\ k # 0 /\ k - 1 \in 0 .. n
      BY <1>5
    <3>2. r[k] = StoreNext(line, r[k - 1]) /\ r[k - 1] \in LineState
      BY <1>11, <2>2, <3>1
    <3> HIDE DEF r
    <3> QED
      BY <3>2 DEF F
  <2> HIDE DEF r
  <2> QED
    BY <2>1, <2>3 DEF Rounds
<1> HIDE DEF r
<1>13. Append(r[n].fields, r[n].field) = G
  BY <1>1, <1>2, <1>6, <1>7, <1>12, LoopReadsFields DEF line
<1> QED
  BY <1>3, <1>4, <1>13 DEF line

(* A round of parse_line. *)
LEMMA ParseKeepsType ==
  ASSUME SelfDelimiting(encoding), NEW line \in Seq(Byte), NEW s \in LineState
  PROVE  ParseNext(line, s) \in LineState
<1> DEFINE p == s.read  next == Scan(encoding, line, p)
           c == ByteIn(line, p)  e == ByteIn(line, p + 1)
           means == IF IsLetter(e) THEN CharOf(e) ELSE e
<1>1. p \in Nat /\ Len(line) \in Nat
  BY DEF LineState
<1>2. \/ ParseNext(line, s) \in {s, Refused(line), FieldEnded(s), NullTaken(s),
                                 Taken(s, 1, <<c>>), Taken(s, 2, <<means>>)}
      \/ /\ p < Len(line) /\ next > p + 1
         /\ ParseNext(line, s) = Taken(s, next - p, SubSeq(line, p + 1, next))
  <2>1. p >= Len(line) \/ p < Len(line)
    BY <1>1
  <2> QED
    BY <2>1 DEF ParseNext, NextSeq
<1>3. c \in Int /\ means \in Int
  <2>1. c \in Int /\ e \in Int
    BY <1>1, ByteInIs
  <2> QED
    BY <2>1, MeansByte
<1>4. p < Len(line) /\ next > p + 1 =>
        next - p \in Nat /\ SubSeq(line, p + 1, next) \in Seq(Int)
  <2> SUFFICES ASSUME p < Len(line), next > p + 1
               PROVE  next - p \in Nat /\ SubSeq(line, p + 1, next) \in Seq(Int)
    OBVIOUS
  <2>1. next # Throws
    BY <1>1 DEF Throws
  <2>2. next \in p + 1 .. Len(line) /\ SubSeq(line, p + 1, next) \in Seq(Byte)
    BY <1>1, <2>1, ScanFindsChar
  <2> QED
    BY <1>1, <2>2, BytesAreInts
<1> HIDE DEF c, e, means, next, p
<1>5. <<c>> \in Seq(Int) /\ <<means>> \in Seq(Int)
  BY <1>3
<1>6. Taken(s, 1, <<c>>) \in LineState /\ Taken(s, 2, <<means>>) \in LineState
  BY <1>5, StepsOfState
<1>7. p < Len(line) /\ next > p + 1 =>
        Taken(s, next - p, SubSeq(line, p + 1, next)) \in LineState
  BY <1>4, StepsOfState
<1>8. NullTaken(s) \in LineState /\ FieldEnded(s) \in LineState
  BY StepsOfState
<1>9. Refused(line) \in LineState
  <2>1. << >> \in Seq(Seq(Int)) /\ <<-2>> \in Seq(Int)
    OBVIOUS
  <2> QED
    BY <1>1, <2>1 DEF Refused, LineState
<1> QED
  BY <1>2, <1>6, <1>7, <1>8, <1>9

LEMMA ParseTakesToken ==
  ASSUME SelfDelimiting(encoding), NEW line \in Seq(Byte), NEW s \in LineState,
         NEW t \in ClientTokens(encoding), Occurs(t.text, line, s.read)
  PROVE  Len(t.text) > 0 /\ ParseNext(line, s) = Taken(s, Len(t.text), t.means)
<1> DEFINE p == s.read  x == t.text
<1>1. p \in Nat /\ Len(line) \in Nat /\ x \in Seq(Byte) /\ Occurs(x, line, p)
  BY TokensAre DEF LineState, Tokens
<1>2. ASSUME NEW c \in Byte, NEW a \in Byte, t = Token(<<BackSlash, a>>, <<c>>),
             a # LetterN, c = IF IsLetter(a) THEN CharOf(a) ELSE a
      PROVE  Len(t.text) > 0 /\ ParseNext(line, s) = Taken(s, Len(t.text), t.means)
  <2>1. t.text = <<BackSlash, a>> /\ t.means = <<c>> /\ Len(t.text) = 2
        /\ t.text[1] = BackSlash /\ t.text[2] = a
    BY <1>2 DEF Token
  <2>2. /\ p < Len(line) /\ p + 2 <= Len(line) /\ Scan(encoding, line, p) = p + 1
        /\ ByteIn(line, p) = BackSlash /\ ByteIn(line, p + 1) = a
    <3>1. Len(x) >= 2 /\ x[1] = BackSlash /\ x[2] = a
      BY <2>1
    <3> HIDE DEF x, p
    <3> QED
      BY <1>1, <3>1, EscapeOccurs
  <2>3. /\ ~(p >= Len(line)) /\ ~(p + 1 > p + 1) /\ ~(p + 2 > Len(line))
        /\ p + 1 # Throws /\ BackSlash # Tab
    BY <1>1, <2>2 DEF Tab, BackSlash, Throws
  <2>4. ParseNext(line, s) = Taken(s, 2, <<IF IsLetter(a) THEN CharOf(a) ELSE a>>)
    BY <1>2, <2>2, <2>3 DEF ParseNext, NextSeq
  <2>5. ParseNext(line, s) = Taken(s, 2, <<c>>)
    BY <1>2, <2>4
  <2> QED
    BY <2>1, <2>5
<1>3. ASSUME NEW g \in Seq(Byte), IsChar(encoding, g), g[1] \notin Marked, t = Token(g, g)
      PROVE  Len(t.text) > 0 /\ ParseNext(line, s) = Taken(s, Len(t.text), t.means)
  <2>1. t.text = g /\ t.means = g /\ Occurs(g, line, p)
    BY <1>3 DEF Token
  <2>2. /\ p < Len(line) /\ Len(g) \in 1 .. 4 /\ Scan(encoding, line, p) = p + Len(g)
        /\ SubSeq(line, p + 1, p + Len(g)) = g
        /\ Len(g) = 1 => /\ g = <<ByteIn(line, p)>>
                         /\ ByteIn(line, p) # Tab /\ ByteIn(line, p) # BackSlash
    BY <1>1, <1>3, <2>1, PlainOccurs
  <2> DEFINE next == Scan(encoding, line, p)  m == Len(g)
  <2>3. p < Len(line) /\ m \in 1 .. 4 /\ next = p + m /\ m = Len(g)
    BY <2>2
  <2>4. ParseNext(line, s) =
          IF next > p + 1 THEN Taken(s, next - p, SubSeq(line, p + 1, next))
          ELSE IF ByteIn(line, p) = Tab THEN FieldEnded(s)
          ELSE IF ByteIn(line, p) # BackSlash THEN Taken(s, 1, <<ByteIn(line, p)>>)
          ELSE ParseNext(line, s)
    <3>1. ~(p >= Len(line)) /\ next # Throws
      BY <1>1, <2>3 DEF Throws
    <3> QED
      BY <3>1 DEF ParseNext, NextSeq
  <2> HIDE DEF next, m
  <2>5. CASE m = 1
    <3>1. ~(next > p + 1)
      BY <1>1, <2>3, <2>5
    <3>2. ParseNext(line, s) = Taken(s, 1, <<ByteIn(line, p)>>)
      BY <2>2, <2>3, <2>4, <2>5, <3>1
    <3>3. g = <<ByteIn(line, p)>>
      BY <2>2, <2>3, <2>5
    <3>4. Len(g) > 0 /\ ParseNext(line, s) = Taken(s, Len(g), g)
      BY <2>3, <2>5, <3>2, <3>3
    <3> QED
      BY <2>1, <3>4
  <2>6. CASE m # 1
    <3>1. next > p + 1 /\ next - p = m /\ m > 0
      BY <1>1, <2>3, <2>6
    <3>2. SubSeq(line, p + 1, next) = g
      BY <2>2, <2>3
    <3>3. Len(g) > 0 /\ ParseNext(line, s) = Taken(s, Len(g), g)
      BY <2>3, <2>4, <3>1, <3>2
    <3> QED
      BY <2>1, <3>3
  <2> QED
    BY <2>5, <2>6
<1>4. ASSUME NEW c \in Marked \ {BackSlash}, t = Token(<<BackSlash, LetterOf(c)>>, <<c>>)
      PROVE  Len(t.text) > 0 /\ ParseNext(line, s) = Taken(s, Len(t.text), t.means)
  <2>1. /\ LetterOf(c) \in {98, 102, 110, 114, 116, 118}
        /\ IsLetter(LetterOf(c)) /\ CharOf(LetterOf(c)) = c
    BY LettersAre
  <2>2. LetterOf(c) \in Byte /\ LetterOf(c) # LetterN
    BY <2>1 DEF Byte, LetterN
  <2>3. c \in Byte
    BY DEF Marked, Byte, BackSlash
  <2> QED
    BY <1>2, <1>4, <2>1, <2>2, <2>3
<1>5. CASE t = Token(<<BackSlash, BackSlash>>, <<BackSlash>>)
  <2>1. BackSlash \in Byte /\ BackSlash # LetterN /\ ~IsLetter(BackSlash)
    BY LettersAre DEF Byte, BackSlash, LetterN
  <2> QED
    BY <1>2, <1>5, <2>1
<1> QED
  BY <1>3, <1>4, <1>5 DEF ClientTokens, Escapes, Plain

LEMMA ParseTakes ==
  ASSUME SelfDelimiting(encoding), NEW line \in Seq(Byte)
  PROVE  LET F == [s \in LineState |-> ParseNext(line, s)]
         IN  F \in [LineState -> LineState] /\ Takes(F, ClientTokens(encoding), line)
<1> DEFINE F == [s \in LineState |-> ParseNext(line, s)]
<1>1. F \in [LineState -> LineState] /\ \A s \in LineState : F[s] = ParseNext(line, s)
  BY ParseKeepsType
<1> HIDE DEF F
<1>2. ASSUME NEW s \in LineState
      PROVE  /\ s.read >= Len(line) => F[s] = s
             /\ \A t \in ClientTokens(encoding) : Occurs(t.text, line, s.read) =>
                  Len(t.text) > 0 /\ F[s] = Taken(s, Len(t.text), t.means)
             /\ Occurs(<<BackSlash, LetterN>>, line, s.read) /\ s.field = << >> =>
                  F[s] = NullTaken(s)
             /\ Occurs(<<Tab>>, line, s.read) => F[s] = FieldEnded(s)
  <2> DEFINE p == s.read
  <2>1. p \in Nat /\ Len(line) \in Nat
    BY DEF LineState
  <2>2. ASSUME p >= Len(line) PROVE F[s] = s
    BY <1>1, <2>2 DEF ParseNext, NextSeq
  <2>3. ASSUME NEW t \in ClientTokens(encoding), Occurs(t.text, line, s.read)
        PROVE  Len(t.text) > 0 /\ F[s] = Taken(s, Len(t.text), t.means)
    BY <1>1, <2>3, ParseTakesToken
  <2>4. ASSUME Occurs(<<BackSlash, LetterN>>, line, p), s.field = << >>
        PROVE  F[s] = NullTaken(s)
    <3>1. /\ p < Len(line) /\ p + 2 <= Len(line) /\ Scan(encoding, line, p) = p + 1
          /\ ByteIn(line, p) = BackSlash /\ ByteIn(line, p + 1) = LetterN
      BY <2>1, <2>4, NullOccurs
    <3>2. /\ ~(p >= Len(line)) /\ ~(p + 1 > p + 1) /\ ~(p + 2 > Len(line))
          /\ p + 1 # Throws /\ BackSlash # Tab
      BY <2>1, <3>1 DEF Tab, BackSlash, Throws
    <3>3. ParseNext(line, s) = NullTaken(s)
      BY <2>4, <3>1, <3>2 DEF ParseNext, NextSeq
    <3> QED
      BY <1>1, <3>3
  <2>5. ASSUME Occurs(<<Tab>>, line, p) PROVE F[s] = FieldEnded(s)
    <3>1. p < Len(line) /\ Scan(encoding, line, p) = p + 1 /\ ByteIn(line, p) = Tab
      BY <2>1, <2>5, TabOccurs
    <3>2. ~(p >= Len(line)) /\ ~(p + 1 > p + 1) /\ p + 1 # Throws
      BY <2>1, <3>1 DEF Throws
    <3>3. ParseNext(line, s) = FieldEnded(s)
      BY <3>1, <3>2 DEF ParseNext, NextSeq
    <3> QED
      BY <1>1, <3>3
  <2> QED
    BY <2>2, <2>3, <2>4, <2>5
<1>3. Takes(F, ClientTokens(encoding), line)
  BY <1>2 DEF Takes
<1> QED
  BY <1>1, <1>3 DEF F

(* So the client reads them. *)
LEMMA ParsedIs ==
  ASSUME SelfDelimiting(encoding), NEW b, NEW G, G # << >>,
         <<b, G>> \in Lines(ClientTokens(encoding))
  PROVE  b # << >> /\ Parsed(Front(b)) = G
<1> DEFINE line == Front(b)  n == Len(line)
           F == [s \in LineState |-> ParseNext(line, s)]
           Reads(f) == f = [k \in 0 .. Len(line) |->
                              IF k = 0 THEN LineStart ELSE ParseNext(line, f[k - 1])]
           r == CHOOSE f : Reads(f)
           T == ClientTokens(encoding)
<1>1. <<b, G>> \in Lines(T)
  OBVIOUS
<1>2. T \in SUBSET Tokens
  BY TokensAre
<1>3. b # << >> /\ line \in Seq(Byte)
  BY <1>1, <1>2, FrontIsRead
<1>4. Parsed(line) = Append(r[n].fields, r[n].field)
  BY DEF Parsed
<1> HIDE DEF line, F, T
<1>5. n \in Nat
  BY <1>3
<1>6. F \in [LineState -> LineState] /\ Takes(F, T, line)
  BY <1>3, ParseTakes DEF F, T
<1>8. LineStart \in LineState
  <2>1. << >> \in Seq(Seq(Int)) /\ << >> \in Seq(Int)
    OBVIOUS
  <2> QED
    BY <2>1 DEF LineStart, LineState
<1>9. PICK g \in [0 .. n -> LineState] : Rounds(g, n, LineStart, F)
  BY <1>5, <1>6, <1>8, LoopRuns
<1>10. g = [k \in 0 .. n |-> IF k = 0 THEN LineStart ELSE ParseNext(line, g[k - 1])]
  <2>1. ASSUME NEW k \in 0 .. n
        PROVE  g[k] = IF k = 0 THEN LineStart ELSE ParseNext(line, g[k - 1])
    <3>1. CASE k = 0
      BY <1>9, <3>1 DEF Rounds
    <3>2. CASE k # 0
      <4>1. k \in 1 .. n /\ k - 1 \in 0 .. n
        BY <1>5, <3>2
      <4>2. g[k] = F[g[k - 1]] /\ g[k - 1] \in LineState
        BY <1>9, <4>1 DEF Rounds
      <4> QED
        BY <3>2, <4>2 DEF F
    <3> QED
      BY <3>1, <3>2
  <2> QED
    BY <1>9, <2>1
<1>11. Reads(r)
  <2>1. Reads(g)
    BY <1>10
  <2> HIDE DEF Reads
  <2> QED
    BY <2>1
<1>12. Rounds(r, n, LineStart, F)
  <2>1. r[0] = LineStart
    <3>1. 0 \in 0 .. n
      BY <1>5
    <3> HIDE DEF r
    <3> QED
      BY <1>11, <3>1
  <2>2. \A k \in 0 .. n : r[k] \in LineState
    <3> DEFINE S == {k \in 0 .. n : r[k] \in LineState}
    <3>1. 0 \in S
      BY <1>5, <1>8, <2>1
    <3>2. ASSUME NEW k \in 1 .. n, k - 1 \in S PROVE k \in S
      <4>1. k \in 0 .. n /\ k # 0 /\ r[k - 1] \in LineState
        BY <1>5, <3>2
      <4>2. r[k] = ParseNext(line, r[k - 1])
        BY <1>11, <4>1
      <4> HIDE DEF r
      <4> QED
        BY <1>3, <4>1, <4>2, ParseKeepsType
    <3>3. 0 .. n \subseteq S
      <4> HIDE DEF S
      <4> QED
        BY <1>5, <3>1, <3>2, AllPlaces
    <3> QED
      BY <3>3
  <2>3. ASSUME NEW k \in 1 .. n PROVE r[k] = F[r[k - 1]]
    <3>1. k \in 0 .. n /\ k # 0 /\ k - 1 \in 0 .. n
      BY <1>5
    <3>2. r[k] = ParseNext(line, r[k - 1]) /\ r[k - 1] \in LineState
      BY <1>11, <2>2, <3>1
    <3> HIDE DEF r
    <3> QED
      BY <3>2 DEF F
  <2> HIDE DEF r
  <2> QED
    BY <2>1, <2>3 DEF Rounds
<1> HIDE DEF r
<1>13. Append(r[n].fields, r[n].field) = G
  BY <1>1, <1>2, <1>6, <1>12, LoopReadsFields DEF line
<1> QED
  BY <1>3, <1>4, <1>13 DEF line

-----------------------------------------------------------------------------
(* COPY TO: what a text is shown as, up to where a character begins. *)
ShownStates(e, f, P) ==
  {s \in [read : P, line : Seq(Byte)] :
     <<s.line, SubSeq(f, 1, s.read)>> \in Spelt(ClientTokens(e))}

LEMMA ShownStatesAre ==
  ASSUME NEW e, NEW f \in Seq(Byte), NEW P \in SUBSET (0 .. Len(f)), NEW s \in ShownStates(e, f, P)
  PROVE  /\ s.read \in P /\ s.read \in 0 .. Len(f) /\ s.read \in Nat /\ s.line \in Seq(Byte)
         /\ <<s.line, SubSeq(f, 1, s.read)>> \in Spelt(ClientTokens(e))
<1>1. s \in [read : P, line : Seq(Byte)]
      /\ <<s.line, SubSeq(f, 1, s.read)>> \in Spelt(ClientTokens(e))
  BY DEF ShownStates
<1>2. s.read \in P /\ s.line \in Seq(Byte)
  BY <1>1
<1>3. s.read \in 0 .. Len(f)
  BY <1>2
<1>4. Len(f) \in Nat
  OBVIOUS
<1> QED
  BY <1>1, <1>2, <1>3, <1>4

LEMMA ShowsOne ==
  ASSUME SelfDelimiting(encoding), NEW f \in Seq(Byte), NEW P \in SUBSET (0 .. Len(f)),
         \A p \in P : p < Len(f) => Scan(encoding, f, p) \in P,
         NEW s \in ShownStates(encoding, f, P)
  PROVE  /\ ShowNext(f, s) \in ShownStates(encoding, f, P)
         /\ s.read < Len(f) => ShowNext(f, s).read > s.read
<1> DEFINE p == s.read  q == Scan(encoding, f, p)  c == ByteIn(f, p)
           T == ClientTokens(encoding)
           g == SubSeq(f, p + 1, q)
           shown == IF HasLetter(c) THEN <<BackSlash, LetterOf(c)>>
                    ELSE IF c = BackSlash THEN <<BackSlash, BackSlash>>
                    ELSE g
<1>1. /\ p \in P /\ p \in 0 .. Len(f) /\ Len(f) \in Nat /\ p \in Nat /\ s.line \in Seq(Byte)
      /\ <<s.line, SubSeq(f, 1, p)>> \in Spelt(T)
  <2>1. Len(f) \in Nat
    OBVIOUS
  <2> QED
    BY <2>1, ShownStatesAre
<1>2. CASE ~(p < Len(f))
  <2>1. p >= Len(f)
    BY <1>1, <1>2
  <2>2. ShowNext(f, s) = s
    BY <2>1 DEF ShowNext
  <2> QED
    BY <1>2, <2>2
<1>3. CASE p < Len(f)
  <2>1. q \in P /\ q \in 0 .. Len(f) /\ q # Throws
    <3>1. q \in P
      BY <1>1, <1>3
    <3> HIDE DEF q
    <3>2. q \in 0 .. Len(f)
      BY <3>1
    <3>3. q # Throws
      BY <1>1, <3>2 DEF Throws
    <3> QED
      BY <3>1, <3>2, <3>3
  <2>2. /\ q \in p + 1 .. Len(f) /\ q \in Nat
        /\ g \in Seq(Byte) /\ Len(g) = q - p /\ IsChar(encoding, g) /\ Occurs(g, f, p)
        /\ f[p + 1] \in Ascii => q = p + 1
    BY <1>1, <1>3, <2>1, ScanFindsChar
  <2>3. c = f[p + 1] /\ c \in Byte
    BY <1>1, <1>3, ByteInIs DEF ByteIn
  <2>4. c = g[1] /\ (q = p + 1 => g = <<c>>)
    <3> HIDE DEF g, c, q
    <3>1. 1 \in 1 .. Len(g)
      BY <1>1, <2>2
    <3>2. f[p + 1] = g[1]
      BY <2>2, <3>1 DEF Occurs
    <3>3. ASSUME q = p + 1 PROVE g = <<c>>
      <4>1. Len(g) = 1
        BY <1>1, <2>2, <3>3
      <4> QED
        BY <2>2, <2>3, <3>2, <4>1
    <3> QED
      BY <2>3, <3>2, <3>3
  <2> HIDE DEF c
  <2>5. ShowNext(f, s) = [read |-> q, line |-> s.line \o shown]
    <3>1. ~(s.read >= Len(f)) /\ (IF q > p + 1 THEN q ELSE p + 1) = q
      BY <1>1, <1>3, <2>2
    <3> QED
      BY <3>1 DEF ShowNext, c
  <2> HIDE DEF g, q, shown
  <2>6. Token(shown, g) \in T
    <3>1. CASE HasLetter(c)
      <4>1. c \in Marked \ {BackSlash}
        BY <3>1, LettersAre
      <4>2. q = p + 1
        BY <2>2, <2>3, <4>1 DEF Marked, Ascii
      <4>3. Token(shown, g) = Token(<<BackSlash, LetterOf(c)>>, <<c>>)
        BY <2>4, <3>1, <4>2 DEF shown
      <4> QED
        BY <4>1, <4>3 DEF T, ClientTokens, Escapes
    <3>2. CASE ~HasLetter(c) /\ c = BackSlash
      <4>1. q = p + 1
        BY <2>2, <2>3, <3>2 DEF BackSlash, Ascii
      <4>2. Token(shown, g) = Token(<<BackSlash, BackSlash>>, <<BackSlash>>)
        BY <2>4, <3>2, <4>1 DEF shown
      <4> QED
        BY <4>2 DEF T, ClientTokens, Escapes
    <3>3. CASE ~HasLetter(c) /\ c # BackSlash
      <4>1. shown = g
        BY <3>3 DEF shown
      <4>2. g[1] \notin Marked
        BY <2>4, <3>3, LettersAre
      <4> QED
        BY <2>2, <4>1, <4>2 DEF T, ClientTokens, Plain
    <3> QED
      BY <3>1, <3>2, <3>3
  <2>7. T \in SUBSET Tokens /\ shown \in Seq(Byte)
    <3>1. T \in SUBSET Tokens
      BY TokensAre DEF T
    <3> QED
      BY <2>6, <3>1 DEF Token, Tokens
  <2>8. SubSeq(f, 1, p) \o g = SubSeq(f, 1, q)
    <3>1. 1 \in 1 .. Len(f) + 1 /\ p \in 1 - 1 .. Len(f) /\ q \in p .. Len(f)
      BY <1>1, <2>2
    <3> QED
      BY <3>1, ConcatAdjacentSubSeq DEF g
  <2>9. <<s.line \o shown, SubSeq(f, 1, q)>> \in Spelt(T)
    <3> DEFINE t == Token(shown, g)  x == SubSeq(f, 1, p)
    <3>1. t \in T /\ t.text = shown /\ t.means = g
      BY <2>6 DEF Token
    <3>2. <<s.line, x>> \in Spelt(T)
      BY <1>1
    <3> HIDE DEF t, x
    <3>3. <<s.line \o t.text, x \o t.means>> \in Spelt(T)
      BY <2>7, <3>1, <3>2, SpeltMore
    <3> QED
      BY <2>8, <3>1, <3>3 DEF x
  <2>10. s.line \o shown \in Seq(Byte)
    BY <1>1, <2>7, ConcatProperties
  <2>11. [read |-> q, line |-> s.line \o shown] \in ShownStates(encoding, f, P)
    BY <2>1, <2>9, <2>10 DEF ShownStates, T
  <2>12. q > p
    BY <1>1, <2>2
  <2> QED
    BY <2>5, <2>11, <2>12
<1> QED
  BY <1>2, <1>3

LEMMA ShownFieldIs ==
  ASSUME SelfDelimiting(encoding), NEW f, IsField(encoding, f)
  PROVE  <<ShownField(f), f>> \in FieldSpelt(ClientTokens(encoding))
<1> DEFINE start == [read |-> 0, line |-> << >>]
           n == Len(f)
           Reads(h) == h = [k \in 0 .. Len(f) |-> IF k = 0 THEN [read |-> 0, line |-> << >>]
                                                  ELSE ShowNext(f, h[k - 1])]
           r == CHOOSE h : Reads(h)
<1>1. ShownField(f) = IF f = NullField THEN <<BackSlash, LetterN>> ELSE r[n].line
  BY DEF ShownField
<1>2. CASE f = NullField
  BY <1>1, <1>2 DEF FieldSpelt
<1>3. CASE f # NullField
  <2>1. f \in Seq(Byte) /\ IsText(encoding, f) /\ n \in Nat
    BY <1>3, FieldsAreInts DEF IsField
  <2>2. PICK P \in SUBSET (0 .. Len(f)) :
          /\ {0, Len(f)} \subseteq P
          /\ \A p \in P : p < Len(f) => Scan(encoding, f, p) \in P
    BY <2>1 DEF IsText
  <2> DEFINE S == ShownStates(encoding, f, P)
             F == [s \in S |-> ShowNext(f, s)]
  <2>3. start \in S
    <3>1. SubSeq(f, 1, 0) = << >> /\ << >> \in Seq(Byte)
      BY <2>1, OneMore
    <3>2. << << >>, << >> >> \in Spelt(ClientTokens(encoding))
      BY SpeltGrows, TokensAre DEF MadeOf
    <3> QED
      BY <2>2, <3>1, <3>2 DEF ShownStates
  <2>4. \A s \in S : ShowNext(f, s) \in S /\ (s.read < n => ShowNext(f, s).read > s.read)
    BY <2>1, <2>2, ShowsOne
  <2>5. F \in [S -> S] /\ \A s \in S : F[s] = ShowNext(f, s)
    BY <2>4
  <2>6. \A s \in S : s.read \in 0 .. n /\ s.read \in Nat
                     /\ <<s.line, SubSeq(f, 1, s.read)>> \in Spelt(ClientTokens(encoding))
    BY <2>1, <2>2, ShownStatesAre
  <2> HIDE DEF S, F, start
  <2>7. PICK g \in [0 .. n -> S] : Rounds(g, n, start, F)
    BY <2>1, <2>3, <2>5, LoopRuns
  <2>8. g = [k \in 0 .. n |-> IF k = 0 THEN start ELSE ShowNext(f, g[k - 1])]
    <3>1. ASSUME NEW k \in 0 .. n
          PROVE  g[k] = IF k = 0 THEN start ELSE ShowNext(f, g[k - 1])
      <4>1. CASE k = 0
        BY <2>7, <4>1 DEF Rounds
      <4>2. CASE k # 0
        <5>1. k \in 1 .. n /\ k - 1 \in 0 .. n
          BY <2>1, <4>2
        <5>2. g[k] = F[g[k - 1]] /\ g[k - 1] \in S
          BY <2>7, <5>1 DEF Rounds
        <5> QED
          BY <2>5, <4>2, <5>2
      <4> QED
        BY <4>1, <4>2
    <3> QED
      BY <2>7, <3>1
  <2>9. r = [k \in 0 .. n |-> IF k = 0 THEN start ELSE ShowNext(f, r[k - 1])]
    <3>1. Reads(g)
      BY <2>8 DEF start
    <3>2. Reads(r)
      <4> HIDE DEF Reads
      <4> QED
        BY <3>1
    <3> QED
      BY <3>2 DEF start
  <2> HIDE DEF r
  <2> DEFINE K == {k \in 0 .. n : r[k] \in S /\ r[k].read >= k}
  <2>10. 0 \in K
    <3>1. 0 \in 0 .. n
      BY <2>1
    <3>2. r[0] = start /\ start.read = 0
      BY <2>9, <3>1 DEF start
    <3> QED
      BY <2>3, <3>1, <3>2
  <2>11. ASSUME NEW k \in 1 .. n, k - 1 \in K PROVE k \in K
    <3>1. k \in 0 .. n /\ k # 0 /\ r[k - 1] \in S /\ r[k - 1].read >= k - 1
      BY <2>1, <2>11
    <3>2. r[k] = ShowNext(f, r[k - 1])
      BY <2>9, <3>1
    <3> DEFINE s == r[k - 1]
    <3>3. s \in S /\ s.read \in Nat /\ s.read >= k - 1 /\ s.read \in 0 .. n
      BY <2>6, <3>1
    <3>4. r[k] = ShowNext(f, s)
      BY <3>2
    <3> HIDE DEF s
    <3>5. CASE s.read < n
      <4>1. ShowNext(f, s) \in S /\ ShowNext(f, s).read > s.read
        BY <2>4, <3>3, <3>5
      <4>2. ShowNext(f, s).read \in Nat
        BY <2>6, <4>1
      <4>3. ShowNext(f, s).read >= k
        BY <3>1, <3>3, <4>1, <4>2
      <4> QED
        BY <3>1, <3>4, <4>1, <4>3
    <3>6. CASE ~(s.read < n)
      <4>1. s.read >= Len(f) /\ s.read >= k
        BY <2>1, <3>1, <3>3, <3>6
      <4>2. ShowNext(f, s) = s
        BY <4>1 DEF ShowNext
      <4> QED
        BY <3>1, <3>3, <3>4, <4>1, <4>2
    <3> QED
      BY <3>5, <3>6
  <2>12. n \in K
    <3>1. n \in 0 .. n
      BY <2>1
    <3> HIDE DEF K
    <3> QED
      BY <2>1, <2>10, <2>11, <3>1, AllPlaces
  <2>13. r[n] \in S /\ r[n].read = n
    <3>1. r[n] \in S /\ r[n].read >= n
      BY <2>12
    <3>2. r[n].read \in 0 .. n
      BY <2>6, <3>1
    <3> QED
      BY <2>1, <3>1, <3>2
  <2>14. <<r[n].line, SubSeq(f, 1, n)>> \in Spelt(ClientTokens(encoding))
    BY <2>6, <2>13
  <2>15. SubSeq(f, 1, n) = f
    BY <2>1, OneMore
  <2> QED
    BY <1>1, <1>3, <2>14, <2>15 DEF FieldSpelt
<1> QED
  BY <1>2, <1>3

(* What COPY TO sends of a row is a line without its last tab. *)
LEMMA ShownIs ==
  ASSUME SelfDelimiting(encoding), NEW F \in Seq(Seq(Int)),
         \A i \in 1 .. Len(F) : IsField(encoding, F[i])
  PROVE  \E b : <<b, F>> \in Lines(ClientTokens(encoding)) /\ Shown(F) = Front(b)
<1> DEFINE Y == [i \in DOMAIN F |-> ShownField(F[i]) \o <<Tab>>]
           T == ClientTokens(encoding)
<1>1. Shown(F) = Front(FlattenSeq(Y))
  BY DEF Shown
<1>2. \A i \in 1 .. Len(F) : <<ShownField(F[i]), F[i]>> \in FieldSpelt(T)
  BY ShownFieldIs
<1> HIDE DEF T
<1>3. ASSUME NEW i \in 1 .. Len(F) PROVE ShownField(F[i]) \o <<Tab>> \in Seq(Byte)
  <2>1. <<ShownField(F[i]), F[i]>>[1] \in Seq(Byte)
    BY <1>2, FieldSpeltAre
  <2>2. ShownField(F[i]) \in Seq(Byte) /\ <<Tab>> \in Seq(Byte)
    BY <2>1 DEF Tab, Byte
  <2> QED
    BY <2>2, ConcatProperties
<1>4. Len(F) \in Nat /\ DOMAIN F = 1 .. Len(F)
  OBVIOUS
<1>5. Y \in Seq(Seq(Byte)) /\ Len(Y) = Len(F)
      /\ \A i \in 1 .. Len(F) : Y[i] = ShownField(F[i]) \o <<Tab>>
  BY <1>3, <1>4
<1> HIDE DEF Y
<1>6. T \in SUBSET Tokens
  BY TokensAre DEF T
<1>7. << << >>, << >> >> \in Lines(T)
  BY LinesGrow DEF LineMade
<1> DEFINE b == << >>  G == << >>
<1>8. <<b, G>> \in Lines(T)
  BY <1>7
<1>9. b \o FlattenSeq(Y) = FlattenSeq(Y) /\ G \o F = F
  <2>1. FlattenSeq(Y) \in Seq(Byte)
    <3>1. << >> \in Seq(Byte)
      OBVIOUS
    <3> QED
      BY <1>5, <3>1, FlattenMore
  <2> QED
    BY <2>1, ConcatEmptySeq
<1> HIDE DEF b, G
<1>10. <<b \o FlattenSeq(Y), G \o F>> \in Lines(T)
  BY <1>2, <1>5, <1>6, <1>8, Joins
<1>11. <<FlattenSeq(Y), F>> \in Lines(T)
  BY <1>9, <1>10
<1> QED
  BY <1>1, <1>11 DEF T

-----------------------------------------------------------------------------
(* Which stream is open, and what has the focus. *)
CopyPlaces == {Source, Target}

StreamStates == {"absent", "open", "finished"}

CopyShape ==
  /\ focused \in [CopyPlaces -> {"none", "writer", "reader"}]
  /\ \E b : writer \in [state : StreamStates, buffer : {b}]
  /\ reader \in [state : StreamStates, on : CopyPlaces]
  /\ CopyTypeOK

LEMMA CopyShapeIs ==
  ASSUME CopyShape
  PROVE  /\ writer = [state |-> writer.state, buffer |-> writer.buffer]
         /\ writer.state \in StreamStates
         /\ reader = [state |-> reader.state, on |-> reader.on]
         /\ reader.state \in StreamStates /\ reader.on \in CopyPlaces
  BY DEF CopyShape

LEMMA CopyShapeStarts == CopyInit => CopyShape
<1> SUFFICES ASSUME CopyInit PROVE CopyShape
  OBVIOUS
<1>1. /\ writer = [state |-> "absent", buffer |-> << >>]
      /\ reader = [state |-> "absent", on |-> Source]
      /\ focused = [t \in CopyPlaces |-> "none"] /\ copying = << >>
  BY DEF CopyInit, NoWriter, NoReader, CopyPlaces
<1>2. writer \in [state : StreamStates, buffer : {<< >>}]
      /\ reader \in [state : StreamStates, on : CopyPlaces]
  BY <1>1 DEF StreamStates, CopyPlaces
<1> QED
  BY <1>1, <1>2 DEF CopyShape, CopyTypeOK, CopyPlaces

(* The stream of a reader that ends. *)
LEMMA CloseKeepsShape ==
  ASSUME CopyShape, reader.state = "open", Close, UNCHANGED writer,
         writer.state # "open" => copying' = copying
  PROVE  CopyShape'
<1> DEFINE on == reader.on
<1>1. /\ reader' = [state |-> "finished", on |-> on] /\ on \in CopyPlaces
      /\ focused' = [focused EXCEPT ![on] = "none"]
  BY CopyShapeIs DEF Close
<1>2. focused \in [CopyPlaces -> {"none", "writer", "reader"}] /\ CopyTypeOK
      /\ \E b : writer \in [state : StreamStates, buffer : {b}]
  BY DEF CopyShape
<1> HIDE DEF on
<1>3. reader' \in [state : StreamStates, on : CopyPlaces]
  BY <1>1 DEF StreamStates
<1>4. focused[on] = "reader"
  BY <1>1, <1>2 DEF CopyTypeOK, CopyPlaces, on
<1>5. focused' \in [CopyPlaces -> {"none", "writer", "reader"}]
      /\ \A t \in CopyPlaces : focused'[t] = IF t = on THEN "none" ELSE focused[t]
  BY <1>1, <1>2
<1>6. CopyTypeOK'
  <2>1. ASSUME NEW t \in CopyPlaces
        PROVE  /\ focused'[t] \in {"none", "writer", "reader"}
               /\ focused'[t] = "writer" <=> t = Target /\ writer'.state = "open"
               /\ focused'[t] = "reader" <=> reader'.state = "open" /\ reader'.on = t
    <3>1. /\ focused[t] \in {"none", "writer", "reader"}
          /\ focused[t] = "writer" <=> t = Target /\ writer.state = "open"
          /\ focused[t] = "reader" <=> reader.state = "open" /\ reader.on = t
      BY <1>2 DEF CopyTypeOK, CopyPlaces
    <3>2. reader'.state = "finished"
      BY <1>1
    <3>3. CASE t = on
      <4>1. focused'[t] = "none" /\ focused[t] = "reader"
        BY <1>4, <1>5, <3>3
      <4> QED
        BY <3>1, <3>2, <4>1
    <3>4. CASE t # on
      <4>1. focused'[t] = focused[t] /\ focused[t] # "reader"
        BY <1>5, <3>1, <3>4 DEF on
      <4> QED
        BY <3>1, <3>2, <4>1
    <3> QED
      BY <3>3, <3>4
  <2>2. writer'.state # "open" => copying' = << >>
    BY <1>2 DEF CopyTypeOK
  <2> QED
    BY <2>1, <2>2 DEF CopyTypeOK, CopyPlaces
<1> QED
  BY <1>2, <1>3, <1>5, <1>6 DEF CopyShape

LEMMA OpenWriterKeepsShape == CopyShape /\ OpenWriter => CopyShape'
<1> SUFFICES ASSUME CopyShape, OpenWriter PROVE CopyShape'
  OBVIOUS
<1>1. /\ writer' = [state |-> "open", buffer |-> << >>] /\ writer.state = "absent"
      /\ focused[Target] = "none" /\ focused' = [focused EXCEPT ![Target] = "writer"]
      /\ copying' = << >> /\ UNCHANGED reader
  BY DEF OpenWriter
<1>2. /\ focused \in [CopyPlaces -> {"none", "writer", "reader"}] /\ CopyTypeOK
      /\ reader \in [state : StreamStates, on : CopyPlaces]
  BY DEF CopyShape
<1>3. writer' \in [state : StreamStates, buffer : {<< >>}]
  BY <1>1 DEF StreamStates
<1>4. focused' \in [CopyPlaces -> {"none", "writer", "reader"}]
      /\ \A t \in CopyPlaces : focused'[t] = IF t = Target THEN "writer" ELSE focused[t]
  BY <1>1, <1>2
<1>5. CopyTypeOK'
  BY <1>1, <1>2, <1>4 DEF CopyTypeOK, CopyPlaces, Source, Target
<1> QED
  BY <1>1, <1>2, <1>3, <1>4, <1>5 DEF CopyShape

LEMMA CompleteWriterKeepsShape == CopyShape /\ CompleteWriter => CopyShape'
<1> SUFFICES ASSUME CopyShape, CompleteWriter PROVE CopyShape'
  OBVIOUS
<1>1. /\ writer' = [state |-> "finished", buffer |-> writer.buffer] /\ writer.state = "open"
      /\ focused' = [focused EXCEPT ![Target] = "none"]
      /\ copying' = << >> /\ UNCHANGED reader
  BY CopyShapeIs DEF CompleteWriter
<1>2. /\ focused \in [CopyPlaces -> {"none", "writer", "reader"}] /\ CopyTypeOK
      /\ reader \in [state : StreamStates, on : CopyPlaces]
  BY DEF CopyShape
<1>3. writer' \in [state : StreamStates, buffer : {writer.buffer}]
  BY <1>1 DEF StreamStates
<1>4. focused' \in [CopyPlaces -> {"none", "writer", "reader"}]
      /\ \A t \in CopyPlaces : focused'[t] = IF t = Target THEN "none" ELSE focused[t]
  BY <1>1, <1>2
<1>5. CopyTypeOK'
  BY <1>1, <1>2, <1>4 DEF CopyTypeOK, CopyPlaces, Source, Target
<1> QED
  BY <1>1, <1>2, <1>3, <1>4, <1>5 DEF CopyShape

LEMMA WritingKeepsShape == CopyShape /\ (WriteRow \/ FailToWrite) => CopyShape'
<1> SUFFICES ASSUME CopyShape, WriteRow \/ FailToWrite PROVE CopyShape'
  OBVIOUS
<1>1. /\ writer' = [state |-> "open", buffer |-> writer'.buffer] /\ writer.state = "open"
      /\ UNCHANGED <<focused, reader>>
  <2>1. CASE WriteRow
    BY <2>1, CopyShapeIs DEF WriteRow
  <2>2. CASE FailToWrite
    BY <2>2, CopyShapeIs DEF FailToWrite
  <2> QED
    BY <2>1, <2>2
<1>2. /\ focused \in [CopyPlaces -> {"none", "writer", "reader"}] /\ CopyTypeOK
      /\ reader \in [state : StreamStates, on : CopyPlaces]
  BY DEF CopyShape
<1>3. writer' \in [state : StreamStates, buffer : {writer'.buffer}]
  BY <1>1 DEF StreamStates
<1>4. writer'.state = "open"
  BY <1>1
<1>5. CopyTypeOK'
  BY <1>1, <1>2, <1>4 DEF CopyTypeOK
<1> QED
  BY <1>1, <1>2, <1>3, <1>5 DEF CopyShape

LEMMA OpenReaderKeepsShape == CopyShape /\ OpenReader => CopyShape'
<1> SUFFICES ASSUME CopyShape, OpenReader PROVE CopyShape'
  OBVIOUS
<1>1. PICK t \in CopyPlaces : /\ focused[t] = "none" /\ reader' = [state |-> "open", on |-> t]
                              /\ focused' = [focused EXCEPT ![t] = "reader"]
  BY DEF OpenReader, CopyPlaces
<1>2. reader.state = "absent" /\ UNCHANGED <<writer, copying>>
  BY DEF OpenReader
<1>3. /\ focused \in [CopyPlaces -> {"none", "writer", "reader"}] /\ CopyTypeOK
      /\ \E b : writer \in [state : StreamStates, buffer : {b}]
  BY DEF CopyShape
<1>4. reader' \in [state : StreamStates, on : CopyPlaces]
  BY <1>1 DEF StreamStates
<1>5. focused' \in [CopyPlaces -> {"none", "writer", "reader"}]
      /\ \A u \in CopyPlaces : focused'[u] = IF u = t THEN "reader" ELSE focused[u]
  BY <1>1, <1>3
<1>6. CopyTypeOK'
  <2>1. ASSUME NEW u \in CopyPlaces
        PROVE  /\ focused'[u] \in {"none", "writer", "reader"}
               /\ focused'[u] = "writer" <=> u = Target /\ writer'.state = "open"
               /\ focused'[u] = "reader" <=> reader'.state = "open" /\ reader'.on = u
    <3>1. /\ focused[u] \in {"none", "writer", "reader"}
          /\ focused[u] = "writer" <=> u = Target /\ writer.state = "open"
          /\ focused[u] = "reader" <=> reader.state = "open" /\ reader.on = u
      BY <1>3 DEF CopyTypeOK, CopyPlaces
    <3>2. reader'.state = "open" /\ reader'.on = t
      BY <1>1
    <3>3. CASE u = t
      BY <1>1, <1>2, <1>5, <3>1, <3>2, <3>3
    <3>4. CASE u # t
      BY <1>2, <1>5, <3>1, <3>2, <3>4
    <3> QED
      BY <3>3, <3>4
  <2> QED
    BY <1>2, <1>3, <2>1 DEF CopyTypeOK, CopyPlaces
<1> QED
  BY <1>2, <1>3, <1>4, <1>5, <1>6 DEF CopyShape

LEMMA CopyShapeKept == CopyShape /\ [CopyNext]_copyVars => CopyShape'
<1> SUFFICES ASSUME CopyShape, [CopyNext]_copyVars PROVE CopyShape'
  OBVIOUS
<1>1. CASE ReadRow
  BY <1>1 DEF ReadRow, CopyShape, CopyTypeOK
<1>2. CASE ReadEnd
  BY <1>2, CloseKeepsShape DEF ReadEnd
<1>3. CASE CompleteReader
  BY <1>3, CloseKeepsShape DEF CompleteReader
<1>4. CASE Pipe
  BY <1>4, CloseKeepsShape DEF Pipe
<1>5. CASE UNCHANGED copyVars
  BY <1>5 DEF copyVars, CopyShape, CopyTypeOK
<1> QED
  BY <1>1, <1>2, <1>3, <1>4, <1>5, OpenWriterKeepsShape, CompleteWriterKeepsShape,
     WritingKeepsShape, OpenReaderKeepsShape DEF CopyNext

(* A transaction's focus is the stream that is open there: MCPqData.        *)
THEOREM CopyTyped == CopySpec => []CopyTypeOK
<1>1. CopyShape => CopyTypeOK
  BY DEF CopyShape
<1> QED
  BY <1>1, CopyShapeStarts, CopyShapeKept, PTL DEF CopySpec

-----------------------------------------------------------------------------
(* The rows of an encoding, and what their texts are on the way. *)
RowOf(e) == {row \in Seq(Seq(Int)) : row # << >> /\ \A i \in 1 .. Len(row) : IsField(e, row[i])}

LEMMA RowsOfProgram ==
  ASSUME CopyAssumption, NEW e \in CopyEncodings
  PROVE  CopyRow[e] \subseteq RowOf(e)
<1> SUFFICES ASSUME NEW row \in CopyRow[e] PROVE row \in RowOf(e)
  OBVIOUS
<1>1. row \in Seq(Seq(Int)) /\ row # << >>
      /\ \A i \in DOMAIN row : row[i] = NullField \/ IsText(e, row[i])
  BY DEF CopyAssumption
<1>2. DOMAIN row = 1 .. Len(row)
  BY <1>1
<1> QED
  BY <1>1, <1>2 DEF RowOf, IsField

(* COPY TO, and then either end. *)
LEMMA RowIsRead ==
  ASSUME SelfDelimiting(encoding), NEW row \in RowOf(encoding)
  PROVE  Parsed(Shown(row)) = row /\ Stored(Shown(row)) = row
<1>1. row \in Seq(Seq(Int)) /\ row # << >> /\ \A i \in 1 .. Len(row) : IsField(encoding, row[i])
  BY DEF RowOf
<1>2. PICK b : <<b, row>> \in Lines(ClientTokens(encoding)) /\ Shown(row) = Front(b)
  BY <1>1, ShownIs
<1>3. Parsed(Front(b)) = row
  BY <1>1, <1>2, ParsedIs
<1>4. Stored(Front(b)) = row
  BY <1>1, <1>2, StoredIs
<1> QED
  BY <1>2, <1>3, <1>4

(* What the buffer has of a row whose writing failed. *)
Buffered(e, b) ==
  \E G \in Seq(Seq(Int)) : /\ <<b, G>> \in Lines(ServerTokens(e))
                           /\ \A i \in 1 .. Len(G) : IsField(e, G[i])

LEMMA NothingBuffered ==
  ASSUME NEW e
  PROVE  Buffered(e, << >>) /\ << << >>, << >> >> \in Lines(ServerTokens(e))
<1> DEFINE G == << >>
<1>1. << << >>, G>> \in Lines(ServerTokens(e))
  BY LinesGrow DEF LineMade
<1>2. G \in Seq(Seq(Int)) /\ \A i \in 1 .. Len(G) : IsField(e, G[i])
  OBVIOUS
<1> QED
  BY <1>1, <1>2 DEF Buffered

LEMMA FieldsOfBoth ==
  ASSUME NEW e, NEW G \in Seq(Seq(Int)), NEW F \in Seq(Seq(Int)),
         \A i \in 1 .. Len(G) : IsField(e, G[i]), \A i \in 1 .. Len(F) : IsField(e, F[i])
  PROVE  G \o F \in Seq(Seq(Int)) /\ \A i \in 1 .. Len(G \o F) : IsField(e, (G \o F)[i])
<1> DEFINE H == G \o F
<1>1. H \in Seq(Seq(Int)) /\ Len(H) = Len(G) + Len(F) /\ Len(G) \in Nat /\ Len(F) \in Nat
      /\ \A i \in 1 .. Len(G) + Len(F) : H[i] = IF i <= Len(G) THEN G[i] ELSE F[i - Len(G)]
  BY ConcatProperties
<1> HIDE DEF H
<1>2. ASSUME NEW i \in 1 .. Len(H) PROVE IsField(e, H[i])
  <2>1. CASE i <= Len(G)
    <3>1. i \in 1 .. Len(G) /\ H[i] = G[i]
      BY <1>1, <2>1
    <3> QED
      BY <3>1
  <2>2. CASE ~(i <= Len(G))
    <3>1. i - Len(G) \in 1 .. Len(F) /\ H[i] = F[i - Len(G)]
      BY <1>1, <2>2
    <3> QED
      BY <3>1
  <2> QED
    BY <2>1, <2>2
<1> QED
  BY <1>1, <1>2 DEF H

LEMMA RowIsWritten ==
  ASSUME SelfDelimiting(encoding), NEW b, Buffered(encoding, b), NEW row \in RowOf(encoding)
  PROVE  /\ Stored(LineOf(Appended(b, row))) \in RowOf(encoding)
         /\ b = << >> => Stored(LineOf(Appended(b, row))) = row
<1>1. row \in Seq(Seq(Int)) /\ row # << >> /\ \A i \in 1 .. Len(row) : IsField(encoding, row[i])
  BY DEF RowOf
<1>2. ASSUME NEW G \in Seq(Seq(Int)), <<b, G>> \in Lines(ServerTokens(encoding)),
             \A i \in 1 .. Len(G) : IsField(encoding, G[i])
      PROVE  Stored(LineOf(Appended(b, row))) = G \o row /\ G \o row \in RowOf(encoding)
  <2> DEFINE a == Appended(b, row)  H == G \o row
  <2>1. <<a, H>> \in Lines(ServerTokens(encoding))
    BY <1>1, <1>2, AppendedIsLine
  <2>2. H \in Seq(Seq(Int)) /\ \A i \in 1 .. Len(H) : IsField(encoding, H[i])
    BY <1>1, <1>2, FieldsOfBoth
  <2>3. H # << >>
    BY <1>1, ConcatEqualIffEmpty
  <2> HIDE DEF a, H
  <2>4. a # << >> /\ Stored(Front(a)) = H
    BY <2>1, <2>3, StoredIs
  <2>5. H \in RowOf(encoding)
    BY <2>2, <2>3 DEF RowOf
  <2>6. LineOf(a) = Front(a)
    BY <2>4 DEF LineOf
  <2> QED
    BY <2>4, <2>5, <2>6 DEF a, H
<1>3. PICK G \in Seq(Seq(Int)) : /\ <<b, G>> \in Lines(ServerTokens(encoding))
                                 /\ \A i \in 1 .. Len(G) : IsField(encoding, G[i])
  BY DEF Buffered
<1>4. Stored(LineOf(Appended(b, row))) \in RowOf(encoding)
  BY <1>2, <1>3
<1>5. ASSUME b = << >> PROVE Stored(LineOf(Appended(b, row))) = row
  <2> DEFINE E == << >>
  <2>1. E \in Seq(Seq(Int)) /\ \A i \in 1 .. Len(E) : IsField(encoding, E[i])
    OBVIOUS
  <2>2. <<b, E>> \in Lines(ServerTokens(encoding))
    BY <1>5, NothingBuffered
  <2>3. E \o row = row
    BY <1>1, ConcatEmptySeq
  <2> HIDE DEF E
  <2> QED
    BY <1>2, <2>1, <2>2, <2>3
<1> QED
  BY <1>4, <1>5

(* What a server understands are fields of the encoding, too. *)
LEMMA TextsOfProgram ==
  ASSUME CopyAssumption, encoding \in CopyEncodings, NEW f \in CopyTexts
  PROVE  f \in Seq(Int) /\ IsField(encoding, f)
<1>1. PICK row \in CopyRow[encoding] : f \in Range(row)
  BY DEF CopyTexts
<1>2. row \in Seq(Seq(Int)) /\ \A i \in 1 .. Len(row) : IsField(encoding, row[i])
  BY RowsOfProgram DEF RowOf
<1>3. PICK i \in 1 .. Len(row) : f = row[i]
  BY <1>1, <1>2 DEF Range
<1> QED
  BY <1>2, <1>3

LEMMA UnderstoodIs ==
  ASSUME CopyAssumption, encoding \in CopyEncodings, NEW row \in RowOf(encoding),
         NEW stored \in Understood(row)
  PROVE  stored \in RowOf(encoding) /\ Like(stored, row)
<1>1. row \in Seq(Seq(Int)) /\ row # << >> /\ \A i \in 1 .. Len(row) : IsField(encoding, row[i])
  BY DEF RowOf
<1>2. CASE ~converts
  <2>1. stored = row
    BY <1>2 DEF Understood
  <2> QED
    BY <2>1 DEF Like
<1>3. CASE converts
  <2>1. /\ stored \in [DOMAIN row -> Range(row) \cup CopyTexts]
        /\ \A i \in DOMAIN row :
             stored[i] = row[i] \/ (~IsPlain(row[i]) /\ stored[i] # NullField)
    BY <1>3 DEF Understood
  <2>2. DOMAIN row = 1 .. Len(row) /\ Len(row) \in Nat /\ Len(row) # 0
    BY <1>1
  <2>3. ASSUME NEW i \in 1 .. Len(row)
        PROVE  stored[i] \in Seq(Int) /\ IsField(encoding, stored[i])
    <3>1. CASE stored[i] \in CopyTexts
      BY <3>1, TextsOfProgram
    <3>2. CASE stored[i] \in Range(row)
      <4>1. PICK j \in 1 .. Len(row) : stored[i] = row[j]
        BY <2>2, <3>2 DEF Range
      <4> QED
        BY <1>1, <4>1
    <3> QED
      BY <2>1, <2>2, <3>1, <3>2
  <2>4. stored \in [1 .. Len(row) -> Seq(Int)]
    BY <2>1, <2>2, <2>3
  <2>5. stored \in Seq(Seq(Int)) /\ Len(stored) = Len(row)
    BY <2>2, <2>4
  <2>6. stored # << >>
    BY <2>2, <2>5
  <2>7. stored \in RowOf(encoding)
    BY <2>3, <2>5, <2>6 DEF RowOf
  <2>8. Like(stored, row)
    BY <1>3, <2>1 DEF Like
  <2> QED
    BY <2>7, <2>8
<1> QED
  BY <1>2, <1>3

(* A field more in the buffer. *)
LEMMA PartIsBuffered ==
  ASSUME SelfDelimiting(encoding), NEW b, Buffered(encoding, b), NEW row \in RowOf(encoding)
  PROVE  Buffered(encoding, Appended(b, SubSeq(row, 1, 1)))
<1>1. row \in Seq(Seq(Int)) /\ row # << >> /\ \A i \in 1 .. Len(row) : IsField(encoding, row[i])
  BY DEF RowOf
<1> DEFINE F == SubSeq(row, 1, 1)
<1>2. F \in Seq(Seq(Int)) /\ Len(F) = 1 /\ F[1] = row[1] /\ 1 \in 1 .. Len(row)
  BY <1>1
<1> HIDE DEF F
<1>3. \A i \in 1 .. Len(F) : IsField(encoding, F[i])
  <2>1. \A i \in 1 .. Len(F) : i = 1
    BY <1>2
  <2> QED
    BY <1>1, <1>2, <2>1
<1>4. PICK G \in Seq(Seq(Int)) : /\ <<b, G>> \in Lines(ServerTokens(encoding))
                                 /\ \A i \in 1 .. Len(G) : IsField(encoding, G[i])
  BY DEF Buffered
<1>5. <<Appended(b, F), G \o F>> \in Lines(ServerTokens(encoding))
  BY <1>2, <1>3, <1>4, AppendedIsLine
<1>6. G \o F \in Seq(Seq(Int)) /\ \A i \in 1 .. Len(G \o F) : IsField(encoding, (G \o F)[i])
  BY <1>2, <1>3, <1>4, FieldsOfBoth
<1> QED
  BY <1>5, <1>6 DEF Buffered, F

-----------------------------------------------------------------------------
(* The inductive invariant: the buffer of the writer is part of a line, and  *)
(* empty if nothing has failed; what has still to be read is the lines of    *)
(* the rows that have not been read.                                         *)
Rows == Seq(RowOf(encoding))

EndsOfReading == {"no", "end", "thrown", "left", "passed"}

CopyTyping ==
  /\ encoding \in CopyEncodings
  /\ tables \in [CopyPlaces -> Rows] /\ copying \in Rows
  /\ given \in [rows : Rows, passed : SUBSET Nat, spoiled : BOOLEAN]
  /\ got \in [rows : Rows, of : Rows, ended : EndsOfReading]
  /\ lines \in Seq(Seq(Byte))

WriterInv ==
  /\ Buffered(encoding, writer.buffer)
  /\ ~given.spoiled => writer.buffer = << >>
  /\ Len(given.rows) = Len(tables[Target]) + Len(copying)
  /\ given.passed \subseteq 1 .. Len(given.rows)
  /\ RowsArrive

(* RowsArrive, for rows that nothing has spoiled. *)
Arrived(there, rows, passed) ==
  /\ Len(there) = Len(rows)
  /\ \A k \in DOMAIN there : /\ Like(there[k], rows[k])
                             /\ k \in passed => there[k] = rows[k]

LEMMA ArrivedIs ==
  RowsArrive <=> given.spoiled \/ Arrived(tables[Target] \o copying, given.rows, given.passed)
  BY DEF RowsArrive, Arrived

ToCome(of, had, left) ==
  /\ Len(left) + Len(had) = Len(of)
  /\ \A i \in 1 .. Len(left) : left[i] = Shown(of[Len(had) + i])

ReaderInv ==
  /\ reader.state = "open" => /\ got.ended = "no" /\ got.of = tables[reader.on]
                              /\ ToCome(got.of, got.rows, lines)
  /\ RowsAreRead

CopyInv == CopyShape /\ CopyTyping /\ WriterInv /\ ReaderInv

LEMMA CopyTypingIs ==
  ASSUME CopyTyping
  PROVE  /\ encoding \in CopyEncodings
         /\ tables[Source] \in Rows /\ tables[Target] \in Rows /\ copying \in Rows
         /\ given = [rows |-> given.rows, passed |-> given.passed, spoiled |-> given.spoiled]
         /\ given.rows \in Rows /\ given.passed \in SUBSET Nat /\ given.spoiled \in BOOLEAN
         /\ got = [rows |-> got.rows, of |-> got.of, ended |-> got.ended]
         /\ got.rows \in Rows /\ got.of \in Rows /\ got.ended \in EndsOfReading
         /\ lines \in Seq(Seq(Byte))
<1>1. tables[Source] \in Rows /\ tables[Target] \in Rows
  BY DEF CopyTyping, CopyPlaces
<1>2. given \in [rows : Rows, passed : SUBSET Nat, spoiled : BOOLEAN]
      /\ got \in [rows : Rows, of : Rows, ended : EndsOfReading]
  BY DEF CopyTyping
<1> QED
  BY <1>1, <1>2 DEF CopyTyping

(* Which encodings these are. *)
Delimiting == CopyEncodings \cap {"GB18030", "MULE_INTERNAL"} = {}

LEMMA EncodingDelimits ==
  ASSUME CopyAssumption, Delimiting, encoding \in CopyEncodings
  PROVE  SelfDelimiting(encoding)
<1>1. encoding \in Encoding \ {"GB18030", "MULE_INTERNAL"}
  BY DEF CopyAssumption, Delimiting
<1> QED
  BY <1>1, DelimitingEncodings

LEMMA ShownIsLine ==
  ASSUME SelfDelimiting(encoding), NEW row \in RowOf(encoding)
  PROVE  Shown(row) \in Seq(Byte)
<1>1. row \in Seq(Seq(Int)) /\ row # << >> /\ \A i \in 1 .. Len(row) : IsField(encoding, row[i])
  BY DEF RowOf
<1>2. PICK b : <<b, row>> \in Lines(ClientTokens(encoding)) /\ Shown(row) = Front(b)
  BY <1>1, ShownIs
<1>3. ClientTokens(encoding) \in SUBSET Tokens
  BY TokensAre
<1> QED
  BY <1>1, <1>2, <1>3, FrontIsRead

(* Sequences of rows. *)
LEMMA RowsTogether ==
  ASSUME NEW a \in Rows, NEW b \in Rows
  PROVE  /\ a \o b \in Rows /\ Len(a \o b) = Len(a) + Len(b) /\ SubSeq(a \o b, 1, Len(a)) = a
         /\ (a \o b) \o << >> = a \o b /\ a \o << >> = a
         /\ \A row \in RowOf(encoding) : Append(a \o b, row) = a \o Append(b, row)
         /\ \A c \in Rows : (a \o b) \o c = a \o (b \o c)
<1> DEFINE S == RowOf(encoding)
<1>1. a \in Seq(S) /\ b \in Seq(S)
  BY DEF Rows
<1> HIDE DEF S
<1>2. a \o b \in Seq(S) /\ Len(a \o b) = Len(a) + Len(b)
      /\ \A i \in 1 .. Len(a) + Len(b) : (a \o b)[i] = IF i <= Len(a) THEN a[i] ELSE b[i - Len(a)]
  BY <1>1, ConcatProperties
<1>3. (a \o b) \o << >> = a \o b /\ a \o << >> = a
  BY <1>1, <1>2, ConcatEmptySeq
<1>4. SubSeq(a \o b, 1, Len(a)) = a
  <2> DEFINE c == a \o b
  <2>1. c \in Seq(S) /\ Len(a) \in Nat /\ Len(a) <= Len(c) /\ \A i \in 1 .. Len(a) : c[i] = a[i]
    BY <1>1, <1>2
  <2> HIDE DEF c
  <2>2. SubSeq(c, 1, Len(a)) \in Seq(S) /\ Len(SubSeq(c, 1, Len(a))) = Len(a)
        /\ \A i \in 1 .. Len(a) : SubSeq(c, 1, Len(a))[i] = c[i]
    BY <2>1
  <2>3. SubSeq(c, 1, Len(a)) = a
    BY <1>1, <2>1, <2>2, SeqEqual
  <2> QED
    BY <2>3 DEF c
<1>5. ASSUME NEW row \in S PROVE Append(a \o b, row) = a \o Append(b, row)
  <2>1. Append(b, row) = b \o <<row>> /\ <<row>> \in Seq(S)
    BY <1>1, AppendIsConcat
  <2>2. Append(a \o b, row) = (a \o b) \o <<row>>
    BY <1>2, AppendIsConcat
  <2>3. (a \o b) \o <<row>> = a \o (b \o <<row>>)
    BY <1>1, <2>1, ConcatAssociative
  <2> QED
    BY <2>1, <2>2, <2>3
<1>6. ASSUME NEW c \in Seq(S) PROVE (a \o b) \o c = a \o (b \o c)
  BY <1>1, ConcatAssociative
<1> QED
  BY <1>2, <1>3, <1>4, <1>5, <1>6 DEF S, Rows

(* Rows that arrive one by one, pass, and are refused. *)
LEMMA OneMoreArrives ==
  ASSUME NEW a \in Rows, NEW b \in Rows, NEW passed \in SUBSET (1 .. Len(b)),
         Arrived(a, b, passed), NEW x \in RowOf(encoding), NEW y \in RowOf(encoding),
         Like(x, y)
  PROVE  Arrived(Append(a, x), Append(b, y), passed)
<1> DEFINE S == RowOf(encoding)  c == Append(a, x)  d == Append(b, y)
<1>1. a \in Seq(S) /\ b \in Seq(S) /\ x \in S /\ y \in S
  BY DEF Rows
<1>2. Len(a) = Len(b) /\ \A k \in DOMAIN a : Like(a[k], b[k]) /\ (k \in passed => a[k] = b[k])
  BY DEF Arrived
<1> HIDE DEF S
<1>3. /\ c \in Seq(S) /\ d \in Seq(S) /\ Len(a) \in Nat /\ Len(b) \in Nat
      /\ Len(c) = Len(a) + 1 /\ Len(d) = Len(b) + 1
      /\ DOMAIN a = 1 .. Len(a) /\ DOMAIN c = 1 .. Len(c)
      /\ c[Len(a) + 1] = x /\ d[Len(b) + 1] = y
      /\ \A k \in 1 .. Len(a) : c[k] = a[k]
      /\ \A k \in 1 .. Len(b) : d[k] = b[k]
  BY <1>1
<1> HIDE DEF c, d
<1>4. ASSUME NEW k \in DOMAIN c PROVE Like(c[k], d[k]) /\ (k \in passed => c[k] = d[k])
  <2>1. CASE k = Len(a) + 1
    <3>1. c[k] = x /\ d[k] = y /\ k \notin passed
      BY <1>2, <1>3, <2>1
    <3> QED
      BY <3>1
  <2>2. CASE k # Len(a) + 1
    <3>1. k \in 1 .. Len(a) /\ k \in 1 .. Len(b)
      BY <1>2, <1>3, <2>2
    <3>2. c[k] = a[k] /\ d[k] = b[k] /\ k \in DOMAIN a
      BY <1>3, <3>1
    <3> QED
      BY <1>2, <3>2
  <2> QED
    BY <2>1, <2>2
<1> QED
  BY <1>2, <1>3, <1>4 DEF Arrived, c, d

LEMMA PassedArrive ==
  ASSUME NEW a \in Rows, NEW b \in Rows, NEW passed \in SUBSET (1 .. Len(b)),
         Arrived(a, b, passed), NEW c \in Rows
  PROVE  Arrived(a \o c, b \o c, passed \cup (Len(b) + 1 .. Len(b) + Len(c)))
<1> DEFINE S == RowOf(encoding)  x == a \o c  y == b \o c
           all == passed \cup (Len(b) + 1 .. Len(b) + Len(c))
<1>1. a \in Seq(S) /\ b \in Seq(S) /\ c \in Seq(S)
  BY DEF Rows
<1>2. Len(a) = Len(b) /\ \A k \in DOMAIN a : Like(a[k], b[k]) /\ (k \in passed => a[k] = b[k])
  BY DEF Arrived
<1> HIDE DEF S
<1>3. /\ x \in Seq(S) /\ Len(x) = Len(a) + Len(c)
      /\ \A k \in 1 .. Len(a) + Len(c) : x[k] = IF k <= Len(a) THEN a[k] ELSE c[k - Len(a)]
  BY <1>1, ConcatProperties
<1>4. /\ y \in Seq(S) /\ Len(y) = Len(b) + Len(c)
      /\ \A k \in 1 .. Len(b) + Len(c) : y[k] = IF k <= Len(b) THEN b[k] ELSE c[k - Len(b)]
  BY <1>1, ConcatProperties
<1>5. /\ Len(a) \in Nat /\ Len(b) \in Nat /\ Len(c) \in Nat
      /\ DOMAIN a = 1 .. Len(a) /\ DOMAIN x = 1 .. Len(x)
  BY <1>1, <1>3
<1> HIDE DEF x, y
<1>6. ASSUME NEW k \in DOMAIN x PROVE Like(x[k], y[k]) /\ (k \in all => x[k] = y[k])
  <2>1. k \in 1 .. Len(a) + Len(c) /\ k \in 1 .. Len(b) + Len(c)
    BY <1>2, <1>3, <1>5
  <2>2. CASE k <= Len(a)
    <3>1. x[k] = a[k] /\ y[k] = b[k] /\ k \in DOMAIN a /\ (k \in all => k \in passed)
      BY <1>2, <1>3, <1>4, <1>5, <2>1, <2>2
    <3> QED
      BY <1>2, <3>1
  <2>3. CASE ~(k <= Len(a))
    <3>1. x[k] = y[k]
      BY <1>2, <1>3, <1>4, <2>1, <2>3
    <3> QED
      BY <3>1 DEF Like
  <2> QED
    BY <2>2, <2>3
<1>7. Len(x) = Len(y)
  BY <1>2, <1>3, <1>4
<1> QED
  BY <1>6, <1>7 DEF Arrived, x, y, all

LEMMA RefusedLeave ==
  ASSUME NEW a \in Rows, NEW b \in Rows, NEW rows \in Rows, NEW passed,
         Arrived(a \o b, rows, passed)
  PROVE  Arrived(a, SubSeq(rows, 1, Len(a)), passed \cap (1 .. Len(a)))
<1> DEFINE S == RowOf(encoding)  x == a \o b  kept == SubSeq(rows, 1, Len(a))
<1>1. a \in Seq(S) /\ b \in Seq(S) /\ rows \in Seq(S)
  BY DEF Rows
<1>2. Len(x) = Len(rows) /\ \A k \in DOMAIN x : Like(x[k], rows[k])
                                            /\ (k \in passed => x[k] = rows[k])
  BY DEF Arrived
<1> HIDE DEF S
<1>3. /\ x \in Seq(S) /\ Len(x) = Len(a) + Len(b)
      /\ \A k \in 1 .. Len(a) + Len(b) : x[k] = IF k <= Len(a) THEN a[k] ELSE b[k - Len(a)]
  BY <1>1, ConcatProperties
<1> HIDE DEF x
<1>4. /\ Len(a) \in Nat /\ Len(b) \in Nat /\ Len(a) <= Len(rows)
      /\ DOMAIN a = 1 .. Len(a) /\ DOMAIN x = 1 .. Len(x)
  BY <1>1, <1>2, <1>3
<1>5. Len(kept) = Len(a) /\ \A k \in 1 .. Len(a) : kept[k] = rows[k]
  BY <1>1, <1>4
<1> HIDE DEF kept
<1>6. ASSUME NEW k \in DOMAIN a
      PROVE  Like(a[k], kept[k]) /\ (k \in passed \cap (1 .. Len(a)) => a[k] = kept[k])
  <2>1. k \in DOMAIN x /\ x[k] = a[k] /\ kept[k] = rows[k]
    BY <1>3, <1>4, <1>5
  <2> QED
    BY <1>2, <2>1
<1> QED
  BY <1>5, <1>6 DEF Arrived, kept

LEMMA CopyStarts == CopyAssumption /\ CopyInit => CopyInv
<1> SUFFICES ASSUME CopyAssumption, CopyInit PROVE CopyInv
  OBVIOUS
<1>1. CopyShape
  BY CopyShapeStarts
<1>2. PICK row \in CopyRow[encoding] : tables = [t \in {Source, Target} |->
                                                  IF t = Source THEN <<row>> ELSE << >>]
  BY DEF CopyInit
<1>3. /\ encoding \in CopyEncodings /\ copying = << >> /\ lines = << >>
      /\ writer.buffer = << >> /\ reader.state = "absent"
      /\ given = [rows |-> << >>, passed |-> {}, spoiled |-> FALSE]
      /\ got = [rows |-> << >>, of |-> tables[Source], ended |-> "no"]
  BY DEF CopyInit, NoWriter, NoReader, NothingOf
<1>4. row \in RowOf(encoding)
  BY <1>2, <1>3, RowsOfProgram
<1>5. << >> \in Rows /\ <<row>> \in Rows /\ << >> \in Seq(Seq(Byte))
  BY <1>4 DEF Rows
<1>6. tables \in [CopyPlaces -> Rows] /\ tables[Target] = << >> /\ tables[Source] = <<row>>
  BY <1>2, <1>5 DEF CopyPlaces, Source, Target
<1>7. CopyTyping
  BY <1>3, <1>5, <1>6 DEF CopyTyping, EndsOfReading
<1>8. WriterInv
  <2>1. Buffered(encoding, writer.buffer)
    BY <1>3, NothingBuffered
  <2>2. Len(given.rows) = Len(tables[Target]) + Len(copying)
    <3>1. Len(<< >>) = 0 + 0
      OBVIOUS
    <3> QED
      BY <1>3, <1>6
  <2>3. Arrived(tables[Target] \o copying, given.rows, given.passed)
    <3>1. << >> \o << >> = << >> /\ Len(<< >>) = 0 /\ DOMAIN << >> = {}
      OBVIOUS
    <3>2. tables[Target] \o copying = << >> /\ given.rows = << >>
      BY <1>3, <1>6, <3>1
    <3> QED
      BY <3>1, <3>2 DEF Arrived
  <2> QED
    BY <1>3, <2>1, <2>2, <2>3, ArrivedIs DEF WriterInv
<1>9. ReaderInv
  <2>1. IsPrefix(<< >>, tables[Source])
    <3> DEFINE x == tables[Source]
    <3>1. x \in Rows /\ Len(x) \in Nat /\ Len(<< >>) = 0
      BY <1>5, <1>6 DEF Rows
    <3>2. SubSeq(<< >>, 1, 0) = << >> /\ SubSeq(x, 1, 0) = << >>
      BY <3>1, OneMore DEF Rows
    <3> HIDE DEF x
    <3>3. Len(<< >>) <= Len(x) /\ SubSeq(<< >>, 1, Len(<< >>)) = SubSeq(x, 1, Len(<< >>))
      BY <3>1, <3>2
    <3> QED
      BY <3>3 DEF IsPrefix, x
  <2> QED
    BY <1>3, <2>1 DEF ReaderInv, RowsAreRead
<1> QED
  BY <1>1, <1>7, <1>8, <1>9 DEF CopyInv

(* Steps that leave the one or the other as it is. *)
LEMMA ReadingStays ==
  ASSUME ReaderInv, UNCHANGED <<reader, lines, got, encoding>>,
         reader.state = "open" => tables'[reader.on] = tables[reader.on]
  PROVE  ReaderInv'
<1>1. \A row : Shown(row)' = Shown(row)
  BY DEF Shown, ShownField, ShowNext
<1> QED
  BY <1>1 DEF ReaderInv, RowsAreRead, ToCome

LEMMA WritingStays ==
  ASSUME WriterInv, UNCHANGED <<encoding, converts, tables, copying, writer, given>>
  PROVE  WriterInv'
  BY DEF WriterInv, RowsArrive, Like, Buffered, Lines, LinePairs, LineMade, FieldSpelt

(* The steps of the writer. *)
LEMMA WriterTypes ==
  ASSUME CopyTyping, UNCHANGED <<encoding, converts, got, lines>>,
         tables' \in [CopyPlaces -> Rows], copying' \in Rows,
         given' \in [rows : Rows, passed : SUBSET Nat, spoiled : BOOLEAN]
  PROVE  CopyTyping'
<1>1. Rows' = Rows
  BY DEF Rows
<1> QED
  BY <1>1 DEF CopyTyping

LEMMA OpenWriterKeeps == CopyInv /\ OpenWriter => CopyTyping' /\ WriterInv' /\ ReaderInv'
<1> SUFFICES ASSUME CopyInv, OpenWriter PROVE CopyTyping' /\ WriterInv' /\ ReaderInv'
  OBVIOUS
<1>1. /\ UNCHANGED <<encoding, converts, tables, lines, reader, given, got>>
      /\ writer.state = "absent" /\ writer'.buffer = << >> /\ copying' = << >>
  BY DEF OpenWriter
<1>2. copying = << >>
  BY <1>1 DEF CopyInv, CopyShape, CopyTypeOK
<1>3. CopyTyping'
  BY <1>1, <1>2, WriterTypes DEF CopyInv, CopyTyping
<1>4. Buffered(encoding, writer.buffer)'
  <2>1. Buffered(encoding, << >>)
    BY NothingBuffered
  <2>2. Buffered(encoding, writer.buffer)' <=> Buffered(encoding, << >>)
    BY <1>1 DEF Buffered
  <2> QED
    BY <2>1, <2>2
<1>5. WriterInv'
  BY <1>1, <1>2, <1>4 DEF CopyInv, WriterInv, RowsArrive, Like
<1>6. ReaderInv'
  BY <1>1, ReadingStays DEF CopyInv
<1> QED
  BY <1>3, <1>5, <1>6

LEMMA WriteRowKeeps ==
  CopyAssumption /\ Delimiting /\ CopyInv /\ WriteRow => CopyTyping' /\ WriterInv' /\ ReaderInv'
<1> SUFFICES ASSUME CopyAssumption, Delimiting, CopyInv, WriteRow
             PROVE  CopyTyping' /\ WriterInv' /\ ReaderInv'
  OBVIOUS
<1>1. UNCHANGED <<encoding, converts, tables, lines, reader, focused, got>> /\ writer'.buffer = << >>
  BY CopyShapeIs DEF WriteRow, CopyInv
<1>2. PICK row \in CopyRow[encoding] :
        /\ \E sent \in Understood(Stored(LineOf(Appended(writer.buffer, row)))) :
             copying' = Append(copying, sent)
        /\ given' = [given EXCEPT !.rows = Append(@, row)]
  BY DEF WriteRow
<1> DEFINE line == Stored(LineOf(Appended(writer.buffer, row)))
<1>8. PICK sent \in Understood(line) : copying' = Append(copying, sent)
  BY <1>2
<1>3. /\ encoding \in CopyEncodings /\ copying \in Rows /\ tables[Target] \in Rows
      /\ given = [rows |-> given.rows, passed |-> given.passed, spoiled |-> given.spoiled]
      /\ given.rows \in Rows /\ given.passed \in SUBSET Nat /\ given.spoiled \in BOOLEAN
  BY CopyTypingIs DEF CopyInv
<1>4. SelfDelimiting(encoding) /\ row \in RowOf(encoding)
  BY <1>2, <1>3, EncodingDelimits, RowsOfProgram
<1>5. Buffered(encoding, writer.buffer) /\ (~given.spoiled => writer.buffer = << >>)
      /\ Len(given.rows) = Len(tables[Target]) + Len(copying) /\ RowsArrive
      /\ given.passed \subseteq 1 .. Len(given.rows)
  BY DEF CopyInv, WriterInv
<1>6. sent \in RowOf(encoding) /\ (writer.buffer = << >> => Like(sent, row))
  <2>1. line \in RowOf(encoding) /\ (writer.buffer = << >> => line = row)
    BY <1>4, <1>5, RowIsWritten
  <2> HIDE DEF line
  <2>2. sent \in RowOf(encoding) /\ Like(sent, line)
    BY <1>3, <1>8, <2>1, UnderstoodIs
  <2> QED
    BY <2>1, <2>2
<1>7. given' = [rows |-> Append(given.rows, row), passed |-> given.passed,
                spoiled |-> given.spoiled]
  BY <1>2, <1>3
<1> HIDE DEF line
<1>9. /\ copying' \in Rows /\ Append(given.rows, row) \in Rows /\ Len(given.rows) \in Nat
      /\ Len(copying') = Len(copying) + 1 /\ Len(Append(given.rows, row)) = Len(given.rows) + 1
      /\ Len(copying) \in Nat /\ Len(tables[Target]) \in Nat
  BY <1>3, <1>4, <1>6, <1>8 DEF Rows
<1>10. given' \in [rows : Rows, passed : SUBSET Nat, spoiled : BOOLEAN]
  BY <1>3, <1>7, <1>9
<1>11. CopyTyping'
  BY <1>1, <1>9, <1>10, WriterTypes DEF CopyInv, CopyTyping
<1>12. Buffered(encoding, writer.buffer)'
  <2>1. Buffered(encoding, << >>)
    BY NothingBuffered
  <2>2. Buffered(encoding, writer.buffer)' <=> Buffered(encoding, << >>)
    BY <1>1 DEF Buffered
  <2> QED
    BY <2>1, <2>2
<1>13. /\ given'.rows = Append(given.rows, row) /\ given'.spoiled = given.spoiled
       /\ given'.passed = given.passed
  BY <1>7
<1>14. Len(given'.rows) = Len(tables'[Target]) + Len(copying')
  <2> DEFINE a == Len(given.rows)  b == Len(tables[Target])  c == Len(copying)
  <2>1. Len(given'.rows) = a + 1 /\ Len(tables'[Target]) = b /\ Len(copying') = c + 1
    BY <1>1, <1>9, <1>13
  <2>2. a = b + c /\ a \in Nat /\ b \in Nat /\ c \in Nat
    BY <1>5, <1>9
  <2> HIDE DEF a, b, c
  <2>3. a + 1 = b + (c + 1)
    BY <2>2
  <2> QED
    BY <2>1, <2>3
<1>15. ASSUME ~given.spoiled
       PROVE  Arrived(tables[Target] \o copying', given'.rows, given'.passed)
  <2> DEFINE a == tables[Target]  b == copying
  <2>1. Like(sent, row) /\ Arrived(a \o b, given.rows, given.passed)
    BY <1>5, <1>6, <1>15, ArrivedIs
  <2>2. a \in Rows /\ b \in Rows /\ copying' = Append(b, sent)
    BY <1>3, <1>8
  <2> HIDE DEF a, b
  <2>3. a \o b \in Rows /\ Append(a \o b, sent) = a \o Append(b, sent)
    <3>1. a \o b \in Rows /\ \A r \in RowOf(encoding) : Append(a \o b, r) = a \o Append(b, r)
      BY <2>2, RowsTogether
    <3> QED
      BY <1>6, <3>1
  <2>4. Arrived(Append(a \o b, sent), Append(given.rows, row), given.passed)
    BY <1>3, <1>4, <1>5, <1>6, <2>1, <2>3, OneMoreArrives
  <2> QED
    BY <1>13, <2>2, <2>3, <2>4 DEF a
<1>16. WriterInv'
  <2>1. given'.passed \subseteq 1 .. Len(given'.rows)
    BY <1>5, <1>9, <1>13
  <2>2. RowsArrive'
    BY <1>1, <1>13, <1>15 DEF RowsArrive, Arrived, Like
  <2> QED
    BY <1>1, <1>12, <1>13, <1>14, <2>1, <2>2 DEF WriterInv
<1>17. ReaderInv'
  BY <1>1, ReadingStays DEF CopyInv
<1> QED
  BY <1>11, <1>16, <1>17

LEMMA FailToWriteKeeps ==
  CopyAssumption /\ Delimiting /\ CopyInv /\ FailToWrite => CopyTyping' /\ WriterInv' /\ ReaderInv'
<1> SUFFICES ASSUME CopyAssumption, Delimiting, CopyInv, FailToWrite
             PROVE  CopyTyping' /\ WriterInv' /\ ReaderInv'
  OBVIOUS
<1>1. UNCHANGED <<encoding, converts, tables, copying, lines, reader, focused, got>>
  BY DEF FailToWrite
<1>2. PICK row \in CopyRow[encoding] :
        writer' = [writer EXCEPT !.buffer = Appended(@, SubSeq(row, 1, 1))]
  BY DEF FailToWrite
<1>3. /\ encoding \in CopyEncodings
      /\ given = [rows |-> given.rows, passed |-> given.passed, spoiled |-> given.spoiled]
      /\ given.rows \in Rows /\ given.passed \in SUBSET Nat
  BY CopyTypingIs DEF CopyInv
<1>4. given' = [rows |-> given.rows, passed |-> given.passed, spoiled |-> TRUE]
  BY <1>3 DEF FailToWrite
<1>5. writer'.buffer = Appended(writer.buffer, SubSeq(row, 1, 1))
  BY <1>2, CopyShapeIs DEF CopyInv
<1>6. SelfDelimiting(encoding) /\ row \in RowOf(encoding)
  BY <1>2, <1>3, EncodingDelimits, RowsOfProgram
<1>7. Buffered(encoding, Appended(writer.buffer, SubSeq(row, 1, 1)))
  BY <1>6, PartIsBuffered DEF CopyInv, WriterInv
<1>8. Buffered(encoding, writer.buffer)'
  BY <1>1, <1>5, <1>7 DEF Buffered, Lines, LinePairs, LineMade, FieldSpelt
<1>9. given'.rows = given.rows /\ given'.passed = given.passed /\ given'.spoiled
  BY <1>4
<1>10. CopyTyping'
  <2>1. given' \in [rows : Rows, passed : SUBSET Nat, spoiled : BOOLEAN]
    BY <1>3, <1>4
  <2> QED
    BY <1>1, <2>1, WriterTypes DEF CopyInv, CopyTyping
<1>11. WriterInv'
  BY <1>1, <1>8, <1>9 DEF CopyInv, WriterInv, RowsArrive
<1>12. ReaderInv'
  BY <1>1, ReadingStays DEF CopyInv
<1> QED
  BY <1>10, <1>11, <1>12

LEMMA CompleteWriterKeeps ==
  CopyInv /\ CompleteWriter => CopyTyping' /\ WriterInv' /\ ReaderInv'
<1> SUFFICES ASSUME CopyInv, CompleteWriter PROVE CopyTyping' /\ WriterInv' /\ ReaderInv'
  OBVIOUS
<1>1. /\ UNCHANGED <<encoding, converts, lines, reader, got>> /\ writer'.buffer = writer.buffer
      /\ copying' = << >> /\ writer.state = "open"
  BY CopyShapeIs DEF CompleteWriter, CopyInv
<1>2. /\ encoding \in CopyEncodings /\ copying \in Rows /\ tables[Target] \in Rows
      /\ given = [rows |-> given.rows, passed |-> given.passed, spoiled |-> given.spoiled]
      /\ given.rows \in Rows /\ given.passed \in SUBSET Nat /\ given.spoiled \in BOOLEAN
      /\ tables \in [CopyPlaces -> Rows]
  BY CopyTypingIs DEF CopyInv, CopyTyping
<1>3. Buffered(encoding, writer.buffer) /\ (~given.spoiled => writer.buffer = << >>)
      /\ Len(given.rows) = Len(tables[Target]) + Len(copying) /\ RowsArrive
      /\ given.passed \subseteq 1 .. Len(given.rows)
  BY DEF CopyInv, WriterInv
<1>4. << >> \in Rows /\ Len(<< >>) = 0 /\ Len(copying) \in Nat /\ Len(tables[Target]) \in Nat
  BY <1>2 DEF Rows
<1>5. Buffered(encoding, writer.buffer)'
  BY <1>1, <1>3 DEF Buffered, Lines, LinePairs, LineMade, FieldSpelt
<1>6. reader.state = "open" => reader.on = Source
  BY <1>1, CopyShapeIs DEF CopyInv, CopyShape, CopyTypeOK, CopyPlaces
<1>7. CASE tables' = [tables EXCEPT ![Target] = @ \o copying] /\ UNCHANGED given
  <2>1. tables[Target] \o copying \in Rows
        /\ Len(tables[Target] \o copying) = Len(tables[Target]) + Len(copying)
        /\ (tables[Target] \o copying) \o << >> = tables[Target] \o copying
    BY <1>2, RowsTogether
  <2>2. tables' \in [CopyPlaces -> Rows] /\ tables'[Target] = tables[Target] \o copying
        /\ tables'[Source] = tables[Source]
    BY <1>2, <1>7, <2>1 DEF CopyPlaces, Source, Target
  <2>3. CopyTyping'
    BY <1>1, <1>2, <1>4, <1>7, <2>2, WriterTypes DEF CopyInv, CopyTyping
  <2>4. WriterInv'
    <3>1. Len(given'.rows) = Len(tables'[Target]) + Len(copying')
      BY <1>1, <1>3, <1>4, <1>7, <2>1, <2>2
    <3>2. RowsArrive'
      BY <1>1, <1>3, <1>7, <2>1, <2>2 DEF RowsArrive, Like
    <3> QED
      BY <1>1, <1>3, <1>5, <1>7, <3>1, <3>2 DEF WriterInv
  <2>5. ReaderInv'
    BY <1>1, <1>6, <2>2, ReadingStays DEF CopyInv
  <2> QED
    BY <2>3, <2>4, <2>5
<1>8. CASE /\ given' = [given EXCEPT !.rows = SubSeq(@, 1, Len(tables[Target])),
                                      !.passed = @ \cap (1 .. Len(tables[Target]))]
           /\ UNCHANGED tables
  <2> DEFINE kept == SubSeq(given.rows, 1, Len(tables[Target]))
             left == given.passed \cap (1 .. Len(tables[Target]))
  <2>1. given' = [rows |-> kept, passed |-> left, spoiled |-> given.spoiled]
    BY <1>2, <1>8
  <2>2. kept \in Rows /\ Len(kept) = Len(tables[Target])
    <3>1. Len(tables[Target]) <= Len(given.rows) /\ given.rows \in Seq(RowOf(encoding))
      BY <1>2, <1>3, <1>4 DEF Rows
    <3> QED
      BY <1>4, <3>1 DEF Rows
  <2>3. ~given.spoiled => Arrived(tables[Target], kept, left)
    BY <1>2, <1>3, ArrivedIs, RefusedLeave
  <2>4. left \in SUBSET Nat /\ left \subseteq 1 .. Len(tables[Target])
    BY <1>4
  <2> HIDE DEF kept, left
  <2>5. given'.rows = kept /\ given'.passed = left /\ given'.spoiled = given.spoiled
        /\ given' \in [rows : Rows, passed : SUBSET Nat, spoiled : BOOLEAN]
    BY <1>2, <2>1, <2>2, <2>4
  <2>6. CopyTyping'
    BY <1>1, <1>2, <1>4, <1>8, <2>5, WriterTypes DEF CopyInv, CopyTyping
  <2>8. WriterInv'
    <3>1. Len(given'.rows) = Len(tables'[Target]) + Len(copying')
      BY <1>1, <1>4, <1>8, <2>2, <2>5
    <3>2. tables[Target] \o << >> = tables[Target]
      BY <1>2, RowsTogether
    <3>3. RowsArrive'
      BY <1>1, <1>8, <2>3, <2>5, <3>2 DEF RowsArrive, Arrived, Like
    <3>4. given'.passed \subseteq 1 .. Len(given'.rows)
      BY <2>2, <2>4, <2>5
    <3> QED
      BY <1>1, <1>3, <1>5, <2>5, <3>1, <3>3, <3>4 DEF WriterInv
  <2>7. ReaderInv'
    BY <1>1, <1>8, ReadingStays DEF CopyInv
  <2> QED
    BY <2>6, <2>7, <2>8
<1> QED
  BY <1>7, <1>8 DEF CompleteWriter

(* The steps of the reader. *)
LEMMA ReaderTypes ==
  ASSUME CopyTyping, UNCHANGED <<encoding, converts, tables, copying, given>>,
         got' \in [rows : Rows, of : Rows, ended : EndsOfReading], lines' \in Seq(Seq(Byte))
  PROVE  CopyTyping'
<1>1. Rows' = Rows
  BY DEF Rows
<1> QED
  BY <1>1 DEF CopyTyping

(* The rows that have been read are the first ones. *)
LEMMA NothingIsPrefix ==
  ASSUME NEW of \in Rows
  PROVE  IsPrefix(<< >>, of)
<1>1. Len(of) \in Nat /\ Len(<< >>) = 0
  BY DEF Rows
<1>2. SubSeq(<< >>, 1, 0) = << >> /\ SubSeq(of, 1, 0) = << >>
  BY OneMore DEF Rows
<1>3. Len(<< >>) <= Len(of) /\ SubSeq(<< >>, 1, Len(<< >>)) = SubSeq(of, 1, Len(<< >>))
  BY <1>1, <1>2
<1> QED
  BY <1>3 DEF IsPrefix

LEMMA PrefixGrows ==
  ASSUME NEW of \in Rows, NEW had \in Rows, IsPrefix(had, of), Len(had) < Len(of)
  PROVE  LET n == Len(had) + 1
         IN  IsPrefix(Append(had, of[n]), of) /\ of[n] \in RowOf(encoding) /\ n \in 1 .. Len(of)
<1> DEFINE n == Len(had) + 1  more == Append(had, of[n])  S == RowOf(encoding)
<1>1. of \in Seq(S) /\ had \in Seq(S) /\ Len(had) \in Nat /\ Len(of) \in Nat
  BY DEF Rows
<1>2. n \in 1 .. Len(of) /\ of[n] \in S /\ n - 1 = Len(had)
  BY <1>1
<1>3. SubSeq(had, 1, Len(had)) = had /\ SubSeq(had, 1, Len(had)) = SubSeq(of, 1, Len(had))
  BY <1>1, OneMore DEF IsPrefix
<1>4. SubSeq(of, 1, n) = Append(SubSeq(of, 1, n - 1), of[n])
  BY <1>1, <1>2, OneMore
<1>5. SubSeq(of, 1, n) = more
  BY <1>2, <1>3, <1>4
<1>6. more \in Seq(S) /\ Len(more) = n
  BY <1>1, <1>2
<1> HIDE DEF more, n, S
<1>7. SubSeq(more, 1, Len(more)) = more
  BY <1>6, OneMore
<1>8. Len(more) <= Len(of)
  BY <1>1, <1>2, <1>6
<1>9. IsPrefix(more, of)
  BY <1>5, <1>6, <1>7, <1>8 DEF IsPrefix
<1> QED
  BY <1>2, <1>9 DEF more, n, S

LEMMA WholePrefix ==
  ASSUME NEW of \in Rows, NEW had \in Rows, IsPrefix(had, of), Len(had) = Len(of)
  PROVE  had = of
<1>1. of \in Seq(RowOf(encoding)) /\ had \in Seq(RowOf(encoding))
  BY DEF Rows
<1>2. SubSeq(had, 1, Len(had)) = had /\ SubSeq(of, 1, Len(of)) = of
  BY <1>1, OneMore
<1> QED
  BY <1>2 DEF IsPrefix

LEMMA OpenReaderKeeps ==
  CopyAssumption /\ Delimiting /\ CopyInv /\ OpenReader => CopyTyping' /\ WriterInv' /\ ReaderInv'
<1> SUFFICES ASSUME CopyAssumption, Delimiting, CopyInv, OpenReader
             PROVE  CopyTyping' /\ WriterInv' /\ ReaderInv'
  OBVIOUS
<1>1. PICK t \in CopyPlaces : /\ reader' = [state |-> "open", on |-> t]
                              /\ lines' = [i \in DOMAIN tables[t] |-> Shown(tables[t][i])]
                              /\ got' = [rows |-> << >>, of |-> tables[t], ended |-> "no"]
  BY DEF OpenReader, CopyPlaces, NothingOf
<1>2. UNCHANGED <<encoding, converts, tables, copying, writer, given>>
  BY DEF OpenReader
<1> DEFINE of == tables[t]
<1>3. encoding \in CopyEncodings /\ of \in Rows
  BY <1>1 DEF CopyInv, CopyTyping
<1>4. SelfDelimiting(encoding)
  BY <1>3, EncodingDelimits
<1> HIDE DEF of
<1>5. DOMAIN of = 1 .. Len(of) /\ Len(of) \in Nat
      /\ \A i \in 1 .. Len(of) : of[i] \in RowOf(encoding)
  BY <1>3 DEF Rows
<1>6. \A i \in 1 .. Len(of) : Shown(of[i]) \in Seq(Byte)
  BY <1>4, <1>5, ShownIsLine
<1>7. lines' \in Seq(Seq(Byte)) /\ Len(lines') = Len(of)
      /\ \A i \in 1 .. Len(of) : lines'[i] = Shown(of[i])
  <2>1. lines' = [i \in 1 .. Len(of) |-> Shown(of[i])]
    BY <1>1, <1>5 DEF of
  <2> QED
    BY <1>5, <1>6, <2>1
<1>8. << >> \in Rows /\ Len(<< >>) = 0
  BY DEF Rows
<1>9. got' = [rows |-> << >>, of |-> of, ended |-> "no"]
  BY <1>1 DEF of
<1>10. got' \in [rows : Rows, of : Rows, ended : EndsOfReading]
  BY <1>3, <1>8, <1>9 DEF EndsOfReading
<1>11. CopyTyping'
  BY <1>2, <1>7, <1>10, ReaderTypes DEF CopyInv
<1>12. WriterInv'
  BY <1>2, WritingStays DEF CopyInv
<1>13. ReaderInv'
  <2>1. got'.rows = << >> /\ got'.of = of /\ got'.ended = "no"
    BY <1>9
  <2>2. reader'.on = t /\ of = tables'[t]
    BY <1>1, <1>2 DEF of
  <2>3. \A i \in 1 .. Len(of) : 0 + i = i
    BY <1>5
  <2>4. ToCome(of, << >>, lines')
    BY <1>5, <1>7, <1>8, <2>3 DEF ToCome
  <2>5. ToCome(got.of, got.rows, lines)'
    <3>1. \A row : Shown(row)' = Shown(row)
      BY <1>2 DEF Shown, ShownField, ShowNext
    <3> QED
      BY <2>1, <2>4, <3>1 DEF ToCome
  <2>6. IsPrefix(<< >>, of)
    BY <1>3, NothingIsPrefix
  <2>7. RowsAreRead'
    BY <2>1, <2>6 DEF RowsAreRead
  <2> QED
    BY <2>1, <2>2, <2>5, <2>7 DEF ReaderInv
<1> QED
  BY <1>11, <1>12, <1>13

LEMMA ReadRowKeeps ==
  CopyAssumption /\ Delimiting /\ CopyInv /\ ReadRow => CopyTyping' /\ WriterInv' /\ ReaderInv'
<1> SUFFICES ASSUME CopyAssumption, Delimiting, CopyInv, ReadRow
             PROVE  CopyTyping' /\ WriterInv' /\ ReaderInv'
  OBVIOUS
<1>1. /\ reader.state = "open" /\ lines # << >>
      /\ got' = [got EXCEPT !.rows = Append(@, Parsed(Head(lines)))]
      /\ lines' = Tail(lines)
      /\ UNCHANGED <<encoding, converts, tables, copying, writer, reader, given>>
  BY DEF ReadRow
<1> DEFINE of == got.of  had == got.rows  left == lines  n == Len(had) + 1
<1>2. /\ encoding \in CopyEncodings /\ got = [rows |-> had, of |-> of, ended |-> got.ended]
      /\ had \in Rows /\ of \in Rows /\ got.ended \in EndsOfReading /\ left \in Seq(Seq(Byte))
  BY CopyTypingIs DEF CopyInv
<1>3. /\ got.ended = "no" /\ of = tables[reader.on] /\ ToCome(of, had, left)
      /\ IsPrefix(had, of)
  BY <1>1 DEF CopyInv, ReaderInv, RowsAreRead
<1>4. SelfDelimiting(encoding)
  BY <1>2, EncodingDelimits
<1> HIDE DEF of, had, left
<1>5. /\ Len(left) \in Nat /\ Len(had) \in Nat /\ Len(of) \in Nat /\ Len(left) > 0
  <2>1. Len(left) \in Nat /\ Len(left) > 0
    BY <1>1, <1>2 DEF left
  <2> QED
    BY <1>2, <2>1 DEF Rows
<1>6. Len(left) + Len(had) = Len(of) /\ \A i \in 1 .. Len(left) : left[i] = Shown(of[Len(had) + i])
  BY <1>3 DEF ToCome
<1>7. Len(had) < Len(of)
  BY <1>5, <1>6
<1>8. IsPrefix(Append(had, of[n]), of) /\ of[n] \in RowOf(encoding) /\ n \in 1 .. Len(of)
  BY <1>2, <1>3, <1>7, PrefixGrows
<1>9. Parsed(Head(lines)) = of[n]
  <2>1. 1 \in 1 .. Len(left)
    BY <1>5
  <2>2. Head(left) = left[1] /\ left[1] = Shown(of[n])
    BY <1>2, <1>5, <1>6, <2>1
  <2>3. Parsed(Shown(of[n])) = of[n]
    BY <1>4, <1>8, RowIsRead
  <2> QED
    BY <2>2, <2>3 DEF left
<1>10. got' = [rows |-> Append(had, of[n]), of |-> of, ended |-> got.ended]
  <2>1. got' = [rows |-> Append(got.rows, of[n]), of |-> got.of, ended |-> got.ended]
    <3> DEFINE row == of[n]
    <3>1. Parsed(Head(lines)) = row
      BY <1>9
    <3> HIDE DEF row
    <3>2. got' = [got EXCEPT !.rows = Append(@, row)]
      BY <1>1, <3>1
    <3>3. got = [rows |-> got.rows, of |-> got.of, ended |-> got.ended]
      BY <1>2 DEF had, of
    <3>4. got' = [rows |-> Append(got.rows, row), of |-> got.of, ended |-> got.ended]
      BY <3>2, <3>3
    <3> QED
      BY <3>4 DEF row
  <2> QED
    BY <2>1 DEF had, of
<1>11. Append(had, of[n]) \in Rows /\ Len(Append(had, of[n])) = n
  BY <1>2, <1>8 DEF Rows
<1>12. /\ lines' \in Seq(Seq(Byte)) /\ Len(lines') = Len(left) - 1
       /\ \A i \in 1 .. Len(left) - 1 : lines'[i] = left[i + 1]
  <2>1. lines' = Tail(left) /\ left # << >>
    BY <1>1 DEF left
  <2> QED
    BY <1>2, <1>5, <2>1
<1> DEFINE row == of[n]  more == Append(had, row)
<1>13. got' = [rows |-> more, of |-> of, ended |-> got.ended] /\ more \in Rows /\ Len(more) = n
       /\ IsPrefix(more, of)
  BY <1>8, <1>10, <1>11
<1> HIDE DEF row, more
<1>14. got' \in [rows : Rows, of : Rows, ended : EndsOfReading]
  BY <1>2, <1>13
<1>15. CopyTyping'
  BY <1>1, <1>12, <1>14, ReaderTypes DEF CopyInv
<1>16. WriterInv'
  BY <1>1, WritingStays DEF CopyInv
<1>17. ReaderInv'
  <2>1. got'.rows = more /\ got'.of = of /\ got'.ended = "no"
    BY <1>3, <1>13
  <2>2. Len(lines') + Len(more) = Len(of)
    <3> DEFINE a == Len(lines')  b == Len(more)  c == Len(of)  d == Len(left)  e == Len(had)
    <3>1. a = d - 1 /\ b = e + 1 /\ d + e = c /\ d \in Nat /\ e \in Nat /\ c \in Nat
      BY <1>5, <1>6, <1>12, <1>13
    <3> HIDE DEF a, b, c, d, e
    <3>2. a + b = c
      BY <3>1
    <3> QED
      BY <3>2 DEF a, b, c
  <2>3. ASSUME NEW i \in 1 .. Len(lines') PROVE lines'[i] = Shown(of[Len(more) + i])
    <3>1. i \in 1 .. Len(left) - 1 /\ i + 1 \in 1 .. Len(left) /\ Len(had) + (i + 1) = Len(more) + i
      BY <1>5, <1>12, <1>13
    <3>2. lines'[i] = left[i + 1] /\ left[i + 1] = Shown(of[Len(had) + (i + 1)])
      BY <1>6, <1>12, <3>1
    <3> QED
      BY <3>1, <3>2
  <2>4. ToCome(of, more, lines')
    BY <2>2, <2>3 DEF ToCome
  <2>5. ToCome(got.of, got.rows, lines)'
    <3>1. \A x : Shown(x)' = Shown(x)
      BY <1>1 DEF Shown, ShownField, ShowNext
    <3> QED
      BY <2>1, <2>4, <3>1 DEF ToCome
  <2>6. RowsAreRead'
    BY <1>13, <2>1 DEF RowsAreRead
  <2>7. (tables[reader.on])' = of
    BY <1>1, <1>3
  <2> QED
    BY <2>1, <2>5, <2>6, <2>7 DEF ReaderInv
<1> QED
  BY <1>15, <1>16, <1>17

(* Whatever the way in which it ends. *)
LEMMA ClosedKeeps ==
  ASSUME CopyInv, reader.state = "open", Close,
         NEW how \in EndsOfReading, got' = [got EXCEPT !.ended = how],
         how = "end" => got.rows = got.of
  PROVE  ReaderInv' /\ lines' = << >> /\ got'.rows = got.rows /\ got'.of = got.of
         /\ got' \in [rows : Rows, of : Rows, ended : EndsOfReading]
<1>1. /\ got = [rows |-> got.rows, of |-> got.of, ended |-> got.ended]
      /\ got.rows \in Rows /\ got.of \in Rows
  BY CopyTypingIs DEF CopyInv
<1>2. got' = [rows |-> got.rows, of |-> got.of, ended |-> how]
  BY <1>1
<1>3. got'.rows = got.rows /\ got'.of = got.of /\ got'.ended = how
      /\ got' \in [rows : Rows, of : Rows, ended : EndsOfReading]
  BY <1>1, <1>2
<1>4. reader'.state = "finished" /\ lines' = << >>
  BY CopyShapeIs DEF Close, CopyInv
<1>5. IsPrefix(got.rows, got.of)
  BY DEF CopyInv, ReaderInv, RowsAreRead
<1>6. RowsAreRead'
  BY <1>3, <1>5 DEF RowsAreRead
<1> QED
  BY <1>3, <1>4, <1>6 DEF ReaderInv

LEMMA EndKeeps == CopyInv /\ (ReadEnd \/ CompleteReader) => CopyTyping' /\ WriterInv' /\ ReaderInv'
<1> SUFFICES ASSUME CopyInv, ReadEnd \/ CompleteReader
             PROVE  CopyTyping' /\ WriterInv' /\ ReaderInv'
  OBVIOUS
<1>1. reader.state = "open" /\ Close /\ UNCHANGED <<encoding, converts, tables, copying, writer, given>>
  BY DEF ReadEnd, CompleteReader
<1>2. \E how \in {"end", "thrown", "left"} :
        got' = [got EXCEPT !.ended = how] /\ (how = "end" => lines = << >>)
  BY DEF ReadEnd, CompleteReader, AfterFailure
<1>3. PICK how \in {"end", "thrown", "left"} :
        got' = [got EXCEPT !.ended = how] /\ (how = "end" => lines = << >>)
  BY <1>2
<1>4. ASSUME lines = << >> PROVE got.rows = got.of
  <2>1. got.rows \in Rows /\ got.of \in Rows /\ IsPrefix(got.rows, got.of)
        /\ ToCome(got.of, got.rows, lines)
    BY <1>1, CopyTypingIs DEF CopyInv, ReaderInv, RowsAreRead
  <2>2. Len(got.rows) \in Nat /\ Len(got.of) \in Nat /\ Len(lines) = 0
    BY <1>4, <2>1 DEF Rows
  <2>3. Len(got.rows) = Len(got.of)
    BY <2>1, <2>2 DEF ToCome
  <2> QED
    BY <2>1, <2>3, WholePrefix
<1>5. how \in EndsOfReading
  BY DEF EndsOfReading
<1>6. /\ ReaderInv' /\ lines' = << >>
      /\ got' \in [rows : Rows, of : Rows, ended : EndsOfReading]
  BY <1>1, <1>3, <1>4, <1>5, ClosedKeeps
<1>7. CopyTyping'
  <2>1. << >> \in Seq(Seq(Byte))
    OBVIOUS
  <2> QED
    BY <1>1, <1>6, <2>1, ReaderTypes DEF CopyInv
<1>8. WriterInv'
  BY <1>1, WritingStays DEF CopyInv
<1> QED
  BY <1>6, <1>7, <1>8

(* Lines from the one stream to the other. *)
LEMMA PassedRows ==
  ASSUME SelfDelimiting(encoding), NEW of \in Rows, NEW had \in Rows,
         NEW left \in Seq(Seq(Byte)), ToCome(of, had, left), NEW n \in 0 .. Len(left)
  PROVE  /\ [i \in 1 .. n |-> Stored(left[i])] = SubSeq(of, Len(had) + 1, Len(had) + n)
         /\ SubSeq(of, Len(had) + 1, Len(had) + n) \in Rows
<1> DEFINE h == Len(had)  S == RowOf(encoding)  part == SubSeq(of, h + 1, h + n)
           passed == [i \in 1 .. n |-> Stored(left[i])]
<1>1. of \in Seq(S) /\ h \in Nat /\ Len(of) \in Nat /\ Len(left) \in Nat /\ n \in Nat
  BY DEF Rows
<1>2. Len(left) + h = Len(of) /\ \A i \in 1 .. Len(left) : left[i] = Shown(of[h + i])
  BY DEF ToCome
<1> HIDE DEF h
<1>3. h + n <= Len(of) /\ (n # 0 => 1 <= h + 1 /\ h + 1 <= h + n)
  BY <1>1, <1>2
<1>4. part \in Seq(S) /\ Len(part) = n /\ \A i \in 1 .. n : part[i] = of[h + i]
  <2>1. CASE n = 0
    <3>1. part = << >>
      BY <1>1, <2>1
    <3>2. << >> \in Seq(S) /\ Len(<< >>) = 0 /\ 1 .. n = {}
      BY <2>1
    <3> HIDE DEF part, S
    <3> QED
      BY <2>1, <3>1, <3>2
  <2>2. CASE n # 0
    <3>1. h + 1 \in 1 .. Len(of) /\ h + n \in 1 .. Len(of)
      BY <1>1, <1>3, <2>2
    <3>2. Len(part) = (h + n) - (h + 1) + 1
          /\ \A i \in 1 .. (h + n) - (h + 1) + 1 : part[i] = of[(h + 1) + i - 1]
      BY <1>1, <1>3, <3>1
    <3>3. (h + n) - (h + 1) + 1 = n /\ \A i \in 1 .. n : (h + 1) + i - 1 = h + i
      BY <1>1
    <3>4. part \in Seq(S)
      BY <1>1, <3>1
    <3> HIDE DEF part, S
    <3>5. Len(part) = n
      BY <3>2, <3>3
    <3>6. ASSUME NEW i \in 1 .. n PROVE part[i] = of[h + i]
      BY <3>2, <3>3
    <3> QED
      BY <3>4, <3>5, <3>6
  <2> HIDE DEF part, S
  <2> QED
    BY <2>1, <2>2
<1>5. ASSUME NEW i \in 1 .. n PROVE Stored(left[i]) = part[i] /\ part[i] \in S
  <2>1. i \in 1 .. Len(left) /\ h + i \in 1 .. Len(of)
    BY <1>1, <1>2, <1>3
  <2>2. left[i] = Shown(of[h + i]) /\ of[h + i] \in S
    BY <1>1, <1>2, <2>1
  <2>3. Stored(Shown(of[h + i])) = of[h + i]
    BY <2>2, RowIsRead
  <2> QED
    BY <1>4, <2>2, <2>3
<1> HIDE DEF S, part
<1>6. DOMAIN passed = 1 .. n /\ \A i \in 1 .. n : passed[i] = part[i]
  BY <1>5
<1>7. passed \in Seq(S) /\ Len(passed) = n
  <2>1. passed \in [1 .. n -> S]
    BY <1>5
  <2> HIDE DEF passed
  <2> QED
    BY <1>1, <2>1
<1> HIDE DEF passed
<1>8. passed = part
  BY <1>4, <1>6, <1>7, SeqEqual
<1> QED
  BY <1>7, <1>8 DEF passed, part, h, S, Rows

LEMMA PipeKeeps ==
  CopyAssumption /\ Delimiting /\ CopyInv /\ Pipe => CopyTyping' /\ WriterInv' /\ ReaderInv'
<1> SUFFICES ASSUME CopyAssumption, Delimiting, CopyInv, Pipe
             PROVE  CopyTyping' /\ WriterInv' /\ ReaderInv'
  OBVIOUS
<1>1. /\ reader.state = "open" /\ reader.on = Source /\ Close
      /\ UNCHANGED <<encoding, converts, tables, writer>>
  BY DEF Pipe
<1>2. PICK n \in 0 .. Len(lines) :
        /\ copying' = copying \o [i \in 1 .. n |-> Stored(lines[i])]
        /\ given' = [rows |-> given.rows
                       \o SubSeq(tables[Source], Len(got.rows) + 1, Len(got.rows) + n),
                     passed |-> given.passed
                       \cup (Len(given.rows) + 1 .. Len(given.rows) + n),
                     spoiled |-> given.spoiled]
        /\ got' = [got EXCEPT !.ended = IF n = Len(lines) THEN "passed" ELSE "thrown"]
  BY DEF Pipe
<1>3. /\ encoding \in CopyEncodings /\ copying \in Rows /\ tables[Target] \in Rows
      /\ given = [rows |-> given.rows, passed |-> given.passed, spoiled |-> given.spoiled]
      /\ given.rows \in Rows /\ given.passed \in SUBSET Nat /\ given.spoiled \in BOOLEAN
      /\ got.rows \in Rows /\ got.of \in Rows /\ lines \in Seq(Seq(Byte))
      /\ tables \in [CopyPlaces -> Rows]
  BY CopyTypingIs DEF CopyInv, CopyTyping
<1>4. SelfDelimiting(encoding)
  BY <1>3, EncodingDelimits
<1>5. got.of = tables[Source] /\ ToCome(got.of, got.rows, lines)
  BY <1>1 DEF CopyInv, ReaderInv
<1> DEFINE passed == [i \in 1 .. n |-> Stored(lines[i])]
           part == SubSeq(tables[Source], Len(got.rows) + 1, Len(got.rows) + n)
           how == IF n = Len(lines) THEN "passed" ELSE "thrown"
           all == given.passed \cup (Len(given.rows) + 1 .. Len(given.rows) + n)
<1>6. passed = part /\ passed \in Rows
  <2> DEFINE of == got.of  had == got.rows  left == lines
  <2>1. of \in Rows /\ had \in Rows /\ left \in Seq(Seq(Byte)) /\ ToCome(of, had, left)
        /\ n \in 0 .. Len(left)
    BY <1>3, <1>5
  <2> HIDE DEF of, had, left
  <2>2. /\ [i \in 1 .. n |-> Stored(left[i])] = SubSeq(of, Len(had) + 1, Len(had) + n)
        /\ SubSeq(of, Len(had) + 1, Len(had) + n) \in Rows
    BY <1>4, <2>1, PassedRows
  <2>3. passed = SubSeq(of, Len(had) + 1, Len(had) + n)
    BY <2>2 DEF left
  <2>4. part = SubSeq(of, Len(had) + 1, Len(had) + n)
    BY <1>5 DEF of, had
  <2> QED
    BY <2>2, <2>3, <2>4
<1>7. copying' = copying \o passed /\ got' = [got EXCEPT !.ended = how]
      /\ given' = [rows |-> given.rows \o part, passed |-> all, spoiled |-> given.spoiled]
  BY <1>2, <1>3
<1>14. Len(passed) = n /\ all \in SUBSET Nat
  <2>1. n \in Nat /\ Len(given.rows) \in Nat
    BY <1>3 DEF Rows
  <2> QED
    BY <1>3, <2>1
<1>8. how \in EndsOfReading /\ how # "end"
  BY DEF EndsOfReading
<1> HIDE DEF passed, part, how, all
<1>9. /\ ReaderInv' /\ lines' = << >>
      /\ got' \in [rows : Rows, of : Rows, ended : EndsOfReading]
  BY <1>1, <1>7, <1>8, ClosedKeeps
<1>10. /\ copying' \in Rows /\ Len(copying') = Len(copying) + Len(passed)
       /\ given.rows \o passed \in Rows /\ Len(given.rows \o passed) = Len(given.rows) + Len(passed)
  BY <1>3, <1>6, <1>7, RowsTogether
<1>11. /\ given'.rows = given.rows \o passed /\ given'.passed = all
       /\ given'.spoiled = given.spoiled
       /\ given' \in [rows : Rows, passed : SUBSET Nat, spoiled : BOOLEAN]
  BY <1>3, <1>6, <1>7, <1>10, <1>14
<1>12. CopyTyping'
  <2>1. Rows' = Rows /\ << >> \in Seq(Seq(Byte))
    BY <1>1 DEF Rows
  <2> QED
    BY <1>1, <1>3, <1>9, <1>10, <1>11, <2>1 DEF CopyTyping
<1>13. WriterInv'
  <2>1. Buffered(encoding, writer.buffer) /\ (~given.spoiled => writer.buffer = << >>)
        /\ Len(given.rows) = Len(tables[Target]) + Len(copying) /\ RowsArrive
        /\ given.passed \subseteq 1 .. Len(given.rows)
    BY DEF CopyInv, WriterInv
  <2>2. Buffered(encoding, writer.buffer)'
    BY <1>1, <2>1 DEF Buffered, Lines, LinePairs, LineMade, FieldSpelt
  <2>3. Len(given'.rows) = Len(tables'[Target]) + Len(copying')
    <3> DEFINE a == Len(given.rows)  b == Len(tables[Target])  c == Len(copying)
               d == Len(passed)
    <3>1. Len(given'.rows) = a + d /\ Len(tables'[Target]) = b /\ Len(copying') = c + d
      BY <1>1, <1>10, <1>11
    <3>2. a = b + c /\ a \in Nat /\ b \in Nat /\ c \in Nat /\ d \in Nat
      BY <1>3, <1>6, <2>1 DEF Rows
    <3> HIDE DEF a, b, c, d
    <3>3. a + d = b + (c + d)
      BY <3>2
    <3> QED
      BY <3>1, <3>3
  <2>4. ASSUME ~given.spoiled
        PROVE  Arrived(tables[Target] \o copying', given'.rows, given'.passed)
    <3> DEFINE a == tables[Target]  b == copying
    <3>1. Arrived(a \o b, given.rows, given.passed)
      BY <2>1, <2>4, ArrivedIs
    <3>2. a \in Rows /\ b \in Rows /\ copying' = b \o passed
      BY <1>3, <1>7
    <3> HIDE DEF a, b
    <3>3. a \o b \in Rows /\ (a \o b) \o passed = a \o (b \o passed)
      <4>1. a \o b \in Rows /\ \A c \in Rows : (a \o b) \o c = a \o (b \o c)
        BY <3>2, RowsTogether
      <4> QED
        BY <1>6, <4>1
    <3>4. Arrived((a \o b) \o passed, given.rows \o passed,
                  given.passed \cup (Len(given.rows) + 1 .. Len(given.rows) + Len(passed)))
      BY <1>3, <1>6, <2>1, <3>1, <3>3, PassedArrive
    <3> QED
      BY <1>11, <1>14, <3>2, <3>3, <3>4 DEF a, all
  <2>5. given'.passed \subseteq 1 .. Len(given'.rows)
    <3>1. Len(given.rows) \in Nat /\ n \in Nat
      BY <1>3 DEF Rows
    <3>2. Len(given'.rows) = Len(given.rows) + n
      BY <1>10, <1>11, <1>14
    <3> QED
      BY <1>11, <2>1, <3>1, <3>2 DEF all
  <2>6. RowsArrive'
    BY <1>1, <1>11, <2>4 DEF RowsArrive, Arrived, Like
  <2> QED
    BY <1>1, <1>11, <2>1, <2>2, <2>3, <2>5, <2>6 DEF WriterInv
<1> QED
  BY <1>9, <1>12, <1>13

LEMMA CopyKept == CopyAssumption /\ Delimiting /\ CopyInv /\ [CopyNext]_copyVars => CopyInv'
<1> SUFFICES ASSUME CopyAssumption, Delimiting, CopyInv, [CopyNext]_copyVars PROVE CopyInv'
  OBVIOUS
<1>1. CopyShape'
  BY CopyShapeKept DEF CopyInv
<1>2. CASE UNCHANGED copyVars
  <2>1. UNCHANGED <<encoding, converts, tables, copying, lines, writer, reader, given, got>>
    BY <1>2 DEF copyVars
  <2>2. Rows' = Rows
    BY <2>1 DEF Rows
  <2>3. CopyTyping'
    BY <2>1, <2>2 DEF CopyInv, CopyTyping
  <2>4. WriterInv' /\ ReaderInv'
    BY <2>1, WritingStays, ReadingStays DEF CopyInv
  <2> QED
    BY <1>1, <2>3, <2>4 DEF CopyInv
<1>3. CASE CopyNext
  <2>1. CopyTyping' /\ WriterInv' /\ ReaderInv'
    BY <1>3, OpenWriterKeeps, WriteRowKeeps, FailToWriteKeeps, CompleteWriterKeeps,
       OpenReaderKeeps, ReadRowKeeps, EndKeeps, PipeKeeps DEF CopyNext
  <2> QED
    BY <1>1, <2>1 DEF CopyInv
<1> QED
  BY <1>2, <1>3

(* What a program streams into a table is what the server stores, what it    *)
(* reads is what the table has, and lines passed from one stream to another  *)
(* are the rows they were: whatever bytes the texts have, in every client    *)
(* encoding in which the first byte of a character tells how long it is,     *)
(* which are all but GB18030 and MULE_INTERNAL.  Where the server has        *)
(* another encoding than the client, that is so of what is read and passed   *)
(* on, and of the plain fields of what is streamed: MCPqData.                *)
THEOREM CopyAlwaysExact ==
  ASSUME Delimiting
  PROVE  CopySpec => []CopyIsExact
<1>1. CopyInv => CopyIsExact
  BY DEF CopyInv, WriterInv, ReaderInv, CopyIsExact
<1> QED
  BY <1>1, CopyStarts, CopyKept, CopyAssumption, PTL DEF CopySpec

=============================================================================
