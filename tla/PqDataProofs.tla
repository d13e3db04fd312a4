------------------------------ MODULE PqDataProofs ------------------------------
(***************************************************************************)
(* Proofs about cursors, for result sets, strides and iterators of any     *)
(* number; about results, their rows, slices and iterators; and about      *)
(* large objects, for any number of objects and descriptors, and buffers   *)
(* of any size: a blob has its descriptor to itself, and a stream on a     *)
(* large object is the plain file that it replaces.                        *)
(***************************************************************************)
EXTENDS PqCursor, PqResults, PqBlob, PqLoStream, FiniteSetTheorems, SequenceTheorems,
        WellFoundedInduction, TLAPS

-----------------------------------------------------------------------------
(* Least and greatest of two. *)
LEMMA MinOfTwo ==
  ASSUME NEW a \in Int, NEW b \in Int
  PROVE  Min({a, b}) = IF a <= b THEN a ELSE b
<1> DEFINE m == IF a <= b THEN a ELSE b
<1>1. m \in {a, b} /\ \A y \in {a, b} : m <= y
  OBVIOUS
<1>2. \A x \in {a, b} : (\A y \in {a, b} : x <= y) => x = m
  OBVIOUS
<1> HIDE DEF m
<1>3. Min({a, b}) = m
  BY <1>1, <1>2 DEF Min
<1> QED
  BY <1>3 DEF m

LEMMA MaxOfTwo ==
  ASSUME NEW a \in Int, NEW b \in Int
  PROVE  Max({a, b}) = IF a >= b THEN a ELSE b
<1> DEFINE m == IF a >= b THEN a ELSE b
<1>1. m \in {a, b} /\ \A y \in {a, b} : m >= y
  OBVIOUS
<1>2. \A x \in {a, b} : (\A y \in {a, b} : x >= y) => x = m
  OBVIOUS
<1> HIDE DEF m
<1>3. Max({a, b}) = m
  BY <1>1, <1>2 DEF Max
<1> QED
  BY <1>3 DEF m

-----------------------------------------------------------------------------
(* The server's cursor. *)
UseFits == /\ use.by \in {"sql_cursor", "stateless_cursor", "icursorstream"}
           /\ use.rows \in 0 .. MaxRows

LEMMA RowsAre ==
  UseFits => RowsLeft \in Nat /\ RowsLeft <= MaxRows /\ MaxRows \in Nat
BY CursorAssumption DEF UseFits, RowsLeft

LEMMA PassedIs ==
  ASSUME UseFits, NEW p \in 0 .. RowsLeft + 1, NEW k \in Int
  PROVE  /\ RowsLeft \in Nat /\ RowsLeft <= MaxRows /\ MaxRows \in Nat
         /\ Passed(p, k) = IF k > 0 THEN IF p >= RowsLeft THEN 0
                                         ELSE IF k <= RowsLeft - p THEN k
                                         ELSE RowsLeft - p
                           ELSE IF p <= 1 THEN 0
                                ELSE IF -k <= p - 1 THEN -k ELSE p - 1
<1>1. RowsLeft \in Nat /\ RowsLeft <= MaxRows /\ MaxRows \in Nat
  BY RowsAre
<1> DEFINE left == IF p >= RowsLeft THEN 0 ELSE RowsLeft - p
           back == IF p <= 1 THEN 0 ELSE p - 1
<1>2. Max({RowsLeft - p, 0}) = left /\ left \in Nat
  BY <1>1, MaxOfTwo
<1>3. Max({p - 1, 0}) = back /\ back \in Nat
  BY <1>1, MaxOfTwo
<1>4. Min({k, left}) = (IF k <= left THEN k ELSE left)
  BY <1>2, MinOfTwo
<1>5. -k \in Int
  OBVIOUS
<1>6. Min({-k, back}) = (IF -k <= back THEN -k ELSE back)
  BY <1>3, <1>5, MinOfTwo
<1>7. Passed(p, k) = IF k > 0 THEN Min({k, left}) ELSE Min({-k, back})
  BY <1>2, <1>3 DEF Passed
<1> QED
  BY <1>1, <1>4, <1>6, <1>7

(* The reckoning fits the server's position p.  A cursor that was adopted    *)
(* may be anywhere until it was moved back to the beginning.  At either end  *)
(* the last move fell short, and once the position is known, only there.     *)
Reckons(c, p) ==
  /\ c \in SqlCursor /\ ~c.failed
  /\ c.pos \in {-1, p} /\ c.endpos \in {-1, RowsLeft + 1}
  /\ c.pos = -1 => c.endpos = -1
  /\ c.atEnd = 1 => p = RowsLeft + 1
  /\ c.atEnd = -1 => p = 0
  /\ c.pos # -1 => /\ p = RowsLeft + 1 => c.atEnd = 1
                   /\ p = 0 => c.atEnd = -1

(* What adjust makes of the fields. *)
LEMMA AdjustIs ==
  ASSUME NEW c \in SqlCursor, NEW k \in Int, k # 0, NEW got \in Nat, MaxRows \in Nat,
         NEW n, n = Adjust(c, k, got)
  PROVE  /\ n = [open |-> n.open, atEnd |-> n.atEnd, pos |-> n.pos, endpos |-> n.endpos,
                 failed |-> n.failed]
         /\ n.open = c.open
         /\ got = Size(k) =>
              /\ n.atEnd = 0 /\ n.endpos = c.endpos /\ ~n.failed
              /\ n.pos = IF c.pos < 0 THEN c.pos ELSE IF k < 0 THEN c.pos - got ELSE c.pos + got
         /\ got # Size(k) /\ k > 0 =>
              LET went == IF c.atEnd = 1 THEN got ELSE got + 1
              IN /\ n.atEnd = 1 /\ n.endpos = n.pos
                 /\ n.pos = IF c.pos < 0 THEN c.pos ELSE c.pos + went
                 /\ c.endpos < 0 \/ n.pos = c.endpos => ~n.failed
         /\ got # Size(k) /\ k < 0 =>
              LET went == IF c.atEnd = -1 THEN got ELSE got + 1
              IN /\ n.atEnd = -1 /\ n.endpos = c.endpos
                 /\ c.pos = -1 \/ c.pos = went => n.pos = 0 /\ ~n.failed
<1>1. /\ c = [open |-> c.open, atEnd |-> c.atEnd, pos |-> c.pos, endpos |-> c.endpos,
              failed |-> c.failed]
      /\ c.pos \in Int /\ c.endpos \in Int /\ c.atEnd \in -1 .. 1
  BY DEF SqlCursor
<1> USE DEF Adjust, OneMore, EndReached
<1>2. /\ n = [open |-> n.open, atEnd |-> n.atEnd, pos |-> n.pos, endpos |-> n.endpos,
              failed |-> n.failed]
      /\ n.open = c.open
  BY <1>1
<1>3. CASE got = Size(k)
  BY <1>1, <1>2, <1>3
<1>4. CASE got # Size(k) /\ k > 0
  BY <1>1, <1>2, <1>4
<1>5. CASE got # Size(k) /\ k < 0
  BY <1>1, <1>2, <1>5
<1> QED
  BY <1>2, <1>3, <1>4, <1>5

(* Where a move ends. *)
LEMMA LandedIs ==
  ASSUME UseFits, NEW p \in 0 .. RowsLeft + 1, NEW k \in Int, k # 0
  PROVE  /\ Passed(p, k) \in Nat /\ Size(k) \in Nat
         /\ Landed(p, k) \in 0 .. RowsLeft + 1
         /\ \/ /\ Passed(p, k) = Size(k) /\ Landed(p, k) = p + k
               /\ p + k \in 1 .. RowsLeft
            \/ /\ Passed(p, k) # Size(k) /\ k > 0
               /\ Landed(p, k) = RowsLeft + 1
               /\ Passed(p, k) = IF p = RowsLeft + 1 THEN 0 ELSE RowsLeft - p
               /\ k > RowsLeft - p
            \/ /\ Passed(p, k) # Size(k) /\ k < 0
               /\ Landed(p, k) = 0
               /\ Passed(p, k) = IF p = 0 THEN 0 ELSE p - 1
               /\ -k > p - 1
<1> DEFINE R == RowsLeft
<1>1. /\ R \in Nat
      /\ Passed(p, k) = IF k > 0 THEN IF p >= R THEN 0 ELSE IF k <= R - p THEN k ELSE R - p
                        ELSE IF p <= 1 THEN 0 ELSE IF -k <= p - 1 THEN -k ELSE p - 1
  BY PassedIs
<1>2. Size(k) = IF k > 0 THEN k ELSE -k
  BY DEF Size
<1>3. p \in 0 .. R + 1
  OBVIOUS
<1>4. Landed(p, k) = IF Passed(p, k) = Size(k) THEN p + k ELSE IF k > 0 THEN R + 1 ELSE 0
  BY DEF Landed
<1> HIDE DEF R
<1>5. PICK r \in Nat : r = R
  BY <1>1
<1>6. CASE k > 0
  BY <1>1, <1>2, <1>3, <1>4, <1>5, <1>6 DEF R
<1>7. CASE k < 0
  BY <1>1, <1>2, <1>3, <1>4, <1>5, <1>7 DEF R
<1> QED
  BY <1>6, <1>7

(* Reckoning goes on, and a move that must fall short tells where it ends.   *)
LEMMA AdjustReckons ==
  ASSUME UseFits, NEW p \in 0 .. RowsLeft + 1, NEW c, Reckons(c, p), NEW k \in Int, k # 0
  PROVE  LET n == Adjust(c, k, Passed(p, k))
         IN /\ Reckons(n, Landed(p, k)) /\ n.open = c.open
            /\ c.pos # -1 => n.pos # -1
            /\ k < 0 /\ -k > RowsLeft => n.pos # -1
            /\ c.pos # -1 /\ k > RowsLeft => n.endpos # -1
<1> DEFINE n == Adjust(c, k, Passed(p, k))
           q == Landed(p, k)
<1>1. PICK r \in Nat, a \in Nat :
        /\ r = RowsLeft /\ a = Passed(p, k) /\ r <= MaxRows /\ MaxRows \in Nat
  BY PassedIs, LandedIs
<1>2. PICK e \in -1 .. r + 1, m \in -1 .. r + 1, t \in -1 .. 1 :
        /\ e = c.pos /\ m = c.endpos /\ t = c.atEnd
        /\ c \in SqlCursor /\ c.open \in BOOLEAN
        /\ e = -1 \/ e = p
        /\ m = -1 \/ m = r + 1
        /\ e = -1 => m = -1
        /\ t = 1 => p = r + 1
        /\ t = -1 => p = 0
        /\ e # -1 => (p = r + 1 => t = 1) /\ (p = 0 => t = -1)
  <2>1. c \in SqlCursor /\ c.open \in BOOLEAN /\ c.atEnd \in -1 .. 1
    BY DEF Reckons, SqlCursor
  <2>2. c.pos \in -1 .. r + 1 /\ c.endpos \in -1 .. r + 1
    BY <1>1 DEF Reckons
  <2> QED
    BY <1>1, <2>1, <2>2 DEF Reckons
<1>3. n = Adjust(c, k, a) /\ q = Landed(p, k)
  BY <1>1
<1>4. /\ q \in 0 .. r + 1 /\ p \in 0 .. r + 1
      /\ \/ a = Size(k) /\ q = p + k /\ q \in 1 .. r
         \/ /\ a # Size(k) /\ k > 0 /\ q = r + 1
            /\ a = IF p = r + 1 THEN 0 ELSE r - p
         \/ /\ a # Size(k) /\ k < 0 /\ q = 0
            /\ a = IF p = 0 THEN 0 ELSE p - 1
  BY <1>1, LandedIs
<1> HIDE DEF n, q
<1>9. /\ n = [open |-> n.open, atEnd |-> n.atEnd, pos |-> n.pos, endpos |-> n.endpos,
              failed |-> n.failed]
      /\ n.open = c.open
      /\ a = Size(k) =>
           /\ n.atEnd = 0 /\ n.endpos = m /\ ~n.failed
           /\ n.pos = IF e < 0 THEN e ELSE IF k < 0 THEN e - a ELSE e + a
      /\ a # Size(k) /\ k > 0 =>
           /\ n.atEnd = 1 /\ n.endpos = n.pos
           /\ n.pos = IF e < 0 THEN e ELSE e + (IF t = 1 THEN a ELSE a + 1)
           /\ m < 0 \/ n.pos = m => ~n.failed
      /\ a # Size(k) /\ k < 0 =>
           /\ n.atEnd = -1 /\ n.endpos = m
           /\ e = -1 \/ e = (IF t = -1 THEN a ELSE a + 1) => n.pos = 0 /\ ~n.failed
  BY <1>1, <1>2, <1>3, AdjustIs
<1> SUFFICES /\ Reckons(n, q)
             /\ e # -1 => n.pos # -1
             /\ k < 0 /\ -k > r => n.pos # -1
             /\ e # -1 /\ k > r => n.endpos # -1
  BY <1>1, <1>2, <1>9, Zenon DEF n, q
<1>5. ASSUME NEW x \in -1 .. 1, NEW y \in -1 .. r + 1, NEW z \in -1 .. r + 1,
             n.atEnd = x, n.pos = y, n.endpos = z, ~n.failed,
             y = -1 \/ y = q, z = -1 \/ z = r + 1, y = -1 => z = -1,
             x = 1 => q = r + 1, x = -1 => q = 0,
             y # -1 => (q = r + 1 => x = 1) /\ (q = 0 => x = -1)
      PROVE  Reckons(n, q)
  <2>1. y \in -1 .. MaxRows + 1 /\ z \in -1 .. MaxRows + 1
    BY <1>1
  <2>2. n.failed = FALSE
    <3>1. n.failed \in BOOLEAN
      BY <1>1, <1>2, <1>3 DEF Adjust, SqlCursor
    <3> QED
      BY <1>5, <3>1
  <2>3. n \in SqlCursor
    BY <1>2, <1>9, <1>5, <2>1, <2>2 DEF SqlCursor
  <2> QED
    BY <1>1, <1>5, <2>3 DEF Reckons
(* The move went all the way. *)
<1>6. CASE a = Size(k)
  <2>1. q = p + k /\ q \in 1 .. r /\ a = IF k < 0 THEN -k ELSE k
    BY <1>4, <1>6 DEF Size
  <2>2. n.atEnd = 0 /\ n.endpos = m /\ ~n.failed
    BY <1>6, <1>9, Zenon
  <2>3. n.pos = IF e < 0 THEN e ELSE IF k < 0 THEN e - a ELSE e + a
    BY <1>6, <1>9, Zenon
  <2>4. n.pos = IF e = -1 THEN -1 ELSE q
    BY <1>2, <2>1, <2>3
  <2>5. ~(k < 0 /\ -k > r) /\ ~(k > r)
    BY <1>1, <1>4, <2>1
  <2>6. /\ (IF e = -1 THEN -1 ELSE q) \in -1 .. r + 1
        /\ 0 \in -1 .. 1 /\ q # r + 1 /\ q # 0 /\ q # -1
    BY <1>4, <2>1
  <2>7. PICK y \in -1 .. r + 1 : n.pos = y /\ y = IF e = -1 THEN -1 ELSE q
    BY <2>4, <2>6
  <2>8. /\ y = -1 \/ y = q
        /\ y = -1 => m = -1
        /\ y # -1 => (q = r + 1 => 0 = 1) /\ (q = 0 => 0 = -1)
        /\ (0 = 1 => q = r + 1) /\ (0 = -1 => q = 0)
    BY <1>2, <2>6, <2>7
  <2>9. Reckons(n, q)
    BY <1>2, <1>5, <2>2, <2>6, <2>7, <2>8
  <2> QED
    BY <2>4, <2>5, <2>6, <2>9
<1>7. CASE a # Size(k) /\ k > 0
  <2>1. q = r + 1 /\ a = IF p = r + 1 THEN 0 ELSE r - p
    <3>1. k > 0 /\ ~(k < 0)
      BY <1>7
    <3>2. (a = Size(k)) = FALSE
      BY <1>7
    <3> QED
      BY <1>4, <3>1, <3>2
  <2>2. /\ n.atEnd = 1 /\ n.endpos = n.pos
        /\ n.pos = IF e < 0 THEN e ELSE e + (IF t = 1 THEN a ELSE a + 1)
        /\ m < 0 \/ n.pos = m => ~n.failed
    BY <1>7, <1>9, Zenon
  <2>3. n.pos = IF e = -1 THEN -1 ELSE r + 1
    BY <1>2, <1>4, <2>1, <2>2
  <2>4. ~n.failed
    BY <1>2, <2>2, <2>3
  <2>5. (IF e = -1 THEN -1 ELSE r + 1) \in -1 .. r + 1 /\ r + 1 # 0 /\ r + 1 # -1
    OBVIOUS
  <2>6. Reckons(n, q)
    BY <1>5, <2>1, <2>2, <2>3, <2>4, <2>5
  <2> QED
    BY <1>7, <2>2, <2>3, <2>5, <2>6
<1>8. CASE a # Size(k) /\ k < 0
  <2>1. q = 0 /\ a = IF p = 0 THEN 0 ELSE p - 1
    BY <1>4, <1>8
  <2>2. e = -1 \/ e = IF t = -1 THEN a ELSE a + 1
    BY <1>2, <1>4, <2>1
  <2>3. n.atEnd = -1 /\ n.pos = 0 /\ n.endpos = m /\ ~n.failed
    BY <1>8, <1>9, <2>2, Zenon
  <2>4. 0 \in -1 .. r + 1 /\ r + 1 # 0 /\ 0 # -1 /\ -1 \in -1 .. 1
    OBVIOUS
  <2>5. Reckons(n, q)
    BY <1>2, <1>5, <2>1, <2>3, <2>4
  <2> QED
    BY <1>8, <2>3, <2>4, <2>5
<1> QED
  BY <1>6, <1>7, <1>8

-----------------------------------------------------------------------------
(* fetch and move, by 0 as well. *)
LEMMA MoveReckons ==
  ASSUME UseFits, NEW p \in 0 .. RowsLeft + 1, NEW c, Reckons(c, p), NEW k \in Int
  PROVE  LET n == MovedBy(c, p, k)
             q == MovedTo(p, k)
         IN /\ q \in 0 .. RowsLeft + 1 /\ Reckons(n, q) /\ n.open = c.open
            /\ c.pos # -1 => n.pos # -1
            /\ k < 0 /\ -k > RowsLeft => n.pos # -1
            /\ c.pos # -1 /\ k > RowsLeft => n.endpos # -1
<1>0. RowsLeft \in Nat
  BY RowsAre
<1>1. CASE k = 0
  BY <1>0, <1>1 DEF MovedBy, MovedTo
<1>2. CASE k # 0
  <2>1. MovedBy(c, p, k) = Adjust(c, k, Passed(p, k)) /\ MovedTo(p, k) = Landed(p, k)
    BY <1>2 DEF MovedBy, MovedTo
  <2>2. Landed(p, k) \in 0 .. RowsLeft + 1
    BY <1>2, LandedIs
  <2>3. LET n == Adjust(c, k, Passed(p, k))
        IN /\ Reckons(n, Landed(p, k)) /\ n.open = c.open
           /\ c.pos # -1 => n.pos # -1
           /\ k < 0 /\ -k > RowsLeft => n.pos # -1
           /\ c.pos # -1 /\ k > RowsLeft => n.endpos # -1
    BY <1>2, AdjustReckons
  <2> QED
    BY <2>1, <2>2, <2>3
<1> QED
  BY <1>1, <1>2

(* A move to a place that is not behind the last row gets there. *)
LEMMA MovedToThere ==
  ASSUME UseFits, NEW p \in 0 .. RowsLeft + 1, NEW q \in 0 .. RowsLeft + 1
  PROVE  MovedTo(p, q - p) = q
<1>0. RowsLeft \in Nat
  BY RowsAre
<1>1. CASE q = p
  BY <1>0, <1>1 DEF MovedTo
<1>2. CASE q # p
  <2> DEFINE k == q - p
  <2>1. k \in Int /\ k # 0 /\ MovedTo(p, k) = Landed(p, k)
    BY <1>0, <1>2 DEF MovedTo
  <2>2. \/ Landed(p, k) = p + k
        \/ k > 0 /\ Landed(p, k) = RowsLeft + 1 /\ k > RowsLeft - p
        \/ k < 0 /\ Landed(p, k) = 0 /\ -k > p - 1
    BY <2>1, LandedIs
  <2> QED
    BY <1>0, <2>1, <2>2
<1> QED
  BY <1>1, <1>2

(* What a FETCH returns: nothing, or a block that begins where it stood. *)
LEMMA FetchedIs ==
  ASSUME UseFits, NEW p \in 0 .. RowsLeft + 1, NEW k \in Int
  PROVE  /\ Fetched(p, k) \in Block
         /\ k > 0 /\ p < RowsLeft =>
              Fetched(p, k) = [from |-> p, dir |-> 1,
                               size |-> IF k <= RowsLeft - p THEN k ELSE RowsLeft - p]
         /\ k > 0 /\ p >= RowsLeft => Fetched(p, k) = Empty
         /\ k < 0 /\ p > 1 =>
              Fetched(p, k) = [from |-> p - 2, dir |-> -1,
                               size |-> IF -k <= p - 1 THEN -k ELSE p - 1]
<1>1. PICK r, a : /\ r \in Nat /\ r = RowsLeft /\ r <= MaxRows /\ MaxRows \in Nat
                  /\ a = Passed(p, k)
                  /\ a = IF k > 0 THEN IF p >= r THEN 0
                                       ELSE IF k <= r - p THEN k ELSE r - p
                         ELSE IF p <= 1 THEN 0
                              ELSE IF -k <= p - 1 THEN -k ELSE p - 1
  BY PassedIs
<1>2. Empty \in Block
  BY <1>1 DEF Empty, Block
<1>3. p \in Int /\ p <= r + 1 /\ p >= 0 /\ Min({p, r + 1}) = p
  <2>1. p \in Int /\ p <= r + 1 /\ p >= 0 /\ r + 1 \in Int
    BY <1>1
  <2> QED
    BY <2>1, MinOfTwo
<1>4. Fetched(p, k) = IF a = 0 THEN Empty
                      ELSE [from |-> IF k > 0 THEN p ELSE p - 2,
                            size |-> a, dir |-> IF k > 0 THEN 1 ELSE -1]
  BY <1>1, <1>3 DEF Fetched
<1>5. CASE k > 0
  BY <1>1, <1>2, <1>3, <1>4, <1>5 DEF Block
<1>6. CASE k <= 0
  BY <1>1, <1>2, <1>3, <1>4, <1>6 DEF Block
<1> QED
  BY <1>5, <1>6

(* An interval's ends, as the definition of a set's least and greatest. *)
LEMMA EndsOfInterval ==
  ASSUME NEW a \in Int, NEW b \in Int, a <= b
  PROVE  /\ Min(a .. b) = a /\ Max(a .. b) = b
         /\ a .. b # {} /\ Cardinality(a .. b) = b - a + 1
<1>1. /\ a \in a .. b /\ b \in a .. b
      /\ \A y \in a .. b : a <= y /\ b >= y
  OBVIOUS
<1>2. /\ \A x \in a .. b : (\A y \in a .. b : x <= y) => x = a
      /\ \A x \in a .. b : (\A y \in a .. b : x >= y) => x = b
  BY <1>1
<1>3. Min(a .. b) = a
  BY <1>1, <1>2 DEF Min
<1>4. Max(a .. b) = b
  BY <1>1, <1>2 DEF Max
<1>5. Cardinality(a .. b) = b - a + 1
  BY FS_Interval
<1> QED
  BY <1>1, <1>3, <1>4, <1>5

(* The rows that retrieve promises, from a row that exists. *)
LEMMA PromisedIs ==
  ASSUME UseFits, NEW begin \in 0 .. RowsLeft - 1, NEW end \in Int,
         NEW to, to = IF end > RowsLeft THEN RowsLeft ELSE IF end < -1 THEN -1 ELSE end
  PROVE  /\ begin = to => Promised(begin, end) = Empty
         /\ begin < to => Promised(begin, end) = [from |-> begin, size |-> to - begin, dir |-> 1]
         /\ begin > to => Promised(begin, end) = [from |-> begin, size |-> begin - to, dir |-> -1]
<1>1. PICK r \in Nat : r = RowsLeft
  BY RowsAre
<1>2. begin \in 0 .. r - 1 /\ begin \in Int
      /\ to = IF end > r THEN r ELSE IF end < -1 THEN -1 ELSE end
  BY <1>1
<1> DEFINE wanted == {x \in 0 .. r - 1 : IF begin < end THEN begin <= x /\ x < end
                                         ELSE end < x /\ x <= begin}
<1>3. Promised(begin, end) =
        IF wanted = {} THEN Empty
        ELSE [from |-> IF begin < end THEN Min(wanted) ELSE Max(wanted),
              size |-> Cardinality(wanted), dir |-> IF begin < end THEN 1 ELSE -1]
  BY <1>1 DEF Promised
<1>4. CASE begin = to
  <2>1. wanted = {}
    BY <1>2, <1>4
  <2> QED
    BY <1>2, <1>3, <1>4, <2>1
<1>5. CASE begin < to
  <2>1. wanted = begin .. to - 1 /\ begin < end /\ to - 1 \in Int /\ begin <= to - 1
    BY <1>2, <1>5
  <2> HIDE DEF wanted
  <2>2. Min(wanted) = begin /\ wanted # {} /\ Cardinality(wanted) = to - 1 - begin + 1
    BY <1>2, <2>1, EndsOfInterval
  <2>3. Cardinality(wanted) = to - begin
    BY <1>2, <2>2
  <2>4. ~(begin = to) /\ ~(begin > to)
    BY <1>2, <1>5
  <2> QED
    BY <1>3, <2>1, <2>2, <2>3, <2>4
<1>6. CASE begin > to
  <2>1. wanted = to + 1 .. begin /\ ~(begin < end) /\ to + 1 \in Int /\ to + 1 <= begin
    BY <1>2, <1>6
  <2> HIDE DEF wanted
  <2>2. Max(wanted) = begin /\ wanted # {} /\ Cardinality(wanted) = begin - (to + 1) + 1
    BY <1>2, <2>1, EndsOfInterval
  <2>3. Cardinality(wanted) = begin - to
    BY <1>2, <2>2
  <2>4. ~(begin = to) /\ ~(begin < to)
    BY <1>2, <1>6
  <2> QED
    BY <1>3, <2>1, <2>2, <2>3, <2>4
<1>7. begin = to \/ begin < to \/ begin > to
  BY <1>2
<1> QED
  BY <1>4, <1>5, <1>6, <1>7

-----------------------------------------------------------------------------
(* Induction over a set of numbers, and the function that a step defines. *)
LEMMA AllNumbers ==
  ASSUME NEW S, 0 \in S, \A n \in Nat : n \in S => n + 1 \in S
  PROVE  Nat \subseteq S
<1> DEFINE bad == Nat \ S
           less == OpToRel(<, Nat)
<1> SUFFICES ASSUME bad # {} PROVE FALSE
  OBVIOUS
<1>1. \A x, y \in Nat : <<y, x>> \in less <=> y < x
  BY DEF OpToRel
<1>2. IsWellFoundedOn(less, Nat) /\ bad \subseteq Nat
  BY NatLessThanWellFounded
<1>3. \A x : x \in bad <=> x \in Nat /\ x \notin S
  OBVIOUS
<1> HIDE DEF less, bad
<1>4. PICK x \in bad : \A y \in bad : <<y, x>> \notin less
  BY <1>2, WFMin
<1>5. x \in Nat /\ x # 0 /\ x - 1 \in Nat /\ x - 1 < x
  BY <1>3, <1>4
<1>6. x - 1 \notin bad
  BY <1>1, <1>4, <1>5
<1>7. x - 1 + 1 \in S
  BY <1>3, <1>5, <1>6
<1> QED
  BY <1>3, <1>4, <1>5, <1>7

Follows(f, s, F) ==
  \A n \in Nat : f[n] = IF n = 0 THEN s ELSE F[<<n - 1, f[n - 1]>>]

LEMMA StepsDefine ==
  ASSUME NEW S, NEW s \in S, NEW F \in [Nat \X S -> S]
  PROVE  \E f \in [Nat -> S] : Follows(f, s, F)
<1> DEFINE Start(n) == {g \in [0 .. n -> S] :
                          g[0] = s /\ \A i \in 1 .. n : g[i] = F[<<i - 1, g[i - 1]>>]}
           some == {n \in Nat : Start(n) # {}}
           same == {i \in Nat : \A m, n \in Nat : \A g \in Start(m), h \in Start(n) :
                                  i <= m /\ i <= n => g[i] = h[i]}
<1>1. Nat \subseteq some
  <2>1. 0 \in some
    <3>1. [i \in 0 .. 0 |-> s] \in Start(0)
      OBVIOUS
    <3> QED
      BY <3>1
  <2>2. ASSUME NEW n \in Nat, n \in some
        PROVE  n + 1 \in some
    <3>1. PICK g : g \in Start(n)
      BY <2>2
    <3> DEFINE h == [i \in 0 .. n + 1 |-> IF i <= n THEN g[i] ELSE F[<<n, g[n]>>]]
    <3>2. g \in [0 .. n -> S] /\ g[0] = s
          /\ \A i \in 1 .. n : g[i] = F[<<i - 1, g[i - 1]>>]
      BY <3>1
    <3>3. g[n] \in S /\ F[<<n, g[n]>>] \in S
      BY <3>2
    <3>4. h \in [0 .. n + 1 -> S] /\ h[0] = s
      BY <3>2, <3>3
    <3>5. ASSUME NEW i \in 1 .. n + 1
          PROVE  h[i] = F[<<i - 1, h[i - 1]>>]
      <4>1. i - 1 \in 0 .. n /\ i \in 0 .. n + 1 /\ i - 1 \in 0 .. n + 1
        OBVIOUS
      <4>2. h[i - 1] = g[i - 1]
        BY <4>1
      <4>3. CASE i <= n
        BY <3>2, <4>1, <4>2, <4>3
      <4>4. CASE i = n + 1
        BY <4>1, <4>2, <4>4
      <4> QED
        BY <4>3, <4>4
    <3> HIDE DEF h
    <3>6. h \in Start(n + 1)
      BY <3>4, <3>5
    <3> QED
      BY <3>6
  <2> HIDE DEF some
  <2> QED
    BY <2>1, <2>2, AllNumbers
<1>2. Nat \subseteq same
  <2>1. 0 \in same
    OBVIOUS
  <2>2. ASSUME NEW i \in Nat, i \in same
        PROVE  i + 1 \in same
    <3>1. ASSUME NEW m \in Nat, NEW n \in Nat, NEW g \in Start(m), NEW h \in Start(n),
                 i + 1 <= m, i + 1 <= n
          PROVE  g[i + 1] = h[i + 1]
      <4>1. i <= m /\ i <= n /\ i + 1 \in 1 .. m /\ i + 1 \in 1 .. n /\ i + 1 - 1 = i
        BY <3>1
      <4>2. g[i] = h[i]
        BY <2>2, <4>1
      <4>3. g[i + 1] = F[<<i, g[i]>>] /\ h[i + 1] = F[<<i, h[i]>>]
        BY <4>1
      <4> QED
        BY <4>2, <4>3
    <3> HIDE DEF Start
    <3> QED
      BY <3>1
  <2> HIDE DEF same
  <2> QED
    BY <2>1, <2>2, AllNumbers
<1> DEFINE one(n) == CHOOSE g : g \in Start(n)
           f == [n \in Nat |-> one(n)[n]]
<1>3. ASSUME NEW n \in Nat PROVE one(n) \in Start(n)
  <2>1. \E g : g \in Start(n)
    BY <1>1
  <2> HIDE DEF Start
  <2> QED
    BY <2>1
<1> HIDE DEF one
<1>4. f \in [Nat -> S]
  <2>1. ASSUME NEW n \in Nat PROVE one(n)[n] \in S
    BY <1>3
  <2> QED
    BY <2>1
<1>5. f[0] = s
  BY <1>3
<1>6. ASSUME NEW n \in Nat, n # 0
      PROVE  f[n] = F[<<n - 1, f[n - 1]>>]
  <2>1. n - 1 \in Nat /\ n \in 1 .. n /\ n - 1 <= n
    BY <1>6
  <2>2. one(n) \in Start(n) /\ one(n - 1) \in Start(n - 1)
    BY <1>3, <2>1
  <2>3. one(n)[n - 1] = one(n - 1)[n - 1]
    <3> HIDE DEF Start
    <3>1. n - 1 \in same
      BY <1>2, <2>1
    <3> QED
      BY <2>1, <2>2, <3>1
  <2>4. one(n)[n] = F[<<n - 1, one(n)[n - 1]>>]
    BY <2>1, <2>2
  <2> QED
    BY <2>1, <2>3, <2>4
<1> HIDE DEF f
<1>7. \A n \in Nat : f[n] = IF n = 0 THEN s ELSE F[<<n - 1, f[n - 1]>>]
  BY <1>5, <1>6
<1>8. Follows(f, s, F)
  BY <1>7 DEF Follows
<1> QED
  BY <1>4, <1>8

-----------------------------------------------------------------------------
(* The states of the cursor, the stream and its iterators in which the       *)
(* reckoning fits, and a stream has read what it believes.                   *)
Wholes ==
  {w \in [cursor : SqlCursor, served : 0 .. RowsLeft + 1, stream : Stream,
          iters : [Iter -> Iterator]] :
     /\ Reckons(w.cursor, w.served)
     /\ use.by = "icursorstream" =>
          w.stream.realpos = IF w.served > RowsLeft THEN RowsLeft ELSE w.served}

(* Nothing but the position and the end is changed by reading. *)
SameButRead(n, w) ==
  /\ n.cursor.open = w.cursor.open /\ n.stream.stride = w.stream.stride
  /\ n.stream.reqpos = w.stream.reqpos /\ n.stream.first = w.stream.first

(* Reading and ignoring rows moves the stream on, but not past the last row. *)
LEMMA AdvancedIs ==
  ASSUME UseFits, use.by = "icursorstream", NEW w \in Wholes, NEW k \in Nat,
         NEW done \in BOOLEAN, NEW n, n = Advanced(w, k, done)
  PROVE  /\ n \in Wholes /\ n.iters = w.iters /\ SameButRead(n, w)
         /\ n.stream.realpos = IF w.stream.realpos + k > RowsLeft THEN RowsLeft
                               ELSE w.stream.realpos + k
<1> DEFINE r == RowsLeft
           p == w.served
           c == MovedBy(w.cursor, p, k)
           q == MovedTo(p, k)
<1>1. /\ r \in Nat /\ r <= MaxRows /\ MaxRows \in Nat /\ p \in 0 .. r + 1
      /\ Reckons(w.cursor, p) /\ w.stream \in Stream /\ w.iters \in [Iter -> Iterator]
      /\ w.cursor \in SqlCursor
      /\ w = [cursor |-> w.cursor, served |-> p, stream |-> w.stream, iters |-> w.iters]
      /\ w.stream.realpos = IF p > r THEN r ELSE p
  BY RowsAre DEF Wholes
<1>2. q \in 0 .. r + 1 /\ Reckons(c, q) /\ c.open = w.cursor.open /\ c \in SqlCursor
  <2>1. q \in 0 .. r + 1 /\ Reckons(c, q) /\ c.open = w.cursor.open
    BY <1>1, MoveReckons
  <2> QED
    BY <2>1 DEF Reckons
<1>3. /\ q = IF k = 0 THEN p ELSE IF k <= r - p THEN p + k ELSE r + 1
      /\ Passed(p, k) = IF k = 0 THEN 0
                        ELSE IF p >= r THEN 0 ELSE IF k <= r - p THEN k ELSE r - p
  <2>1. CASE k = 0
    <3>1. Passed(p, k) = IF p <= 1 THEN 0 ELSE IF -k <= p - 1 THEN -k ELSE p - 1
      BY <1>1, <2>1, PassedIs
    <3> QED
      BY <1>1, <2>1, <3>1 DEF MovedTo
  <2>2. CASE k # 0
    <3>1. Passed(p, k) = IF p >= r THEN 0 ELSE IF k <= r - p THEN k ELSE r - p
      BY <1>1, <2>2, PassedIs
    <3>2. Size(k) = k
      BY <2>2 DEF Size
    <3>3. q = IF Passed(p, k) = k THEN p + k ELSE r + 1
      BY <2>2, <3>2 DEF MovedTo, Landed
    <3> HIDE DEF q, r
    <3> QED
      BY <1>1, <2>2, <3>1, <3>3
  <2> QED
    BY <2>1, <2>2
<1> DEFINE a == Passed(p, k)
           t == [w.stream EXCEPT !.realpos = @ + a, !.done = @ \/ done]
<1>4. n = [cursor |-> c, served |-> q, stream |-> t, iters |-> w.iters]
  BY <1>1 DEF Advanced, Stream
<1> HIDE DEF c, q, a, r, p
<1>5. /\ w.stream.realpos + a = IF q > r THEN r ELSE q
      /\ w.stream.realpos + a = IF w.stream.realpos + k > r THEN r
                                ELSE w.stream.realpos + k
      /\ w.stream.realpos + a \in 0 .. MaxRows
  BY <1>1, <1>2, <1>3 DEF a
<1>6. /\ t \in Stream /\ t.realpos = w.stream.realpos + a
      /\ t.stride = w.stream.stride /\ t.reqpos = w.stream.reqpos
      /\ t.first = w.stream.first
  BY <1>1, <1>5 DEF Stream
<1> HIDE DEF t
<1>7. n \in Wholes
  BY <1>1, <1>2, <1>4, <1>5, <1>6 DEF Wholes, r
<1> QED
  BY <1>2, <1>4, <1>5, <1>6, <1>7 DEF SameButRead, r

(* The block at a position of a stream. *)
BlockAt(stride, pos) ==
  IF pos < RowsLeft
    THEN [from |-> pos, dir |-> 1,
          size |-> IF stride <= RowsLeft - pos THEN stride ELSE RowsLeft - pos]
    ELSE Empty

(* Those who wait at a position get the block there. *)
FilledAt(w, readpos) ==
  [i \in Iter |-> IF w.iters[i].life = "attached" /\ w.iters[i].pos = readpos
                    THEN [w.iters[i] EXCEPT !.here = BlockAt(w.stream.stride, readpos)]
                  ELSE w.iters[i]]

LEMMA FetchBlockIs ==
  ASSUME UseFits, use.by = "icursorstream", NEW w \in Wholes
  PROVE  /\ FetchBlock(w) \in Wholes /\ FetchBlock(w).iters = w.iters
         /\ SameButRead(FetchBlock(w), w)
         /\ FetchBlock(w).stream.realpos =
              IF w.stream.realpos + w.stream.stride > RowsLeft THEN RowsLeft
              ELSE w.stream.realpos + w.stream.stride
<1>1. w.stream.stride \in Nat
  BY CursorAssumption DEF Wholes, Stream
<1> DEFINE n == FetchBlock(w)
           done == Passed(w.served, w.stream.stride) = 0
<1>2. n = Advanced(w, w.stream.stride, done) /\ done \in BOOLEAN
  BY DEF FetchBlock
<1> HIDE DEF n, done
<1>3. /\ n \in Wholes /\ n.iters = w.iters /\ SameButRead(n, w)
      /\ n.stream.realpos = IF w.stream.realpos + w.stream.stride > RowsLeft THEN RowsLeft
                            ELSE w.stream.realpos + w.stream.stride
  BY <1>1, <1>2, AdvancedIs
<1> QED
  BY <1>3 DEF n

LEMMA IgnoreRowsIs ==
  ASSUME UseFits, use.by = "icursorstream", NEW w \in Wholes, NEW n \in Nat
  PROVE  /\ IgnoreRows(w, n) \in Wholes /\ IgnoreRows(w, n).iters = w.iters
         /\ SameButRead(IgnoreRows(w, n), w)
         /\ IgnoreRows(w, n).stream.realpos =
              IF w.stream.realpos + n > RowsLeft THEN RowsLeft ELSE w.stream.realpos + n
<1>1. CASE n = 0
  <2>1. w.stream.realpos \in Nat /\ w.stream.realpos <= RowsLeft /\ RowsLeft \in Nat
    BY RowsAre DEF Wholes
  <2>2. IgnoreRows(w, n) = w /\ SameButRead(w, w)
    BY <1>1 DEF IgnoreRows, SameButRead
  <2> QED
    BY <1>1, <2>1, <2>2
<1>2. CASE n # 0
  <2> DEFINE m == IgnoreRows(w, n)
             done == Passed(w.served, n) < n
  <2>1. m = Advanced(w, n, done) /\ done \in BOOLEAN
    BY <1>2 DEF IgnoreRows
  <2> HIDE DEF m, done
  <2>2. /\ m \in Wholes /\ m.iters = w.iters /\ SameButRead(m, w)
        /\ m.stream.realpos = IF w.stream.realpos + n > RowsLeft THEN RowsLeft
                              ELSE w.stream.realpos + n
    BY <2>1, AdvancedIs
  <2> QED
    BY <2>2 DEF m
<1> QED
  BY <1>1, <1>2

(* One read serves the position that was asked for, wherever the stream is   *)
(* before it.                                                                *)
LEMMA ServeAtIs ==
  ASSUME UseFits, use.by = "icursorstream", NEW w \in Wholes, NEW readpos \in Nat,
         NEW n, n = ServeAt(w, readpos)
  PROVE  /\ n \in Wholes /\ SameButRead(n, w)
         /\ readpos >= w.stream.realpos =>
              /\ n.stream.realpos = IF readpos + w.stream.stride > RowsLeft THEN RowsLeft
                                    ELSE readpos + w.stream.stride
              /\ n.iters = FilledAt(w, readpos)
<1> DEFINE r == RowsLeft
           k == Max({readpos - w.stream.realpos, 0})
           there == IgnoreRows(w, k)
           done == FetchBlock(there)
           fresh == Fetched(there.served, there.stream.stride)
           got == [i \in Iter |->
                     IF w.iters[i].life = "attached" /\ w.iters[i].pos = readpos
                       THEN [w.iters[i] EXCEPT !.here = fresh] ELSE w.iters[i]]
<1>1. /\ r \in Nat /\ w.stream.realpos \in Nat /\ w.stream.realpos <= r
      /\ w.stream.stride \in Nat /\ w.stream.stride # 0
      /\ w.iters \in [Iter -> Iterator]
  BY RowsAre, CursorAssumption DEF Wholes, Stream
<1>2. k = (IF readpos >= w.stream.realpos THEN readpos - w.stream.realpos ELSE 0) /\ k \in Nat
  <2> DEFINE o == w.stream.realpos  d == readpos - o
  <2>1. o \in Nat /\ d \in Int
    BY <1>1
  <2>2. Max({d, 0}) = IF d >= 0 THEN d ELSE 0
    BY <2>1, MaxOfTwo
  <2>3. k = Max({d, 0})
    OBVIOUS
  <2> HIDE DEF k, o
  <2>4. d >= 0 <=> readpos >= o
    BY <2>1
  <2> QED
    BY <2>1, <2>2, <2>3, <2>4 DEF o
<1> HIDE DEF k
<1>3. /\ there \in Wholes /\ there.iters = w.iters /\ SameButRead(there, w)
      /\ there.stream.realpos = IF w.stream.realpos + k > r THEN r ELSE w.stream.realpos + k
  BY <1>2, IgnoreRowsIs
<1> HIDE DEF there
<1>4. /\ done \in Wholes /\ done.iters = w.iters /\ SameButRead(done, w)
      /\ done.stream.realpos = IF there.stream.realpos + w.stream.stride > r THEN r
                               ELSE there.stream.realpos + w.stream.stride
  BY <1>3, FetchBlockIs DEF SameButRead
<1> HIDE DEF done
<1>5. /\ there.served \in 0 .. r + 1 /\ there.stream.stride = w.stream.stride
      /\ there.stream.realpos = IF there.served > r THEN r ELSE there.served
  BY <1>3 DEF Wholes, SameButRead
<1>6. fresh \in Block
  BY <1>1, <1>5, FetchedIs
<1>7. readpos >= w.stream.realpos => fresh = BlockAt(w.stream.stride, readpos)
  <2> SUFFICES ASSUME readpos >= w.stream.realpos
               PROVE  fresh = BlockAt(w.stream.stride, readpos)
    OBVIOUS
  <2>1. there.stream.realpos = IF readpos > r THEN r ELSE readpos
    BY <1>1, <1>2, <1>3
  <2>2. CASE readpos < r
    <3>1. there.served = readpos
      BY <1>1, <1>5, <2>1, <2>2
    <3> QED
      BY <1>1, <1>5, <2>2, <3>1, FetchedIs DEF BlockAt
  <2>3. CASE ~(readpos < r)
    <3>1. there.served >= r
      BY <1>1, <1>5, <2>1, <2>3
    <3> QED
      BY <1>1, <1>5, <2>3, <3>1, FetchedIs DEF BlockAt
  <2> QED
    BY <2>2, <2>3
<1> HIDE DEF fresh
<1>8. got \in [Iter -> Iterator]
  BY <1>1, <1>6 DEF Iterator
<1>9. n = [done EXCEPT !.iters = got]
  BY <1>4 DEF ServeAt, k, there, done, fresh
<1> HIDE DEF got
<1>10. n \in Wholes /\ n.iters = got /\ n.stream = done.stream /\ n.cursor = done.cursor
  BY <1>4, <1>8, <1>9 DEF Wholes
<1>11. SameButRead(n, w)
  BY <1>4, <1>10 DEF SameButRead
<1>12. readpos >= w.stream.realpos =>
         /\ n.stream.realpos = IF readpos + w.stream.stride > r THEN r
                               ELSE readpos + w.stream.stride
         /\ n.iters = FilledAt(w, readpos)
  <2>1. readpos >= w.stream.realpos => got = FilledAt(w, readpos)
    BY <1>7 DEF got, FilledAt
  <2>2. readpos >= w.stream.realpos =>
          n.stream.realpos = IF readpos + w.stream.stride > r THEN r
                             ELSE readpos + w.stream.stride
    BY <1>1, <1>2, <1>3, <1>4, <1>10
  <2> QED
    BY <1>10, <2>1, <2>2
<1> QED
  BY <1>10, <1>11, <1>12

-----------------------------------------------------------------------------
(* service_iterators, position by position. *)
LEMMA ServicedSteps ==
  ASSUME UseFits, use.by = "icursorstream", NEW w \in Wholes, NEW topos \in Nat
  PROVE  \E f \in [Nat -> Wholes] :
           /\ f[0] = w
           /\ \A n \in Nat :
                f[n + 1] = IF w.stream.realpos + n \in ToServe(w, topos)
                             THEN ServeAt(f[n], w.stream.realpos + n) ELSE f[n]
           /\ Serviced(w, topos) = IF topos < w.stream.realpos THEN w
                                   ELSE f[topos - w.stream.realpos + 1]
<1> DEFINE realpos == w.stream.realpos
           owed == ToServe(w, topos)
           F == [x \in Nat \X Wholes |-> IF realpos + x[1] \in owed
                                           THEN ServeAt(x[2], realpos + x[1]) ELSE x[2]]
           Fits(f) == f = [n \in Nat |->
                             IF n = 0 THEN w
                             ELSE IF realpos + n - 1 \in owed
                                    THEN ServeAt(f[n - 1], realpos + n - 1)
                             ELSE f[n - 1]]
           after == CHOOSE f : Fits(f)
<1>1. realpos \in Nat
  BY DEF Wholes, Stream
<1>2. Serviced(w, topos) = IF topos < realpos THEN w ELSE after[topos - realpos + 1]
  BY DEF Serviced
<1> HIDE DEF realpos, owed
<1>3. \A n \in Nat, s \in Wholes : ServeAt(s, realpos + n) \in Wholes
  BY <1>1, ServeAtIs
<1>4. F \in [Nat \X Wholes -> Wholes]
  BY <1>3
<1> HIDE DEF F
<1>5. PICK g \in [Nat -> Wholes] : Follows(g, w, F)
  BY <1>4, StepsDefine
<1>6. Fits(g)
  <2>1. ASSUME NEW n \in Nat
        PROVE  g[n] = IF n = 0 THEN w
                      ELSE IF realpos + n - 1 \in owed
                             THEN ServeAt(g[n - 1], realpos + n - 1)
                      ELSE g[n - 1]
    <3>1. CASE n = 0
      BY <1>5, <3>1 DEF Follows
    <3>2. CASE n # 0
      <4>1. n - 1 \in Nat /\ realpos + (n - 1) = realpos + n - 1
        BY <1>1, <3>2
      <4>2. g[n] = F[<<n - 1, g[n - 1]>>]
        BY <1>5, <3>2 DEF Follows
      <4>3. F[<<n - 1, g[n - 1]>>] =
              IF realpos + (n - 1) \in owed THEN ServeAt(g[n - 1], realpos + (n - 1))
              ELSE g[n - 1]
        BY <4>1 DEF F
      <4> QED
        BY <3>2, <4>1, <4>2, <4>3
    <3> QED
      BY <3>1, <3>2
  <2>2. g = [n \in Nat |-> g[n]]
    OBVIOUS
  <2> QED
    BY <2>1, <2>2
<1>7. Fits(after)
  <2> HIDE DEF Fits
  <2> QED
    BY <1>6
<1> HIDE DEF after, F
<1>8. /\ after[0] = w
      /\ \A n \in Nat : after[n + 1] = IF realpos + n \in owed
                                         THEN ServeAt(after[n], realpos + n)
                                       ELSE after[n]
  <2>1. after[0] = w
    BY <1>7
  <2>2. ASSUME NEW n \in Nat
        PROVE  after[n + 1] = IF realpos + n \in owed THEN ServeAt(after[n], realpos + n)
                              ELSE after[n]
    <3>1. n + 1 \in Nat /\ n + 1 # 0 /\ n + 1 - 1 = n /\ realpos + (n + 1) - 1 = realpos + n
      BY <1>1
    <3> QED
      BY <1>7, <3>1
  <2> QED
    BY <2>1, <2>2
<1>9. \A n \in Nat : after[n] \in Wholes
  <2> DEFINE good == {n \in Nat : after[n] \in Wholes}
  <2>1. 0 \in good
    BY <1>8
  <2>2. \A n \in Nat : n \in good => n + 1 \in good
    BY <1>3, <1>8
  <2> HIDE DEF good
  <2>3. Nat \subseteq good
    BY <2>1, <2>2, AllNumbers
  <2> QED
    BY <2>3 DEF good
<1>10. after = [n \in Nat |-> after[n]]
  BY <1>7
<1>11. after \in [Nat -> Wholes]
  BY <1>9, <1>10
<1> QED
  BY <1>2, <1>8, <1>11 DEF realpos, owed

-----------------------------------------------------------------------------
(* The inductive invariant for what cursors know. *)
CursorInv ==
  /\ UseFits /\ Whole \in Wholes
  /\ use.by = "stateless_cursor" => cursor.pos # -1
  /\ answer.rows \in Block /\ RetrievesRows

LEMMA WholeIs ==
  Whole \in Wholes <=>
    /\ cursor \in SqlCursor /\ served \in 0 .. RowsLeft + 1
    /\ stream \in Stream /\ iters \in [Iter -> Iterator]
    /\ Reckons(cursor, served)
    /\ use.by = "icursorstream" =>
         stream.realpos = IF served > RowsLeft THEN RowsLeft ELSE served
<1>1. /\ Whole.cursor = cursor /\ Whole.served = served
      /\ Whole.stream = stream /\ Whole.iters = iters
  BY DEF Whole
<1>2. Whole \in [cursor : SqlCursor, served : 0 .. RowsLeft + 1, stream : Stream,
                 iters : [Iter -> Iterator]]
      <=> /\ cursor \in SqlCursor /\ served \in 0 .. RowsLeft + 1
          /\ stream \in Stream /\ iters \in [Iter -> Iterator]
  BY DEF Whole
<1> QED
  BY <1>1, <1>2 DEF Wholes

LEMMA CursorInvIs ==
  ASSUME CursorInv
  PROVE  CursorTypeOK /\ CursorIsExact
<1>1. /\ cursor \in SqlCursor /\ served \in 0 .. RowsLeft + 1
      /\ stream \in Stream /\ iters \in [Iter -> Iterator] /\ Reckons(cursor, served)
  BY WholeIs DEF CursorInv
<1>2. PositionsAgree /\ NoContradiction
  BY <1>1 DEF Reckons, PositionsAgree, NoContradiction
<1> QED
  BY <1>1, <1>2 DEF CursorInv, CursorTypeOK, CursorIsExact

(* What a step becomes is what its value is. *)
LEMMA BecomeKeeps ==
  ASSUME CursorInv, NEW w \in Wholes, Become(w),
         use.by = "stateless_cursor" => w.cursor.pos # -1
  PROVE  CursorInv'
<1>1. /\ cursor' = w.cursor /\ served' = w.served /\ stream' = w.stream /\ iters' = w.iters
      /\ use' = use /\ answer' = answer
  BY DEF Become
<1>2. Wholes' = Wholes /\ RowsLeft' = RowsLeft
  BY <1>1 DEF Wholes, Reckons, RowsLeft
<1>3. w = [cursor |-> w.cursor, served |-> w.served, stream |-> w.stream,
           iters |-> w.iters]
  BY DEF Wholes
<1>4. Whole' \in Wholes'
  BY <1>1, <1>2, <1>3 DEF Whole
<1>5. RetrievesRows' /\ (answer.rows \in Block)'
  BY <1>1, <1>2 DEF CursorInv, RetrievesRows, Promised, Empty, Block
<1> QED
  BY <1>1, <1>4, <1>5 DEF CursorInv, UseFits

LEMMA InitCursors == CursorInit => CursorInv
<1> SUFFICES ASSUME CursorInit PROVE CursorInv
  OBVIOUS
<1>1. /\ UseFits /\ RowsLeft \in Nat /\ RowsLeft <= MaxRows /\ MaxRows \in Nat
  <2>1. UseFits
    BY DEF CursorInit, UseFits
  <2> QED
    BY <2>1, RowsAre
<1>2. /\ answer.rows \in Block /\ RetrievesRows
  <2>1. answer = [begin |-> 0, end |-> 0, rows |-> Empty, thrown |-> FALSE]
    BY DEF CursorInit
  <2>2. Empty \in Block
    BY <1>1 DEF Empty, Block
  <2>3. 0 \in 0 .. RowsLeft - 1 => Promised(0, 0) = Empty
    BY <1>1, PromisedIs
  <2> QED
    BY <2>1, <2>2, <2>3 DEF RetrievesRows
<1>3. iters \in [Iter -> Iterator]
  <2>1. iters = [i \in Iter |-> Gone]
    BY DEF CursorInit
  <2>2. Gone \in Iterator
    BY <1>1 DEF Gone, Iterator, Empty, Block
  <2> QED
    BY <2>1, <2>2
<1>4. stream \in Stream /\ stream.realpos = 0
  <2>1. PICK s \in 1 .. MaxStride :
          stream = [stride |-> s, realpos |-> 0, reqpos |-> 0, done |-> FALSE,
                    first |-> NoIter]
    BY DEF CursorInit
  <2> QED
    BY <1>1, <2>1 DEF Stream
<1>5. /\ Created \in SqlCursor /\ Reckons(Created, 0) /\ Created.pos # -1
      /\ Adopted \in SqlCursor
      /\ \A p \in 0 .. RowsLeft + 1 : Reckons(Adopted, p)
  <2>1. Created \in SqlCursor /\ Adopted \in SqlCursor
    BY <1>1 DEF Created, Adopted, SqlCursor
  <2> QED
    BY <1>1, <2>1 DEF Reckons, Created, Adopted
<1>6. CASE cursor = Created /\ served = 0
  BY <1>1, <1>2, <1>3, <1>4, <1>5, <1>6, WholeIs DEF CursorInv
<1>7. CASE /\ use.by # "icursorstream"
           /\ \E p \in 0 .. use.rows + 1 :
                LET back == IF use.by = "stateless_cursor" THEN -All ELSE 0
                IN cursor = MovedBy(Adopted, p, back) /\ served = MovedTo(p, back)
  <2> DEFINE back == IF use.by = "stateless_cursor" THEN -All ELSE 0
  <2>1. PICK p \in 0 .. RowsLeft + 1 :
          cursor = MovedBy(Adopted, p, back) /\ served = MovedTo(p, back)
    BY <1>7 DEF RowsLeft
  <2>2. /\ back \in Int
        /\ use.by = "stateless_cursor" => back < 0 /\ -back > RowsLeft
    BY <1>1 DEF All
  <2> HIDE DEF back
  <2>3. /\ served \in 0 .. RowsLeft + 1 /\ Reckons(cursor, served)
        /\ use.by = "stateless_cursor" => cursor.pos # -1
    BY <1>1, <1>5, <2>1, <2>2, MoveReckons
  <2>4. cursor \in SqlCursor
    BY <2>3 DEF Reckons
  <2> QED
    BY <1>1, <1>2, <1>3, <1>4, <1>7, <2>3, <2>4, WholeIs DEF CursorInv
<1> QED
  BY <1>6, <1>7 DEF CursorInit

(* Moving by any number of rows, in either direction. *)
LEMMA FetchOrMoveKeeps == CursorInv /\ FetchOrMove => CursorInv'
<1> SUFFICES ASSUME CursorInv, FetchOrMove PROVE CursorInv'
  OBVIOUS
<1>1. PICK k \in Stride :
        cursor' = MovedBy(cursor, served, k) /\ served' = MovedTo(served, k)
  BY DEF FetchOrMove
<1>2. /\ use.by = "sql_cursor" /\ use' = use /\ answer' = answer
      /\ stream' = stream /\ iters' = iters
  BY DEF FetchOrMove
<1> DEFINE w == [cursor |-> MovedBy(cursor, served, k), served |-> MovedTo(served, k),
                 stream |-> stream, iters |-> iters]
<1>3. /\ served \in 0 .. RowsLeft + 1 /\ stream \in Stream /\ iters \in [Iter -> Iterator]
      /\ Reckons(cursor, served) /\ UseFits
  BY WholeIs DEF CursorInv
<1>4. k \in Int
  BY <1>3, RowsAre DEF Stride, All
<1>5. MovedTo(served, k) \in 0 .. RowsLeft + 1
      /\ Reckons(MovedBy(cursor, served, k), MovedTo(served, k))
  BY <1>3, <1>4, MoveReckons
<1>6. w \in Wholes
  BY <1>2, <1>3, <1>5 DEF Wholes, Reckons
<1>7. Become(w)
  BY <1>1, <1>2 DEF Become
<1> HIDE DEF w
<1> QED
  BY <1>2, <1>6, <1>7, BecomeKeeps

LEMMA CloseCursorKeeps == CursorInv /\ CloseCursor => CursorInv'
<1> SUFFICES ASSUME CursorInv, CloseCursor PROVE CursorInv'
  OBVIOUS
<1>1. /\ cursor' = [cursor EXCEPT !.open = FALSE] /\ served' = served /\ use' = use
      /\ answer' = answer /\ stream' = stream /\ iters' = iters
  BY DEF CloseCursor
<1> DEFINE c == [cursor EXCEPT !.open = FALSE]
           w == [cursor |-> c, served |-> served, stream |-> stream, iters |-> iters]
<1>2. /\ served \in 0 .. RowsLeft + 1 /\ stream \in Stream /\ iters \in [Iter -> Iterator]
      /\ cursor \in SqlCursor /\ Reckons(cursor, served)
      /\ use.by = "icursorstream" =>
           stream.realpos = IF served > RowsLeft THEN RowsLeft ELSE served
      /\ use.by = "stateless_cursor" => cursor.pos # -1
  BY WholeIs DEF CursorInv
<1>3. /\ c \in SqlCursor /\ c.pos = cursor.pos /\ c.endpos = cursor.endpos
      /\ c.atEnd = cursor.atEnd /\ c.failed = cursor.failed
  BY <1>2 DEF SqlCursor
<1> HIDE DEF c
<1>4. Reckons(c, served)
  BY <1>2, <1>3 DEF Reckons
<1>5. w \in Wholes
  BY <1>2, <1>3, <1>4 DEF Wholes
<1>6. Become(w) /\ w.cursor.pos = cursor.pos
  BY <1>1, <1>3 DEF Become, c
<1> HIDE DEF w
<1> QED
  BY <1>2, <1>5, <1>6, BecomeKeeps

-----------------------------------------------------------------------------
(* How far the rows go that are asked for up to end. *)
Cut(end, size) == Max({-1, Min({end, size})})

LEMMA CutIs ==
  ASSUME NEW end \in Int, NEW size \in Nat
  PROVE  Cut(end, size) = IF end > size THEN size ELSE IF end < -1 THEN -1 ELSE end
<1> DEFINE m == Min({end, size})
<1>1. m = (IF end <= size THEN end ELSE size) /\ m \in Int
  BY MinOfTwo
<1>2. Cut(end, size) = Max({-1, m})
  BY DEF Cut
<1> HIDE DEF m
<1>3. Cut(end, size) = IF -1 >= m THEN -1 ELSE m
  BY <1>1, <1>2, MaxOfTwo
<1> QED
  BY <1>1, <1>3

(* What retrieve reckons with, from position p. *)
Retrieving(c, p, begin, end, size, to, way, k, rows) ==
  /\ size = c.endpos - 1 /\ to = Cut(end, size)
  /\ way = Approach(begin, IF begin < to THEN 1 ELSE -1, c.pos)
  /\ k = to - begin /\ rows = Fetched(MovedTo(p, way), k)

(* retrieve: the position is known, and after a move to the end so is that,  *)
(* the first of the rows is next in the direction of reading, and the last   *)
(* is where the reading ends.                                                *)
LEMMA RetrieveReturns ==
  ASSUME UseFits, NEW p \in 0 .. RowsLeft + 1, NEW c, Reckons(c, p),
         c.pos # -1, c.endpos # -1, NEW begin \in Int, NEW end \in Int,
         NEW size, NEW to, NEW approach, NEW k, NEW rows,
         Retrieving(c, p, begin, end, size, to, approach, k, rows)
  PROVE  /\ to \in Int /\ approach \in Int /\ RowsLeft = size
         /\ begin \in 0 .. RowsLeft - 1 =>
              Promised(begin, end) = IF begin = to THEN Empty ELSE rows
<1>1. PICK r \in Nat : r = RowsLeft /\ r = size /\ c.pos = p
  BY RowsAre DEF Reckons, Retrieving
<1>2. to = IF end > r THEN r ELSE IF end < -1 THEN -1 ELSE end
  BY <1>1, CutIs DEF Retrieving
<1>3. to \in Int /\ to <= r /\ to >= -1
  BY <1>2
<1>4. p \in Int /\ approach = IF begin < to THEN begin - p ELSE begin + 2 - p
  BY <1>1, <1>3 DEF Approach, Retrieving
<1>5. approach \in Int
  BY <1>4
<1>6. ASSUME begin \in 0 .. RowsLeft - 1
      PROVE  Promised(begin, end) = IF begin = to THEN Empty ELSE rows
  <2>1. /\ begin = to => Promised(begin, end) = Empty
        /\ begin < to => Promised(begin, end) = [from |-> begin, size |-> to - begin, dir |-> 1]
        /\ begin > to => Promised(begin, end) = [from |-> begin, size |-> begin - to, dir |-> -1]
    <3>1. to = IF end > RowsLeft THEN RowsLeft ELSE IF end < -1 THEN -1 ELSE end
      BY <1>1, <1>2
    <3> QED
      BY <1>6, <3>1, PromisedIs
  <2>2. CASE begin < to
    <3>1. begin \in 0 .. RowsLeft + 1 /\ approach = begin - p
      BY <1>1, <1>4, <1>6, <2>2
    <3>2. MovedTo(p, approach) = begin
      BY <3>1, MovedToThere
    <3>3. k \in Int /\ k > 0 /\ begin < RowsLeft /\ k <= RowsLeft - begin /\ k = to - begin
      BY <1>1, <1>3, <1>6, <2>2 DEF Retrieving
    <3>4. rows = Fetched(begin, k)
      BY <3>2 DEF Retrieving
    <3>5. rows = [from |-> begin, dir |-> 1, size |-> k]
      BY <3>1, <3>3, <3>4, FetchedIs
    <3>6. ~(begin = to)
      BY <2>2, <1>3
    <3> QED
      BY <2>1, <2>2, <3>3, <3>5, <3>6
  <2>3. CASE begin > to
    <3>1. begin + 2 \in 0 .. RowsLeft + 1 /\ approach = (begin + 2) - p
      BY <1>1, <1>3, <1>4, <1>6, <2>3
    <3>2. MovedTo(p, approach) = begin + 2
      BY <3>1, MovedToThere
    <3> DEFINE q == begin + 2
    <3>3. k \in Int /\ k < 0 /\ q > 1 /\ -k <= q - 1 /\ -k = begin - to /\ q - 2 = begin
      BY <1>1, <1>3, <1>6, <2>3 DEF Retrieving
    <3>4. rows = Fetched(q, k) /\ q \in 0 .. RowsLeft + 1
      BY <3>1, <3>2 DEF Retrieving
    <3> HIDE DEF q
    <3>5. rows = [from |-> q - 2, dir |-> -1, size |-> -k]
      BY <3>3, <3>4, FetchedIs
    <3>6. ~(begin = to)
      BY <2>3, <1>3
    <3> QED
      BY <2>1, <2>3, <3>3, <3>5, <3>6
  <2>4. begin = to \/ begin < to \/ begin > to
    BY <1>3
  <2> QED
    BY <2>1, <2>2, <2>3, <2>4
<1> QED
  BY <1>1, <1>3, <1>5, <1>6

LEMMA RetrieveKeeps == CursorInv /\ Retrieve => CursorInv'
<1> SUFFICES ASSUME CursorInv, Retrieve PROVE CursorInv'
  OBVIOUS
<1> DEFINE far == IF cursor.endpos = -1 THEN All ELSE 0
           sized == MovedBy(cursor, served, far)
           p == MovedTo(served, far)
           size == sized.endpos - 1
<1>1. /\ use.by = "stateless_cursor" /\ use' = use
      /\ stream' = stream /\ iters' = iters
  BY DEF Retrieve
<1>2. PICK begin \in -2 .. MaxRows + 1, end \in -2 .. MaxRows + 1 :
        LET to == Cut(end, size)
            way == Approach(begin, IF begin < to THEN 1 ELSE -1, sized.pos)
            ready == MovedBy(sized, p, way)
            q == MovedTo(p, way)
            k == to - begin
        IN IF begin < 0 \/ begin > size \/ begin = to
             THEN /\ cursor' = sized /\ served' = p
                  /\ answer' = [begin |-> begin, end |-> end, rows |-> Empty,
                                thrown |-> begin < 0 \/ begin > size]
             ELSE /\ cursor' = MovedBy(ready, q, k) /\ served' = MovedTo(q, k)
                  /\ answer' = [begin |-> begin, end |-> end, thrown |-> FALSE,
                                rows |-> Fetched(q, k)]
  BY ZenonT(60) DEF Retrieve, Cut
<1> DEFINE to == Cut(end, size)
           way == Approach(begin, IF begin < to THEN 1 ELSE -1, sized.pos)
           ready == MovedBy(sized, p, way)
           q == MovedTo(p, way)
           k == to - begin
           rows == Fetched(q, k)
           c == MovedBy(ready, q, k)
           s == MovedTo(q, k)
<1>13. IF begin < 0 \/ begin > size \/ begin = to
         THEN /\ cursor' = sized /\ served' = p
              /\ answer' = [begin |-> begin, end |-> end, rows |-> Empty,
                            thrown |-> begin < 0 \/ begin > size]
         ELSE /\ cursor' = c /\ served' = s
              /\ answer' = [begin |-> begin, end |-> end, thrown |-> FALSE,
                            rows |-> rows]
  BY <1>2
<1>3. /\ served \in 0 .. RowsLeft + 1 /\ stream \in Stream /\ iters \in [Iter -> Iterator]
      /\ Reckons(cursor, served) /\ UseFits /\ cursor.pos # -1
      /\ RowsLeft \in Nat /\ RowsLeft <= MaxRows /\ MaxRows \in Nat
  BY <1>1, WholeIs, RowsAre DEF CursorInv
<1>4. begin \in Int /\ end \in Int
  BY <1>3
<1>5. /\ p \in 0 .. RowsLeft + 1 /\ Reckons(sized, p) /\ sized.pos # -1
      /\ sized.endpos # -1
  <2>1. far \in Int
    BY <1>3 DEF All
  <2>2. CASE cursor.endpos = -1
    <3>1. far > RowsLeft
      BY <1>3, <2>2 DEF All
    <3> HIDE DEF far
    <3> QED
      BY <1>3, <2>1, <3>1, MoveReckons
  <2>3. CASE cursor.endpos # -1
    <3>1. sized = cursor /\ p = served
      BY <2>3 DEF MovedBy, MovedTo
    <3> QED
      BY <1>3, <2>3, <3>1
  <2> QED
    BY <2>2, <2>3
<1> HIDE DEF far, sized, p, size
<1>14. size = sized.endpos - 1
  BY DEF size
<1>6. /\ to \in Int /\ way \in Int /\ RowsLeft = size
      /\ begin \in 0 .. RowsLeft - 1 =>
           Promised(begin, end) = IF begin = to THEN Empty ELSE rows
  <2>1. Retrieving(sized, p, begin, end, size, to, way, k, rows)
    BY <1>14 DEF Retrieving
  <2> HIDE DEF to, way, rows, k
  <2> QED
    <3>1. /\ UseFits /\ p \in 0 .. RowsLeft + 1 /\ Reckons(sized, p)
          /\ sized.pos # -1 /\ sized.endpos # -1
      BY <1>3, <1>5
    <3> QED
      BY <1>4, <2>1, <3>1, RetrieveReturns
<1> HIDE DEF to, way
<1>7. /\ q \in 0 .. RowsLeft + 1 /\ Reckons(ready, q) /\ ready.pos # -1
  <2>1. /\ MovedTo(p, way) \in 0 .. RowsLeft + 1
        /\ Reckons(MovedBy(sized, p, way), MovedTo(p, way))
        /\ sized.pos # -1 => MovedBy(sized, p, way).pos # -1
    <3>1. UseFits /\ p \in 0 .. RowsLeft + 1 /\ Reckons(sized, p) /\ way \in Int
      BY <1>3, <1>5, <1>6
    <3> QED
      BY <3>1, MoveReckons
  <2> QED
    BY <1>5, <2>1
<1> HIDE DEF ready, q
<1>8. /\ s \in 0 .. RowsLeft + 1 /\ Reckons(c, s) /\ c.pos # -1 /\ rows \in Block
  <2>1. k \in Int
    BY <1>4, <1>6
  <2> HIDE DEF k
  <2> QED
    BY <1>3, <1>7, <2>1, MoveReckons, FetchedIs
<1> HIDE DEF c, s, rows
<1>9. /\ served' \in 0 .. RowsLeft + 1 /\ Reckons(cursor', served') /\ cursor'.pos # -1
      /\ answer'.rows \in Block /\ answer'.begin = begin /\ answer'.end = end
      /\ begin \in 0 .. RowsLeft - 1 => answer'.rows = Promised(begin, end)
  <2>1. Empty \in Block
    BY <1>3 DEF Empty, Block
  <2>2. begin \in 0 .. RowsLeft - 1 => ~(begin < 0 \/ begin > size)
    BY <1>3, <1>4, <1>6
  <2>4. CASE begin < 0 \/ begin > size \/ begin = to
    BY <1>5, <1>6, <1>13, <2>1, <2>2, <2>4
  <2>5. CASE ~(begin < 0 \/ begin > size \/ begin = to)
    BY <1>6, <1>8, <1>13, <2>5
  <2> QED
    BY <2>4, <2>5
<1>10. RowsLeft' = RowsLeft
  BY <1>1 DEF RowsLeft
<1>11. (Whole \in Wholes)'
  <2>1. cursor' \in SqlCursor
    BY <1>9 DEF Reckons
  <2>2. Wholes' = Wholes
    BY <1>1, <1>10 DEF Wholes, Reckons
  <2>3. Whole' \in [cursor : SqlCursor, served : 0 .. RowsLeft + 1, stream : Stream,
                    iters : [Iter -> Iterator]]
    BY <1>1, <1>3, <1>9, <2>1 DEF Whole
  <2>4. Whole'.cursor = cursor' /\ Whole'.served = served'
    BY DEF Whole
  <2>5. Whole' \in Wholes
    BY <1>1, <1>9, <2>3, <2>4 DEF Wholes
  <2> QED
    BY <2>2, <2>5
<1>12. RetrievesRows'
  <2>1. Promised(begin, end)' = Promised(begin, end)
    BY <1>10 DEF Promised
  <2> QED
    BY <1>9, <1>10, <2>1 DEF RetrievesRows, Promised
<1> QED
  BY <1>1, <1>3, <1>9, <1>11, <1>12 DEF CursorInv, UseFits

-----------------------------------------------------------------------------
(* The list of iterators. *)
Att(w, i) == w.iters[i].life = "attached"

(* chain lists the attached iterators, by the links forward and back. *)
Chained(w, n, chain) ==
  /\ \A k, l \in 1 .. n : chain[k] = chain[l] => k = l
  /\ \A i \in Iter : Att(w, i) <=> \E k \in 1 .. n : chain[k] = i
  /\ w.stream.first = IF n = 0 THEN NoIter ELSE chain[1]
  /\ \A k \in 1 .. n :
       /\ w.iters[chain[k]].prev = IF k = 1 THEN NoIter ELSE chain[k - 1]
       /\ w.iters[chain[k]].next = IF k = n THEN NoIter ELSE chain[k + 1]

Linked(w) == \E n \in Nat : \E chain \in [1 .. n -> Iter] : Chained(w, n, chain)

(* Links apart, the iterators are what they were. *)
SameValues(v, w) ==
  \A j \in Iter : v.iters[j].here = w.iters[j].here /\ v.iters[j].pos = w.iters[j].pos

(* What insert_iterator does to each of them. *)
LEMMA InsertedIs ==
  ASSUME NEW w \in Wholes, NEW i \in Iter, w.stream.first \in Iter \cup {NoIter},
         w.stream.first # i, NEW v, v = Inserted(w, i)
  PROVE  /\ v \in Wholes /\ v.cursor = w.cursor /\ v.stream.first = i
         /\ v.stream.stride = w.stream.stride /\ v.stream.reqpos = w.stream.reqpos
         /\ v.stream.realpos = w.stream.realpos
         /\ SameValues(v, w) /\ Att(v, i)
         /\ v.iters[i].next = w.stream.first /\ v.iters[i].prev = w.iters[i].prev
         /\ \A j \in Iter \ {i} :
              /\ Att(v, j) <=> Att(w, j)
              /\ v.iters[j].life = w.iters[j].life /\ v.iters[j].next = w.iters[j].next
              /\ v.iters[j].prev = IF j = w.stream.first THEN i ELSE w.iters[j].prev
<1> DEFINE first == w.stream.first
           linked == [w.iters EXCEPT ![i].life = "attached", ![i].next = first]
           its == IF first = NoIter THEN linked ELSE [linked EXCEPT ![first].prev = i]
<1>1. /\ w.iters \in [Iter -> Iterator] /\ w.stream \in Stream /\ NoIter \notin Iter
      /\ w = [cursor |-> w.cursor, served |-> w.served, stream |-> w.stream,
              iters |-> w.iters]
  BY CursorAssumption DEF Wholes
<1>2. /\ linked \in [Iter -> Iterator]
      /\ linked[i] = [w.iters[i] EXCEPT !.life = "attached", !.next = first]
      /\ \A j \in Iter \ {i} : linked[j] = w.iters[j]
  BY <1>1, ZenonT(60) DEF Iterator
<1> HIDE DEF linked
<1>3. /\ its \in [Iter -> Iterator] /\ its[i] = linked[i]
      /\ \A j \in Iter \ {i} : its[j] = IF j = first THEN [w.iters[j] EXCEPT !.prev = i]
                                        ELSE w.iters[j]
  BY <1>1, <1>2 DEF Iterator
<1>4. v = [w EXCEPT !.stream.first = i, !.iters = its]
  BY DEF Inserted, linked
<1> HIDE DEF its
<1>5. /\ v = [cursor |-> w.cursor, served |-> w.served,
              stream |-> [w.stream EXCEPT !.first = i], iters |-> its]
  BY <1>1, <1>4
<1>6. [w.stream EXCEPT !.first = i] \in Stream
  BY <1>1 DEF Stream
<1>7. v \in Wholes
  BY <1>1, <1>3, <1>5, <1>6 DEF Wholes, Stream
<1>8. v.cursor = w.cursor /\ v.iters = its /\ v.stream = [w.stream EXCEPT !.first = i]
  BY <1>5
<1>9. /\ v.stream.first = i
      /\ v.stream.stride = w.stream.stride /\ v.stream.reqpos = w.stream.reqpos
      /\ v.stream.realpos = w.stream.realpos
  BY <1>1, <1>8 DEF Stream
<1>10. /\ w.iters[i] \in Iterator /\ its[i] = [w.iters[i] EXCEPT !.life = "attached", !.next = first]
  BY <1>1, <1>2, <1>3
<1>11. /\ its[i].life = "attached" /\ its[i].next = first /\ its[i].prev = w.iters[i].prev
       /\ its[i].here = w.iters[i].here /\ its[i].pos = w.iters[i].pos
  BY <1>10 DEF Iterator
<1>12. ASSUME NEW j \in Iter \ {i}
       PROVE  /\ its[j].life = w.iters[j].life /\ its[j].next = w.iters[j].next
              /\ its[j].prev = IF j = first THEN i ELSE w.iters[j].prev
              /\ its[j].here = w.iters[j].here /\ its[j].pos = w.iters[j].pos
  <2>1. w.iters[j] \in Iterator
    BY <1>1
  <2> QED
    BY <1>3, <2>1 DEF Iterator
<1>13. SameValues(v, w) /\ Att(v, i) /\ \A j \in Iter \ {i} : Att(v, j) <=> Att(w, j)
  BY <1>8, <1>11, <1>12 DEF SameValues, Att
<1> QED
  BY <1>7, <1>8, <1>9, <1>11, <1>12, <1>13

LEMMA InsertedIsLinked ==
  ASSUME NEW w \in Wholes, Linked(w), NEW i \in Iter, ~Att(w, i),
         w.iters[i].prev = NoIter
  PROVE  Linked(Inserted(w, i))
<1>0. PICK n \in Nat : \E chain \in [1 .. n -> Iter] : Chained(w, n, chain)
  BY DEF Linked
<1>1. PICK chain \in [1 .. n -> Iter] : Chained(w, n, chain)
  BY <1>0
<1>2. /\ NoIter \notin Iter /\ w.iters \in [Iter -> Iterator]
      /\ w.stream.first = IF n = 0 THEN NoIter ELSE chain[1]
      /\ \A k \in 1 .. n : chain[k] \in Iter /\ chain[k] # i /\ Att(w, chain[k])
      /\ n # 0 => 1 \in 1 .. n
      /\ i # NoIter
  BY <1>1, CursorAssumption DEF Chained, Wholes
<1>3. w.stream.first \in Iter \cup {NoIter} /\ w.stream.first # i
  BY <1>2
<1> DEFINE v == Inserted(w, i)
           longer == [k \in 1 .. n + 1 |-> IF k = 1 THEN i ELSE chain[k - 1]]
<1>4. v = Inserted(w, i)
  OBVIOUS
<1> HIDE DEF v
<1>5. /\ v.stream.first = i
      /\ Att(v, i) /\ v.iters[i].next = w.stream.first /\ v.iters[i].prev = NoIter
      /\ \A j \in Iter \ {i} :
           /\ Att(v, j) <=> Att(w, j)
           /\ v.iters[j].next = w.iters[j].next
           /\ v.iters[j].prev = IF j = w.stream.first THEN i ELSE w.iters[j].prev
  BY <1>2, <1>3, <1>4, InsertedIs
<1>6. /\ longer \in [1 .. n + 1 -> Iter] /\ longer[1] = i
      /\ \A k \in 1 .. n : longer[k + 1] = chain[k]
      /\ \A k \in 1 .. n + 1 : k = 1 \/ (k - 1 \in 1 .. n /\ longer[k] = chain[k - 1])
  BY <1>2
<1> HIDE DEF longer
<1>7. \A k, l \in 1 .. n + 1 : longer[k] = longer[l] => k = l
  <2> SUFFICES ASSUME NEW k \in 1 .. n + 1, NEW l \in 1 .. n + 1, longer[k] = longer[l]
               PROVE  k = l
    OBVIOUS
  <2>1. CASE k = 1 \/ l = 1
    BY <1>2, <1>6, <2>1
  <2>2. CASE k # 1 /\ l # 1
    <3>1. k - 1 = l - 1
      BY <1>1, <1>6, <2>2 DEF Chained
    <3> QED
      BY <3>1
  <2> QED
    BY <2>1, <2>2
<1>8. \A j \in Iter : Att(v, j) <=> \E k \in 1 .. n + 1 : longer[k] = j
  <2> SUFFICES ASSUME NEW j \in Iter
               PROVE  Att(v, j) <=> \E k \in 1 .. n + 1 : longer[k] = j
    OBVIOUS
  <2>1. CASE j = i
    <3>1. 1 \in 1 .. n + 1
      OBVIOUS
    <3> QED
      BY <1>5, <1>6, <2>1, <3>1
  <2>2. CASE j # i
    <3>1. Att(v, j) <=> \E k \in 1 .. n : chain[k] = j
      BY <1>1, <1>5, <2>2 DEF Chained
    <3>2. ASSUME NEW k \in 1 .. n, chain[k] = j
          PROVE  \E l \in 1 .. n + 1 : longer[l] = j
      <4>1. k + 1 \in 1 .. n + 1
        OBVIOUS
      <4> QED
        BY <1>6, <3>2, <4>1
    <3>3. ASSUME NEW k \in 1 .. n + 1, longer[k] = j
          PROVE  \E l \in 1 .. n : chain[l] = j
      BY <1>6, <2>2, <3>3
    <3> QED
      BY <3>1, <3>2, <3>3
  <2> QED
    BY <2>1, <2>2
<1>9. ASSUME NEW k \in 1 .. n + 1
      PROVE  /\ v.iters[longer[k]].prev = IF k = 1 THEN NoIter ELSE longer[k - 1]
             /\ v.iters[longer[k]].next = IF k = n + 1 THEN NoIter ELSE longer[k + 1]
  <2>1. CASE k = 1
    <3>1. n # 0 => longer[k + 1] = chain[1]
      BY <1>2, <1>6, <2>1
    <3> QED
      BY <1>2, <1>5, <1>6, <2>1, <3>1
  <2>2. CASE k # 1
    <3> DEFINE m == k - 1
    <3>1. /\ m \in 1 .. n /\ longer[k] = chain[m] /\ chain[m] \in Iter \ {i}
          /\ k = m + 1 /\ n # 0
      BY <1>2, <1>6, <2>2
    <3>2. /\ w.iters[chain[m]].prev = IF m = 1 THEN NoIter ELSE chain[m - 1]
          /\ w.iters[chain[m]].next = IF m = n THEN NoIter ELSE chain[m + 1]
      BY <1>1, <3>1 DEF Chained
    <3>3. v.iters[chain[m]].next = IF k = n + 1 THEN NoIter ELSE longer[k + 1]
      <4>1. m # n => m + 1 \in 1 .. n /\ m + 1 = k
        BY <3>1
      <4> QED
        BY <1>5, <1>6, <3>1, <3>2, <4>1
    <3>4. v.iters[chain[m]].prev = longer[k - 1]
      <4>1. CASE m = 1
        BY <1>2, <1>5, <1>6, <3>1, <4>1
      <4>2. CASE m # 1
        <5>1. m - 1 \in 1 .. n /\ 1 \in 1 .. n /\ m - 1 + 1 = m
          BY <3>1, <4>2
        <5>2. longer[m] = chain[m - 1]
          BY <1>6, <5>1
        <5>3. chain[m] # chain[1]
          BY <1>1, <3>1, <4>2, <5>1 DEF Chained
        <5> QED
          BY <1>2, <1>5, <3>1, <3>2, <4>2, <5>2, <5>3
      <4> QED
        BY <4>1, <4>2
    <3> QED
      BY <2>2, <3>1, <3>3, <3>4
  <2> QED
    BY <2>1, <2>2
<1>10. Chained(v, n + 1, longer)
  BY <1>5, <1>6, <1>7, <1>8, <1>9 DEF Chained
<1>11. n + 1 \in Nat
  OBVIOUS
<1>12. Linked(v)
  BY <1>6, <1>10, <1>11 DEF Linked
<1> QED
  BY <1>12 DEF v

(* What remove_iterator does to each of them. *)
LEMMA RemovedIs ==
  ASSUME NEW w \in Wholes, NEW i \in Iter, NEW first, first = w.stream.first,
         NEW prev, prev = IF i = first THEN NoIter ELSE w.iters[i].prev,
         NEW next, next = w.iters[i].next,
         prev \in (Iter \ {i}) \cup {NoIter}, next \in (Iter \ {i}) \cup {NoIter},
         i # first => prev # NoIter, NEW v, v = Removed(w, i)
  PROVE  /\ v \in Wholes /\ v.cursor = w.cursor
         /\ v.stream.stride = w.stream.stride /\ v.stream.reqpos = w.stream.reqpos
         /\ v.stream.realpos = w.stream.realpos
         /\ v.stream.first = IF i = first THEN next ELSE first
         /\ SameValues(v, w) /\ \A j \in Iter : v.iters[j].life = w.iters[j].life
         /\ v.iters[i].prev = NoIter /\ v.iters[i].next = NoIter
         /\ \A j \in Iter \ {i} :
              /\ v.iters[j].next = IF j = prev THEN next ELSE w.iters[j].next
              /\ v.iters[j].prev = IF j = next THEN prev ELSE w.iters[j].prev
<1> DEFINE f0 == IF i = first THEN [w.iters EXCEPT ![i].prev = NoIter] ELSE w.iters
           f1 == IF i = first THEN f0 ELSE [f0 EXCEPT ![prev].next = next]
           f2 == IF next = NoIter THEN f1 ELSE [f1 EXCEPT ![next].prev = prev]
           f3 == [f2 EXCEPT ![i].prev = NoIter, ![i].next = NoIter]
           to == IF i = first THEN next ELSE first
<1>1. /\ w.iters \in [Iter -> Iterator] /\ w.stream \in Stream /\ NoIter \notin Iter
      /\ w = [cursor |-> w.cursor, served |-> w.served, stream |-> w.stream,
              iters |-> w.iters]
      /\ first \in Iter \cup {NoIter}
  BY CursorAssumption DEF Wholes, Stream
<1>2. /\ f0 \in [Iter -> Iterator]
      /\ f0[i].prev = prev /\ f0[i].next = next /\ f0[i].life = w.iters[i].life
      /\ f0[i].here = w.iters[i].here /\ f0[i].pos = w.iters[i].pos
      /\ \A j \in Iter \ {i} : f0[j] = w.iters[j]
  <2>1. w.iters[i] \in Iterator
    BY <1>1
  <2>2. CASE i = first
    BY <1>1, <2>1, <2>2 DEF Iterator
  <2>3. CASE i # first
    BY <1>1, <2>1, <2>3 DEF Iterator
  <2> QED
    BY <2>2, <2>3
<1> HIDE DEF f0
<1>3. /\ f1 \in [Iter -> Iterator]
      /\ \A j \in Iter : /\ f1[j].prev = f0[j].prev /\ f1[j].life = f0[j].life
                         /\ f1[j].here = f0[j].here /\ f1[j].pos = f0[j].pos
                         /\ f1[j].next = IF j = prev THEN next ELSE f0[j].next
  <2>1. CASE i = first
    <3>1. prev = NoIter
      BY <2>1
    <3> QED
      BY <1>1, <1>2, <2>1, <3>1
  <2>2. CASE i # first
    <3>1. prev \in Iter
      BY <2>2
    <3>2. f0[prev] \in Iterator
      BY <1>2, <3>1
    <3>3. f1 = [f0 EXCEPT ![prev].next = next]
      BY <2>2
    <3> HIDE DEF f1
    <3>4. \A j \in Iter : f1[j] = IF j = prev THEN [f0[j] EXCEPT !.next = next] ELSE f0[j]
      BY <1>2, <3>1, <3>3
    <3>5. ASSUME NEW j \in Iter
          PROVE  /\ f1[j].prev = f0[j].prev /\ f1[j].life = f0[j].life
                 /\ f1[j].here = f0[j].here /\ f1[j].pos = f0[j].pos
                 /\ f1[j].next = IF j = prev THEN next ELSE f0[j].next
                 /\ f1[j] \in Iterator
      <4>1. f0[j] \in Iterator
        BY <1>2
      <4> QED
        BY <3>4, <4>1, ZenonT(60) DEF Iterator
    <3>6. f1 = [j \in Iter |-> f1[j]]
      BY <1>2, <3>3
    <3>7. f1 \in [Iter -> Iterator]
      BY <3>5, <3>6
    <3> QED
      BY <3>5, <3>7
  <2> QED
    BY <2>1, <2>2
<1>4. f1[i].next = next /\ f1[i].prev = prev
  BY <1>1, <1>2, <1>3
<1> HIDE DEF f1
<1>5. /\ f2 \in [Iter -> Iterator]
      /\ \A j \in Iter : /\ f2[j].next = f1[j].next /\ f2[j].life = f1[j].life
                         /\ f2[j].here = f1[j].here /\ f2[j].pos = f1[j].pos
                         /\ f2[j].prev = IF j = next THEN prev ELSE f1[j].prev
  <2>1. CASE next = NoIter
    BY <1>1, <1>3, <2>1
  <2>2. CASE next # NoIter
    <3>1. next \in Iter /\ prev \in Iter \cup {NoIter}
      BY <2>2
    <3>3. f2 = [f1 EXCEPT ![next].prev = prev]
      BY <2>2
    <3> HIDE DEF f2
    <3>4. \A j \in Iter : f2[j] = IF j = next THEN [f1[j] EXCEPT !.prev = prev] ELSE f1[j]
      BY <1>3, <3>1, <3>3
    <3>5. ASSUME NEW j \in Iter
          PROVE  /\ f2[j].next = f1[j].next /\ f2[j].life = f1[j].life
                 /\ f2[j].here = f1[j].here /\ f2[j].pos = f1[j].pos
                 /\ f2[j].prev = IF j = next THEN prev ELSE f1[j].prev
                 /\ f2[j] \in Iterator
      <4>1. f1[j] \in Iterator
        BY <1>3
      <4> QED
        BY <3>1, <3>4, <4>1, ZenonT(60) DEF Iterator
    <3>6. f2 = [j \in Iter |-> f2[j]]
      BY <1>3, <3>3
    <3>7. f2 \in [Iter -> Iterator]
      BY <3>5, <3>6
    <3> QED
      BY <3>5, <3>7
  <2> QED
    BY <2>1, <2>2
<1> HIDE DEF f2
<1>6. /\ f3 \in [Iter -> Iterator]
      /\ f3[i].prev = NoIter /\ f3[i].next = NoIter /\ f3[i].life = f2[i].life
      /\ f3[i].here = f2[i].here /\ f3[i].pos = f2[i].pos
      /\ \A j \in Iter \ {i} : f3[j] = f2[j]
  <2>1. f2[i] \in Iterator
    BY <1>5
  <2> QED
    BY <1>1, <1>5, <2>1 DEF Iterator
<1>7. v = [cursor |-> w.cursor, served |-> w.served,
           stream |-> [w.stream EXCEPT !.first = to], iters |-> f3]
  <2>1. CASE i = first
    <3> DEFINE w0 == [w EXCEPT !.iters[i].prev = NoIter]
               u == Unlinked(w0, i)
    <3>1. w0 = [cursor |-> w.cursor, served |-> w.served, stream |-> w.stream, iters |-> f0]
      BY <1>1, <2>1 DEF f0
    <3>2. v = [u EXCEPT !.iters[i].prev = NoIter, !.iters[i].next = NoIter]
      BY <2>1 DEF Removed
    <3> HIDE DEF w0
    <3>3. /\ w0.iters = f0 /\ w0.stream = w.stream /\ f0[i].next = next /\ f0[i].prev = prev
          /\ w.stream.first = first
      BY <1>2, <3>1
    <3>4. u = [w0 EXCEPT !.stream.first = to, !.iters = f2]
      BY <2>1, <3>3 DEF Unlinked, f1, f2
    <3>5. u = [cursor |-> w.cursor, served |-> w.served,
               stream |-> [w.stream EXCEPT !.first = to], iters |-> f2]
      BY <3>1, <3>4
    <3> HIDE DEF u, to
    <3> QED
      BY <3>2, <3>5, ZenonT(60)
  <2>2. CASE i # first
    <3> DEFINE u == Unlinked(w, i)
    <3>1. w.iters = f0
      BY <2>2 DEF f0
    <3>2. v = [u EXCEPT !.iters[i].prev = NoIter, !.iters[i].next = NoIter]
      BY <2>2 DEF Removed
    <3>3. /\ f0[i].next = next /\ f0[i].prev = prev /\ w.stream.first = first
      BY <1>2
    <3>4. u = [w EXCEPT !.stream.first = to, !.iters = f2]
      BY <2>2, <3>1, <3>3 DEF Unlinked, f1, f2
    <3>5. u = [cursor |-> w.cursor, served |-> w.served,
               stream |-> [w.stream EXCEPT !.first = to], iters |-> f2]
      BY <1>1, <3>4
    <3> HIDE DEF u, to
    <3> QED
      BY <3>2, <3>5, ZenonT(60)
  <2> QED
    BY <2>1, <2>2
<1>8. to \in Iter \cup {NoIter}
  BY <1>1
<1> HIDE DEF f3, to
<1>9. /\ v.cursor = w.cursor /\ v.served = w.served /\ v.iters = f3
      /\ v.stream = [w.stream EXCEPT !.first = to]
  BY <1>7
<1>10. /\ v.stream \in Stream /\ v.stream.first = to
       /\ v.stream.stride = w.stream.stride /\ v.stream.reqpos = w.stream.reqpos
       /\ v.stream.realpos = w.stream.realpos
  BY <1>1, <1>8, <1>9 DEF Stream
<1>11. v \in Wholes
  BY <1>1, <1>6, <1>7, <1>10 DEF Wholes
<1>12. SameValues(v, w) /\ \A j \in Iter : v.iters[j].life = w.iters[j].life
  BY <1>2, <1>3, <1>5, <1>6, <1>9 DEF SameValues
<1>13. /\ v.iters[i].prev = NoIter /\ v.iters[i].next = NoIter
       /\ \A j \in Iter \ {i} :
            /\ v.iters[j].next = IF j = prev THEN next ELSE w.iters[j].next
            /\ v.iters[j].prev = IF j = next THEN prev ELSE w.iters[j].prev
  BY <1>2, <1>3, <1>5, <1>6, <1>9
<1> QED
  BY <1>9, <1>10, <1>11, <1>12, <1>13 DEF to

(* Where an attached iterator is in the chain, and who its neighbours are.   *)
LEMMA PlaceIs ==
  ASSUME NEW w \in Wholes, NEW n \in Nat, NEW chain \in [1 .. n -> Iter],
         Chained(w, n, chain), NEW m \in 1 .. n, NEW i, i = chain[m]
  PROVE  LET prev == IF i = w.stream.first THEN NoIter ELSE w.iters[i].prev
             next == w.iters[i].next
         IN /\ i = w.stream.first <=> m = 1
            /\ m # 1 => prev = chain[m - 1] /\ m - 1 \in 1 .. n
            /\ prev = IF m = 1 THEN NoIter ELSE chain[m - 1]
            /\ m # n => next = chain[m + 1] /\ m + 1 \in 1 .. n
            /\ m = n => next = NoIter
            /\ prev \in (Iter \ {i}) \cup {NoIter} /\ next \in (Iter \ {i}) \cup {NoIter}
            /\ i # w.stream.first => prev # NoIter
<1>1. n # 0 /\ 1 \in 1 .. n /\ w.stream.first = chain[1] /\ NoIter \notin Iter
  BY CursorAssumption DEF Chained
<1>2. i = w.stream.first <=> m = 1
  BY <1>1 DEF Chained
<1>3. /\ w.iters[i].prev = IF m = 1 THEN NoIter ELSE chain[m - 1]
      /\ w.iters[i].next = IF m = n THEN NoIter ELSE chain[m + 1]
  BY DEF Chained
<1>4. /\ m # 1 => m - 1 \in 1 .. n /\ chain[m - 1] \in Iter /\ chain[m - 1] # i
      /\ m # n => m + 1 \in 1 .. n /\ chain[m + 1] \in Iter /\ chain[m + 1] # i
  <2>1. m # 1 => m - 1 \in 1 .. n /\ m - 1 # m
    OBVIOUS
  <2>2. m # n => m + 1 \in 1 .. n /\ m + 1 # m
    OBVIOUS
  <2> QED
    BY <2>1, <2>2 DEF Chained
<1> QED
  BY <1>1, <1>2, <1>3, <1>4

LEMMA RemovedIsLinked ==
  ASSUME NEW w \in Wholes, Linked(w), NEW i \in Iter, Att(w, i),
         NEW u, u = Removed(w, i),
         NEW v, v.stream.first = u.stream.first, ~Att(v, i),
         \A j \in Iter \ {i} : /\ Att(v, j) <=> Att(u, j)
                               /\ v.iters[j].prev = u.iters[j].prev
                               /\ v.iters[j].next = u.iters[j].next
  PROVE  Linked(v)
<1>1. PICK n \in Nat : \E chain \in [1 .. n -> Iter] : Chained(w, n, chain)
  BY DEF Linked
<1>2. PICK chain \in [1 .. n -> Iter] : Chained(w, n, chain)
  BY <1>1
<1>3. PICK m \in 1 .. n : i = chain[m]
  BY <1>2 DEF Chained
<1> DEFINE first == w.stream.first
           prev == IF i = first THEN NoIter ELSE w.iters[i].prev
           next == w.iters[i].next
<1>4. /\ i = first <=> m = 1
      /\ m # 1 => prev = chain[m - 1] /\ m - 1 \in 1 .. n
      /\ prev = IF m = 1 THEN NoIter ELSE chain[m - 1]
      /\ m # n => next = chain[m + 1] /\ m + 1 \in 1 .. n
      /\ m = n => next = NoIter
      /\ prev \in (Iter \ {i}) \cup {NoIter} /\ next \in (Iter \ {i}) \cup {NoIter}
      /\ i # first => prev # NoIter
  BY <1>2, <1>3, PlaceIs
<1>5. first = w.stream.first /\ prev = (IF i = first THEN NoIter ELSE w.iters[i].prev)
      /\ next = w.iters[i].next
  OBVIOUS
<1> HIDE DEF first, prev, next
<1>6. /\ u.stream.first = IF i = first THEN next ELSE first
      /\ \A j \in Iter : u.iters[j].life = w.iters[j].life
      /\ \A j \in Iter \ {i} :
           /\ u.iters[j].next = IF j = prev THEN next ELSE w.iters[j].next
           /\ u.iters[j].prev = IF j = next THEN prev ELSE w.iters[j].prev
  BY <1>4, <1>5, RemovedIs
<1>7. /\ v.stream.first = IF i = first THEN next ELSE first
      /\ \A j \in Iter \ {i} :
           /\ Att(v, j) <=> Att(w, j)
           /\ v.iters[j].next = IF j = prev THEN next ELSE w.iters[j].next
           /\ v.iters[j].prev = IF j = next THEN prev ELSE w.iters[j].prev
  BY <1>6 DEF Att
<1> DEFINE shorter == [k \in 1 .. n - 1 |-> IF k < m THEN chain[k] ELSE chain[k + 1]]
           old(k) == IF k < m THEN k ELSE k + 1
<1>8. n - 1 \in Nat /\ 1 \in 1 .. n /\ NoIter \notin Iter
  BY CursorAssumption
<1>9. \A k \in 1 .. n - 1 : old(k) \in 1 .. n /\ old(k) # m
  BY <1>8
<1>10. /\ shorter \in [1 .. n - 1 -> Iter]
       /\ \A k \in 1 .. n - 1 : shorter[k] = chain[old(k)]
  BY <1>8, <1>9
<1> HIDE DEF shorter
<1>11. /\ \A k, l \in 1 .. n : chain[k] = chain[l] => k = l
       /\ \A j \in Iter : Att(w, j) <=> \E k \in 1 .. n : chain[k] = j
       /\ first = chain[1]
       /\ \A k \in 1 .. n :
            /\ w.iters[chain[k]].prev = IF k = 1 THEN NoIter ELSE chain[k - 1]
            /\ w.iters[chain[k]].next = IF k = n THEN NoIter ELSE chain[k + 1]
  BY <1>2, <1>5, <1>8 DEF Chained
<1>12. \A k, l \in 1 .. n - 1 : shorter[k] = shorter[l] => k = l
  <2> SUFFICES ASSUME NEW k \in 1 .. n - 1, NEW l \in 1 .. n - 1, shorter[k] = shorter[l]
               PROVE  k = l
    OBVIOUS
  <2>1. old(k) = old(l)
    <3> HIDE DEF old
    <3> QED
      BY <1>9, <1>10, <1>11
  <2> QED
    BY <2>1
<1>13. \A j \in Iter : Att(v, j) <=> \E k \in 1 .. n - 1 : shorter[k] = j
  <2> SUFFICES ASSUME NEW j \in Iter
               PROVE  Att(v, j) <=> \E k \in 1 .. n - 1 : shorter[k] = j
    OBVIOUS
  <2>1. CASE j = i
    <3>1. \A k \in 1 .. n - 1 : shorter[k] # i
      <4> HIDE DEF old
      <4> QED
        BY <1>3, <1>9, <1>10, <1>11
    <3> QED
      BY <2>1, <3>1
  <2>2. CASE j # i
    <3>1. Att(v, j) <=> \E k \in 1 .. n : chain[k] = j
      BY <1>7, <1>11, <2>2
    <3>2. ASSUME NEW k \in 1 .. n, chain[k] = j
          PROVE  \E l \in 1 .. n - 1 : shorter[l] = j
      <4>1. k # m
        BY <1>3, <2>2, <3>2
      <4> DEFINE l == IF k < m THEN k ELSE k - 1
      <4>2. l \in 1 .. n - 1 /\ old(l) = k
        BY <1>8, <4>1
      <4> HIDE DEF l, old
      <4> QED
        BY <1>10, <3>2, <4>2
    <3>3. ASSUME NEW k \in 1 .. n - 1, shorter[k] = j
          PROVE  \E l \in 1 .. n : chain[l] = j
      <4> HIDE DEF old
      <4> QED
        BY <1>9, <1>10, <3>3
    <3> QED
      BY <3>1, <3>2, <3>3
  <2> QED
    BY <2>1, <2>2
<1>14. v.stream.first = IF n - 1 = 0 THEN NoIter ELSE shorter[1]
  <2>1. CASE n - 1 = 0
    <3>1. m = 1 /\ m = n
      BY <2>1
    <3> QED
      BY <1>4, <1>7, <2>1, <3>1
  <2>2. CASE n - 1 # 0
    <3>1. 1 \in 1 .. n - 1 /\ shorter[1] = IF m = 1 THEN chain[2] ELSE chain[1]
      BY <1>8, <1>10, <2>2
    <3>2. CASE m = 1
      <4>1. m # n /\ next = chain[2]
        BY <1>4, <2>2, <3>2
      <4> QED
        BY <1>4, <1>7, <2>2, <3>1, <3>2, <4>1
    <3>3. CASE m # 1
      BY <1>4, <1>7, <1>11, <2>2, <3>1, <3>3
    <3> QED
      BY <3>2, <3>3
  <2> QED
    BY <2>1, <2>2
<1>15. ASSUME NEW k \in 1 .. n - 1
       PROVE  /\ v.iters[shorter[k]].prev = IF k = 1 THEN NoIter ELSE shorter[k - 1]
              /\ v.iters[shorter[k]].next = IF k = n - 1 THEN NoIter ELSE shorter[k + 1]
  <2> DEFINE o == old(k)
             j == chain[o]
  <2>1. o \in 1 .. n /\ o # m /\ shorter[k] = j /\ j \in Iter
    BY <1>9, <1>10
  <2>2. j # i
    <3> HIDE DEF o
    <3> QED
      BY <1>3, <1>11, <2>1
  <2>3. /\ w.iters[j].prev = IF o = 1 THEN NoIter ELSE chain[o - 1]
        /\ w.iters[j].next = IF o = n THEN NoIter ELSE chain[o + 1]
    <3> HIDE DEF o
    <3> QED
      BY <1>11, <2>1
  <2>4. j = prev <=> o = m - 1
    <3> HIDE DEF o
    <3>1. CASE m = 1
      BY <1>4, <1>8, <2>1, <3>1
    <3>2. CASE m # 1
      BY <1>4, <1>11, <2>1, <3>2
    <3> QED
      BY <3>1, <3>2
  <2>5. j = next <=> o = m + 1
    <3> HIDE DEF o
    <3>1. CASE m = n
      BY <1>4, <1>8, <2>1, <3>1
    <3>2. CASE m # n
      BY <1>4, <1>11, <2>1, <3>2
    <3> QED
      BY <3>1, <3>2
  <2>6. /\ v.iters[j].next = IF j = prev THEN next ELSE w.iters[j].next
        /\ v.iters[j].prev = IF j = next THEN prev ELSE w.iters[j].prev
    <3> HIDE DEF j
    <3> QED
      BY <1>7, <2>1, <2>2
  <2> HIDE DEF j
  <2>7. v.iters[j].prev = IF k = 1 THEN NoIter ELSE shorter[k - 1]
    <3>1. CASE o = m + 1
      <4>1. k = m /\ (k # 1 => k - 1 \in 1 .. n - 1 /\ shorter[k - 1] = chain[m - 1])
        BY <1>8, <1>10, <3>1
      <4> QED
        BY <1>4, <2>5, <2>6, <3>1, <4>1
    <3>2. CASE o # m + 1
      <4>1. /\ k = 1 <=> o = 1
            /\ k # 1 => k - 1 \in 1 .. n - 1 /\ shorter[k - 1] = chain[o - 1]
        BY <1>8, <1>10, <3>2
      <4> QED
        BY <2>3, <2>5, <2>6, <3>2, <4>1
    <3> QED
      BY <3>1, <3>2
  <2>8. v.iters[j].next = IF k = n - 1 THEN NoIter ELSE shorter[k + 1]
    <3>1. CASE o = m - 1
      <4>1. /\ k = m - 1 /\ (k = n - 1 <=> m = n)
            /\ k # n - 1 => k + 1 \in 1 .. n - 1 /\ shorter[k + 1] = chain[m + 1]
        BY <1>8, <1>10, <3>1
      <4> QED
        BY <1>4, <2>4, <2>6, <3>1, <4>1
    <3>2. CASE o # m - 1
      <4>1. /\ k = n - 1 <=> o = n
            /\ k # n - 1 => k + 1 \in 1 .. n - 1 /\ shorter[k + 1] = chain[o + 1]
        BY <1>8, <1>10, <3>2
      <4> QED
        BY <2>3, <2>4, <2>6, <3>2, <4>1
    <3> QED
      BY <3>1, <3>2
  <2> QED
    BY <2>1, <2>7, <2>8
<1>16. Chained(v, n - 1, shorter)
  BY <1>12, <1>13, <1>14, <1>15 DEF Chained
<1> QED
  BY <1>8, <1>10, <1>16 DEF Linked

-----------------------------------------------------------------------------
(* Where the iterators are, and what they hold.  Those of a stream are       *)
(* a stride apart, none is further than the stream was asked for, and the    *)
(* stream is not more than one read further.                                 *)
Fit(w) ==
  /\ \A i \in Iter : w.iters[i].life # "attached" =>
       w.iters[i].here = Empty /\ w.iters[i].prev = NoIter /\ w.iters[i].next = NoIter
  /\ \A i, j \in Iter : Att(w, i) /\ Att(w, j) /\ w.iters[i].pos < w.iters[j].pos =>
       w.iters[i].pos + w.stream.stride <= w.iters[j].pos
  /\ \A i \in Iter : Att(w, i) =>
       /\ use.by = "icursorstream" /\ w.iters[i].pos <= w.stream.reqpos
       /\ w.stream.realpos <= w.stream.reqpos + w.stream.stride
       /\ w.iters[i].here \in {Empty, BlockAt(w.stream.stride, w.iters[i].pos)}
       /\ w.iters[i].here = Empty => w.iters[i].pos >= w.stream.realpos

(* Those whom service_iterators has given their block when the positions     *)
(* before p are done.                                                        *)
Due(w, topos, p) ==
  {i \in Iter : /\ Att(w, i) /\ w.iters[i].pos >= w.stream.realpos
                /\ w.iters[i].pos < p /\ w.iters[i].pos <= topos}

Filled(w, due) ==
  [i \in Iter |-> IF i \in due
                    THEN [w.iters[i] EXCEPT !.here = BlockAt(w.stream.stride, w.iters[i].pos)]
                  ELSE w.iters[i]]

(* The state v when they are served. *)
ServedUpTo(v, w, topos, p) ==
  /\ SameButRead(v, w) /\ v.iters = Filled(w, Due(w, topos, p))
  /\ \/ v.stream.realpos = w.stream.realpos
     \/ \E i \in Due(w, topos, p) :
          v.stream.realpos = IF w.iters[i].pos + w.stream.stride > RowsLeft THEN RowsLeft
                             ELSE w.iters[i].pos + w.stream.stride

LEMMA FilledIs ==
  ASSUME NEW w \in Wholes, NEW due, NEW v \in Wholes, v.iters = Filled(w, due),
         NEW i \in Iter
  PROVE  /\ Att(v, i) <=> Att(w, i)
         /\ v.iters[i].life = w.iters[i].life /\ v.iters[i].pos = w.iters[i].pos
         /\ v.iters[i].prev = w.iters[i].prev /\ v.iters[i].next = w.iters[i].next
         /\ v.iters[i].here = IF i \in due THEN BlockAt(w.stream.stride, w.iters[i].pos)
                              ELSE w.iters[i].here
<1>1. w.iters[i] \in Iterator
  BY DEF Wholes
<1>2. v.iters[i] = IF i \in due
                     THEN [w.iters[i] EXCEPT !.here = BlockAt(w.stream.stride, w.iters[i].pos)]
                   ELSE w.iters[i]
  BY DEF Filled
<1> QED
  BY <1>1, <1>2 DEF Iterator, Att

(* The next position, if someone waits there: the stream is not past it.     *)
LEMMA ServingGoesOn ==
  ASSUME UseFits, use.by = "icursorstream", NEW w \in Wholes, Fit(w), NEW topos \in Nat,
         NEW p \in Nat, p >= w.stream.realpos, NEW v \in Wholes, ServedUpTo(v, w, topos, p),
         NEW next, next = IF p \in ToServe(w, topos) THEN ServeAt(v, p) ELSE v
  PROVE  ServedUpTo(next, w, topos, p + 1)
<1> DEFINE stride == w.stream.stride
           due == Due(w, topos, p)
           more == Due(w, topos, p + 1)
           pos(i) == w.iters[i].pos
           R == RowsLeft
<1>1. /\ R \in Nat /\ stride \in Nat /\ w.stream.realpos \in Nat /\ w.stream.realpos <= R
      /\ \A i \in Iter : pos(i) \in Nat
  BY RowsAre, CursorAssumption DEF Wholes, Stream, Iterator
<1>2. /\ \A i : i \in due <=> /\ i \in Iter /\ Att(w, i) /\ pos(i) >= w.stream.realpos
                              /\ pos(i) < p /\ pos(i) <= topos
      /\ \A i : i \in more <=> /\ i \in Iter /\ Att(w, i) /\ pos(i) >= w.stream.realpos
                               /\ pos(i) < p + 1 /\ pos(i) <= topos
  BY DEF Due
<1>3. /\ SameButRead(v, w) /\ v.iters = Filled(w, due) /\ v.stream.stride = stride
      /\ \/ v.stream.realpos = w.stream.realpos
         \/ \E i \in due : v.stream.realpos = IF pos(i) + stride > R THEN R ELSE pos(i) + stride
  BY DEF ServedUpTo, SameButRead
<1>4. p \in ToServe(w, topos) <=>
        p <= topos /\ \E i \in Iter : Att(w, i) /\ pos(i) = p
  BY DEF ToServe, Att
<1> HIDE DEF due, more, pos, stride, R
<1>5. CASE p \notin ToServe(w, topos)
  <2>1. \A i : i \in due <=> i \in more
    BY <1>1, <1>2, <1>4, <1>5
  <2>2. due = more /\ next = v
    BY <1>5, <2>1
  <2> QED
    BY <2>2 DEF due, more, ServedUpTo
<1>6. CASE p \in ToServe(w, topos)
  <2>1. PICK q \in Iter : Att(w, q) /\ pos(q) = p /\ p <= topos
    BY <1>4, <1>6
  <2>2. p >= v.stream.realpos
    <3>1. ASSUME NEW i \in due
          PROVE  p >= (IF pos(i) + stride > R THEN R ELSE pos(i) + stride)
      <4>1. pos(i) < pos(q) /\ Att(w, i) /\ i \in Iter
        BY <1>2, <2>1
      <4>2. pos(i) + stride <= pos(q)
        BY <2>1, <4>1 DEF Fit, pos, stride
      <4> QED
        BY <1>1, <2>1, <4>1, <4>2
    <3> QED
      BY <1>3, <3>1
  <2>3. /\ SameButRead(next, v) /\ next.iters = FilledAt(v, p)
        /\ next.stream.realpos = IF p + stride > R THEN R ELSE p + stride
    BY <1>3, <1>6, <2>2, ServeAtIs DEF R
  <2>4. SameButRead(next, w)
    BY <1>3, <2>3 DEF SameButRead
  <2>5. next.iters = Filled(w, more)
    <3>1. ASSUME NEW i \in Iter
          PROVE  FilledAt(v, p)[i] = Filled(w, more)[i]
      <4>1. /\ Att(v, i) <=> Att(w, i)
            /\ v.iters[i].pos = pos(i)
        BY <1>3, FilledIs DEF pos
      <4>2. v.iters[i] = IF i \in due THEN [w.iters[i] EXCEPT !.here = BlockAt(stride, pos(i))]
                         ELSE w.iters[i]
        BY <1>3 DEF Filled, pos, stride
      <4>3. FilledAt(v, p)[i] = IF Att(v, i) /\ pos(i) = p
                                  THEN [v.iters[i] EXCEPT !.here = BlockAt(stride, p)]
                                ELSE v.iters[i]
        BY <1>3, <4>1 DEF FilledAt, Att
      <4>4. Filled(w, more)[i] = IF i \in more
                                   THEN [w.iters[i] EXCEPT !.here = BlockAt(stride, pos(i))]
                                 ELSE w.iters[i]
        BY DEF Filled, pos, stride
      <4>5. CASE pos(i) = p /\ Att(w, i)
        <5>1. i \in more /\ i \notin due
          BY <1>1, <1>2, <2>1, <4>5
        <5> QED
          BY <4>1, <4>2, <4>3, <4>4, <4>5, <5>1
      <4>6. CASE ~(pos(i) = p /\ Att(w, i))
        <5>1. i \in more <=> i \in due
          BY <1>1, <1>2, <4>6
        <5> QED
          BY <4>1, <4>2, <4>3, <4>4, <4>6, <5>1
      <4> QED
        BY <4>5, <4>6
    <3>2. /\ FilledAt(v, p) = [i \in Iter |-> FilledAt(v, p)[i]]
          /\ Filled(w, more) = [i \in Iter |-> Filled(w, more)[i]]
      BY DEF FilledAt, Filled
    <3> QED
      BY <2>3, <3>1, <3>2
  <2>6. \E i \in more : next.stream.realpos = IF pos(i) + stride > R THEN R ELSE pos(i) + stride
    <3>1. q \in more
      BY <1>1, <1>2, <2>1
    <3> QED
      BY <2>1, <2>3, <3>1
  <2> QED
    BY <2>4, <2>5, <2>6 DEF ServedUpTo, more, pos, stride, R
<1> QED
  BY <1>5, <1>6

(* What refresh makes of a stream: who waited before topos has its block.    *)
LEMMA ServicedIs ==
  ASSUME UseFits, use.by = "icursorstream", NEW w \in Wholes, Fit(w), NEW topos \in Nat
  PROVE  /\ Serviced(w, topos) \in Wholes
         /\ ServedUpTo(Serviced(w, topos), w, topos, topos + 1)
<1> DEFINE p == w.stream.realpos
<1>1. PICK f \in [Nat -> Wholes] :
        /\ f[0] = w
        /\ \A n \in Nat :
             f[n + 1] = IF w.stream.realpos + n \in ToServe(w, topos)
                          THEN ServeAt(f[n], w.stream.realpos + n) ELSE f[n]
        /\ Serviced(w, topos) = IF topos < w.stream.realpos THEN w
                                ELSE f[topos - w.stream.realpos + 1]
  BY ServicedSteps
<1>2. p \in Nat
  BY DEF Wholes, Stream
<1>3. ASSUME NEW q \in Nat, Due(w, topos, q) = {}
      PROVE  ServedUpTo(w, w, topos, q)
  <2>1. Filled(w, {}) = w.iters
    BY DEF Filled, Wholes
  <2> QED
    BY <1>3, <2>1 DEF ServedUpTo, SameButRead
<1> DEFINE good == {n \in Nat : ServedUpTo(f[n], w, topos, p + n)}
<1>4. 0 \in good
  <2>1. \A i \in Iter : w.iters[i].pos \in Nat
    BY DEF Wholes, Iterator
  <2>2. Due(w, topos, p) = {}
    BY <1>2, <2>1 DEF Due
  <2>3. ServedUpTo(w, w, topos, p)
    BY <1>2, <1>3, <2>2
  <2>4. p + 0 = p
    BY <1>2
  <2> HIDE DEF p
  <2> QED
    BY <1>1, <2>3, <2>4
<1>5. ASSUME NEW n \in Nat, n \in good
      PROVE  n + 1 \in good
  <2> DEFINE q == p + n
             v == f[n]
             next == f[n + 1]
  <2>1. q \in Nat /\ q >= p /\ v \in Wholes /\ ServedUpTo(v, w, topos, q)
    BY <1>2, <1>5
  <2>2. next = IF q \in ToServe(w, topos) THEN ServeAt(v, q) ELSE v
    BY <1>1
  <2> HIDE DEF q, v, next
  <2>3. ServedUpTo(next, w, topos, q + 1)
    BY <2>1, <2>2, ServingGoesOn
  <2>4. q + 1 = p + (n + 1)
    BY <1>2 DEF q
  <2> HIDE DEF p
  <2> QED
    BY <2>3, <2>4 DEF next
<1>6. Nat \subseteq good
  <2> HIDE DEF good
  <2> QED
    BY <1>4, <1>5, AllNumbers
<1>7. CASE topos < p
  <2>1. Due(w, topos, topos + 1) = {}
    <3>1. \A i \in Iter : w.iters[i].pos \in Nat
      BY DEF Wholes, Iterator
    <3> QED
      BY <1>2, <1>7, <3>1 DEF Due
  <2> QED
    BY <1>1, <1>3, <1>7, <2>1
<1>8. CASE ~(topos < p)
  <2> DEFINE n == topos - p + 1
  <2>1. n \in Nat /\ p + n = topos + 1 /\ Serviced(w, topos) = f[n]
    BY <1>1, <1>2, <1>8
  <2>2. ServedUpTo(f[n], w, topos, p + n) /\ f[n] \in Wholes
    BY <1>6, <2>1
  <2> HIDE DEF n
  <2> QED
    BY <2>1, <2>2
<1> QED
  BY <1>7, <1>8

-----------------------------------------------------------------------------
(* The operations on the list keep it, and move blocks only with positions. *)
LEMMA KeepsLinks ==
  ASSUME NEW w, Linked(w), NEW v, v.stream.first = w.stream.first,
         \A j \in Iter : /\ Att(v, j) <=> Att(w, j)
                         /\ v.iters[j].prev = w.iters[j].prev
                         /\ v.iters[j].next = w.iters[j].next
  PROVE  Linked(v)
<1>1. PICK n \in Nat : \E chain \in [1 .. n -> Iter] : Chained(w, n, chain)
  BY DEF Linked
<1>2. PICK chain \in [1 .. n -> Iter] : Chained(w, n, chain)
  BY <1>1
<1>3. \A k \in 1 .. n : chain[k] \in Iter
  OBVIOUS
<1>4. Chained(v, n, chain)
  BY <1>2, <1>3 DEF Chained
<1> QED
  BY <1>4 DEF Linked

(* Everyone attached is where someone attached was, and has what that held.  *)
LEMMA FitFrom ==
  ASSUME NEW w, Fit(w), NEW v, v.stream.stride = w.stream.stride,
         v.stream.reqpos = w.stream.reqpos, v.stream.realpos = w.stream.realpos,
         \A i \in Iter :
           \/ /\ ~Att(v, i) /\ v.iters[i].here = Empty
              /\ v.iters[i].prev = NoIter /\ v.iters[i].next = NoIter
           \/ /\ Att(v, i)
              /\ \E j \in Iter : /\ Att(w, j) /\ v.iters[i].pos = w.iters[j].pos
                                 /\ v.iters[i].here = w.iters[j].here
  PROVE  Fit(v)
<1>1. \A i \in Iter : v.iters[i].life # "attached" =>
        v.iters[i].here = Empty /\ v.iters[i].prev = NoIter /\ v.iters[i].next = NoIter
  BY DEF Att
<1>2. ASSUME NEW i \in Iter, NEW k \in Iter, Att(v, i), Att(v, k),
             v.iters[i].pos < v.iters[k].pos
      PROVE  v.iters[i].pos + v.stream.stride <= v.iters[k].pos
  <2>1. PICK j \in Iter : Att(w, j) /\ v.iters[i].pos = w.iters[j].pos
    BY <1>2
  <2>2. PICK l \in Iter : Att(w, l) /\ v.iters[k].pos = w.iters[l].pos
    BY <1>2
  <2>3. w.iters[j].pos < w.iters[l].pos
    BY <1>2, <2>1, <2>2
  <2>4. w.iters[j].pos + w.stream.stride <= w.iters[l].pos
    BY <2>1, <2>2, <2>3 DEF Fit
  <2> QED
    BY <2>1, <2>2, <2>4
<1>3. ASSUME NEW i \in Iter, Att(v, i)
      PROVE  /\ use.by = "icursorstream" /\ v.iters[i].pos <= v.stream.reqpos
             /\ v.stream.realpos <= v.stream.reqpos + v.stream.stride
             /\ v.iters[i].here \in {Empty, BlockAt(v.stream.stride, v.iters[i].pos)}
             /\ v.iters[i].here = Empty => v.iters[i].pos >= v.stream.realpos
  <2>1. PICK j \in Iter : /\ Att(w, j) /\ v.iters[i].pos = w.iters[j].pos
                          /\ v.iters[i].here = w.iters[j].here
    BY <1>3
  <2> QED
    BY <2>1 DEF Fit
<1> QED
  BY <1>1, <1>2, <1>3 DEF Fit

(* One iterator gets another value. *)
Updated(w, i, x) == [w EXCEPT !.iters[i] = x]

LEMMA UpdatedIs ==
  ASSUME NEW w \in Wholes, NEW i \in Iter, NEW x \in Iterator,
         NEW v, v = Updated(w, i, x)
  PROVE  /\ v \in Wholes /\ v.cursor = w.cursor /\ v.stream = w.stream /\ v.iters[i] = x
         /\ \A j \in Iter \ {i} : v.iters[j] = w.iters[j]
<1> DEFINE its == [w.iters EXCEPT ![i] = x]
<1>1. /\ w.iters \in [Iter -> Iterator]
      /\ w = [cursor |-> w.cursor, served |-> w.served, stream |-> w.stream,
              iters |-> w.iters]
  BY DEF Wholes
<1>2. /\ its \in [Iter -> Iterator] /\ its[i] = x
      /\ \A j \in Iter \ {i} : its[j] = w.iters[j]
  BY <1>1
<1>3. v = [w EXCEPT !.iters = its]
  BY <1>1 DEF Updated
<1> HIDE DEF its
<1>4. v = [cursor |-> w.cursor, served |-> w.served, stream |-> w.stream, iters |-> its]
  BY <1>1, <1>3
<1> QED
  BY <1>2, <1>4 DEF Wholes

LEMMA InsertedInto ==
  ASSUME NEW w \in Wholes, Linked(w), NEW i \in Iter, ~Att(w, i),
         w.iters[i].prev = NoIter, NEW v, v = Inserted(w, i)
  PROVE  /\ v \in Wholes /\ v.cursor = w.cursor /\ Linked(v)
         /\ v.stream.stride = w.stream.stride /\ v.stream.reqpos = w.stream.reqpos
         /\ v.stream.realpos = w.stream.realpos
         /\ SameValues(v, w) /\ Att(v, i)
         /\ \A j \in Iter \ {i} :
              /\ Att(v, j) <=> Att(w, j)
              /\ ~Att(w, j) => /\ v.iters[j].prev = w.iters[j].prev
                               /\ v.iters[j].next = w.iters[j].next
<1>1. PICK n \in Nat : \E chain \in [1 .. n -> Iter] : Chained(w, n, chain)
  BY DEF Linked
<1>2. PICK chain \in [1 .. n -> Iter] : Chained(w, n, chain)
  BY <1>1
<1>3. n # 0 => 1 \in 1 .. n
  OBVIOUS
<1>4. /\ w.stream.first \in Iter \cup {NoIter} /\ NoIter \notin Iter
      /\ w.stream.first # NoIter => Att(w, w.stream.first)
  BY <1>2, <1>3, CursorAssumption DEF Chained
<1>5. w.stream.first # i
  BY <1>4
<1>6. Linked(v)
  BY InsertedIsLinked
<1>7. ASSUME NEW j \in Iter \ {i}, ~Att(w, j)
      PROVE  j # w.stream.first
  BY <1>4, <1>7
<1> QED
  BY <1>4, <1>5, <1>6, <1>7, InsertedIs

LEMMA RemovedFrom ==
  ASSUME NEW w \in Wholes, Linked(w), NEW i \in Iter, Att(w, i),
         NEW u, u = Removed(w, i)
  PROVE  /\ u \in Wholes /\ u.cursor = w.cursor
         /\ u.stream.stride = w.stream.stride /\ u.stream.reqpos = w.stream.reqpos
         /\ u.stream.realpos = w.stream.realpos
         /\ SameValues(u, w) /\ \A j \in Iter : u.iters[j].life = w.iters[j].life
         /\ u.iters[i].prev = NoIter /\ u.iters[i].next = NoIter
         /\ \A j \in Iter : ~Att(w, j) => /\ u.iters[j].prev = w.iters[j].prev
                                          /\ u.iters[j].next = w.iters[j].next
<1>1. PICK n \in Nat : \E chain \in [1 .. n -> Iter] : Chained(w, n, chain)
  BY DEF Linked
<1>2. PICK chain \in [1 .. n -> Iter] : Chained(w, n, chain)
  BY <1>1
<1>3. PICK m \in 1 .. n : i = chain[m]
  BY <1>2 DEF Chained
<1> DEFINE first == w.stream.first
           prev == IF i = first THEN NoIter ELSE w.iters[i].prev
           next == w.iters[i].next
<1>4. /\ m # 1 => prev = chain[m - 1] /\ m - 1 \in 1 .. n
      /\ prev = IF m = 1 THEN NoIter ELSE chain[m - 1]
      /\ m # n => next = chain[m + 1] /\ m + 1 \in 1 .. n
      /\ m = n => next = NoIter
      /\ prev \in (Iter \ {i}) \cup {NoIter} /\ next \in (Iter \ {i}) \cup {NoIter}
      /\ i # first => prev # NoIter
  BY <1>2, <1>3, PlaceIs
<1>5. first = w.stream.first /\ prev = (IF i = first THEN NoIter ELSE w.iters[i].prev)
      /\ next = w.iters[i].next
  OBVIOUS
<1> HIDE DEF first, prev, next
<1>6. /\ u \in Wholes /\ u.cursor = w.cursor
      /\ u.stream.stride = w.stream.stride /\ u.stream.reqpos = w.stream.reqpos
      /\ u.stream.realpos = w.stream.realpos
      /\ SameValues(u, w) /\ \A j \in Iter : u.iters[j].life = w.iters[j].life
      /\ u.iters[i].prev = NoIter /\ u.iters[i].next = NoIter
      /\ \A j \in Iter \ {i} :
           /\ u.iters[j].next = IF j = prev THEN next ELSE w.iters[j].next
           /\ u.iters[j].prev = IF j = next THEN prev ELSE w.iters[j].prev
  BY <1>4, <1>5, RemovedIs
<1>7. ASSUME NEW j \in Iter, ~Att(w, j)
      PROVE  j # i /\ j # prev /\ j # next
  <2>1. j # i /\ NoIter \notin Iter
    BY <1>7, CursorAssumption
  <2>2. \A k \in 1 .. n : chain[k] # j
    BY <1>2, <1>7 DEF Chained
  <2> QED
    BY <1>4, <2>1, <2>2
<1> QED
  BY <1>6, <1>7

-----------------------------------------------------------------------------
(* The inductive invariant for all of it. *)
StreamInv == CursorInv /\ Fit(Whole) /\ Linked(Whole)

LEMMA LinkedIs == Linked(Whole) => IteratorsAreLinked
<1> SUFFICES ASSUME Linked(Whole) PROVE IteratorsAreLinked
  OBVIOUS
<1>1. PICK n \in Nat : \E chain \in [1 .. n -> Iter] : Chained(Whole, n, chain)
  BY DEF Linked
<1>2. PICK chain \in [1 .. n -> Iter] : Chained(Whole, n, chain)
  BY <1>1
<1>3. Whole.iters = iters /\ Whole.stream = stream
  BY DEF Whole
<1>4. \A i \in Iter : i \in Attached <=> \E k \in 1 .. n : chain[k] = i
  BY <1>2, <1>3 DEF Chained, Att, Attached
<1>5. chain \in [1 .. n -> Attached]
  BY <1>4
<1>6. \A k, l \in 1 .. n : chain[k] = chain[l] => k = l
  BY <1>2 DEF Chained
<1>7. Cardinality(Attached) = n
  <2>1. chain \in Bijection(1 .. n, Attached)
    BY <1>4, <1>5, <1>6 DEF Bijection, Injection, Surjection, IsInjective, Attached
  <2>2. ExistsBijection(1 .. n, Attached)
    BY <2>1 DEF ExistsBijection
  <2> QED
    BY <2>2, FS_CountingElements
<1>8. chain \in SetToSeqs(Attached)
  BY <1>5, <1>6, <1>7 DEF SetToSeqs
<1>9. /\ stream.first = IF n = 0 THEN NoIter ELSE chain[1]
      /\ \A k \in 1 .. n :
           /\ iters[chain[k]].prev = IF k = 1 THEN NoIter ELSE chain[k - 1]
           /\ iters[chain[k]].next = IF k = n THEN NoIter ELSE chain[k + 1]
  BY <1>2, <1>3 DEF Chained
<1> QED
  BY <1>7, <1>8, <1>9 DEF IteratorsAreLinked

LEMMA StreamInvIs ==
  ASSUME StreamInv
  PROVE  StreamIsSound
<1>1. IteratorsAreLinked
  BY LinkedIs DEF StreamInv
<1>2. /\ UseFits /\ stream \in Stream /\ iters \in [Iter -> Iterator]
      /\ served \in 0 .. RowsLeft + 1
      /\ use.by = "icursorstream" =>
           stream.realpos = IF served > RowsLeft THEN RowsLeft ELSE served
      /\ RowsLeft \in Nat
  BY WholeIs, RowsAre DEF StreamInv, CursorInv
<1>3. ASSUME NEW i \in Attached
      PROVE  /\ i \in Iter /\ use.by = "icursorstream"
             /\ iters[i].here \in {Empty, BlockAt(stream.stride, iters[i].pos)}
             /\ iters[i].here = Empty => iters[i].pos >= stream.realpos
             /\ iters[i].pos \in Nat
  BY <1>2 DEF StreamInv, Fit, Att, Attached, Whole, Iterator
<1>4. ASSUME NEW i \in Attached, iters[i].here # Empty
      PROVE  iters[i].here = [from |-> iters[i].pos, dir |-> 1,
                              size |-> Min({stream.stride, RowsLeft - iters[i].pos})]
  <2>1. stream.stride \in Int /\ RowsLeft - iters[i].pos \in Int
    BY <1>2, <1>3, CursorAssumption DEF Stream
  <2>2. Min({stream.stride, RowsLeft - iters[i].pos}) =
          IF stream.stride <= RowsLeft - iters[i].pos THEN stream.stride
          ELSE RowsLeft - iters[i].pos
    BY <2>1, MinOfTwo
  <2> QED
    BY <1>3, <1>4, <2>2 DEF BlockAt
<1>5. ASSUME NEW i \in Attached, iters[i].here = Empty
      PROVE  iters[i].pos >= Min({RowsLeft, stream.realpos})
  <2>1. stream.realpos \in Int /\ RowsLeft \in Int /\ stream.realpos <= RowsLeft
    BY <1>2, <1>3
  <2>2. Min({RowsLeft, stream.realpos}) = stream.realpos
    <3>1. Min({RowsLeft, stream.realpos}) =
            IF RowsLeft <= stream.realpos THEN RowsLeft ELSE stream.realpos
      BY <2>1, MinOfTwo
    <3> QED
      BY <2>1, <3>1
  <2> QED
    BY <1>3, <1>5, <2>2
<1> QED
  BY <1>1, <1>4, <1>5 DEF StreamIsSound, BlocksBelong, EndIsEnd

LEMMA StreamBecomes ==
  ASSUME StreamInv, NEW w \in Wholes, Become(w), Fit(w), Linked(w),
         use.by = "stateless_cursor" => w.cursor.pos # -1
  PROVE  StreamInv'
<1>1. CursorInv'
  BY BecomeKeeps DEF StreamInv
<1>2. use' = use /\ Whole' = w
  <2>1. w = [cursor |-> w.cursor, served |-> w.served, stream |-> w.stream,
             iters |-> w.iters]
    BY DEF Wholes
  <2> QED
    BY <2>1 DEF Become, Whole
<1>3. Fit(Whole)'
  BY <1>2 DEF Fit, Att, BlockAt, RowsLeft, Empty
<1>4. Linked(Whole)'
  <2>1. PICK n \in Nat : \E chain \in [1 .. n -> Iter] : Chained(w, n, chain)
    BY DEF Linked
  <2>2. PICK chain \in [1 .. n -> Iter] : Chained(w, n, chain)
    BY <2>1
  <2>3. Chained(Whole, n, chain)'
    BY <1>2, <2>2 DEF Chained, Att
  <2> QED
    BY <2>3 DEF Linked
<1> QED
  BY <1>1, <1>3, <1>4 DEF StreamInv

(* The steps of other cursors, which leave the stream alone. *)
LEMMA StreamLeftAlone ==
  ASSUME StreamInv, CursorInv', use' = use, stream' = stream, iters' = iters
  PROVE  StreamInv'
<1>1. Whole'.stream = Whole.stream /\ Whole'.iters = Whole.iters
  BY DEF Whole
<1>2. Fit(Whole)'
  BY <1>1 DEF StreamInv, Fit, Att, BlockAt, RowsLeft, Empty
<1>3. Linked(Whole)'
  <2>1. PICK n \in Nat : \E chain \in [1 .. n -> Iter] : Chained(Whole, n, chain)
    BY DEF StreamInv, Linked
  <2>2. PICK chain \in [1 .. n -> Iter] : Chained(Whole, n, chain)
    BY <2>1
  <2>3. Chained(Whole, n, chain)'
    BY <1>1, <2>2 DEF Chained, Att
  <2> QED
    BY <2>3 DEF Linked
<1> QED
  BY <1>2, <1>3 DEF StreamInv

LEMMA InitStream == CursorInit => StreamInv
<1> SUFFICES ASSUME CursorInit PROVE StreamInv
  OBVIOUS
<1>1. CursorInv
  BY InitCursors
<1>2. Whole.stream.first = NoIter /\ Whole.iters = [i \in Iter |-> Gone]
  BY DEF CursorInit, Whole
<1>3. \A i \in Iter : /\ ~Att(Whole, i) /\ Whole.iters[i].here = Empty
                      /\ Whole.iters[i].prev = NoIter /\ Whole.iters[i].next = NoIter
  BY <1>2 DEF Att, Gone
<1>4. Fit(Whole)
  BY <1>3 DEF Fit
<1>5. Linked(Whole)
  <2> DEFINE none == [k \in 1 .. 0 |-> NoIter]
  <2>1. 0 \in Nat /\ none \in [1 .. 0 -> Iter]
    OBVIOUS
  <2>2. Chained(Whole, 0, none)
    BY <1>2, <1>3 DEF Chained
  <2> HIDE DEF none
  <2> QED
    BY <2>1, <2>2 DEF Linked
<1> QED
  BY <1>1, <1>4, <1>5 DEF StreamInv

-----------------------------------------------------------------------------
(* One step of a stream and its iterators after the other. *)
LEMMA WholeOfStream ==
  ASSUME StreamInv
  PROVE  /\ Whole \in Wholes /\ Fit(Whole) /\ Linked(Whole) /\ UseFits
         /\ Whole.stream = stream /\ Whole.iters = iters /\ Whole.cursor = cursor
         /\ \A i \in Iter : /\ iters[i] \in Iterator
                            /\ Att(Whole, i) <=> iters[i].life = "attached"
         /\ use.by = "stateless_cursor" => Whole.cursor.pos # -1
BY WholeIs DEF StreamInv, CursorInv, Whole, Att

(* Without iterators the program may read what it likes. *)
LEMMA NobodyWaits ==
  ASSUME StreamInv, Attached = {}, use.by # "stateless_cursor", NEW w \in Wholes, Become(w),
         w.stream.first = stream.first, w.iters = iters
  PROVE  StreamInv'
<1>1. /\ Fit(Whole) /\ Linked(Whole) /\ Whole.stream = stream /\ Whole.iters = iters
  BY WholeOfStream
<1>2. \A i \in Iter : Att(w, i) <=> Att(Whole, i)
  BY <1>1 DEF Att
<1>3. \A i \in Iter : ~Att(w, i)
  BY <1>1, <1>2 DEF Attached, Att
<1>4. Fit(w)
  BY <1>1, <1>3 DEF Fit, Att
<1>5. Linked(w)
  BY <1>1, <1>2, KeepsLinks
<1> QED
  BY <1>4, <1>5, StreamBecomes

LEMMA ReadingKeeps == StreamInv /\ (Get \/ Ignore \/ SetStride) => StreamInv'
<1> SUFFICES ASSUME StreamInv, Get \/ Ignore \/ SetStride PROVE StreamInv'
  OBVIOUS
<1>1. /\ Whole \in Wholes /\ UseFits /\ Whole.stream = stream /\ Whole.iters = iters
      /\ use.by = "icursorstream" /\ use.by # "stateless_cursor" /\ Attached = {}
  BY WholeOfStream DEF Get, Ignore, SetStride, Streaming
<1>2. CASE Get
  <2> DEFINE w == FetchBlock(Whole)
  <2>1. Become(w)
    BY <1>2 DEF Get
  <2>2. w \in Wholes /\ w.iters = iters /\ w.stream.first = stream.first
    BY <1>1, FetchBlockIs DEF SameButRead
  <2> HIDE DEF w
  <2> QED
    BY <1>1, <2>1, <2>2, NobodyWaits
<1>3. CASE Ignore
  <2>1. PICK n \in 1 .. MaxRows + 1 : Become(IgnoreRows(Whole, n))
    BY <1>3 DEF Ignore
  <2> DEFINE w == IgnoreRows(Whole, n)
  <2>2. n \in Nat
    BY <1>1, RowsAre
  <2>3. w \in Wholes /\ w.iters = iters /\ w.stream.first = stream.first
    BY <1>1, <2>2, IgnoreRowsIs DEF SameButRead
  <2> HIDE DEF w
  <2>4. Become(w)
    BY <2>1 DEF w
  <2> QED
    BY <1>1, <2>3, <2>4, NobodyWaits
<1>4. CASE SetStride
  <2>1. PICK n \in 1 .. MaxStride : Become([Whole EXCEPT !.stream.stride = n])
    BY <1>4 DEF SetStride
  <2> DEFINE t == [stream EXCEPT !.stride = n]
             w == [cursor |-> cursor, served |-> served, stream |-> t, iters |-> iters]
  <2>2. [Whole EXCEPT !.stream.stride = n] = w
    BY DEF Whole
  <2>3. /\ t \in Stream /\ t.realpos = stream.realpos /\ t.first = stream.first
    BY <1>1, WholeIs DEF Stream
  <2> HIDE DEF t
  <2>4. w \in Wholes
    BY <1>1, <2>3, WholeIs DEF Wholes
  <2>5. Become(w)
    BY <2>1, <2>2
  <2>6. w.iters = iters /\ w.stream.first = stream.first
    BY <2>3
  <2> HIDE DEF w
  <2> QED
    BY <1>1, <2>4, <2>5, <2>6, NobodyWaits
<1> QED
  BY <1>2, <1>3, <1>4

LEMMA NewIteratorKeeps == StreamInv /\ NewIterator => StreamInv'
<1> SUFFICES ASSUME StreamInv, NewIterator PROVE StreamInv'
  OBVIOUS
<1>1. /\ Whole \in Wholes /\ Fit(Whole) /\ Linked(Whole) /\ UseFits
      /\ Whole.stream = stream /\ Whole.iters = iters
      /\ use.by = "icursorstream" /\ use.by # "stateless_cursor"
      /\ stream.realpos = 0 /\ stream.reqpos = 0
  BY WholeOfStream DEF NewIterator, Streaming
<1>2. PICK i \in Iter :
        /\ iters[i].life = "none"
        /\ Become(Inserted([Whole EXCEPT !.iters[i].pos = stream.reqpos], i))
  BY DEF NewIterator
<1> DEFINE x == [iters[i] EXCEPT !.pos = 0]
           u == Updated(Whole, i, x)
           w == Inserted(u, i)
<1>3. iters[i] \in Iterator
  BY WholeOfStream
<1>4. /\ x \in Iterator /\ x.life = "none" /\ x.pos = 0 /\ x.here = iters[i].here
      /\ x.prev = iters[i].prev /\ x.next = iters[i].next
  BY <1>2, <1>3 DEF Iterator
<1>5. [Whole EXCEPT !.iters[i].pos = stream.reqpos] = u
  BY <1>1 DEF Whole, Updated
<1> HIDE DEF x
<1>6. /\ u \in Wholes /\ u.cursor = Whole.cursor /\ u.stream = stream /\ u.iters[i] = x
      /\ \A j \in Iter \ {i} : u.iters[j] = iters[j]
  BY <1>1, <1>4, UpdatedIs
<1>7. Become(w)
  BY <1>2, <1>5
<1> HIDE DEF u
<1>8. ~Att(u, i) /\ u.iters[i].prev = NoIter /\ u.iters[i].here = Empty
  BY <1>1, <1>2, <1>4, <1>6 DEF Fit, Att
<1>9. Linked(u)
  <2>1. \A j \in Iter : /\ Att(u, j) <=> Att(Whole, j)
                        /\ u.iters[j].prev = Whole.iters[j].prev
                        /\ u.iters[j].next = Whole.iters[j].next
    BY <1>1, <1>2, <1>4, <1>6 DEF Att
  <2> QED
    BY <1>1, <1>6, <2>1, KeepsLinks
<1>10. w = Inserted(u, i)
  OBVIOUS
<1> HIDE DEF w
<1>11. /\ w \in Wholes /\ Linked(w)
       /\ w.stream.stride = stream.stride /\ w.stream.reqpos = 0 /\ w.stream.realpos = 0
       /\ SameValues(w, u) /\ Att(w, i)
       /\ \A j \in Iter \ {i} : /\ Att(w, j) <=> Att(u, j)
                                /\ ~Att(u, j) => /\ w.iters[j].prev = u.iters[j].prev
                                                 /\ w.iters[j].next = u.iters[j].next
  BY <1>1, <1>6, <1>8, <1>9, <1>10, InsertedInto
<1>12. stream.stride \in Nat
  BY <1>1, WholeIs, CursorAssumption DEF Stream
<1>13. ASSUME NEW j \in Iter
       PROVE  /\ ~Att(w, j) => /\ w.iters[j].here = Empty
                               /\ w.iters[j].prev = NoIter /\ w.iters[j].next = NoIter
              /\ Att(w, j) => /\ w.iters[j].pos = 0
                              /\ w.iters[j].here \in {Empty, BlockAt(stream.stride, 0)}
  <2>1. CASE j = i
    BY <1>4, <1>6, <1>8, <1>11, <2>1 DEF SameValues
  <2>2. CASE j # i
    <3>1. /\ w.iters[j].here = iters[j].here /\ w.iters[j].pos = iters[j].pos
          /\ u.iters[j] = iters[j] /\ (Att(w, j) <=> iters[j].life = "attached")
      BY <1>6, <1>11, <2>2 DEF SameValues, Att
    <3>2. iters[j].pos \in Nat
      BY WholeOfStream DEF Iterator
    <3>3. Att(w, j) => iters[j].pos <= 0
      BY <1>1, <3>1 DEF Fit, Att
    <3>4. Att(w, j) => iters[j].pos = 0
      BY <3>2, <3>3
    <3>5. Att(w, j) => iters[j].here \in {Empty, BlockAt(stream.stride, 0)}
      BY <1>1, <3>1, <3>4 DEF Fit, Att
    <3>6. ~Att(w, j) => /\ iters[j].here = Empty
                        /\ iters[j].prev = NoIter /\ iters[j].next = NoIter
      BY <1>1, <3>1 DEF Fit
    <3> QED
      BY <1>11, <2>2, <3>1, <3>4, <3>5, <3>6 DEF Att
  <2> QED
    BY <2>1, <2>2
<1>14. Fit(w)
  BY <1>1, <1>11, <1>12, <1>13 DEF Fit, Att
<1> QED
  BY <1>1, <1>7, <1>11, <1>14, StreamBecomes

LEMMA NewEndKeeps == StreamInv /\ NewEnd => StreamInv'
<1> SUFFICES ASSUME StreamInv, NewEnd PROVE StreamInv'
  OBVIOUS
<1>1. /\ Whole \in Wholes /\ Fit(Whole) /\ Linked(Whole)
      /\ Whole.stream = stream /\ Whole.iters = iters
      /\ use.by # "stateless_cursor"
  BY WholeOfStream DEF NewEnd, Streaming
<1>2. PICK i \in Iter : /\ iters[i].life = "none"
                        /\ Become([Whole EXCEPT !.iters[i].life = "detached"])
  BY DEF NewEnd
<1> DEFINE x == [iters[i] EXCEPT !.life = "detached"]
           w == Updated(Whole, i, x)
<1>3. /\ x \in Iterator /\ x.life = "detached" /\ x.here = iters[i].here
      /\ x.prev = iters[i].prev /\ x.next = iters[i].next
  <2>1. iters[i] \in Iterator
    BY WholeOfStream
  <2> QED
    BY <2>1 DEF Iterator
<1>4. Become(w)
  BY <1>2 DEF Whole, Updated
<1> HIDE DEF x
<1>5. /\ w \in Wholes /\ w.stream = stream /\ w.iters[i] = x
      /\ \A j \in Iter \ {i} : w.iters[j] = iters[j]
  BY <1>1, <1>3, UpdatedIs
<1> HIDE DEF w
<1>6. ASSUME NEW j \in Iter
      PROVE  /\ Att(w, j) <=> Att(Whole, j)
             /\ w.iters[j].prev = iters[j].prev /\ w.iters[j].next = iters[j].next
             /\ w.iters[j].here = iters[j].here
             /\ Att(w, j) => w.iters[j].pos = iters[j].pos
  BY <1>1, <1>2, <1>3, <1>5 DEF Att
<1>7. Fit(w)
  <2>1. ASSUME NEW j \in Iter, ~Att(w, j)
        PROVE  /\ w.iters[j].here = Empty
               /\ w.iters[j].prev = NoIter /\ w.iters[j].next = NoIter
    BY <1>1, <1>6, <2>1 DEF Fit, Att
  <2> QED
    BY <1>1, <1>5, <1>6, <2>1, FitFrom
<1>8. Linked(w)
  BY <1>1, <1>5, <1>6, KeepsLinks
<1> QED
  BY <1>1, <1>4, <1>5, <1>7, <1>8, StreamBecomes

LEMMA AdvanceKeeps == StreamInv /\ Advance => StreamInv'
<1> SUFFICES ASSUME StreamInv, Advance PROVE StreamInv'
  OBVIOUS
<1>1. /\ Whole \in Wholes /\ Fit(Whole) /\ Linked(Whole) /\ UseFits
      /\ Whole.stream = stream /\ Whole.iters = iters /\ stream \in Stream
      /\ use.by = "icursorstream" /\ use.by # "stateless_cursor"
  BY WholeOfStream, WholeIs DEF Advance, Streaming
<1>2. PICK i \in Attached, n \in 1 .. 2 :
        LET to == stream.reqpos + n * stream.stride
        IN /\ to <= MaxRows + MaxStride
           /\ Become([Whole EXCEPT !.stream.reqpos = to, !.iters[i].pos = to,
                                   !.iters[i].here = Empty])
  BY DEF Advance
<1> DEFINE to == stream.reqpos + n * stream.stride
           x == [iters[i] EXCEPT !.pos = to, !.here = Empty]
           u == Updated(Whole, i, x)
           t == [stream EXCEPT !.reqpos = to]
           w == [u EXCEPT !.stream = t]
<1>3. /\ i \in Iter /\ iters[i].life = "attached" /\ Att(Whole, i)
      /\ iters[i] \in Iterator
  BY <1>1, WholeOfStream DEF Attached, Att
<1>4. /\ stream.stride \in Nat /\ stream.stride # 0 /\ stream.reqpos \in Nat
      /\ to \in Nat /\ to >= stream.reqpos + stream.stride
      /\ stream.realpos \in Nat
  <2>1. stream.stride \in Nat /\ stream.stride # 0 /\ stream.reqpos \in Nat
        /\ stream.realpos \in Nat
    BY <1>1, CursorAssumption DEF Stream
  <2>2. n * stream.stride = stream.stride \/ n * stream.stride = stream.stride + stream.stride
    <3>1. n = 1 \/ n = 2
      OBVIOUS
    <3> QED
      BY <2>1, <3>1
  <2> QED
    BY <2>1, <2>2
<1>5. Become(w)
  BY <1>2, ZenonT(60) DEF Whole, Updated
<1> HIDE DEF to
<1>6. /\ x \in Iterator /\ x.life = "attached" /\ x.pos = to /\ x.here = Empty
      /\ x.prev = iters[i].prev /\ x.next = iters[i].next
  <2>1. Empty \in Block
    BY CursorAssumption DEF Empty, Block
  <2> QED
    BY <1>3, <1>4, <2>1 DEF Iterator
<1> HIDE DEF x
<1>7. /\ u \in Wholes /\ u.stream = stream /\ u.iters[i] = x
      /\ \A j \in Iter \ {i} : u.iters[j] = iters[j]
  BY <1>1, <1>3, <1>6, UpdatedIs
<1> HIDE DEF u
<1>8. /\ t \in Stream /\ t.realpos = stream.realpos /\ t.first = stream.first
      /\ t.stride = stream.stride /\ t.reqpos = to
  BY <1>1, <1>4 DEF Stream
<1> HIDE DEF t
<1>9. /\ w \in Wholes /\ w.stream = t /\ w.iters = u.iters /\ w.cursor = u.cursor
  BY <1>7, <1>8 DEF Wholes
<1> HIDE DEF w
<1>10. ASSUME NEW j \in Iter
       PROVE  /\ Att(w, j) <=> Att(Whole, j)
              /\ w.iters[j].prev = iters[j].prev /\ w.iters[j].next = iters[j].next
              /\ j # i => w.iters[j] = iters[j]
  BY <1>1, <1>3, <1>6, <1>7, <1>9 DEF Att
<1>11. w.iters[i] = x /\ w.stream.stride = stream.stride /\ w.stream.reqpos = to
       /\ w.stream.realpos = stream.realpos
  BY <1>7, <1>8, <1>9
<1>12. \A j \in Iter : iters[j].pos \in Nat
  BY WholeOfStream DEF Iterator
<1>13. ASSUME NEW j \in Iter, Att(Whole, j)
       PROVE  iters[j].pos <= stream.reqpos /\ stream.realpos <= stream.reqpos + stream.stride
  BY <1>1, <1>13 DEF Fit
<1>14. Fit(w)
  <2>1. ASSUME NEW j \in Iter, ~Att(w, j)
        PROVE  /\ w.iters[j].here = Empty
               /\ w.iters[j].prev = NoIter /\ w.iters[j].next = NoIter
    <3>1. j # i /\ ~Att(Whole, j) /\ w.iters[j] = iters[j]
      BY <1>3, <1>10, <2>1
    <3> QED
      BY <1>1, <3>1 DEF Fit, Att
  <2>2. ASSUME NEW j \in Iter, NEW k \in Iter, Att(w, j), Att(w, k),
               w.iters[j].pos < w.iters[k].pos
        PROVE  w.iters[j].pos + stream.stride <= w.iters[k].pos
    <3>1. Att(Whole, j) /\ Att(Whole, k)
      BY <1>10, <2>2
    <3>2. CASE j # i /\ k # i
      <4>1. w.iters[j] = iters[j] /\ w.iters[k] = iters[k]
        BY <1>10, <3>2
      <4> QED
        BY <1>1, <2>2, <3>1, <4>1 DEF Fit
    <3>3. CASE j # i /\ k = i
      <4>1. w.iters[j] = iters[j] /\ w.iters[k].pos = to
        BY <1>6, <1>10, <1>11, <3>3
      <4>2. iters[j].pos <= stream.reqpos
        BY <1>13, <3>1
      <4> QED
        BY <1>4, <1>12, <4>1, <4>2
    <3>4. CASE j = i /\ k # i
      <4>1. w.iters[k] = iters[k] /\ w.iters[j].pos = to
        BY <1>6, <1>10, <1>11, <3>4
      <4>2. iters[k].pos <= stream.reqpos
        BY <1>13, <3>1
      <4> QED
        BY <1>4, <1>12, <2>2, <4>1, <4>2
    <3>5. CASE j = i /\ k = i
      BY <1>4, <1>6, <1>11, <2>2, <3>5
    <3> QED
      BY <3>2, <3>3, <3>4, <3>5
  <2>3. ASSUME NEW j \in Iter, Att(w, j)
        PROVE  /\ w.iters[j].pos <= to /\ stream.realpos <= to + stream.stride
               /\ w.iters[j].here \in {Empty, BlockAt(stream.stride, w.iters[j].pos)}
               /\ w.iters[j].here = Empty => w.iters[j].pos >= stream.realpos
    <3>1. Att(Whole, j)
      BY <1>10, <2>3
    <3>2. stream.realpos <= stream.reqpos + stream.stride /\ iters[j].pos <= stream.reqpos
      BY <1>13, <3>1
    <3>3. CASE j = i
      BY <1>4, <1>6, <1>11, <3>2, <3>3
    <3>4. CASE j # i
      <4>1. w.iters[j] = iters[j]
        BY <1>10, <3>4
      <4>2. /\ iters[j].here \in {Empty, BlockAt(stream.stride, iters[j].pos)}
            /\ iters[j].here = Empty => iters[j].pos >= stream.realpos
        BY <1>1, <3>1 DEF Fit
      <4>3. iters[j].pos <= to /\ stream.realpos <= to + stream.stride
        BY <1>4, <1>12, <3>2
      <4> QED
        BY <4>1, <4>2, <4>3
    <3> QED
      BY <3>3, <3>4
  <2> QED
    BY <1>1, <1>11, <2>1, <2>2, <2>3 DEF Fit, Att
<1>15. Linked(w)
  BY <1>1, <1>8, <1>9, <1>10, KeepsLinks
<1> QED
  BY <1>1, <1>5, <1>9, <1>14, <1>15, StreamBecomes

LEMMA RefreshKeeps == StreamInv /\ Refresh => StreamInv'
<1> SUFFICES ASSUME StreamInv, Refresh PROVE StreamInv'
  OBVIOUS
<1>1. /\ Whole \in Wholes /\ Fit(Whole) /\ Linked(Whole) /\ UseFits
      /\ Whole.stream = stream /\ Whole.iters = iters /\ stream \in Stream
      /\ use.by = "icursorstream" /\ use.by # "stateless_cursor"
  BY WholeOfStream, WholeIs DEF Refresh, Streaming
<1>2. PICK q \in Attached : Become(Serviced(Whole, iters[q].pos))
  BY DEF Refresh
<1> DEFINE topos == iters[q].pos
           w == Serviced(Whole, topos)
           due == Due(Whole, topos, topos + 1)
           stride == stream.stride
           pos(i) == iters[i].pos
<1>3. \A i \in Iter : pos(i) \in Nat
  BY WholeOfStream DEF Iterator
<1>4. q \in Iter /\ topos \in Nat
  BY <1>3 DEF Attached
<1>5. Become(w)
  BY <1>2
<1>6. w \in Wholes /\ ServedUpTo(w, Whole, topos, topos + 1)
  BY <1>1, <1>4, ServicedIs
<1> HIDE DEF w
<1>7. /\ w.stream.stride = stride /\ w.stream.reqpos = stream.reqpos
      /\ w.stream.first = stream.first /\ w.iters = Filled(Whole, due)
      /\ \/ w.stream.realpos = stream.realpos
         \/ \E i \in due : w.stream.realpos = IF pos(i) + stride > RowsLeft THEN RowsLeft
                                              ELSE pos(i) + stride
  BY <1>1, <1>6 DEF ServedUpTo, SameButRead
<1>8. \A i : i \in due <=> /\ i \in Iter /\ Att(Whole, i) /\ pos(i) >= stream.realpos
                           /\ pos(i) <= topos
  <2>1. \A i : i \in due <=> /\ i \in Iter /\ Att(Whole, i) /\ pos(i) >= stream.realpos
                             /\ pos(i) < topos + 1 /\ pos(i) <= topos
    BY <1>1 DEF Due
  <2> HIDE DEF due
  <2> QED
    BY <1>3, <1>4, <2>1
<1>9. ASSUME NEW i \in Iter
      PROVE  /\ Att(w, i) <=> Att(Whole, i)
             /\ w.iters[i].life = iters[i].life /\ w.iters[i].pos = pos(i)
             /\ w.iters[i].prev = iters[i].prev /\ w.iters[i].next = iters[i].next
             /\ w.iters[i].here = IF i \in due THEN BlockAt(stride, pos(i))
                                  ELSE iters[i].here
  BY <1>1, <1>6, <1>7, FilledIs
<1> HIDE DEF due, pos, topos, stride
<1>10. /\ RowsLeft \in Nat /\ stride \in Nat /\ stride # 0 /\ stream.realpos \in Nat
       /\ stream.realpos <= RowsLeft /\ stream.reqpos \in Nat
  <2>1. stride \in Nat /\ stride # 0 /\ stream.reqpos \in Nat /\ stream.realpos \in Nat
    BY <1>1, CursorAssumption DEF Stream, stride
  <2>2. stream.realpos <= RowsLeft /\ RowsLeft \in Nat
    BY <1>1, WholeIs, RowsAre
  <2> QED
    BY <2>1, <2>2
<1>11. ASSUME NEW i \in Iter, Att(Whole, i)
       PROVE  /\ pos(i) <= stream.reqpos /\ stream.realpos <= stream.reqpos + stride
              /\ iters[i].here \in {Empty, BlockAt(stride, pos(i))}
              /\ iters[i].here = Empty => pos(i) >= stream.realpos
              /\ \A j \in Iter : Att(Whole, j) /\ pos(i) < pos(j) => pos(i) + stride <= pos(j)
  BY <1>1, <1>11 DEF Fit, pos, stride
<1>12. Fit(w)
  <2>1. ASSUME NEW i \in Iter, ~Att(w, i)
        PROVE  /\ w.iters[i].here = Empty
               /\ w.iters[i].prev = NoIter /\ w.iters[i].next = NoIter
    <3>1. ~Att(Whole, i) /\ i \notin due
      BY <1>8, <1>9, <2>1
    <3>2. iters[i].here = Empty /\ iters[i].prev = NoIter /\ iters[i].next = NoIter
      BY <1>1, <3>1 DEF Fit, Att
    <3> QED
      BY <1>9, <3>1, <3>2
  <2>2. ASSUME NEW i \in Iter, NEW j \in Iter, Att(w, i), Att(w, j),
               w.iters[i].pos < w.iters[j].pos
        PROVE  w.iters[i].pos + stride <= w.iters[j].pos
    BY <1>9, <1>11, <2>2
  <2>3. ASSUME NEW i \in Iter, Att(w, i)
        PROVE  /\ w.iters[i].pos <= stream.reqpos
               /\ w.iters[i].here \in {Empty, BlockAt(stride, pos(i))}
    BY <1>9, <1>11, <2>3
  <2>4. ASSUME NEW i \in Iter, Att(w, i)
        PROVE  w.stream.realpos <= stream.reqpos + stride
    <3>1. Att(Whole, i) /\ stream.realpos <= stream.reqpos + stride
      BY <1>9, <1>11, <2>4
    <3>2. ASSUME NEW j \in due
          PROVE  (IF pos(j) + stride > RowsLeft THEN RowsLeft ELSE pos(j) + stride)
                   <= stream.reqpos + stride
      <4>1. j \in Iter /\ pos(j) <= stream.reqpos /\ pos(j) \in Nat
        BY <1>3, <1>8, <1>11
      <4> QED
        BY <1>10, <4>1
    <3> QED
      BY <1>7, <3>1, <3>2
  <2>5. ASSUME NEW i \in Iter, Att(w, i), w.iters[i].here = Empty
        PROVE  pos(i) >= w.stream.realpos
    <3>1. Att(Whole, i) /\ pos(i) \in Nat
      BY <1>3, <1>9, <2>5
    <3>2. CASE i \in due
      <4>1. BlockAt(stride, pos(i)) = Empty
        BY <1>9, <2>5, <3>2
      <4>2. pos(i) >= RowsLeft
        BY <1>10, <3>1, <4>1 DEF BlockAt, Empty
      <4>3. w.stream.realpos <= RowsLeft /\ w.stream.realpos \in Nat
        BY <1>1, <1>6, <1>10 DEF Wholes, Stream
      <4> QED
        BY <1>10, <3>1, <4>2, <4>3
    <3>3. CASE i \notin due
      <4>1. iters[i].here = Empty /\ pos(i) >= stream.realpos
        BY <1>9, <1>11, <2>5, <3>1, <3>3
      <4>2. ASSUME NEW j \in due
            PROVE  pos(i) >= (IF pos(j) + stride > RowsLeft THEN RowsLeft
                              ELSE pos(j) + stride)
        <5>1. ~(pos(i) <= topos) /\ pos(j) <= topos /\ j \in Iter /\ Att(Whole, j)
              /\ pos(j) \in Nat /\ topos \in Nat
          BY <1>3, <1>4, <1>8, <3>1, <3>3, <4>1
        <5>2. pos(j) < pos(i)
          BY <3>1, <5>1
        <5>3. pos(j) + stride <= pos(i)
          BY <1>11, <3>1, <5>1, <5>2
        <5> QED
          BY <1>10, <3>1, <5>1, <5>3
      <4> QED
        BY <1>7, <4>1, <4>2
    <3> QED
      BY <3>2, <3>3
  <2> QED
    BY <1>1, <1>7, <1>9, <2>1, <2>2, <2>3, <2>4, <2>5 DEF Fit, Att
<1>13. Linked(w)
  BY <1>1, <1>7, <1>9, KeepsLinks
<1> QED
  BY <1>1, <1>5, <1>6, <1>12, <1>13, StreamBecomes

(* Removed from the list, and given a value that nobody needs. *)
LEMMA DroppedIs ==
  ASSUME StreamInv, NEW i \in Iter, NEW x \in Iterator, x.life # "attached",
         x.here = Empty, x.prev = NoIter, x.next = NoIter,
         NEW u, u = (IF Att(Whole, i) THEN Removed(Whole, i) ELSE Whole),
         NEW w, w = Updated(u, i, x)
  PROVE  w \in Wholes /\ w.cursor = cursor /\ Fit(w) /\ Linked(w)
<1>1. /\ Whole \in Wholes /\ Fit(Whole) /\ Linked(Whole)
      /\ Whole.stream = stream /\ Whole.iters = iters /\ Whole.cursor = cursor
  BY WholeOfStream
<1>2. /\ u \in Wholes /\ u.cursor = cursor
      /\ u.stream.stride = stream.stride /\ u.stream.reqpos = stream.reqpos
      /\ u.stream.realpos = stream.realpos
      /\ SameValues(u, Whole) /\ \A j \in Iter : u.iters[j].life = iters[j].life
      /\ \A j \in Iter : ~Att(Whole, j) => /\ u.iters[j].prev = iters[j].prev
                                           /\ u.iters[j].next = iters[j].next
  <2>1. CASE Att(Whole, i)
    BY <1>1, <2>1, RemovedFrom
  <2>2. CASE ~Att(Whole, i)
    BY <1>1, <2>2 DEF SameValues
  <2> QED
    BY <2>1, <2>2
<1>3. /\ w \in Wholes /\ w.cursor = cursor /\ w.stream = u.stream /\ w.iters[i] = x
      /\ \A j \in Iter \ {i} : w.iters[j] = u.iters[j]
  BY <1>2, UpdatedIs
<1>4. /\ ~Att(w, i)
      /\ \A j \in Iter \ {i} : /\ Att(w, j) <=> Att(Whole, j)
                               /\ Att(w, j) <=> Att(u, j)
                               /\ w.iters[j].here = iters[j].here
                               /\ w.iters[j].pos = iters[j].pos
  BY <1>1, <1>2, <1>3 DEF Att, SameValues
<1>5. Fit(w)
  <2>1. ASSUME NEW j \in Iter, ~Att(w, j)
        PROVE  /\ w.iters[j].here = Empty
               /\ w.iters[j].prev = NoIter /\ w.iters[j].next = NoIter
    <3>1. CASE j = i
      BY <1>3, <3>1
    <3>2. CASE j # i
      <4>1. ~Att(Whole, j) /\ w.iters[j] = u.iters[j]
        BY <1>3, <1>4, <2>1, <3>2
      <4>2. iters[j].here = Empty /\ iters[j].prev = NoIter /\ iters[j].next = NoIter
        BY <1>1, <4>1 DEF Fit, Att
      <4> QED
        BY <1>2, <1>4, <3>2, <4>1, <4>2
    <3> QED
      BY <3>1, <3>2
  <2>2. ASSUME NEW j \in Iter, Att(w, j)
        PROVE  /\ Att(Whole, j) /\ w.iters[j].pos = Whole.iters[j].pos
               /\ w.iters[j].here = Whole.iters[j].here
    BY <1>1, <1>4, <2>2
  <2> QED
    BY <1>1, <1>2, <1>3, <2>1, <2>2, FitFrom
<1>6. Linked(w)
  <2>1. CASE Att(Whole, i)
    <3>1. \A j \in Iter \ {i} : /\ Att(w, j) <=> Att(u, j)
                                /\ w.iters[j].prev = u.iters[j].prev
                                /\ w.iters[j].next = u.iters[j].next
      BY <1>3, <1>4
    <3>2. u = Removed(Whole, i) /\ w.stream.first = u.stream.first
      BY <1>3, <2>1
    <3> QED
      BY <1>1, <1>4, <2>1, <3>1, <3>2, RemovedIsLinked
  <2>2. CASE ~Att(Whole, i)
    <3>1. u = Whole
      BY <2>2
    <3>2. iters[i].prev = NoIter /\ iters[i].next = NoIter
      BY <1>1, <2>2 DEF Fit, Att
    <3>3. \A j \in Iter : /\ Att(w, j) <=> Att(Whole, j)
                          /\ w.iters[j].prev = Whole.iters[j].prev
                          /\ w.iters[j].next = Whole.iters[j].next
      BY <1>1, <1>3, <1>4, <2>2, <3>1, <3>2
    <3> QED
      BY <1>1, <1>3, <3>1, <3>3, KeepsLinks
  <2> QED
    BY <2>1, <2>2
<1> QED
  BY <1>3, <1>5, <1>6

LEMMA DestroyIteratorKeeps == StreamInv /\ DestroyIterator => StreamInv'
<1> SUFFICES ASSUME StreamInv, DestroyIterator PROVE StreamInv'
  OBVIOUS
<1>1. PICK i \in Iter :
        LET w == IF iters[i].life = "attached" THEN Removed(Whole, i) ELSE Whole
        IN Become([w EXCEPT !.iters[i] = Gone])
  BY DEF DestroyIterator
<1> DEFINE u == IF Att(Whole, i) THEN Removed(Whole, i) ELSE Whole
           w == Updated(u, i, Gone)
<1>2. /\ Gone \in Iterator /\ Gone.life # "attached" /\ Gone.here = Empty
      /\ Gone.prev = NoIter /\ Gone.next = NoIter
  <2>1. Empty \in Block
    BY CursorAssumption DEF Empty, Block
  <2> QED
    BY <2>1 DEF Gone, Iterator
<1>3. Att(Whole, i) <=> iters[i].life = "attached"
  BY WholeOfStream
<1>4. Become(w)
  BY <1>1, <1>3 DEF Updated
<1>5. u = (IF Att(Whole, i) THEN Removed(Whole, i) ELSE Whole) /\ w = Updated(u, i, Gone)
  OBVIOUS
<1> HIDE DEF u, w
<1>6. w \in Wholes /\ w.cursor = cursor /\ Fit(w) /\ Linked(w)
  BY <1>2, <1>5, DroppedIs
<1>7. use.by = "stateless_cursor" => w.cursor.pos # -1
  BY <1>6, WholeOfStream
<1> QED
  BY <1>4, <1>6, <1>7, StreamBecomes

(* i takes the value of j. *)
LEMMA CopiedIs ==
  ASSUME NEW w \in Wholes, NEW i \in Iter, NEW j \in Iter
  PROVE  LET x == [w.iters[i] EXCEPT !.here = w.iters[j].here, !.pos = w.iters[j].pos]
         IN /\ x \in Iterator /\ x.life = w.iters[i].life
            /\ x.prev = w.iters[i].prev /\ x.next = w.iters[i].next
            /\ x.here = w.iters[j].here /\ x.pos = w.iters[j].pos
            /\ WithValueOf(w, i, j) = Updated(w, i, x)
<1>1. w.iters[i] \in Iterator /\ w.iters[j] \in Iterator
  BY DEF Wholes
<1>2. /\ w.iters \in [Iter -> Iterator]
      /\ w = [cursor |-> w.cursor, served |-> w.served, stream |-> w.stream,
              iters |-> w.iters]
  BY DEF Wholes
<1> DEFINE x == [w.iters[i] EXCEPT !.here = w.iters[j].here, !.pos = w.iters[j].pos]
<1>3. /\ x \in Iterator /\ x.life = w.iters[i].life
      /\ x.prev = w.iters[i].prev /\ x.next = w.iters[i].next
      /\ x.here = w.iters[j].here /\ x.pos = w.iters[j].pos
  BY <1>1 DEF Iterator
<1>4. WithValueOf(w, i, j) = Updated(w, i, x)
  BY <1>1, <1>2 DEF WithValueOf, Updated
<1> QED
  BY <1>3, <1>4

LEMMA CopyIteratorKeeps == StreamInv /\ CopyIterator => StreamInv'
<1> SUFFICES ASSUME StreamInv, CopyIterator PROVE StreamInv'
  OBVIOUS
<1>1. /\ Whole \in Wholes /\ Fit(Whole) /\ Linked(Whole)
      /\ Whole.stream = stream /\ Whole.iters = iters
      /\ use.by = "icursorstream" /\ use.by # "stateless_cursor"
      /\ \A i \in Iter : iters[i] \in Iterator
  BY WholeOfStream DEF CopyIterator, Streaming
<1>2. PICK i \in Iter, j \in Iter :
        /\ i # j
        /\ LET freed == IF Att(Whole, i) /\ ~Att(Whole, j) THEN Removed(Whole, i) ELSE Whole
               set == WithValueOf(freed, i, j)
           IN Become(IF Att(Whole, j)
                       THEN IF Att(Whole, i) THEN set ELSE Inserted(set, i)
                       ELSE [set EXCEPT !.iters[i].life = "detached"])
  BY <1>1, Zenon DEF CopyIterator, Att
(* An end. *)
<1>3. CASE ~Att(Whole, j)
  <2> DEFINE freed == IF Att(Whole, i) THEN Removed(Whole, i) ELSE Whole
             set == WithValueOf(freed, i, j)
             x == [set.iters[i] EXCEPT !.life = "detached"]
             w == Updated(freed, i, x)
  <2>1. Become([set EXCEPT !.iters[i].life = "detached"])
    BY <1>2, <1>3
  <2>2. freed \in Wholes /\ SameValues(freed, Whole)
        /\ freed.iters[i].prev = NoIter /\ freed.iters[i].next = NoIter
    <3>1. CASE Att(Whole, i)
      BY <1>1, <3>1, RemovedFrom
    <3>2. CASE ~Att(Whole, i)
      BY <1>1, <3>2 DEF SameValues, Fit, Att
    <3> QED
      BY <3>1, <3>2
  <2>3. freed = IF Att(Whole, i) THEN Removed(Whole, i) ELSE Whole
    OBVIOUS
  <2> HIDE DEF freed
  <2> DEFINE y == [freed.iters[i] EXCEPT !.here = freed.iters[j].here,
                                         !.pos = freed.iters[j].pos]
  <2>4. /\ y \in Iterator /\ y.prev = NoIter /\ y.next = NoIter
        /\ y.here = freed.iters[j].here /\ set = Updated(freed, i, y)
    BY <2>2, CopiedIs, ZenonT(60)
  <2>5. freed.iters[j].here = Empty
    BY <1>1, <1>3, <2>2 DEF SameValues, Fit, Att
  <2> HIDE DEF y
  <2>6. set \in Wholes /\ set.iters[i] = y
    <3> HIDE DEF set
    <3> QED
      BY <2>2, <2>4, UpdatedIs
  <2>7. /\ x \in Iterator /\ x.life # "attached" /\ x.here = Empty
        /\ x.prev = NoIter /\ x.next = NoIter
    <3> HIDE DEF set
    <3> QED
      BY <2>4, <2>5, <2>6 DEF Iterator
  <2>8. [set EXCEPT !.iters[i].life = "detached"] = w
    <3>1. /\ freed.iters \in [Iter -> Iterator]
          /\ freed = [cursor |-> freed.cursor, served |-> freed.served,
                      stream |-> freed.stream, iters |-> freed.iters]
      BY <2>2 DEF Wholes
    <3>2. set = [freed EXCEPT !.iters[i] = y]
      BY <2>4 DEF Updated
    <3>3. x = [y EXCEPT !.life = "detached"]
      BY <2>6
    <3> HIDE DEF set, x
    <3> QED
      BY <3>1, <3>2, <3>3 DEF Updated
  <2> HIDE DEF x
  <2>9. Become(w) /\ w = Updated(freed, i, x)
    BY <2>1, <2>8
  <2> HIDE DEF w
  <2>10. w \in Wholes /\ Fit(w) /\ Linked(w)
    BY <2>3, <2>7, <2>9, DroppedIs
  <2> QED
    BY <1>1, <2>9, <2>10, StreamBecomes
(* Another iterator of the stream. *)
<1>4. CASE Att(Whole, j)
  <2> DEFINE set == WithValueOf(Whole, i, j)
             x == [Whole.iters[i] EXCEPT !.here = Whole.iters[j].here,
                                         !.pos = Whole.iters[j].pos]
  <2>1. Become(IF Att(Whole, i) THEN set ELSE Inserted(set, i))
    BY <1>2, <1>4
  <2>2. /\ x \in Iterator /\ x.life = iters[i].life
        /\ x.prev = iters[i].prev /\ x.next = iters[i].next
        /\ x.here = iters[j].here /\ x.pos = iters[j].pos
        /\ set = Updated(Whole, i, x)
    <3>1. Whole \in Wholes
      BY <1>1
    <3>2. /\ x \in Iterator /\ x.life = Whole.iters[i].life
          /\ x.prev = Whole.iters[i].prev /\ x.next = Whole.iters[i].next
          /\ x.here = Whole.iters[j].here /\ x.pos = Whole.iters[j].pos
          /\ set = Updated(Whole, i, x)
      BY <3>1, CopiedIs, ZenonT(60)
    <3> QED
      BY <1>1, <3>2
  <2> HIDE DEF set, x
  <2>3. /\ set \in Wholes /\ set.stream = stream /\ set.iters[i] = x
        /\ \A k \in Iter \ {i} : set.iters[k] = iters[k]
    <3>1. Whole \in Wholes
      BY <1>1
    <3>2. /\ set \in Wholes /\ set.stream = Whole.stream /\ set.iters[i] = x
          /\ \A k \in Iter \ {i} : set.iters[k] = Whole.iters[k]
      BY <2>2, <3>1, UpdatedIs
    <3> QED
      BY <1>1, <3>2
  <2>4. \A k \in Iter : /\ Att(set, k) <=> Att(Whole, k)
                        /\ set.iters[k].prev = Whole.iters[k].prev
                        /\ set.iters[k].next = Whole.iters[k].next
    BY <1>1, <2>2, <2>3 DEF Att
  <2>5. Linked(set)
    BY <1>1, <2>3, <2>4, KeepsLinks
  <2>6. ASSUME NEW k \in Iter, ~Att(Whole, k)
        PROVE  /\ iters[k].here = Empty
               /\ iters[k].prev = NoIter /\ iters[k].next = NoIter
    BY <1>1, <2>6 DEF Fit, Att
  <2>7. CASE Att(Whole, i)
    <3>1. ASSUME NEW k \in Iter, ~Att(set, k)
          PROVE  /\ set.iters[k].here = Empty
                 /\ set.iters[k].prev = NoIter /\ set.iters[k].next = NoIter
      <4>1. k # i /\ ~Att(Whole, k)
        BY <2>4, <2>7, <3>1
      <4> QED
        BY <2>3, <2>6, <4>1
    <3>2. ASSUME NEW k \in Iter, Att(set, k)
          PROVE  \E l \in Iter : /\ Att(Whole, l) /\ set.iters[k].pos = Whole.iters[l].pos
                                 /\ set.iters[k].here = Whole.iters[l].here
      <4>1. CASE k = i
        BY <1>1, <1>4, <2>2, <2>3, <4>1
      <4>2. CASE k # i
        BY <1>1, <2>3, <2>4, <3>2, <4>2
      <4> QED
        BY <4>1, <4>2
    <3>3. Fit(set)
      BY <1>1, <2>3, <3>1, <3>2, FitFrom
    <3>4. Become(set)
      BY <2>1, <2>7
    <3> QED
      BY <1>1, <2>3, <2>5, <3>3, <3>4, StreamBecomes
  <2>8. CASE ~Att(Whole, i)
    <3> DEFINE w == Inserted(set, i)
    <3>1. ~Att(set, i) /\ set.iters[i].prev = NoIter
      BY <1>1, <2>4, <2>6, <2>8
    <3>2. w = Inserted(set, i) /\ Become(w)
      BY <2>1, <2>8
    <3> HIDE DEF w
    <3>3. /\ w \in Wholes /\ Linked(w)
          /\ w.stream.stride = stream.stride /\ w.stream.reqpos = stream.reqpos
          /\ w.stream.realpos = stream.realpos
          /\ SameValues(w, set) /\ Att(w, i)
          /\ \A k \in Iter \ {i} :
               /\ Att(w, k) <=> Att(set, k)
               /\ ~Att(set, k) => /\ w.iters[k].prev = set.iters[k].prev
                                  /\ w.iters[k].next = set.iters[k].next
      BY <2>3, <2>5, <3>1, <3>2, InsertedInto
    <3>4. ASSUME NEW k \in Iter, ~Att(w, k)
          PROVE  /\ w.iters[k].here = Empty
                 /\ w.iters[k].prev = NoIter /\ w.iters[k].next = NoIter
      <4>1. k # i /\ ~Att(set, k) /\ ~Att(Whole, k)
        BY <2>4, <3>3, <3>4
      <4>2. set.iters[k] = iters[k]
        BY <2>3, <4>1
      <4> QED
        BY <2>6, <3>3, <4>1, <4>2 DEF SameValues
    <3>5. ASSUME NEW k \in Iter, Att(w, k)
          PROVE  \E l \in Iter : /\ Att(Whole, l) /\ w.iters[k].pos = Whole.iters[l].pos
                                 /\ w.iters[k].here = Whole.iters[l].here
      <4>1. CASE k = i
        BY <1>1, <1>4, <2>2, <2>3, <3>3, <4>1 DEF SameValues
      <4>2. CASE k # i
        <5>1. Att(Whole, k) /\ set.iters[k] = iters[k]
          BY <2>3, <2>4, <3>3, <3>5, <4>2
        <5> QED
          BY <1>1, <3>3, <5>1 DEF SameValues
      <4> QED
        BY <4>1, <4>2
    <3>6. Fit(w)
      BY <1>1, <3>3, <3>4, <3>5, FitFrom
    <3> QED
      BY <1>1, <3>2, <3>3, <3>6, StreamBecomes
  <2> QED
    BY <2>7, <2>8
<1> QED
  BY <1>3, <1>4

-----------------------------------------------------------------------------
LEMMA CursorsStayRight == StreamInv /\ [CursorNext]_cursorVars => StreamInv'
<1> SUFFICES ASSUME StreamInv, [CursorNext]_cursorVars PROVE StreamInv'
  OBVIOUS
<1>0. CursorInv
  BY DEF StreamInv
<1>1. CASE FetchOrMove
  <2>1. CursorInv' /\ use' = use /\ stream' = stream /\ iters' = iters
    BY <1>0, <1>1, FetchOrMoveKeeps DEF FetchOrMove
  <2> QED
    BY <2>1, StreamLeftAlone
<1>2. CASE CloseCursor
  <2>1. CursorInv' /\ use' = use /\ stream' = stream /\ iters' = iters
    BY <1>0, <1>2, CloseCursorKeeps DEF CloseCursor
  <2> QED
    BY <2>1, StreamLeftAlone
<1>3. CASE Retrieve
  <2>1. CursorInv' /\ use' = use /\ stream' = stream /\ iters' = iters
    BY <1>0, <1>3, RetrieveKeeps DEF Retrieve
  <2> QED
    BY <2>1, StreamLeftAlone
<1>4. CASE Get \/ Ignore \/ SetStride
  BY <1>4, ReadingKeeps
<1>5. CASE NewIterator
  BY <1>5, NewIteratorKeeps
<1>6. CASE NewEnd
  BY <1>6, NewEndKeeps
<1>7. CASE CopyIterator
  BY <1>7, CopyIteratorKeeps
<1>8. CASE DestroyIterator
  BY <1>8, DestroyIteratorKeeps
<1>9. CASE Advance
  BY <1>9, AdvanceKeeps
<1>10. CASE Refresh
  BY <1>10, RefreshKeeps
<1>11. CASE UNCHANGED cursorVars
  <2>1. /\ use' = use /\ cursor' = cursor /\ served' = served /\ answer' = answer
        /\ stream' = stream /\ iters' = iters
    BY <1>11 DEF cursorVars
  <2>2. Become(Whole)
    BY <2>1 DEF Become, Whole
  <2> QED
    BY <2>2, WholeOfStream, StreamBecomes
<1> QED
  BY <1>1, <1>2, <1>3, <1>4, <1>5, <1>6, <1>7, <1>8, <1>9, <1>10, <1>11 DEF CursorNext

(* From any start, and whatever is done with cursor, stream and iterators,   *)
(* the reckoned position, the blocks and the list are right together         *)
(* (cursor.cxx: sql_cursor::move and fetch, icursorstream::service_iterators,*)
(* insert_iterator, remove_iterator).                                        *)
THEOREM CursorsAlwaysRight == CursorSpec => []StreamInv
<1>1. CursorInit => StreamInv
  BY InitStream
<1>2. StreamInv /\ [CursorNext]_cursorVars => StreamInv'
  BY CursorsStayRight
<1> QED
  BY <1>1, <1>2, PTL DEF CursorSpec

(* The types of PqCursor: a position is one of the result set, before it or  *)
(* behind it, and a stream never reads past its end.                         *)
THEOREM CursorsTyped == CursorSpec => []CursorTypeOK
<1>1. StreamInv => CursorTypeOK
  BY CursorInvIs DEF StreamInv
<1> QED
  BY <1>1, CursorsAlwaysRight, PTL

(* What sql_cursor::adjust reckons from how far moves fell short is where    *)
(* the server's cursor is, in every sequence of moves from any start, its    *)
(* internal errors do not occur, and stateless_cursor::retrieve returns the  *)
(* rows asked for, in both directions.                                       *)
THEOREM CursorAlwaysExact == CursorSpec => []CursorIsExact
<1>1. StreamInv => CursorIsExact
  BY CursorInvIs DEF StreamInv
<1> QED
  BY <1>1, CursorsAlwaysRight, PTL

(* However iterators of an icursorstream are made, copied, assigned, moved   *)
(* on and destroyed, its list holds the attached ones, each holds the block  *)
(* at its position, and none looks like the end before the stream's end.     *)
THEOREM StreamAlwaysSound == CursorSpec => []StreamIsSound
<1>1. StreamInv => StreamIsSound
  BY StreamInvIs
<1> QED
  BY <1>1, CursorsAlwaysRight, PTL

-----------------------------------------------------------------------------
(* Results: what a row, its fields and an iterator are, whatever was sliced  *)
(* and walked before.                                                        *)
Row == [index : 0 .. ResultRows - 1, first : 0 .. Columns, last : 0 .. Columns]

FieldsOf(r) == [i \in 1 .. SizeOf(r) |-> FieldAt(r.index, r.first + (i - 1))]

RowFits ==
  /\ names \in Seq(ColumnName) /\ Columns \in 1 .. MaxColumns
  /\ row \in Row /\ row.first <= row.last
  /\ cells = FieldsOf(row)

WalkFits ==
  /\ walk \in [over : {"nothing", "fields", "rows", "tuples"}, back : BOOLEAN, at : Int]
  /\ walk.over = "nothing" => walk = NoWalk
  /\ walk.over = "tuples" => ~walk.back
  /\ place \in 0 .. WalkLength
  /\ walk # NoWalk =>
       walk.at = IF walk.back THEN End(walk.over) - 1 - place ELSE Begin(walk.over) + place

ResultInv == RowFits /\ WalkFits /\ failure.again \in BOOLEAN /\ OnlyTransientIsRetried

(* A set of numbers has a least element, and Min finds it. *)
LEMMA LeastIs ==
  ASSUME NEW S \in SUBSET Nat, S # {}
  PROVE  Min(S) \in S /\ \A y \in S : Min(S) <= y
<1> DEFINE less == OpToRel(<, Nat)
<1>1. \A x, y \in Nat : <<y, x>> \in less <=> y < x
  BY DEF OpToRel
<1>2. IsWellFoundedOn(less, Nat)
  BY NatLessThanWellFounded
<1> HIDE DEF less
<1>3. PICK x \in S : \A y \in S : <<y, x>> \notin less
  BY <1>2, WFMin
<1>4. ASSUME NEW y \in S PROVE x <= y
  <2>1. x \in Nat /\ y \in Nat /\ ~(y < x)
    BY <1>1, <1>3
  <2> QED
    BY <2>1
<1> QED
  BY <1>4 DEF Min

(* Or, if it is found otherwise, it is that one. *)
LEMMA LeastIsThis ==
  ASSUME NEW S \in SUBSET Nat, NEW x \in S, \A y \in S : x <= y
  PROVE  Min(S) = x
<1>1. Min(S) \in S /\ \A y \in S : Min(S) <= y
  BY LeastIs
<1> DEFINE m == Min(S)
<1>2. m <= x /\ x <= m /\ m \in Nat /\ x \in Nat
  BY <1>1
<1> HIDE DEF m
<1>3. m = x
  BY <1>2
<1> QED
  BY <1>3 DEF m

LEMMA ResultBounds == ResultRows \in Nat /\ ResultRows > 0 /\ MaxColumns \in Nat
BY ResultAssumption

LEMMA RowIs ==
  ASSUME RowFits
  PROVE  /\ Columns \in Nat /\ Columns >= 1 /\ Columns <= MaxColumns
         /\ row.index \in Nat /\ row.index < Rows /\ row.first \in Nat /\ row.last \in Nat
         /\ row.first <= row.last /\ row.last <= Columns
         /\ SizeOf(row) = row.last - row.first /\ SizeOf(row) \in Nat
         /\ Len(cells) = SizeOf(row) /\ Len(cells) \in Nat /\ DOMAIN cells = 1 .. SizeOf(row)
         /\ \A i \in 1 .. SizeOf(row) : cells[i] = FieldAt(row.index, row.first + (i - 1))
<1>1. /\ Columns \in Nat /\ Columns >= 1 /\ Columns <= MaxColumns
      /\ row.index \in Nat /\ row.index < Rows /\ row.first \in Nat /\ row.last \in Nat
      /\ row.first <= row.last /\ row.last <= Columns
  BY ResultBounds DEF RowFits, Row, Rows
<1>2. SizeOf(row) = row.last - row.first /\ SizeOf(row) \in Nat
  BY <1>1 DEF SizeOf
<1>3. /\ cells = FieldsOf(row) /\ DOMAIN cells = 1 .. SizeOf(row)
      /\ \A i \in 1 .. SizeOf(row) : cells[i] = FieldAt(row.index, row.first + (i - 1))
  BY DEF RowFits, FieldsOf
<1>4. Len(cells) = SizeOf(row)
  <2> DEFINE n == SizeOf(row)
  <2>1. n \in Nat /\ cells = [i \in 1 .. n |-> cells[i]]
    BY <1>2, <1>3 DEF FieldsOf
  <2> HIDE DEF n
  <2>2. cells \in Seq({cells[i] : i \in 1 .. n}) /\ Len(cells) = n
    BY <2>1
  <2> QED
    BY <2>2 DEF n
<1> QED
  BY <1>1, <1>2, <1>3, <1>4

LEMMA WholeRowIs ==
  ASSUME NEW i \in 0 .. ResultRows - 1, names \in Seq(ColumnName), Columns \in 1 .. MaxColumns
  PROVE  /\ RowAt(i) \in Row /\ RowAt(i).first <= RowAt(i).last
         /\ WholeRow(i) = FieldsOf(RowAt(i))
<1>1. Columns \in Nat
  BY ResultBounds
<1>2. /\ RowAt(i) \in Row /\ RowAt(i).first = 0 /\ RowAt(i).last = Columns
      /\ RowAt(i).index = i
  BY <1>1 DEF RowAt, Row
<1>3. SizeOf(RowAt(i)) = Columns
  BY <1>1, <1>2 DEF SizeOf
<1>4. \A c \in 1 .. Columns : c - 1 = 0 + (c - 1)
  BY <1>1
<1> QED
  BY <1>1, <1>2, <1>3, <1>4 DEF WholeRow, FieldsOf

(* Sliced fields are those of the slice.                                     *)
LEMMA SliceIs ==
  ASSUME RowFits, NEW from \in Nat, NEW to \in Nat, from <= to, to <= SizeOf(row)
  PROVE  /\ Slice(from, to) \in Row /\ Slice(from, to).first <= Slice(from, to).last
         /\ SubSeq(cells, from + 1, to) = FieldsOf(Slice(from, to))
<1> DEFINE r == Slice(from, to)
           F == {cells[i] : i \in 1 .. SizeOf(row)}
<1>1. row \in Row
  BY DEF RowFits
<1>2. row.first + from \in 0 .. Columns /\ row.first + to \in 0 .. Columns
  BY RowIs, SMTT(30)
<1>3. r \in Row /\ r.index = row.index /\ r.first = row.first + from
      /\ r.last = row.first + to
  BY <1>1, <1>2 DEF Slice, Row
<1> HIDE DEF r
<1>4. r.first <= r.last /\ SizeOf(r) = to - from /\ to - from \in Nat
  BY <1>3, RowIs DEF SizeOf
<1>5. cells \in Seq(F) /\ to <= Len(cells) /\ Len(cells) = SizeOf(row)
  <2>1. cells = [i \in 1 .. SizeOf(row) |-> cells[i]] /\ SizeOf(row) \in Nat
    BY RowIs DEF RowFits, FieldsOf
  <2>2. cells \in Seq(F)
    BY <2>1
  <2> QED
    BY <2>2, RowIs
<1>6. /\ SubSeq(cells, from + 1, to) \in Seq(F)
      /\ Len(SubSeq(cells, from + 1, to)) = to - from
      /\ \A i \in 1 .. to - from : SubSeq(cells, from + 1, to)[i] = cells[from + i]
  BY <1>4, <1>5
<1>7. ASSUME NEW i \in 1 .. to - from
      PROVE  cells[from + i] = FieldAt(r.index, r.first + (i - 1))
  <2>1. from + i \in 1 .. SizeOf(row) /\ row.first + ((from + i) - 1) = r.first + (i - 1)
    BY <1>3, <1>4, <1>7, RowIs
  <2>2. cells[from + i] = FieldAt(row.index, row.first + ((from + i) - 1))
    BY <2>1, RowIs
  <2> QED
    BY <1>3, <2>1, <2>2
<1>8. SubSeq(cells, from + 1, to) = FieldsOf(r)
  <2> DEFINE part == SubSeq(cells, from + 1, to)
             n == to - from
  <2>1. part \in Seq(F) /\ Len(part) = n /\ \A i \in 1 .. n : part[i] = cells[from + i]
    BY <1>6
  <2> HIDE DEF part
  <2>2. part = [i \in 1 .. n |-> part[i]]
    BY <2>1
  <2>3. FieldsOf(r) = [i \in 1 .. n |-> cells[from + i]]
    BY <1>4, <1>7 DEF FieldsOf
  <2> QED
    BY <2>1, <2>2, <2>3 DEF part
<1> QED
  BY <1>3, <1>4, <1>8 DEF r

(* An error that check_status throws is tried again if it is transient.      *)
Clauses(error) == {i \in DOMAIN Catches : Catches[i].class \in Parents(error)}

Transient == {"broken_connection", "too_many_connections", "serialization_failure",
              "deadlock_detected", "transaction_rollback"}

Lasting == {"insufficient_privilege", "a violation", "integrity_constraint_violation",
            "syntax_error", "a shortage", "insufficient_resources", "an error of its own",
            "plpgsql_error", "sql_error"}

LEMMA CatchesAre ==
  /\ DOMAIN Catches = {1, 2, 3, 4}
  /\ Catches[1].class = "in_doubt_error"
  /\ Catches[2].class = "statement_completion_unknown" /\ Catches[2].retry = FALSE
  /\ Catches[3].class = "broken_connection" /\ Catches[3].retry = TRUE
  /\ Catches[4].class = "transaction_rollback" /\ Catches[4].retry = TRUE
BY DEF Catches

LEMMA TransientAreTried ==
  ASSUME NEW error \in Transient
  PROVE  TriedAgain(error) = TRUE
<1>1. CASE error \in {"broken_connection", "too_many_connections"}
  <2>1. /\ "broken_connection" \in Parents(error) /\ "in_doubt_error" \notin Parents(error)
        /\ "statement_completion_unknown" \notin Parents(error)
        /\ "transaction_rollback" \notin Parents(error)
    BY <1>1 DEF Parents
  <2>2. Clauses(error) = {3}
    BY <2>1, CatchesAre DEF Clauses
  <2>3. Min(Clauses(error)) = 3
    BY <2>2, LeastIsThis
  <2> QED
    BY <2>2, <2>3, CatchesAre DEF TriedAgain, Clauses
<1>2. CASE error \in {"serialization_failure", "deadlock_detected", "transaction_rollback"}
  <2>1. /\ "broken_connection" \notin Parents(error) /\ "in_doubt_error" \notin Parents(error)
        /\ "statement_completion_unknown" \notin Parents(error)
        /\ "transaction_rollback" \in Parents(error)
    BY <1>2 DEF Parents
  <2>2. Clauses(error) = {4}
    BY <2>1, CatchesAre DEF Clauses
  <2>3. Min(Clauses(error)) = 4
    BY <2>2, LeastIsThis
  <2> QED
    BY <2>2, <2>3, CatchesAre DEF TriedAgain, Clauses
<1> QED
  BY <1>1, <1>2 DEF Transient

LEMMA LastingAreNot ==
  ASSUME NEW error \in Lasting
  PROVE  TriedAgain(error) = FALSE
<1>1. Parents(error) = {error, "sql_error"}
  BY DEF Parents, Lasting
<1>2. Clauses(error) = {}
  BY <1>1, CatchesAre DEF Clauses, Lasting
<1> QED
  BY <1>2 DEF TriedAgain, Clauses

(* A statement of unknown outcome is also a rollback, but caught first. *)
LEMMA UnknownIsNot == TriedAgain("statement_completion_unknown") = FALSE
<1> DEFINE error == "statement_completion_unknown"
<1>1. Parents(error) = {error, "transaction_rollback", "sql_error"}
  BY DEF Parents
<1>2. Clauses(error) = {2, 4}
  BY <1>1, CatchesAre DEF Clauses
<1>3. Min(Clauses(error)) = 2
  BY <1>2, LeastIsThis
<1> QED
  BY <1>2, <1>3, CatchesAre DEF TriedAgain, Clauses

IsTransient(state) ==
  \/ state[1] \in {"none", "empty", "08"}
  \/ state[1] = "40" /\ state[2] \in {"000", "001", "P01"}
  \/ state[1] = "53" /\ state[2] = "300"

LEMMA ThrownIs ==
  ASSUME NEW s \in STRING \X STRING
  PROVE  IF IsTransient(s) THEN Thrown(s[1], s[2]) \in Transient
         ELSE Thrown(s[1], s[2]) \in Lasting \cup {"statement_completion_unknown"}
<1> DEFINE class == s[1]  rest == s[2]
<1>1. class \in STRING /\ rest \in STRING
  OBVIOUS
<1> HIDE DEF class, rest
<1>2. CASE class \in {"none", "empty", "08"}
  BY <1>2 DEF Thrown, IsTransient, Transient, class, rest
<1>3. CASE class = "40"
  BY <1>3 DEF Thrown, IsTransient, Transient, Lasting, class, rest
<1>4. CASE class = "53"
  BY <1>4 DEF Thrown, IsTransient, Transient, Lasting, class, rest
<1>5. CASE class \notin {"none", "empty", "08", "40", "53"}
  BY <1>5 DEF Thrown, IsTransient, Transient, Lasting, class, rest
<1> QED
  BY <1>2, <1>3, <1>4, <1>5

LEMMA CheckedIs ==
  ASSUME NEW s \in STRING \X STRING
  PROVE  /\ TriedAgain(Thrown(s[1], s[2])) \in BOOLEAN
         /\ TriedAgain(Thrown(s[1], s[2])) <=>
              \/ s[1] \in {"none", "empty", "08"}
              \/ s \in {<<"40", r>> : r \in {"000", "001", "P01"}}
              \/ s = <<"53", "300">>
<1>1. TriedAgain(Thrown(s[1], s[2])) = IsTransient(s)
  <2>1. CASE IsTransient(s)
    BY <2>1, ThrownIs, TransientAreTried DEF IsTransient
  <2>2. CASE ~IsTransient(s)
    BY <2>2, ThrownIs, LastingAreNot, UnknownIsNot DEF IsTransient
  <2> QED
    BY <2>1, <2>2
<1>2. s = <<s[1], s[2]>>
  OBVIOUS
<1>3. (s[1] = "40" /\ s[2] \in {"000", "001", "P01"}) <=>
        s \in {<<"40", r>> : r \in {"000", "001", "P01"}}
  BY <1>2
<1>4. (s[1] = "53" /\ s[2] = "300") <=> s = <<"53", "300">>
  BY <1>2
<1> QED
  BY <1>1, <1>3, <1>4 DEF IsTransient

-----------------------------------------------------------------------------
(* The results start so and stay so. *)
LEMMA ResultStarts == ResultInit => ResultInv
<1> SUFFICES ASSUME ResultInit PROVE ResultInv
  OBVIOUS
<1>1. PICK n \in 1 .. MaxColumns : names \in [1 .. n -> ColumnName]
  BY DEF ResultInit
<1>2. n \in Nat /\ names \in Seq(ColumnName) /\ Columns = n
  BY <1>1, ResultBounds DEF Columns
<1>3. 0 \in 0 .. ResultRows - 1
  BY ResultBounds
<1>4. RowFits
  BY <1>2, <1>3, WholeRowIs DEF RowFits, ResultInit
<1>5. WalkFits
  BY ResultBounds DEF WalkFits, ResultInit, NoWalk, WalkLength, Rows
<1>6. failure.again \in BOOLEAN /\ OnlyTransientIsRetried
  BY DEF ResultInit, NoFailure, OnlyTransientIsRetried
<1> QED
  BY <1>4, <1>5, <1>6 DEF ResultInv

(* Nothing walks: a row may be taken. *)
LEMMA RestingFits ==
  ASSUME walk = NoWalk, place \in 0 .. Rows
  PROVE  WalkFits
BY DEF WalkFits, NoWalk, WalkLength

LEMMA FailureStays ==
  ASSUME ResultInv, failure' = failure
  PROVE  (failure.again \in BOOLEAN /\ OnlyTransientIsRetried)'
BY DEF ResultInv, OnlyTransientIsRetried

LEMMA TakeRowKeeps ==
  ASSUME ResultInv, NEW i \in 0 .. ResultRows - 1, TakeRow(i)
  PROVE  ResultInv'
<1>1. names \in Seq(ColumnName) /\ Columns \in 1 .. MaxColumns
  BY DEF ResultInv, RowFits
<1>2. /\ RowAt(i) \in Row /\ RowAt(i).first <= RowAt(i).last
      /\ WholeRow(i) = FieldsOf(RowAt(i))
  BY <1>1, WholeRowIs
<1>3. RowFits'
  BY <1>1, <1>2 DEF TakeRow, RowFits, FieldsOf, Row, Columns
<1>4. place \in 0 .. Rows /\ walk = NoWalk
  BY DEF ResultInv, WalkFits, TakeRow, WalkLength, NoWalk
<1>5. WalkFits'
  BY <1>4, ResultBounds DEF TakeRow, WalkFits, NoWalk, WalkLength, Rows
<1> QED
  BY <1>3, <1>5, FailureStays DEF ResultInv, TakeRow

LEMMA TakeSliceKeeps ==
  ASSUME ResultInv, NEW from \in 0 .. MaxColumns, NEW to \in 0 .. MaxColumns,
         TakeSlice(from, to)
  PROVE  ResultInv'
<1>1. RowFits /\ from \in Nat /\ to \in Nat /\ from <= to /\ to <= SizeOf(row)
  BY ResultBounds DEF ResultInv, TakeSlice
<1>2. /\ Slice(from, to) \in Row /\ Slice(from, to).first <= Slice(from, to).last
      /\ SubSeq(cells, from + 1, to) = FieldsOf(Slice(from, to))
  BY <1>1, SliceIs
<1>3. RowFits'
  BY <1>1, <1>2 DEF TakeSlice, RowFits, FieldsOf, Row, Columns
<1>4. place \in 0 .. Rows /\ walk = NoWalk
  BY DEF ResultInv, WalkFits, TakeSlice, WalkLength, NoWalk
<1>5. WalkFits'
  BY <1>4, ResultBounds DEF TakeSlice, WalkFits, NoWalk, WalkLength, Rows
<1> QED
  BY <1>3, <1>5, FailureStays DEF ResultInv, TakeSlice

LEMMA LengthIs ==
  ASSUME RowFits, WalkFits
  PROVE  /\ WalkLength \in Nat /\ place \in Nat /\ place <= WalkLength
         /\ Begin(walk.over) \in Nat /\ End(walk.over) \in Nat
         /\ WalkLength = End(walk.over) - Begin(walk.over)
<1>1. /\ row.first \in Nat /\ row.last \in Nat /\ row.first <= row.last
      /\ Len(cells) = row.last - row.first
  BY RowIs
<1>2. /\ WalkLength \in Nat
      /\ Begin(walk.over) \in Nat /\ End(walk.over) \in Nat
      /\ WalkLength = End(walk.over) - Begin(walk.over)
  BY <1>1, ResultBounds DEF WalkLength, Begin, End, Rows
<1> QED
  BY <1>2 DEF WalkFits

LEMMA RowStays ==
  ASSUME RowFits, names' = names, row' = row, cells' = cells
  PROVE  RowFits'
BY DEF RowFits, FieldsOf, Columns, Row

(* A step of an iterator, with its place. *)
LEMMA WalkStays ==
  ASSUME RowFits, names' = names, row' = row, cells' = cells,
         NEW over \in {"fields", "rows", "tuples"}, NEW back \in BOOLEAN, NEW spot \in Int,
         walk' = [over |-> over, back |-> back, at |-> spot],
         over = "tuples" => ~back,
         place' \in Nat, place' <= End(over) - Begin(over),
         spot = IF back THEN End(over) - 1 - place' ELSE Begin(over) + place'
  PROVE  WalkFits'
<1>1. /\ row.first \in Nat /\ row.last \in Nat /\ row.first <= row.last
      /\ Len(cells) = row.last - row.first
  BY RowIs
<1>2. /\ walk'.over = over /\ walk'.back = back /\ walk'.at = spot /\ over # "nothing"
      /\ walk' \in [over : {"nothing", "fields", "rows", "tuples"}, back : BOOLEAN, at : Int]
  OBVIOUS
<1>3. Begin(over)' = Begin(over) /\ End(over)' = End(over) /\ WalkLength' = End(over) - Begin(over)
  BY <1>1, <1>2, ResultBounds DEF Begin, End, Rows, WalkLength
<1>4. Begin(walk.over)' = Begin(over) /\ End(walk.over)' = End(over)
  BY <1>2 DEF Begin, End, Rows
<1>5. End(over) - Begin(over) \in Nat
  BY <1>1, ResultBounds DEF Begin, End, Rows
<1>6. place' \in 0 .. WalkLength'
  BY <1>3, <1>5
<1> QED
  BY <1>2, <1>4, <1>6 DEF WalkFits

LEMMA StartWalkKeeps ==
  ASSUME ResultInv, NEW over \in {"fields", "rows", "tuples"}, NEW back \in BOOLEAN,
         StartWalk(over, back)
  PROVE  ResultInv'
<1>1. RowFits /\ UNCHANGED <<names, row, cells>> /\ failure' = failure
  BY DEF ResultInv, StartWalk
<1>2. /\ row.first \in Nat /\ row.last \in Nat /\ row.first <= row.last
  BY <1>1, RowIs
<1>3. Begin(over) \in Nat /\ End(over) \in Nat /\ Begin(over) <= End(over)
  BY <1>2, ResultBounds DEF Begin, End, Rows
<1> DEFINE spot == FirstOf(over, back)
<1>4. spot \in Int /\ spot = IF back THEN End(over) - 1 - 0 ELSE Begin(over) + 0
  BY <1>3 DEF FirstOf, Reversed
<1>5. /\ walk' = [over |-> over, back |-> back, at |-> spot] /\ place' = 0
      /\ over = "tuples" => ~back
  BY DEF StartWalk
<1> HIDE DEF spot
<1>6. WalkFits'
  BY <1>1, <1>3, <1>4, <1>5, WalkStays
<1> QED
  BY <1>1, <1>6, RowStays, FailureStays DEF ResultInv

LEMMA WalkIs ==
  ASSUME WalkFits, walk # NoWalk
  PROVE  /\ walk = [over |-> walk.over, back |-> walk.back, at |-> walk.at]
         /\ walk.over \in {"fields", "rows", "tuples"} /\ walk.back \in BOOLEAN
         /\ walk.at \in Int /\ (walk.over = "tuples" => ~walk.back)
         /\ walk.at = IF walk.back THEN End(walk.over) - 1 - place ELSE Begin(walk.over) + place
BY DEF WalkFits

LEMMA MoveKeeps ==
  ASSUME ResultInv, NEW n \in {-2, -1, 1, 2}, Move(n) \/ MoveByPlus(n)
  PROVE  ResultInv'
<1>1. RowFits /\ WalkFits /\ UNCHANGED <<names, row, cells>> /\ failure' = failure
  BY DEF ResultInv, Move, MoveByPlus
<1>2. walk # NoWalk /\ place + n \in 0 .. WalkLength /\ place' = place + n
  BY DEF Move, MoveByPlus, NoWalk
<1>3. /\ WalkLength \in Nat /\ place \in Nat
      /\ Begin(walk.over) \in Nat /\ End(walk.over) \in Nat
      /\ WalkLength = End(walk.over) - Begin(walk.over)
  BY <1>1, LengthIs
<1> DEFINE over == walk.over  back == walk.back
           spot == IF back THEN walk.at - n ELSE walk.at + n
           b == Begin(over)  e == End(over)
<1>4. /\ walk = [over |-> over, back |-> back, at |-> walk.at]
      /\ over \in {"fields", "rows", "tuples"} /\ back \in BOOLEAN
      /\ walk.at \in Int /\ (over = "tuples" => ~back)
      /\ walk.at = IF back THEN e - 1 - place ELSE b + place
  BY <1>1, <1>2, WalkIs
<1>5. Moved(walk, n) = spot /\ Plus(walk, n) = spot
  BY <1>4 DEF Moved, Plus, Reversed, Base
<1>6. walk' = [walk EXCEPT !.at = spot]
  BY <1>5 DEF Move, MoveByPlus
<1>7. walk' = [over |-> over, back |-> back, at |-> spot]
  BY <1>4, <1>6
<1>8. place' \in Nat /\ place' <= e - b
  BY <1>2, <1>3
<1>9. spot \in Int /\ spot = IF back THEN e - 1 - place' ELSE b + place'
  <2> HIDE DEF b, e, over, back
  <2>1. b \in Nat /\ e \in Nat /\ place' = place + n /\ place \in Nat
    BY <1>2, <1>3 DEF b, e, over
  <2> QED
    BY <2>1, <1>4
<1> HIDE DEF spot
<1>10. WalkFits'
  BY <1>1, <1>4, <1>7, <1>8, <1>9, WalkStays
<1> QED
  BY <1>1, <1>10, RowStays, FailureStays DEF ResultInv

LEMMA ArriveKeeps ==
  ASSUME ResultInv, Arrive
  PROVE  ResultInv'
<1> DEFINE i == walk.at
<1>1. walk.over = "rows" /\ walk # NoWalk /\ place < Rows
  BY DEF Arrive, NoWalk
<1>2. RowFits /\ WalkFits
  BY DEF ResultInv
<1>3. place \in Nat
  BY <1>2, LengthIs
<1>4. walk.at = IF walk.back THEN End(walk.over) - 1 - place ELSE Begin(walk.over) + place
  BY <1>1, <1>2, WalkIs
<1>5. /\ i = (IF walk.back THEN Rows - 1 - place ELSE place)
      /\ i \in 0 .. ResultRows - 1
  BY <1>1, <1>3, <1>4, ResultBounds DEF Begin, End, Rows
<1>6. names \in Seq(ColumnName) /\ Columns \in 1 .. MaxColumns
  BY <1>2 DEF RowFits
<1>7. /\ row' = RowAt(i) /\ cells' = WholeRow(i) /\ names' = names
      /\ walk' = NoWalk /\ place' = 0 /\ failure' = failure
  BY <1>5 DEF Arrive
<1> HIDE DEF i
<1>8. /\ RowAt(i) \in Row /\ RowAt(i).first <= RowAt(i).last
      /\ WholeRow(i) = FieldsOf(RowAt(i))
  BY <1>5, <1>6, WholeRowIs
<1>9. RowFits'
  BY <1>6, <1>7, <1>8 DEF RowFits, FieldsOf, Row, Columns
<1>10. WalkFits'
  BY <1>7, ResultBounds DEF WalkFits, NoWalk, WalkLength, Rows
<1> QED
  BY <1>7, <1>9, <1>10, FailureStays DEF ResultInv

LEMMA LeaveKeeps ==
  ASSUME ResultInv, Leave
  PROVE  ResultInv'
<1>1. /\ RowFits /\ UNCHANGED <<names, row, cells>> /\ failure' = failure
      /\ walk' = NoWalk /\ place' = 0
  BY DEF ResultInv, Leave
<1>2. WalkFits'
  BY <1>1, ResultBounds DEF WalkFits, NoWalk, WalkLength, Rows
<1> QED
  BY <1>1, <1>2, RowStays, FailureStays DEF ResultInv

LEMMA WalkIsLeft ==
  ASSUME WalkFits, walk' = walk, place' = place, row' = row, cells' = cells
  PROVE  WalkFits'
BY DEF WalkFits, WalkLength, Begin, End, Rows

LEMMA CheckStatusKeeps ==
  ASSUME ResultInv, NEW state \in SqlStates, CheckStatus(state)
  PROVE  ResultInv'
<1>1. state \in STRING \X STRING
  BY ResultAssumption
<1>2. /\ failure'.state = state /\ failure'.again = TriedAgain(Thrown(state[1], state[2]))
  BY DEF CheckStatus
<1>3. (failure.again \in BOOLEAN /\ OnlyTransientIsRetried)'
  BY <1>1, <1>2, CheckedIs DEF OnlyTransientIsRetried
<1>4. RowFits' /\ WalkFits'
  BY RowStays, WalkIsLeft DEF ResultInv, CheckStatus
<1> QED
  BY <1>3, <1>4 DEF ResultInv

LEMMA ResultKept == ResultInv /\ [ResultNext]_resultVars => ResultInv'
<1> SUFFICES ASSUME ResultInv, [ResultNext]_resultVars PROVE ResultInv'
  OBVIOUS
<1>1. CASE \E i \in 0 .. ResultRows - 1 : TakeRow(i)
  BY <1>1, TakeRowKeeps
<1>2. CASE \E from, to \in 0 .. MaxColumns : TakeSlice(from, to)
  BY <1>2, TakeSliceKeeps
<1>3. CASE \E over \in {"fields", "rows", "tuples"}, back \in BOOLEAN : StartWalk(over, back)
  BY <1>3, StartWalkKeeps
<1>4. CASE \E n \in {-2, -1, 1, 2} : Move(n) \/ MoveByPlus(n)
  BY <1>4, MoveKeeps
<1>5. CASE Arrive
  BY <1>5, ArriveKeeps
<1>6. CASE Leave
  BY <1>6, LeaveKeeps
<1>7. CASE \E state \in SqlStates : CheckStatus(state)
  BY <1>7, CheckStatusKeeps
<1>8. CASE UNCHANGED resultVars
  <2>1. UNCHANGED <<names, row, walk, failure, cells, place>>
    BY <1>8 DEF resultVars
  <2> QED
    BY <2>1, RowStays, WalkIsLeft, FailureStays DEF ResultInv
<1> QED
  BY <1>1, <1>2, <1>3, <1>4, <1>5, <1>6, <1>7, <1>8 DEF ResultNext

-----------------------------------------------------------------------------
(* What follows from it. *)
LEMMA SlicesFollow == RowFits => SlicesAreRows
<1> SUFFICES ASSUME RowFits PROVE SlicesAreRows
  OBVIOUS
<1> DEFINE n == SizeOf(row)
<1>1. /\ row.index \in Nat /\ row.first \in Nat /\ row.last \in Nat /\ row.first <= row.last
      /\ n = row.last - row.first /\ n \in Nat /\ Len(cells) = n
      /\ \A i \in 1 .. n : cells[i] = FieldAt(row.index, row.first + (i - 1))
      /\ cells = FieldsOf(row) /\ MaxColumns \in Nat
  BY RowIs, ResultBounds DEF RowFits
<1>2. ASSUME row.first = 0 PROVE ToTuple = cells
  <2>1. \A i \in 1 .. n : row.first + (i - 1) = i - 1
    BY <1>1, <1>2
  <2> QED
    BY <1>1, <2>1 DEF ToTuple, FieldsOf
<1>3. AsTuple = cells
  BY <1>1 DEF AsTuple, FieldsOf, ByNumber
<1>4. ASSUME NEW i \in 0 .. MaxColumns
      PROVE  At(i) = IF i < Len(cells) THEN cells[i + 1] ELSE None
  <2>1. CASE i < n
    <3>1. i + 1 \in 1 .. n /\ (i + 1) - 1 = i
      BY <1>1, <2>1
    <3>2. cells[i + 1] = FieldAt(row.index, row.first + ((i + 1) - 1))
      BY <1>1, <3>1
    <3> QED
      BY <1>1, <2>1, <3>1, <3>2 DEF At, ByNumber
  <2>2. CASE ~(i < n)
    BY <1>1, <2>2 DEF At
  <2> QED
    BY <2>1, <2>2
<1>5. ASSUME Len(cells) > 0
      PROVE  FrontField = cells[1] /\ BackField = cells[Len(cells)]
  <2>1. 1 \in 1 .. n /\ n \in 1 .. n
    BY <1>1, <1>5
  <2>2. /\ cells[1] = FieldAt(row.index, row.first + (1 - 1))
        /\ cells[n] = FieldAt(row.index, row.first + (n - 1))
    BY <1>1, <2>1
  <2>3. row.first + (1 - 1) = row.first /\ row.first + (n - 1) = row.last - 1
    BY <1>1
  <2> QED
    BY <1>1, <2>2, <2>3 DEF FrontField, BackField
<1> QED
  BY <1>1, <1>2, <1>3, <1>4, <1>5 DEF SlicesAreRows

(* The number of a named column of the slice, from where the name is in it. *)
NamedIn(name) == {i \in 1 .. Len(cells) : names[cells[i].col + 1] = name}

LEMMA NamedAre ==
  ASSUME RowFits, NEW name
  PROVE  /\ NamedIn(name) = {i \in 1 .. SizeOf(row) : names[row.first + i] = name}
         /\ NamedIn(name) \in SUBSET Nat
<1>1. /\ row.first \in Nat /\ SizeOf(row) \in Nat /\ Len(cells) = SizeOf(row)
      /\ \A i \in 1 .. SizeOf(row) : cells[i] = FieldAt(row.index, row.first + (i - 1))
  BY RowIs
<1>2. ASSUME NEW i \in 1 .. SizeOf(row) PROVE cells[i].col + 1 = row.first + i
  <2>1. cells[i].col = row.first + (i - 1)
    BY <1>1 DEF FieldAt
  <2> QED
    BY <1>1, <2>1
<1> QED
  BY <1>1, <1>2 DEF NamedIn

LEMMA NumberIs ==
  ASSUME RowFits, NEW name
  PROVE  /\ NamedIn(name) = {} => ColumnNumber(name) = -1
         /\ NamedIn(name) # {} => ColumnNumber(name) = Min(NamedIn(name)) - 1
<1> DEFINE F == {i \in 1 .. Columns : names[i] = name}
           S == NamedIn(name)
           inside == {i \in row.first .. row.last - 1 : names[i + 1] = name}
           n == FirstNamed(name)
<1>1. /\ Columns \in Nat /\ row.first \in Nat /\ row.last \in Nat
      /\ row.first <= row.last /\ row.last <= Columns
      /\ SizeOf(row) = row.last - row.first
  BY RowIs
<1>2. S = {i \in 1 .. SizeOf(row) : names[row.first + i] = name} /\ S \in SUBSET Nat
  BY NamedAre
<1>3. F \in SUBSET Nat /\ inside \in SUBSET Nat
  BY <1>1
<1>4. \A i \in S : row.first + i \in F /\ row.first + i - 1 \in inside
  BY <1>1, <1>2
<1>5. \A i \in inside : i + 1 - row.first \in S
  BY <1>1, <1>2
<1>6. n = IF F = {} THEN -1 ELSE Min(F) - 1
  BY DEF FirstNamed
<1>7. ColumnNumber(name) =
        IF n = -1 \/ n >= row.last THEN -1
        ELSE IF n >= row.first THEN n - row.first
        ELSE IF inside = {} THEN -1 ELSE Min(inside) - row.first
  BY DEF ColumnNumber
<1>8. F # {} => /\ Min(F) \in F /\ \A y \in F : Min(F) <= y
                /\ Min(F) \in 1 .. Columns /\ names[Min(F)] = name
  BY <1>3, LeastIs
<1> DEFINE f == Min(F)  m == Min(inside)  c == ColumnNumber(name)
<1>9. CASE S = {}
  <2>1. inside = {}
    BY <1>5, <1>9
  <2>2. ASSUME F # {}, f - 1 >= row.first, f - 1 < row.last PROVE FALSE
    <3>1. f - 1 \in inside
      <4> HIDE DEF F
      <4>1. f \in Nat /\ f >= 1 /\ names[f] = name /\ (f - 1) + 1 = f
        BY <1>1, <1>8, <2>2
      <4> HIDE DEF f
      <4> QED
        BY <1>1, <2>2, <4>1
    <3> QED
      BY <2>1, <3>1
  <2>3. c = -1
    <3> HIDE DEF F, inside, c, n, f
    <3>1. c = IF n = -1 \/ n >= row.last THEN -1
              ELSE IF n >= row.first THEN n - row.first ELSE -1
      BY <1>7, <2>1 DEF c
    <3>2. CASE F = {}
      BY <3>1, <3>2, <1>6
    <3>3. CASE F # {}
      <4>1. n = f - 1 /\ f \in 1 .. Columns
        BY <1>6, <1>8, <3>3 DEF f
      <4> QED
        BY <1>1, <2>2, <3>1, <3>3, <4>1
    <3> QED
      BY <3>2, <3>3
  <2> QED
    BY <1>9, <2>3
<1>10. CASE S # {}
  <2> DEFINE s == Min(S)
  <2>1. s \in S /\ \A y \in S : s <= y
    BY <1>2, <1>10, LeastIs
  <2>2. s \in Nat /\ s >= 1 /\ s <= row.last - row.first
    BY <1>1, <1>2, <2>1
  <2>3. row.first + s \in F /\ row.first + s - 1 \in inside
    BY <1>4, <2>1
  <2>4. f \in F /\ f <= row.first + s /\ f \in Nat /\ f >= 1 /\ names[f] = name
    <3>1. F # {}
      BY <2>3
    <3> QED
      BY <1>1, <1>8, <2>3, <3>1
  <2>5. n = f - 1
    BY <1>6, <2>3
  <2>6. m = row.first + s - 1
    <3>1. \A y \in inside : row.first + s - 1 <= y
      <4> SUFFICES ASSUME NEW y \in inside PROVE row.first + s - 1 <= y
        OBVIOUS
      <4>1. y + 1 - row.first \in S /\ y \in Nat
        BY <1>3, <1>5
      <4>2. s <= y + 1 - row.first
        BY <2>1, <4>1
      <4> HIDE DEF s
      <4> QED
        BY <1>1, <2>2, <4>1, <4>2
    <3> HIDE DEF inside, s
    <3> QED
      BY <1>3, <2>3, <3>1, LeastIsThis
  <2>7. CASE f - 1 >= row.first
    <3>1. f - row.first \in S
      <4>1. f - 1 \in inside
        <5> HIDE DEF f, s
        <5>1. (f - 1) + 1 = f /\ f - 1 \in row.first .. row.last - 1
          BY <1>1, <2>2, <2>4, <2>7
        <5> QED
          BY <2>4, <5>1
      <4>2. (f - 1) + 1 - row.first \in S
        BY <1>5, <4>1
      <4> HIDE DEF f
      <4> QED
        BY <1>1, <2>4, <4>2
    <3>2. s <= f - row.first
      BY <2>1, <3>1
    <3>3. f = row.first + s
      <4> HIDE DEF f, s
      <4> QED
        BY <1>1, <2>2, <2>4, <3>2
    <3> HIDE DEF f, s, n, c
    <3> QED
      BY <1>1, <1>7, <1>10, <2>2, <2>5, <2>7, <3>3 DEF c, s
  <2>8. CASE f - 1 < row.first
    <3>1. inside # {}
      BY <2>3
    <3> HIDE DEF f, s, n, c, m, inside
    <3>2. n # -1 /\ n < row.first /\ n < row.last
      BY <1>1, <2>2, <2>4, <2>5, <2>8
    <3>3. c = m - row.first
      BY <1>1, <1>7, <3>1, <3>2, <2>4, <2>5 DEF c, m
    <3>4. c = s - 1
      BY <1>1, <2>2, <2>6, <3>3
    <3> QED
      BY <1>10, <3>4 DEF c, s
  <2> QED
    BY <1>1, <2>4, <2>7, <2>8
<1> QED
  BY <1>9, <1>10

LEMMA NamesFollow == RowFits => NamesFindTheirs
<1> SUFFICES ASSUME RowFits, NEW name \in ColumnName
             PROVE  ByName(name) = IF NamedIn(name) = {} THEN None
                                   ELSE cells[Min(NamedIn(name))]
  BY DEF NamesFindTheirs, NamedIn
<1>1. CASE NamedIn(name) = {}
  BY <1>1, NumberIs DEF ByName
<1>2. CASE NamedIn(name) # {}
  <2> DEFINE s == Min(NamedIn(name))
  <2>1. s \in 1 .. SizeOf(row)
    BY <1>2, NamedAre, LeastIs
  <2>2. ColumnNumber(name) = s - 1
    BY <1>2, NumberIs
  <2>3. SizeOf(row) \in Nat /\ cells[s] = FieldAt(row.index, row.first + (s - 1))
    BY <2>1, RowIs
  <2> HIDE DEF s
  <2>4. s - 1 # -1
    BY <2>1, <2>3
  <2>5. ByName(name) = cells[s]
    BY <2>2, <2>3, <2>4 DEF ByName
  <2> QED
    BY <1>2, <2>5 DEF s
<1> QED
  BY <1>1, <1>2

LEMMA WalksFollow == RowFits /\ WalkFits => WalksMeetEach
<1> SUFFICES ASSUME RowFits, WalkFits, walk # NoWalk PROVE WalksMeetEach
  BY DEF WalksMeetEach
<1> DEFINE over == walk.over  back == walk.back  spot == walk.at
           b == Begin(over)  e == End(over)  L == WalkLength
           nth == IF back THEN L - place ELSE place + 1
           end == EndOf(over, back)
           first == FirstOf(over, back)
<1>1. /\ L \in Nat /\ place \in Nat /\ place <= L /\ b \in Nat /\ e \in Nat /\ L = e - b
  BY LengthIs
<1>2. /\ over \in {"fields", "rows", "tuples"} /\ back \in BOOLEAN
      /\ spot \in Int /\ (over = "tuples" => ~back)
      /\ spot = IF back THEN e - 1 - place ELSE b + place
  BY WalkIs
<1>3. /\ end = IF back THEN b - 1 ELSE e
      /\ first = IF back THEN e - 1 ELSE b
  BY DEF EndOf, FirstOf, Reversed
<1>4. /\ Before(walk, end) <=> IF back THEN spot > end ELSE spot < end
      /\ Distance(walk, first) = IF back THEN first - spot ELSE spot - first
  BY DEF Before, Distance
<1>5. /\ place < L => (IF back THEN spot > end ELSE spot < end)
      /\ (spot = end) = (place = L)
      /\ (IF back THEN first - spot ELSE spot - first) = place
  <2> HIDE DEF over, back, spot, b, e, L, end, first
  <2>1. CASE back
    BY <1>1, <1>2, <1>3, <2>1
  <2>2. CASE ~back
    BY <1>1, <1>2, <1>3, <2>2
  <2> QED
    BY <2>1, <2>2
<1>6. ASSUME place < L, over = "fields"
      PROVE  Deref(walk) = cells[nth]
  <2>1. /\ row.first \in Nat /\ row.last \in Nat /\ row.first <= row.last
        /\ SizeOf(row) = row.last - row.first /\ Len(cells) = SizeOf(row)
        /\ \A i \in 1 .. SizeOf(row) : cells[i] = FieldAt(row.index, row.first + (i - 1))
    BY RowIs
  <2>2. b = row.first /\ e = row.last /\ L = SizeOf(row)
    BY <1>6, <2>1 DEF Begin, End, WalkLength
  <2>3. nth \in 1 .. SizeOf(row) /\ row.first + (nth - 1) = spot
    <3> HIDE DEF spot, b, e, L, back
    <3>1. /\ nth = (IF back THEN L - place ELSE place + 1)
          /\ spot = (IF back THEN e - 1 - place ELSE b + place)
          /\ place \in Nat /\ place < L /\ L \in Nat
      BY <1>1, <1>2, <1>6
    <3> HIDE DEF nth
    <3>2. CASE back
      BY <2>1, <2>2, <3>1, <3>2
    <3>3. CASE ~back
      BY <2>1, <2>2, <3>1, <3>3
    <3> QED
      BY <3>2, <3>3
  <2> HIDE DEF nth
  <2>4. cells[nth] = FieldAt(row.index, spot)
    BY <2>1, <2>3
  <2> QED
    BY <1>6, <2>4 DEF Deref
<1>7. ASSUME over # "fields"
      PROVE  /\ Deref(walk) = FieldAt(nth - 1, 0)
             /\ b = 0 /\ e = Rows /\ L = Rows
  <2>1. b = 0 /\ e = Rows /\ L = Rows /\ Rows \in Nat
    BY <1>7, ResultBounds DEF Begin, End, WalkLength, Rows
  <2>2. nth - 1 = spot
    <3> HIDE DEF spot, b, e, L, back
    <3>1. CASE back
      BY <1>1, <1>2, <2>1, <3>1
    <3>2. CASE ~back
      BY <1>1, <1>2, <2>1, <3>2
    <3> QED
      BY <3>1, <3>2
  <2> QED
    BY <1>7, <2>1, <2>2 DEF Deref
<1>8. ASSUME over = "tuples" PROVE IsHome(walk) = (place < L)
  <2>1. spot = place /\ L = Rows /\ place \in Nat
    <3>1. ~back /\ b = 0 /\ L = Rows
      BY <1>2, <1>7, <1>8
    <3> QED
      BY <1>1, <1>2, <3>1
  <2> QED
    BY <1>8, <2>1 DEF IsHome
<1>9. /\ place < L => /\ Deref(walk) = IF over = "fields" THEN cells[nth]
                                      ELSE FieldAt(nth - 1, 0)
                      /\ Before(walk, end)
      /\ (spot = end) = (place = L)
      /\ Distance(walk, first) = place
      /\ over = "tuples" => IsHome(walk) = (place < L)
  <2> HIDE DEF over, back, spot, b, e, L, end, first, nth
  <2> QED
    BY <1>4, <1>5, <1>6, <1>7, <1>8
<1> QED
  BY <1>9 DEF WalksMeetEach

LEMMA TypeFollows == ResultInv => ResultTypeOK
<1> SUFFICES ASSUME ResultInv PROVE ResultTypeOK
  OBVIOUS
<1>1. RowFits /\ WalkFits /\ failure.again \in BOOLEAN
  BY DEF ResultInv
<1>2. /\ row.index \in 0 .. Rows - 1
      /\ row.first \in 0 .. Columns /\ row.last \in row.first .. Columns
  BY <1>1, RowIs DEF RowFits, Row, Rows
<1>3. walk.over \in {"nothing", "fields", "rows", "tuples"}
  BY <1>1 DEF WalkFits
<1> DEFINE b == Begin(walk.over)  e == End(walk.over)
<1>4. walk.at \in IF walk.back THEN b - 1 .. e - 1 ELSE b .. e
  <2>1. CASE walk = NoWalk
    BY <2>1, ResultBounds DEF NoWalk, Begin, End, Rows
  <2>2. CASE walk # NoWalk
    <3>1. /\ walk.at \in Int /\ walk.back \in BOOLEAN
          /\ walk.at = IF walk.back THEN e - 1 - place ELSE b + place
      BY <1>1, <2>2, WalkIs
    <3>2. place \in Nat /\ place <= e - b /\ b \in Nat /\ e \in Nat
      BY <1>1, LengthIs
    <3> HIDE DEF b, e
    <3> QED
      BY <3>1, <3>2
  <2> QED
    BY <2>1, <2>2
<1> QED
  BY <1>1, <1>2, <1>3, <1>4 DEF ResultTypeOK, Reversed

(* Rows, slices and iterators hold together in every sequence of their       *)
(* operations, and so does what is remembered of the last failed result      *)
(* (row.cxx, result.cxx, result_iterator.hxx).                               *)
THEOREM ResultsAlwaysFit == ResultSpec => []ResultInv
<1>1. ResultInit => ResultInv
  BY ResultStarts
<1>2. ResultInv /\ [ResultNext]_resultVars => ResultInv'
  BY ResultKept
<1> QED
  BY <1>1, <1>2, PTL DEF ResultSpec

(* The types of PqResults: a row lies in its result, and an iterator between *)
(* its begin and its end.                                                    *)
THEOREM ResultsTyped == ResultSpec => []ResultTypeOK
<1>1. ResultInv => ResultTypeOK
  BY TypeFollows
<1> QED
  BY <1>1, ResultsAlwaysFit, PTL

(* Whatever was sliced from what, a row has the fields that were asked for,  *)
(* a name finds the first column of that name in the slice, iterators of     *)
(* either direction meet each field or row in its turn, and of what          *)
(* throw_sql_error throws, perform tries again after the transient errors    *)
(* alone (row.cxx, result.cxx, transactor.hxx).                              *)
THEOREM ResultsAlwaysFaithful == ResultSpec => []ResultsAreFaithful
<1>1. ResultInv => ResultsAreFaithful
  BY SlicesFollow, NamesFollow, WalksFollow DEF ResultInv, ResultsAreFaithful
<1> QED
  BY <1>1, ResultsAlwaysFit, PTL

-----------------------------------------------------------------------------

-----------------------------------------------------------------------------
(* Large objects. *)
Mine(b) == IsOpen(b) /\ ~blobs[b].old

(* Between transactions no descriptor is open, and every handle is old.      *)
Between ==
  block = "none" => /\ \A f \in Fd : fds[f].id = 0
                    /\ \A b \in Blob : IsOpen(b) => blobs[b].old

(* DescriptorsAreOwned, one handle and one descriptor at a time.             *)
Owned ==
  block = "open" /\ ~strayed =>
    /\ \A b \in Blob : Mine(b) => fds[blobs[b].fd].id # 0
    /\ \A f \in Fd : fds[f].id # 0 => \E b \in Blob : Mine(b) /\ blobs[b].fd = f
    /\ \A b, c \in Blob : Mine(b) /\ Mine(c) /\ blobs[b].fd = blobs[c].fd => b = c

BlobInv == BlobTypeOK /\ strayed \in BOOLEAN /\ Between /\ Owned /\ BufferHoldsRead

-----------------------------------------------------------------------------
LEMMA OwnedIs ==
  ASSUME BlobTypeOK, Owned
  PROVE  DescriptorsAreOwned
<1>1. \A b \in Blob : Mine(b) => blobs[b].fd \in Fd
  BY DEF BlobTypeOK, Mine, IsOpen, Handle, Fd
<1> SUFFICES ASSUME block = "open" /\ ~strayed
             PROVE  LET mine == {b \in Blob : IsOpen(b) /\ ~blobs[b].old}
                    IN /\ {blobs[b].fd : b \in mine} = {f \in Fd : fds[f].id # 0}
                       /\ \A b, c \in mine : blobs[b].fd = blobs[c].fd => b = c
  BY DEF DescriptorsAreOwned
<1> DEFINE mine == {b \in Blob : IsOpen(b) /\ ~blobs[b].old}
<1>2. \A b : b \in mine <=> b \in Blob /\ Mine(b)
  BY DEF Mine
<1> HIDE DEF mine
<1>3. {blobs[b].fd : b \in mine} \subseteq {f \in Fd : fds[f].id # 0}
  BY <1>1, <1>2 DEF Owned
<1>4. {f \in Fd : fds[f].id # 0} \subseteq {blobs[b].fd : b \in mine}
  BY <1>2 DEF Owned
<1>5. \A b, c \in mine : blobs[b].fd = blobs[c].fd => b = c
  BY <1>2 DEF Owned
<1> QED
  BY <1>3, <1>4, <1>5 DEF mine

(* lo_open finds a descriptor that is free.                                  *)
LEMMA FreeFdIsFree ==
  ASSUME BlobTypeOK
  PROVE  FreeFd \in Fd => fds[FreeFd].id = 0
<1> DEFINE free == {f \in Fd : fds[f].id = 0} \cup {MaxFd}
<1>1. free \subseteq Nat /\ MaxFd \in free /\ MaxFd \in Nat
  BY BlobAssumption DEF Fd
<1>2. \E x \in free : \A y \in free : x <= y
  <2> HIDE DEF free
  <2> DEFINE less == OpToRel(<, Nat)
  <2>1. \A x, y \in Nat : <<y, x>> \in less <=> y < x
    BY DEF OpToRel
  <2>2. IsWellFoundedOn(less, Nat)
    BY NatLessThanWellFounded
  <2> HIDE DEF less
  <2>3. PICK x \in free : \A y \in free : <<y, x>> \notin less
    BY <1>1, <2>2, WFMin
  <2>4. ASSUME NEW y \in free
        PROVE  x <= y
    <3>1. x \in Nat /\ y \in Nat
      BY <1>1
    <3>2. ~(y < x)
      BY <2>1, <2>3, <3>1
    <3> QED
      BY <3>1, <3>2
  <2> QED
    BY <2>4
<1>3. FreeFd \in free
  <2>1. FreeFd = CHOOSE x \in free : \A y \in free : x <= y
    BY DEF FreeFd, Min
  <2> HIDE DEF free
  <2> QED
    BY <1>2, <2>1
<1>4. MaxFd \notin Fd
  BY BlobAssumption DEF Fd
<1> QED
  BY <1>3, <1>4

LEMMA BlobFacts ==
  ASSUME BlobInv
  PROVE  /\ MaxSize \in Nat /\ ChunkLimit \in Nat /\ ChunkLimit <= MaxSize
         /\ MaxId \in Nat /\ MaxFd \in Nat
         /\ \A i \in Id : i \in Nat /\ i # 0
         /\ \A i \in Id : sizes[i] \in NoObject .. MaxSize /\ sizes[i] \in Int
         /\ \A f \in Fd : /\ fds[f] \in Descriptor /\ f # -1
                          /\ fds[f].pos \in Nat /\ fds[f].pos <= MaxSize
         /\ \A b \in Blob : IsOpen(b) => blobs[b].fd \in Fd
         /\ buf \in Nat /\ buf <= 2 * MaxSize
<1>1. /\ MaxSize \in Nat /\ ChunkLimit \in Nat /\ ChunkLimit <= MaxSize
      /\ MaxId \in Nat /\ MaxFd \in Nat
  BY BlobAssumption
<1>2. \A i \in Id : i \in Nat /\ i # 0
  BY <1>1 DEF Id
<1>3. \A i \in Id : sizes[i] \in NoObject .. MaxSize /\ sizes[i] \in Int
  BY <1>1 DEF BlobInv, BlobTypeOK, NoObject
<1>4. \A f \in Fd : /\ fds[f] \in Descriptor /\ f # -1
                    /\ fds[f].pos \in Nat /\ fds[f].pos <= MaxSize
  <2>1. \A f \in Fd : fds[f] \in Descriptor
    BY DEF BlobInv, BlobTypeOK
  <2>2. \A f \in Fd : fds[f].pos \in 0 .. MaxSize
    BY <2>1 DEF Descriptor
  <2>3. \A f \in Fd : f # -1
    BY <1>1 DEF Fd
  <2> QED
    BY <1>1, <2>1, <2>2, <2>3
<1>5. \A b \in Blob : IsOpen(b) => blobs[b].fd \in Fd
  BY <1>1 DEF BlobInv, BlobTypeOK, IsOpen, Handle, Fd
<1>6. buf \in Nat /\ buf <= 2 * MaxSize
  BY <1>1 DEF BlobInv, BlobTypeOK
<1> QED
  BY <1>1, <1>2, <1>3, <1>4, <1>5, <1>6

(* What the last transfer did, by the operators that say so.                 *)
LEMMA OutcomeTyped ==
  ASSUME NEW call \in {"none", "from_buf", "append_from_buf", "read", "append_to_buf"},
         NEW before \in (0 .. 2 * MaxSize) \cup Id, NEW count \in -1 .. MaxSize
  PROVE  /\ Did(call, before, count) =>
              /\ lastCall' \in CallOutcome /\ lastCall'.call = call
              /\ lastCall'.before = before /\ lastCall'.count = count
         /\ Threw(call, before) =>
              /\ lastCall' \in CallOutcome /\ lastCall'.thrown /\ lastCall'.call = call
              /\ lastCall'.before = before
         /\ Quiet => lastCall' \in CallOutcome /\ lastCall'.call = "none"
<1>1. 0 \in 0 .. 2 * MaxSize /\ 0 \in -1 .. MaxSize
  BY BlobAssumption
<1>2. ASSUME Did(call, before, count)
      PROVE  /\ lastCall' \in CallOutcome /\ lastCall'.call = call
             /\ lastCall'.before = before /\ lastCall'.count = count
  BY <1>2 DEF Did, CallOutcome
<1>3. ASSUME Threw(call, before)
      PROVE  /\ lastCall' \in CallOutcome /\ lastCall'.thrown /\ lastCall'.call = call
             /\ lastCall'.before = before
  BY <1>1, <1>3 DEF Threw, CallOutcome
<1>4. ASSUME Quiet
      PROVE  lastCall' \in CallOutcome /\ lastCall'.call = "none"
  BY <1>1, <1>4 DEF Quiet, Nothing, CallOutcome
<1> QED
  BY <1>2, <1>3, <1>4

(* A call that threw, and one that transfers nothing, say nothing of the     *)
(* buffer.                                                                   *)
LEMMA QuietHolds ==
  ASSUME Quiet
  PROVE  BufferHoldsRead'
<1>1. lastCall'.call = "none"
  BY DEF Quiet, Nothing
<1> QED
  BY <1>1, Zenon DEF BufferHoldsRead

LEMMA ThrewHolds ==
  ASSUME NEW call, NEW before, Threw(call, before)
  PROVE  BufferHoldsRead'
<1>1. lastCall'.thrown = TRUE
  BY DEF Threw
<1> QED
  BY <1>1, Zenon DEF BufferHoldsRead

(* The invariant of descriptors is of these variables only.                  *)
LEMMA DescriptorsStay ==
  ASSUME BlobInv, strayed' \in BOOLEAN, strayed => strayed',
         UNCHANGED blobs, block' = block \/ (block = "open" /\ block' = "failed"),
         \A f \in Fd : fds'[f].id = fds[f].id
  PROVE  Between' /\ Owned'
<1>1. Between'
  BY DEF BlobInv, Between, IsOpen
<1>2. CASE block' # "open" \/ strayed'
  BY <1>1, <1>2 DEF Owned
<1>3. CASE block' = "open" /\ ~strayed'
  <2>1. /\ \A b \in Blob : Mine(b) => fds[blobs[b].fd].id # 0 /\ blobs[b].fd \in Fd
        /\ \A f \in Fd : fds[f].id # 0 => \E b \in Blob : Mine(b) /\ blobs[b].fd = f
        /\ \A b, c \in Blob : Mine(b) /\ Mine(c) /\ blobs[b].fd = blobs[c].fd => b = c
    BY <1>3, BlobFacts DEF BlobInv, Owned, Mine
  <2>2. \A b \in Blob : Mine(b)' <=> Mine(b)
    BY DEF Mine, IsOpen
  <2> QED
    BY <1>1, <2>1, <2>2 DEF Owned
<1> QED
  BY <1>1, <1>2, <1>3

(* A call that leaves the handles alone, and opens and closes no descriptor  *)
(* that it does not close and open again.                                    *)
LEMMA HandlesStay ==
  ASSUME BlobInv, UNCHANGED blobs,
         block' = block \/ (block = "open" /\ block' = "failed"),
         sizes' \in [Id -> NoObject .. MaxSize], fds' \in [Fd -> Descriptor],
         \A f \in Fd : fds'[f].id = fds[f].id,
         buf' \in 0 .. 2 * MaxSize, lastCall' \in CallOutcome,
         strayed' \in BOOLEAN, strayed => strayed', BufferHoldsRead'
  PROVE  BlobInv'
<1>1. BlobTypeOK'
  BY DEF BlobInv, BlobTypeOK
<1> QED
  BY <1>1, DescriptorsStay DEF BlobInv

LEMMA UsesIs ==
  ASSUME BlobInv, NEW b \in Blob, Uses(b)
  PROVE  strayed' \in BOOLEAN /\ (strayed => strayed') /\ (~strayed' => ~blobs[b].old)
<1>1. strayed \in BOOLEAN /\ blobs[b].old \in BOOLEAN
  BY DEF BlobInv, BlobTypeOK, Handle
<1>2. strayed' = (strayed \/ blobs[b].old)
  BY DEF Uses
<1> QED
  BY <1>1, <1>2, Zenon

LEMMA ErrsIs ==
  ASSUME BlobInv, Errs
  PROVE  /\ block' = block \/ (block = "open" /\ block' = "failed")
         /\ sizes' \in [Id -> NoObject .. MaxSize] /\ fds' \in [Fd -> Descriptor]
         /\ \A f \in Fd : fds'[f].id = fds[f].id
  BY DEF Errs, BlobInv, BlobTypeOK

LEMMA StillTyped ==
  ASSUME BlobInv
  PROVE  /\ sizes \in [Id -> NoObject .. MaxSize] /\ fds \in [Fd -> Descriptor]
         /\ buf \in 0 .. 2 * MaxSize /\ strayed \in BOOLEAN /\ blobs \in [Blob -> Handle]
         /\ 0 \in 0 .. 2 * MaxSize /\ 0 \in -1 .. MaxSize
  BY BlobAssumption DEF BlobInv, BlobTypeOK

(* Of an object, another size. *)
LEMMA ResizedTyped ==
  ASSUME BlobInv, NEW oid \in Id, NEW n \in NoObject .. MaxSize
  PROVE  [sizes EXCEPT ![oid] = n] \in [Id -> NoObject .. MaxSize]
  BY StillTyped

(* Of a descriptor, another position. *)
LEMMA MovedTyped ==
  ASSUME BlobInv, NEW f \in Fd, NEW n \in 0 .. MaxSize,
         fds' = [fds EXCEPT ![f].pos = n]
  PROVE  /\ fds' \in [Fd -> Descriptor] /\ \A g \in Fd : fds'[g].id = fds[g].id
<1>1. \A g \in Fd : fds[g] \in Descriptor
  BY StillTyped
<1>2. fds' = [g \in Fd |-> IF g = f THEN [fds[f] EXCEPT !.pos = n] ELSE fds[g]]
  BY StillTyped
<1>3. [fds[f] EXCEPT !.pos = n] \in Descriptor /\ [fds[f] EXCEPT !.pos = n].id = fds[f].id
  BY <1>1 DEF Descriptor
<1> QED
  BY <1>1, <1>2, <1>3

-----------------------------------------------------------------------------
LEMMA BeginTransactionKeeps ==
  ASSUME BlobInv, BeginTransaction
  PROVE  BlobInv'
<1>1. /\ block = "none" /\ block' = "open" /\ UNCHANGED <<fds, blobs, buf, strayed>>
      /\ sizes' \in [Id -> {NoObject, 0, MaxSize}] /\ Quiet
  BY DEF BeginTransaction
<1>2. sizes' \in [Id -> NoObject .. MaxSize]
  <2>1. {NoObject, 0, MaxSize} \subseteq NoObject .. MaxSize
    BY BlobAssumption DEF NoObject
  <2> QED
    BY <1>1, <2>1
<1>3. lastCall' \in CallOutcome
  BY <1>1, StillTyped, OutcomeTyped
<1>4. BlobTypeOK'
  BY <1>1, <1>2, <1>3 DEF BlobInv, BlobTypeOK
<1>5. Between'
  BY <1>1 DEF Between
<1>6. Owned'
  <2>1. (\A f \in Fd : fds[f].id = 0) /\ \A b \in Blob : ~Mine(b)
    BY <1>1 DEF BlobInv, Between, Mine
  <2>2. \A b \in Blob : ~Mine(b)'
    BY <1>1, <2>1 DEF Mine, IsOpen
  <2> QED
    BY <1>1, <2>1, <2>2 DEF Owned
<1> QED
  BY <1>1, <1>4, <1>5, <1>6, QuietHolds, StillTyped DEF BlobInv

LEMMA FinishKeeps ==
  ASSUME BlobInv, Finish
  PROVE  BlobInv'
<1>1. /\ block' = "none" /\ fds' = [f \in Fd |-> Unused]
      /\ sizes' = [i \in Id |-> NoObject] /\ Quiet /\ UNCHANGED <<buf, strayed>>
      /\ blobs' = [b \in Blob |-> [blobs[b] EXCEPT !.old = blobs[b].conn]]
  BY DEF Finish
<1>2. sizes' \in [Id -> NoObject .. MaxSize]
  BY <1>1, BlobAssumption DEF NoObject
<1>3. Unused \in Descriptor /\ Unused.id = 0
  BY BlobAssumption DEF Unused, Descriptor
<1>4. \A b \in Blob : /\ blobs'[b] \in Handle /\ blobs'[b].conn = blobs[b].conn
                      /\ blobs'[b].fd = blobs[b].fd /\ blobs'[b].old = blobs[b].conn
  <2>1. \A b \in Blob : blobs[b] \in Handle
    BY StillTyped
  <2> QED
    BY <1>1, <2>1 DEF Handle
<1>5. lastCall' \in CallOutcome
  BY <1>1, StillTyped, OutcomeTyped
<1>6. BlobTypeOK'
  <2>1. blobs' \in [Blob -> Handle]
    BY <1>1, <1>4
  <2> QED
    BY <1>1, <1>2, <1>3, <1>4, <1>5, <2>1 DEF BlobInv, BlobTypeOK
<1>7. Between'
  BY <1>1, <1>3, <1>4 DEF Between, IsOpen
<1>8. Owned'
  BY <1>1 DEF Owned
<1> QED
  BY <1>1, <1>6, <1>7, <1>8, QuietHolds, StillTyped DEF BlobInv

LEMMA ObjectsKeep ==
  ASSUME BlobInv, Create \/ RemoveObject \/ FromFile
  PROVE  BlobInv'
<1>1. Quiet /\ UNCHANGED <<blobs, buf, strayed>>
  BY DEF Create, RemoveObject, FromFile
<1>2. CASE Errs
  BY <1>1, <1>2, ErrsIs, StillTyped, OutcomeTyped, QuietHolds, HandlesStay
<1>3. CASE /\ Works /\ UNCHANGED fds
           /\ \E oid \in Id, n \in {NoObject, 0, MaxSize} : sizes' = [sizes EXCEPT ![oid] = n]
  <2>1. {NoObject, 0, MaxSize} \subseteq NoObject .. MaxSize
    BY BlobAssumption DEF NoObject
  <2>2. sizes' \in [Id -> NoObject .. MaxSize]
    BY <1>3, <2>1, ResizedTyped
  <2>3. block' = block
    BY <1>3 DEF Works
  <2> QED
    BY <1>1, <1>3, <2>2, <2>3, StillTyped, OutcomeTyped, QuietHolds, HandlesStay
<1> QED
  BY <1>2, <1>3 DEF Create, RemoveObject, FromFile

LEMMA OpenBlobKeeps ==
  ASSUME BlobInv, OpenBlob
  PROVE  BlobInv'
<1>1. Quiet /\ UNCHANGED <<buf, strayed>>
  BY DEF OpenBlob
<1>2. CASE Errs /\ UNCHANGED blobs
  BY <1>1, <1>2, ErrsIs, StillTyped, OutcomeTyped, QuietHolds, HandlesStay
<1>3. ASSUME Works, FreeFd \in Fd, UNCHANGED sizes, NEW b \in Blob, NEW oid \in Id,
             NEW writes \in BOOLEAN, blobs[b] = Useless, Exists(oid),
             fds' = [fds EXCEPT ![FreeFd] = [id |-> oid, pos |-> 0, writes |-> writes]],
             blobs' = [blobs EXCEPT ![b] = [conn |-> TRUE, fd |-> FreeFd, old |-> FALSE]]
      PROVE  BlobInv'
  <2>1. PICK new \in Fd : new = FreeFd /\ fds[new].id = 0
    BY <1>3, FreeFdIsFree DEF BlobInv
  <2>2. block = "open" /\ block' = "open"
    BY <1>3 DEF Works
  <2>3. /\ fds' \in [Fd -> Descriptor] /\ fds'[new].id = oid /\ oid # 0
        /\ \A f \in Fd \ {new} : fds'[f] = fds[f]
    <3>1. [id |-> oid, pos |-> 0, writes |-> writes] \in Descriptor
      BY BlobFacts DEF Descriptor, Id
    <3> QED
      BY <1>3, <2>1, <3>1, StillTyped, BlobFacts
  <2>4. /\ blobs' \in [Blob -> Handle]
        /\ blobs'[b].conn /\ blobs'[b].fd = new /\ ~blobs'[b].old
        /\ \A c \in Blob \ {b} : blobs'[c] = blobs[c]
    <3>1. [conn |-> TRUE, fd |-> new, old |-> FALSE] \in Handle
      BY BlobAssumption DEF Handle, Fd
    <3> QED
      BY <1>3, <2>1, <3>1, StillTyped
  <2>5. new # -1 /\ ~IsOpen(b)
    BY <1>3, BlobFacts DEF IsOpen, Useless
  <2>6. BlobTypeOK'
    <3>1. \A c \in Blob : blobs'[c].conn <=> blobs'[c].fd # -1
      BY <2>4, <2>5 DEF BlobInv, BlobTypeOK
    <3>2. lastCall' \in CallOutcome
      BY <1>1, StillTyped, OutcomeTyped
    <3> QED
      BY <1>1, <1>3, <2>2, <2>3, <2>4, <3>1, <3>2 DEF BlobInv, BlobTypeOK
  <2>7. Between'
    BY <2>2 DEF Between
  <2>8. Owned'
    <3> SUFFICES ASSUME ~strayed'
                 PROVE  Owned'
      BY DEF Owned
    <3>1. Mine(b)' /\ \A c \in Blob \ {b} : Mine(c)' <=> Mine(c)
      BY <2>4 DEF Mine, IsOpen
    <3>2. /\ \A c \in Blob : Mine(c) => fds[blobs[c].fd].id # 0
          /\ \A f \in Fd : fds[f].id # 0 => \E c \in Blob : Mine(c) /\ blobs[c].fd = f
          /\ \A c, d \in Blob : Mine(c) /\ Mine(d) /\ blobs[c].fd = blobs[d].fd => c = d
      BY <1>1, <2>2 DEF BlobInv, Owned
    <3>3. \A c \in Blob : Mine(c) => c # b /\ blobs[c].fd \in Fd \ {new}
      BY <2>1, <2>5, <3>2, BlobFacts DEF Mine
    <3>4. \A c \in Blob : Mine(c)' => fds'[blobs'[c].fd].id # 0
      BY <2>3, <2>4, <3>1, <3>2, <3>3
    <3>5. ASSUME NEW f \in Fd, fds'[f].id # 0
          PROVE  \E c \in Blob : Mine(c)' /\ blobs'[c].fd = f
      <4>1. CASE f = new
        BY <2>4, <3>1, <4>1
      <4>2. CASE f # new
        <5>1. PICK c \in Blob : Mine(c) /\ blobs[c].fd = f
          BY <2>3, <3>2, <3>5, <4>2
        <5> QED
          BY <2>4, <3>1, <3>3, <5>1
      <4> QED
        BY <4>1, <4>2
    <3>6. \A c, d \in Blob : Mine(c)' /\ Mine(d)' /\ blobs'[c].fd = blobs'[d].fd => c = d
      BY <2>4, <3>1, <3>2, <3>3
    <3> QED
      BY <3>4, <3>5, <3>6 DEF Owned
  <2> QED
    BY <1>1, <2>6, <2>7, <2>8, QuietHolds, StillTyped DEF BlobInv
<1> QED
  BY <1>2, <1>3 DEF OpenBlob

(* lo_close of what a handle has. *)
LEMMA CloseIs ==
  ASSUME BlobInv, NEW b \in Blob, blobs[b].fd # -1, LoClose(blobs[b].fd), Uses(b)
  PROVE  /\ block' \in {"none", "open", "failed"} /\ sizes' = sizes
         /\ fds' \in [Fd -> Descriptor] /\ strayed' \in BOOLEAN
         /\ block' = "none" => block = "none" /\ fds' = fds
         /\ block' = "open" /\ ~strayed' =>
              /\ block = "open" /\ ~strayed /\ Mine(b)
              /\ fds'[blobs[b].fd].id = 0
              /\ \A f \in Fd \ {blobs[b].fd} : fds'[f] = fds[f]
<1>1. PICK f \in Fd : f = blobs[b].fd /\ IsOpen(b)
  BY BlobFacts DEF BlobInv, BlobTypeOK, IsOpen
<1>2. /\ strayed' \in BOOLEAN /\ (strayed => strayed') /\ (~strayed' => ~blobs[b].old)
  BY UsesIs
<1>3. CASE block = "open" /\ fds[f].id # 0
  <2>1. fds' = [fds EXCEPT ![f] = Unused] /\ UNCHANGED <<block, sizes>>
    BY <1>1, <1>3 DEF LoClose
  <2>2. Unused \in Descriptor /\ Unused.id = 0
    BY BlobAssumption DEF Unused, Descriptor
  <2>3. /\ fds' \in [Fd -> Descriptor] /\ fds'[f].id = 0
        /\ \A g \in Fd \ {f} : fds'[g] = fds[g]
    BY <2>1, <2>2, StillTyped
  <2> QED
    BY <1>1, <1>2, <1>3, <2>1, <2>3 DEF Mine
<1>4. CASE ~(block = "open" /\ fds[f].id # 0)
  <2>1. /\ block' = IF block = "none" THEN block ELSE "failed"
        /\ UNCHANGED <<fds, sizes>>
    BY <1>1, <1>4 DEF LoClose
  <2> QED
    BY <1>2, <2>1, StillTyped
<1> QED
  BY <1>3, <1>4

LEMMA CloseBlobKeeps ==
  ASSUME BlobInv, CloseBlob
  PROVE  BlobInv'
<1>1. Quiet /\ UNCHANGED buf
  BY DEF CloseBlob
<1>2. PICK b \in Blob : /\ blobs[b].fd # -1 /\ LoClose(blobs[b].fd) /\ Uses(b)
                        /\ blobs' = [blobs EXCEPT ![b] = Useless]
  BY DEF CloseBlob
<1>3. PICK f : f = blobs[b].fd
  OBVIOUS
<1>4. /\ block' \in {"none", "open", "failed"} /\ sizes' = sizes
      /\ fds' \in [Fd -> Descriptor] /\ strayed' \in BOOLEAN
      /\ block' = "none" => block = "none" /\ fds' = fds
      /\ block' = "open" /\ ~strayed' =>
           /\ block = "open" /\ ~strayed /\ Mine(b) /\ fds'[f].id = 0
           /\ \A g \in Fd \ {f} : fds'[g] = fds[g]
  BY <1>2, <1>3, CloseIs
<1>5. Useless \in Handle /\ ~Useless.conn /\ Useless.fd = -1
  BY BlobAssumption DEF Useless, Handle
<1>6. /\ blobs' \in [Blob -> Handle] /\ blobs'[b] = Useless
      /\ \A c \in Blob \ {b} : blobs'[c] = blobs[c]
  BY <1>2, <1>5, StillTyped
<1>7. BlobTypeOK'
  <2>1. \A c \in Blob : blobs'[c].conn <=> blobs'[c].fd # -1
    BY <1>5, <1>6 DEF BlobInv, BlobTypeOK
  <2>2. lastCall' \in CallOutcome
    BY <1>1, StillTyped, OutcomeTyped
  <2> QED
    BY <1>1, <1>4, <1>6, <2>1, <2>2 DEF BlobInv, BlobTypeOK
<1>8. Between'
  BY <1>4, <1>5, <1>6 DEF BlobInv, Between, IsOpen
<1>9. Owned'
  <2> SUFFICES ASSUME block' = "open", ~strayed'
               PROVE  Owned'
    BY DEF Owned
  <2>1. \A c \in Blob : Mine(c)' <=> c # b /\ Mine(c)
    BY <1>5, <1>6 DEF Mine, IsOpen
  <2>2. /\ \A c \in Blob : Mine(c) => fds[blobs[c].fd].id # 0 /\ blobs[c].fd \in Fd
        /\ \A g \in Fd : fds[g].id # 0 => \E c \in Blob : Mine(c) /\ blobs[c].fd = g
        /\ \A c, d \in Blob : Mine(c) /\ Mine(d) /\ blobs[c].fd = blobs[d].fd => c = d
    BY <1>4, BlobFacts DEF BlobInv, Owned, Mine
  <2>3. \A c \in Blob : Mine(c)' => blobs'[c].fd = blobs[c].fd /\ blobs[c].fd \in Fd \ {f}
    BY <1>3, <1>4, <1>6, <2>1, <2>2
  <2>4. \A c \in Blob : Mine(c)' => fds'[blobs'[c].fd].id # 0
    BY <1>4, <2>1, <2>2, <2>3
  <2>5. ASSUME NEW g \in Fd, fds'[g].id # 0
        PROVE  \E c \in Blob : Mine(c)' /\ blobs'[c].fd = g
    <3>1. g # f /\ fds[g].id # 0
      BY <1>4, <2>5
    <3>2. PICK c \in Blob : Mine(c) /\ blobs[c].fd = g
      BY <2>2, <3>1
    <3> QED
      BY <1>3, <1>6, <2>1, <3>1, <3>2
  <2>6. \A c, d \in Blob : Mine(c)' /\ Mine(d)' /\ blobs'[c].fd = blobs'[d].fd => c = d
    BY <2>1, <2>2, <2>3
  <2> QED
    BY <2>4, <2>5, <2>6 DEF Owned
<1> QED
  BY <1>4, <1>7, <1>8, <1>9, <1>1, QuietHolds DEF BlobInv

(* A handle is moved into another one, whose descriptor is closed first.     *)
LEMMA MoveBlobKeeps ==
  ASSUME BlobInv, MoveBlob
  PROVE  BlobInv'
<1>1. Quiet /\ UNCHANGED buf
  BY DEF MoveBlob
<1>2. PICK b \in Blob, c \in Blob :
        b # c /\ IsOpen(c) /\ CloseBefore(b) /\ blobs' = MovedFrom(b, c)
  BY DEF MoveBlob
<1>3. PICK f : f = blobs[b].fd
  OBVIOUS
<1>4. /\ block' \in {"none", "open", "failed"} /\ sizes' = sizes
      /\ fds' \in [Fd -> Descriptor] /\ strayed' \in BOOLEAN
      /\ block' = "none" => block = "none" /\ fds' = fds
      /\ block' = "open" /\ ~strayed' =>
           /\ block = "open" /\ ~strayed
           /\ f # -1 => Mine(b) /\ fds'[f].id = 0
           /\ f = -1 => ~Mine(b)
           /\ \A g \in Fd \ {f} : fds'[g] = fds[g]
  <2>1. CASE f = -1
    <3>1. UNCHANGED <<block, fds, sizes, strayed>>
      BY <1>2, <1>3, <2>1 DEF CloseBefore
    <3>2. ~IsOpen(b) /\ block \in {"none", "open", "failed"}
      BY <1>3, <2>1 DEF BlobInv, BlobTypeOK, IsOpen
    <3> QED
      BY <2>1, <3>1, <3>2, StillTyped DEF Mine
  <2>2. CASE f # -1
    BY <1>2, <1>3, <2>2, CloseIs DEF CloseBefore
  <2> QED
    BY <2>1, <2>2
<1>5. Useless \in Handle /\ ~Useless.conn /\ Useless.fd = -1
  BY BlobAssumption DEF Useless, Handle
<1>6. /\ blobs' \in [Blob -> Handle] /\ blobs'[c] = Useless /\ blobs'[b] = blobs[c]
      /\ \A d \in Blob \ {b, c} : blobs'[d] = blobs[d]
  BY <1>2, <1>5, StillTyped DEF MovedFrom
<1>7. BlobTypeOK'
  <2>1. \A d \in Blob : blobs'[d].conn <=> blobs'[d].fd # -1
    BY <1>2, <1>5, <1>6 DEF BlobInv, BlobTypeOK
  <2>2. lastCall' \in CallOutcome
    BY <1>1, StillTyped, OutcomeTyped
  <2> QED
    BY <1>1, <1>4, <1>6, <2>1, <2>2 DEF BlobInv, BlobTypeOK
<1>8. Between'
  <2>1. ASSUME block' = "none", NEW d \in Blob, IsOpen(d)'
        PROVE  blobs'[d].old
    <3>1. \A e \in Blob : IsOpen(e) => blobs[e].old
      BY <1>4, <2>1 DEF BlobInv, Between
    <3> QED
      BY <1>2, <1>5, <1>6, <2>1, <3>1 DEF IsOpen
  <2> QED
    BY <1>4, <2>1 DEF BlobInv, Between
<1>9. Owned'
  <2> SUFFICES ASSUME block' = "open", ~strayed'
               PROVE  Owned'
    BY DEF Owned
  <2>1. /\ ~Mine(c)' /\ (Mine(b)' <=> Mine(c))
        /\ \A d \in Blob \ {b, c} : Mine(d)' <=> Mine(d)
    BY <1>2, <1>5, <1>6 DEF Mine, IsOpen
  <2>2. /\ \A d \in Blob : Mine(d) => fds[blobs[d].fd].id # 0 /\ blobs[d].fd \in Fd
        /\ \A g \in Fd : fds[g].id # 0 => \E d \in Blob : Mine(d) /\ blobs[d].fd = g
        /\ \A d, e \in Blob : Mine(d) /\ Mine(e) /\ blobs[d].fd = blobs[e].fd => d = e
    BY <1>4, BlobFacts DEF BlobInv, Owned, Mine
  <2>3. -1 \notin Fd
    BY BlobFacts
  <2>4. \A d \in Blob : d # b /\ Mine(d) => blobs[d].fd \in Fd \ {f}
    BY <1>3, <1>4, <2>2, <2>3
  <2>5. ASSUME NEW d \in Blob, Mine(d)'
        PROVE  /\ fds'[blobs'[d].fd].id # 0
    <3>1. CASE d = b
      <4>1. blobs'[d].fd = blobs[c].fd /\ Mine(c) /\ blobs[c].fd \in Fd \ {f}
        BY <1>2, <1>6, <2>1, <2>4, <2>5, <3>1
      <4> QED
        BY <1>4, <2>2, <4>1
    <3>2. CASE d # b
      <4>1. d # c /\ Mine(d) /\ blobs'[d].fd = blobs[d].fd /\ blobs[d].fd \in Fd \ {f}
        BY <1>6, <2>1, <2>4, <2>5, <3>2
      <4> QED
        BY <1>4, <2>2, <4>1
    <3> QED
      BY <3>1, <3>2
  <2>6. ASSUME NEW g \in Fd, fds'[g].id # 0
        PROVE  \E d \in Blob : Mine(d)' /\ blobs'[d].fd = g
    <3>1. g # f /\ fds[g].id # 0
      BY <1>4, <2>3, <2>6
    <3>2. PICK d \in Blob : Mine(d) /\ blobs[d].fd = g
      BY <2>2, <3>1
    <3>3. d # b
      BY <1>3, <3>1, <3>2
    <3>4. CASE d = c
      BY <1>6, <2>1, <3>2, <3>4
    <3>5. CASE d # c
      BY <1>6, <2>1, <3>2, <3>3, <3>5
    <3> QED
      BY <3>4, <3>5
  <2>7. ASSUME NEW d \in Blob, NEW e \in Blob, Mine(d)', Mine(e)', blobs'[d].fd = blobs'[e].fd
        PROVE  d = e
    <3>1. d # c /\ e # c
      BY <2>1, <2>7
    <3>2. PICK x \in Blob, y \in Blob :
            /\ x = (IF d = b THEN c ELSE d) /\ y = (IF e = b THEN c ELSE e)
      OBVIOUS
    <3>3. Mine(x) /\ Mine(y) /\ blobs[x].fd = blobs[y].fd
      BY <1>6, <2>1, <2>7, <3>1, <3>2
    <3>4. x = y
      BY <2>2, <3>3
    <3> QED
      BY <3>1, <3>2, <3>4
  <2> QED
    BY <2>5, <2>6, <2>7 DEF Owned
<1> QED
  BY <1>4, <1>7, <1>8, <1>9, <1>1, QuietHolds DEF BlobInv

-----------------------------------------------------------------------------
LEMMA ReadHolds ==
  ASSUME NEW n, Did("read", 0, n), buf' = n
  PROVE  BufferHoldsRead'
<1>1. lastCall'.call = "read" /\ lastCall'.count = n
  BY DEF Did
<1> QED
  BY <1>1, Zenon DEF BufferHoldsRead

LEMMA AppendHolds ==
  ASSUME NEW n, Did("append_to_buf", buf, n), n # -1 => buf' = buf + n
  PROVE  BufferHoldsRead'
<1>1. /\ lastCall'.call = "append_to_buf" /\ lastCall'.count = n
      /\ lastCall'.before = buf
  BY DEF Did
<1>2. "append_to_buf" # "read"
  OBVIOUS
<1> QED
  BY <1>1, <1>2, Zenon DEF BufferHoldsRead

LEMMA WrittenHolds ==
  ASSUME NEW call \in {"from_buf", "append_from_buf"}, NEW n, NEW before,
         Did(call, before, n)
  PROVE  BufferHoldsRead'
<1>1. lastCall'.call = call /\ call # "read" /\ call # "append_to_buf"
  BY DEF Did
<1> QED
  BY <1>1, Zenon DEF BufferHoldsRead

(* How much there is to read. *)
LEMMA ReadBounds ==
  ASSUME NEW asked \in 0 .. MaxSize, NEW size \in 0 .. MaxSize, NEW pos \in 0 .. MaxSize
  PROVE  LET n == Least(asked, Most(size - pos, 0))
         IN n \in 0 .. asked /\ pos + n \in 0 .. MaxSize
  BY BlobAssumption DEF Least, Most

LEMMA ReadKeeps ==
  ASSUME BlobInv, Read
  PROVE  BlobInv'
<1>1. PICK b \in Blob, asked \in 0 .. MaxSize :
        /\ IsOpen(b) /\ Uses(b)
        /\ \/ /\ asked > ChunkLimit /\ Threw("read", 0)
              /\ UNCHANGED <<block, sizes, fds, buf>>
           \/ asked <= ChunkLimit /\ Errs /\ buf' = asked /\ Threw("read", 0)
           \/ /\ asked <= ChunkLimit /\ Works /\ Exists(Its(b).id)
              /\ LET n == Least(asked, Most(sizes[Its(b).id] - Its(b).pos, 0))
                 IN /\ fds' = [fds EXCEPT ![blobs[b].fd].pos = @ + n]
                    /\ buf' = SizeAfter(asked, n) /\ Did("read", 0, n)
              /\ UNCHANGED sizes
  BY DEF Read
<1>2. UNCHANGED blobs
  BY DEF Read
<1>3. strayed' \in BOOLEAN /\ (strayed => strayed')
  BY <1>1, UsesIs
<1>4. asked \in 0 .. 2 * MaxSize
  BY BlobAssumption
<1>5. CASE Threw("read", 0) /\ UNCHANGED <<block, sizes, fds, buf>>
  BY <1>2, <1>3, <1>5, StillTyped, OutcomeTyped, ThrewHolds, HandlesStay
<1>6. CASE Errs /\ buf' = asked /\ Threw("read", 0)
  BY <1>2, <1>3, <1>4, <1>6, ErrsIs, StillTyped, OutcomeTyped, ThrewHolds, HandlesStay
<1>7. CASE /\ Works /\ Exists(Its(b).id) /\ UNCHANGED sizes
           /\ LET n == Least(asked, Most(sizes[Its(b).id] - Its(b).pos, 0))
              IN /\ fds' = [fds EXCEPT ![blobs[b].fd].pos = @ + n]
                 /\ buf' = SizeAfter(asked, n) /\ Did("read", 0, n)
  <2>1. PICK f \in Fd : f = blobs[b].fd
    BY <1>1, BlobFacts
  <2>2. sizes[fds[f].id] \in 0 .. MaxSize /\ fds[f].pos \in 0 .. MaxSize
    <3>1. fds[f].id \in Id /\ sizes[fds[f].id] # NoObject
      BY <1>7, <2>1, Zenon DEF Exists, Its
    <3>2. PICK m \in NoObject .. MaxSize : m = sizes[fds[f].id]
      BY <3>1, BlobFacts, Zenon
    <3>3. m \in 0 .. MaxSize
      BY <3>1, <3>2 DEF NoObject
    <3>4. fds[f].pos \in 0 .. MaxSize
      BY <2>1, BlobFacts
    <3> QED
      BY <3>2, <3>3, <3>4, Zenon
  <2>3. PICK n \in 0 .. asked : /\ n = Least(asked, Most(sizes[fds[f].id] - fds[f].pos, 0))
                                /\ fds[f].pos + n \in 0 .. MaxSize
    BY <2>2, ReadBounds
  <2>4. fds' = [fds EXCEPT ![f].pos = fds[f].pos + n] /\ buf' = n /\ Did("read", 0, n)
    BY <1>7, <2>1, <2>3, StillTyped DEF Its, SizeAfter
  <2>5. n \in -1 .. MaxSize /\ n \in 0 .. 2 * MaxSize
    BY <1>4, BlobAssumption
  <2>6. fds' \in [Fd -> Descriptor] /\ \A g \in Fd : fds'[g].id = fds[g].id
    BY <2>3, <2>4, MovedTyped
  <2>7. lastCall' \in CallOutcome
    BY <2>4, <2>5, StillTyped, OutcomeTyped
  <2>8. BufferHoldsRead'
    BY <2>4, ReadHolds
  <2> QED
    BY <1>2, <1>3, <1>7, <2>4, <2>5, <2>6, <2>7, <2>8, StillTyped, HandlesStay DEF Works
<1> QED
  BY <1>1, <1>5, <1>6, <1>7

LEMMA SeekKeeps ==
  ASSUME BlobInv, Seek
  PROVE  BlobInv'
<1>1. PICK b \in Blob, to \in 0 .. MaxSize :
        /\ IsOpen(b) /\ Uses(b)
        /\ \/ Errs
           \/ /\ Works /\ Its(b).id # 0 /\ UNCHANGED sizes
              /\ fds' = [fds EXCEPT ![blobs[b].fd].pos = to]
  BY DEF Seek
<1>2. Quiet /\ UNCHANGED <<blobs, buf>>
  BY DEF Seek
<1>3. strayed' \in BOOLEAN /\ (strayed => strayed')
  BY <1>1, UsesIs
<1>4. CASE Errs
  BY <1>2, <1>3, <1>4, ErrsIs, StillTyped, OutcomeTyped, QuietHolds, HandlesStay
<1>5. CASE /\ Works /\ UNCHANGED sizes /\ fds' = [fds EXCEPT ![blobs[b].fd].pos = to]
  <2>1. PICK f \in Fd : f = blobs[b].fd
    BY <1>1, BlobFacts
  <2>2. fds' \in [Fd -> Descriptor] /\ \A g \in Fd : fds'[g].id = fds[g].id
    BY <1>5, <2>1, MovedTyped
  <2> QED
    BY <1>2, <1>3, <1>5, <2>2, StillTyped, OutcomeTyped, QuietHolds, HandlesStay DEF Works
<1> QED
  BY <1>1, <1>4, <1>5

LEMMA WriteKeeps ==
  ASSUME BlobInv, Write
  PROVE  BlobInv'
<1>1. PICK b \in Blob, n \in 0 .. ChunkLimit :
        /\ IsOpen(b) /\ Uses(b)
        /\ \/ Errs
           \/ /\ Works /\ Its(b).writes /\ Exists(Its(b).id) /\ Its(b).pos + n <= MaxSize
              /\ fds' = [fds EXCEPT ![blobs[b].fd].pos = @ + n]
              /\ sizes' = [sizes EXCEPT ![Its(b).id] = Most(@, Its(b).pos + n)]
  BY DEF Write
<1>2. Quiet /\ UNCHANGED <<blobs, buf>>
  BY DEF Write
<1>3. strayed' \in BOOLEAN /\ (strayed => strayed')
  BY <1>1, UsesIs
<1>4. CASE Errs
  BY <1>2, <1>3, <1>4, ErrsIs, StillTyped, OutcomeTyped, QuietHolds, HandlesStay
<1>5. CASE /\ Works /\ Exists(Its(b).id) /\ Its(b).pos + n <= MaxSize
           /\ fds' = [fds EXCEPT ![blobs[b].fd].pos = @ + n]
           /\ sizes' = [sizes EXCEPT ![Its(b).id] = Most(@, Its(b).pos + n)]
  <2>1. PICK f \in Fd, oid \in Id : f = blobs[b].fd /\ oid = fds[f].id
    BY <1>1, <1>5, BlobFacts DEF Exists, Its
  <2>2. PICK to \in 0 .. MaxSize : to = fds[f].pos + n
    BY <1>5, <2>1, BlobFacts DEF Its
  <2>3. Most(sizes[oid], to) \in NoObject .. MaxSize
    BY BlobFacts DEF Most, NoObject
  <2>4. /\ fds' = [fds EXCEPT ![f].pos = to]
        /\ sizes' = [sizes EXCEPT ![oid] = Most(sizes[oid], to)]
    BY <1>5, <2>1, <2>2, StillTyped DEF Its
  <2>5. fds' \in [Fd -> Descriptor] /\ \A g \in Fd : fds'[g].id = fds[g].id
    BY <2>4, MovedTyped
  <2>6. sizes' \in [Id -> NoObject .. MaxSize]
    BY <2>3, <2>4, ResizedTyped
  <2> QED
    BY <1>2, <1>3, <1>5, <2>5, <2>6, StillTyped, OutcomeTyped, QuietHolds, HandlesStay
    DEF Works
<1> QED
  BY <1>1, <1>4, <1>5

LEMMA ResizeKeeps ==
  ASSUME BlobInv, Resize
  PROVE  BlobInv'
<1>1. PICK b \in Blob, n \in 0 .. MaxSize :
        /\ IsOpen(b) /\ Uses(b)
        /\ \/ Errs
           \/ /\ Works /\ Its(b).writes /\ Exists(Its(b).id) /\ UNCHANGED fds
              /\ sizes' = [sizes EXCEPT ![Its(b).id] = n]
  BY DEF Resize
<1>2. Quiet /\ UNCHANGED <<blobs, buf>>
  BY DEF Resize
<1>3. strayed' \in BOOLEAN /\ (strayed => strayed')
  BY <1>1, UsesIs
<1>4. CASE Errs
  BY <1>2, <1>3, <1>4, ErrsIs, StillTyped, OutcomeTyped, QuietHolds, HandlesStay
<1>5. CASE /\ Works /\ Exists(Its(b).id) /\ UNCHANGED fds
           /\ sizes' = [sizes EXCEPT ![Its(b).id] = n]
  <2>1. n \in NoObject .. MaxSize
    BY BlobAssumption DEF NoObject
  <2>2. sizes' \in [Id -> NoObject .. MaxSize]
    BY <1>5, <2>1, ResizedTyped DEF Exists
  <2> QED
    BY <1>2, <1>3, <1>5, <2>2, StillTyped, OutcomeTyped, QuietHolds, HandlesStay DEF Works
<1> QED
  BY <1>1, <1>4, <1>5

LEMMA FromBufKeeps ==
  ASSUME BlobInv, FromBuf
  PROVE  BlobInv'
<1>1. UNCHANGED <<blobs, buf, strayed>>
  BY DEF FromBuf
<1>2. CASE Errs /\ Threw("from_buf", 0)
  BY <1>1, <1>2, ErrsIs, StillTyped, OutcomeTyped, ThrewHolds, HandlesStay
<1>3. ASSUME NEW asked \in 0 .. MaxId, NEW oid \in Id, NEW n \in 0 .. MaxSize,
             asked \in {0, oid}, Works, UNCHANGED fds,
             \/ /\ n > ChunkLimit /\ Threw("from_buf", asked)
                /\ sizes' = [sizes EXCEPT ![oid] = LeftBehind(asked)]
             \/ /\ n <= ChunkLimit /\ Did("from_buf", 0, n)
                /\ sizes' = [sizes EXCEPT ![oid] = n]
      PROVE  BlobInv'
  <2>1. block' = block
    BY <1>3 DEF Works
  <2>2. /\ n \in NoObject .. MaxSize /\ n \in -1 .. MaxSize
        /\ LeftBehind(asked) \in NoObject .. MaxSize
    BY BlobAssumption DEF LeftBehind, NoObject
  <2>3. sizes' \in [Id -> NoObject .. MaxSize]
    BY <1>3, <2>2, ResizedTyped
  <2>4. CASE Threw("from_buf", asked)
    <3>1. asked \in (0 .. 2 * MaxSize) \cup Id
      BY <1>3, BlobAssumption
    <3> QED
      BY <1>1, <1>3, <2>1, <2>3, <2>4, <3>1, StillTyped, OutcomeTyped, ThrewHolds, HandlesStay
  <2>5. CASE Did("from_buf", 0, n)
    BY <1>1, <1>3, <2>1, <2>2, <2>3, <2>5, StillTyped, OutcomeTyped, WrittenHolds, HandlesStay
  <2> QED
    BY <1>3, <2>4, <2>5
<1> QED
  BY <1>2, <1>3 DEF FromBuf

LEMMA AppendFromBufKeeps ==
  ASSUME BlobInv, AppendFromBuf
  PROVE  BlobInv'
<1>1. UNCHANGED <<blobs, buf, strayed>>
  BY DEF AppendFromBuf
<1>2. CASE Errs /\ Threw("append_from_buf", 0)
  BY <1>1, <1>2, ErrsIs, StillTyped, OutcomeTyped, ThrewHolds, HandlesStay
<1>3. ASSUME NEW oid \in Id, NEW n \in 0 .. ChunkLimit, Works, Exists(oid), UNCHANGED fds,
             sizes[oid] + n <= MaxSize, sizes' = [sizes EXCEPT ![oid] = @ + n],
             Did("append_from_buf", sizes[oid], n)
      PROVE  BlobInv'
  <2>1. block' = block
    BY <1>3 DEF Works
  <2>2. /\ sizes[oid] + n \in NoObject .. MaxSize /\ sizes[oid] \in 0 .. 2 * MaxSize
        /\ n \in -1 .. MaxSize
    BY <1>3, BlobFacts DEF Exists, NoObject
  <2>3. sizes' = [sizes EXCEPT ![oid] = sizes[oid] + n]
    BY <1>3, StillTyped
  <2>4. sizes' \in [Id -> NoObject .. MaxSize]
    BY <2>2, <2>3, ResizedTyped
  <2> QED
    BY <1>1, <1>3, <2>1, <2>2, <2>4, StillTyped, OutcomeTyped, WrittenHolds, HandlesStay
<1> QED
  BY <1>2, <1>3 DEF AppendFromBuf

LEMMA AppendToBufKeeps ==
  ASSUME BlobInv, AppendToBuf
  PROVE  BlobInv'
<1>1. UNCHANGED <<blobs, strayed>>
  BY DEF AppendToBuf
<1>2. buf \in 0 .. 2 * MaxSize
  BY StillTyped
<1>3. CASE Errs /\ UNCHANGED buf /\ Threw("append_to_buf", buf)
  BY <1>1, <1>2, <1>3, ErrsIs, StillTyped, OutcomeTyped, ThrewHolds, HandlesStay
<1>4. CASE Errs /\ buf # 0 /\ buf' = buf - 1 /\ Did("append_to_buf", buf, -1)
  <2>1. buf' \in 0 .. 2 * MaxSize /\ -1 \in -1 .. MaxSize
    BY <1>2, <1>4, BlobFacts
  <2>2. BufferHoldsRead'
    BY <1>4, AppendHolds
  <2> QED
    BY <1>1, <1>2, <1>4, <2>1, <2>2, ErrsIs, StillTyped, OutcomeTyped, HandlesStay
<1>5. ASSUME NEW oid \in Id, NEW from \in 0 .. MaxSize, NEW most \in 0 .. ChunkLimit,
             Works, Exists(oid), UNCHANGED <<sizes, fds>>,
             LET n == Least(most, Most(sizes[oid] - from, 0))
             IN buf + n <= 2 * MaxSize /\ buf' = buf + n /\ Did("append_to_buf", buf, n)
      PROVE  BlobInv'
  <2>1. block' = block
    BY <1>5 DEF Works
  <2>2. most \in 0 .. MaxSize /\ sizes[oid] \in 0 .. MaxSize
    BY <1>5, BlobFacts DEF Exists, NoObject
  <2>3. PICK n \in 0 .. most : n = Least(most, Most(sizes[oid] - from, 0))
    BY <2>2, ReadBounds
  <2>4. /\ buf' \in 0 .. 2 * MaxSize /\ n \in -1 .. MaxSize /\ buf' = buf + n
        /\ Did("append_to_buf", buf, n)
    BY <1>5, <2>2, <2>3, BlobFacts
  <2>5. BufferHoldsRead'
    BY <2>4, AppendHolds
  <2> QED
    BY <1>1, <1>2, <1>5, <2>1, <2>4, <2>5, StillTyped, OutcomeTyped, HandlesStay
<1> QED
  BY <1>3, <1>4, <1>5 DEF AppendToBuf

LEMMA ToBufKeeps ==
  ASSUME BlobInv, ToBuf
  PROVE  BlobInv'
<1>1. UNCHANGED <<blobs, strayed>>
  BY DEF ToBuf
<1>2. CASE Errs /\ Threw("read", 0) /\ buf' \in 0 .. ChunkLimit \cup {buf}
  <2>1. buf' \in 0 .. 2 * MaxSize
    BY <1>2, BlobFacts
  <2> QED
    BY <1>1, <1>2, <2>1, ErrsIs, StillTyped, OutcomeTyped, ThrewHolds, HandlesStay
<1>3. ASSUME NEW oid \in Id, NEW most \in 0 .. ChunkLimit, Works, Exists(oid),
             UNCHANGED <<sizes, fds>>, buf' = SizeAfter(most, Least(most, sizes[oid])),
             Did("read", 0, Least(most, sizes[oid]))
      PROVE  BlobInv'
  <2>1. block' = block
    BY <1>3 DEF Works
  <2>2. PICK n \in 0 .. MaxSize : n = Least(most, sizes[oid])
    BY <1>3, BlobFacts DEF Exists, NoObject, Least
  <2>3. n \in -1 .. MaxSize /\ n \in 0 .. 2 * MaxSize /\ buf' = n /\ Did("read", 0, n)
    BY <1>3, <2>2, BlobFacts DEF SizeAfter
  <2>4. BufferHoldsRead'
    BY <2>3, ReadHolds
  <2> QED
    BY <1>1, <1>3, <2>1, <2>3, <2>4, StillTyped, OutcomeTyped, HandlesStay
<1> QED
  BY <1>2, <1>3 DEF ToBuf

-----------------------------------------------------------------------------
LEMMA BlobInvInit ==
  ASSUME BlobInit
  PROVE  BlobInv
<1>1. Unused \in Descriptor /\ Useless \in Handle /\ Nothing \in CallOutcome
  BY BlobAssumption DEF Unused, Descriptor, Useless, Handle, Nothing, CallOutcome
<1>2. /\ sizes = [i \in Id |-> NoObject] /\ fds = [f \in Fd |-> Unused]
      /\ blobs = [b \in Blob |-> Useless] /\ buf = 0 /\ lastCall = Nothing
      /\ strayed = FALSE /\ block = "none"
  BY DEF BlobInit
<1>3. BlobTypeOK
  BY <1>1, <1>2, BlobAssumption DEF BlobTypeOK, Useless, NoObject
<1>4. Between
  BY <1>2 DEF Between, IsOpen, Useless, Unused
<1>5. Owned
  BY <1>2 DEF Owned
<1>6. BufferHoldsRead
  <2>1. lastCall.call = "none" /\ "none" # "read" /\ "none" # "append_to_buf"
    BY <1>2 DEF Nothing
  <2> QED
    BY <2>1, Zenon DEF BufferHoldsRead
<1> QED
  BY <1>2, <1>3, <1>4, <1>5, <1>6 DEF BlobInv

LEMMA BlobInvNext ==
  ASSUME BlobInv, [BlobNext]_blobVars
  PROVE  BlobInv'
<1>1. CASE UNCHANGED blobVars
  BY <1>1 DEF blobVars, BlobInv, BlobTypeOK, Between, Owned, Mine, IsOpen, BufferHoldsRead
<1>2. CASE BlobNext
  BY <1>2, BeginTransactionKeeps, FinishKeeps, ObjectsKeep, OpenBlobKeeps, MoveBlobKeeps,
     CloseBlobKeeps, ReadKeeps, WriteKeeps, ResizeKeeps, SeekKeeps, FromBufKeeps,
     AppendFromBufKeeps, AppendToBufKeeps, ToBufKeeps DEF BlobNext
<1> QED
  BY <1>1, <1>2

LEMMA BlobInvAlways == BlobSpec => []BlobInv
<1>1. BlobInit => BlobInv
  BY BlobInvInit
<1>2. BlobInv /\ [BlobNext]_blobVars => BlobInv'
  BY BlobInvNext
<1> QED
  BY <1>1, <1>2, PTL DEF BlobSpec

(* A blob has its descriptor to itself, as long as none is used beyond its   *)
(* transaction, and a buffer holds what was read into it and no more         *)
(* (blob.cxx).                                                               *)
THEOREM BlobsAlwaysSound == BlobSpec => []BlobsAreSound
<1>1. BlobInv => BlobsAreSound
  BY OwnedIs DEF BlobInv, BlobsAreSound
<1> QED
  BY <1>1, BlobInvAlways, PTL

(* A from_buf that throws leaves no object behind in a transaction that goes *)
(* on, if it was given an oid (blob.cxx).                                    *)
THEOREM FailuresLeaveNothing == BlobSpec => FailureLeavesNothing
<1>1. ASSUME BlobInv, [BlobNext]_blobVars
      PROVE  [lastCall'.call = "from_buf" /\ lastCall'.thrown /\ lastCall'.before # 0
                /\ block' = "open" => sizes' = sizes]_blobVars
  <2>1. CASE UNCHANGED blobVars
    BY <2>1
  <2>2. CASE FromBuf
    <3>1. CASE Errs
      BY <3>1 DEF Errs
    <3>2. ASSUME NEW asked \in 0 .. MaxId, NEW oid \in Id, asked \in {0, oid}, ~Exists(oid),
                 Threw("from_buf", asked), sizes' = [sizes EXCEPT ![oid] = LeftBehind(asked)],
                 lastCall'.before # 0
          PROVE  sizes' = sizes
      <4>1. lastCall'.before = asked
        BY <3>2 DEF Threw
      <4>2. sizes[oid] = NoObject /\ LeftBehind(asked) = NoObject
        BY <3>2, <4>1 DEF Exists, LeftBehind
      <4>3. \A i \in Id : sizes'[i] = sizes[i]
        BY <1>1, <3>2, <4>2, StillTyped
      <4> QED
        BY <1>1, <3>2, <4>3, StillTyped
    <3>3. ASSUME NEW n, Did("from_buf", 0, n)
          PROVE  ~lastCall'.thrown
      BY <3>3 DEF Did
    <3> QED
      BY <2>2, <3>1, <3>2, <3>3 DEF FromBuf
  <2>3. CASE BlobNext /\ ~FromBuf
    <3>1. CASE Quiet
      BY <3>1 DEF Quiet, Nothing
    <3>2. ASSUME NEW call \in {"append_from_buf", "read", "append_to_buf"}, NEW before, NEW n,
                 Did(call, before, n) \/ Threw(call, before)
          PROVE  lastCall'.call # "from_buf"
      BY <3>2 DEF Did, Threw
    <3>3. CASE Read
      BY <3>2, <3>3 DEF Read
    <3>4. CASE AppendFromBuf
      BY <3>2, <3>4 DEF AppendFromBuf
    <3>5. CASE AppendToBuf
      BY <3>2, <3>5 DEF AppendToBuf
    <3>6. CASE ToBuf
      BY <3>2, <3>6 DEF ToBuf
    <3>7. BlobNext => Quiet \/ FromBuf \/ Read \/ AppendFromBuf \/ AppendToBuf \/ ToBuf
      BY DEF BlobNext, BeginTransaction, Finish, Create, RemoveObject, OpenBlob, MoveBlob,
        CloseBlob, Write, Resize, Seek, FromFile
    <3> QED
      BY <2>3, <3>1, <3>3, <3>4, <3>5, <3>6, <3>7
  <2> QED
    BY <1>1, <2>1, <2>2, <2>3
<1> QED
  BY <1>1, BlobInvAlways, PTL DEF BlobSpec, FailureLeavesNothing

-----------------------------------------------------------------------------
(* The stream. *)
Byte == Char \cup {Zero}

(* What is open is there, and nothing is where nothing is open. *)
StreamIsOpen ==
  /\ open => id /\ object # NoContent
  /\ ~open => area = NoArea
  /\ ~id => offset = 0
  /\ object # NoContent => Len(object) <= MaxLength
  /\ offset + Len(area.put) <= MaxLength

(* The characters of the get area that are yet to be read are those of the   *)
(* object before the descriptor's position.                                  *)
AreaIsInObject ==
  ~crossed =>
    /\ area.put # << >> => Unread = 0
    /\ Unread > 0 =>
         /\ Len(area.get) <= offset /\ offset <= Len(object)
         /\ \A i \in area.next + 1 .. Len(area.get) :
              area.get[i] = object[offset - Len(area.get) + i]

LoInv == LoTypeOK /\ StreamIsOpen /\ AreaIsInObject

-----------------------------------------------------------------------------
(* What is written over a string. *)
LEMMA OverwrittenTyped ==
  ASSUME NEW old \in Seq(Byte), NEW n \in Nat, NEW new \in Seq(Byte)
  PROVE  /\ Overwritten(old, n, new) \in Seq(Byte)
         /\ new = << >> => Overwritten(old, n, new) = old
         /\ new # << >> =>
              Len(Overwritten(old, n, new)) =
                IF Len(old) > n + Len(new) THEN Len(old) ELSE n + Len(new)
<1>1. CASE new = << >>
  BY <1>1 DEF Overwritten
<1>2. CASE new # << >>
  <2> DEFINE m == IF Len(old) > n + Len(new) THEN Len(old) ELSE n + Len(new)
             f == [i \in 1 .. m |->
                     IF i > n /\ i <= n + Len(new) THEN new[i - n]
                     ELSE IF i <= Len(old) THEN old[i] ELSE Zero]
  <2>1. m \in Nat
    OBVIOUS
  <2>2. \A i \in 1 .. m : f[i] \in Byte
    BY <2>1 DEF Byte
  <2>3. f \in [1 .. m -> Byte]
    BY <2>2
  <2>4. f \in Seq(Byte) /\ Len(f) = m
    BY <2>1, <2>3
  <2>5. Overwritten(old, n, new) = f
    BY <1>2 DEF Overwritten
  <2> HIDE DEF f, m
  <2>6. new # << >> => Len(f) = m
    BY <2>4
  <2> QED
    BY <1>2, <2>4, <2>5, <2>6 DEF m
<1> QED
  BY <1>1, <1>2

(* One more character, in a file. *)
PutAt(s, at, ch) ==
  IF at < Len(s) THEN [s EXCEPT ![at + 1] = ch]
  ELSE Append(s \o [i \in 1 .. at - Len(s) |-> Zero], ch)

LEMMA PutAtIs ==
  ASSUME NEW s \in Seq(Byte), NEW at \in Nat, NEW ch \in Byte
  PROVE  /\ PutAt(s, at, ch) \in Seq(Byte)
         /\ Len(PutAt(s, at, ch)) = IF at < Len(s) THEN Len(s) ELSE at + 1
         /\ \A i \in 1 .. Len(PutAt(s, at, ch)) :
              PutAt(s, at, ch)[i] = IF i = at + 1 THEN ch
                                    ELSE IF i <= Len(s) THEN s[i] ELSE Zero
<1>1. CASE at < Len(s)
  BY <1>1 DEF PutAt
<1>2. CASE ~(at < Len(s))
  <2> DEFINE z == [i \in 1 .. at - Len(s) |-> Zero]
             r == s \o z
  <2>1. at - Len(s) \in Nat
    BY <1>2
  <2>2. PICK k \in Nat : k = at - Len(s)
    BY <2>1
  <2>3. z \in [1 .. at - Len(s) -> Byte]
    BY DEF Byte
  <2>4. z \in Seq(Byte) /\ Len(z) = at - Len(s)
    <3>1. z \in [1 .. k -> Byte]
      BY <2>2, <2>3
    <3> HIDE DEF z
    <3>2. z \in Seq(Byte) /\ Len(z) = k
      BY <3>1
    <3> QED
      BY <2>2, <3>2
  <2>5. \A i \in 1 .. at - Len(s) : z[i] = Zero
    OBVIOUS
  <2>6. PutAt(s, at, ch) = Append(r, ch)
    BY <1>2 DEF PutAt
  <2> HIDE DEF z
  <2>7. r \in Seq(Byte) /\ Len(r) = at
    BY <2>4
  <2>8. \A i \in 1 .. at : r[i] = IF i <= Len(s) THEN s[i] ELSE z[i - Len(s)]
    BY <2>1, <2>4
  <2>9. \A i \in 1 .. at : r[i] = IF i <= Len(s) THEN s[i] ELSE Zero
    <3>1. ASSUME NEW i \in 1 .. at, ~(i <= Len(s))
          PROVE  i - Len(s) \in 1 .. at - Len(s)
      BY <3>1
    <3> QED
      BY <2>5, <2>8, <3>1
  <2> HIDE DEF r
  <2>10. /\ Append(r, ch) \in Seq(Byte) /\ Len(Append(r, ch)) = at + 1
         /\ Append(r, ch)[at + 1] = ch
         /\ \A i \in 1 .. at : Append(r, ch)[i] = r[i]
    BY <2>7
  <2>11. ~(at < Len(s))
    BY <1>2
  <2> QED
    BY <2>6, <2>9, <2>10, <2>11
<1> QED
  BY <1>1, <1>2

LEMMA OverwrittenAt ==
  ASSUME NEW old \in Seq(Byte), NEW n \in Nat, NEW new \in Seq(Byte), new # << >>,
         NEW i \in 1 .. Len(Overwritten(old, n, new))
  PROVE  Overwritten(old, n, new)[i] =
           IF i > n /\ i <= n + Len(new) THEN new[i - n]
           ELSE IF i <= Len(old) THEN old[i] ELSE Zero
<1>1. Len(Overwritten(old, n, new)) =
        IF Len(old) > n + Len(new) THEN Len(old) ELSE n + Len(new)
  BY OverwrittenTyped
<1>2. i \in 1 .. (IF Len(old) > n + Len(new) THEN Len(old) ELSE n + Len(new))
  BY <1>1
<1> QED
  BY <1>2, Zenon DEF Overwritten

(* A character in the put area is a character in the file.                   *)
LEMMA PutIsPutAt ==
  ASSUME NEW old \in Seq(Byte), NEW n \in Nat, NEW new \in Seq(Byte), NEW ch \in Byte
  PROVE  Overwritten(old, n, Append(new, ch)) =
           PutAt(Overwritten(old, n, new), n + Len(new), ch)
<1> DEFINE s == Overwritten(old, n, new)
<1>1. PICK more \in Seq(Byte) :
        /\ more = Append(new, ch) /\ more # << >>
        /\ Len(more) = Len(new) + 1 /\ more[Len(new) + 1] = ch
        /\ \A i \in 1 .. Len(new) : more[i] = new[i]
  <2> DEFINE a == Append(new, ch)
  <2>1. /\ a \in Seq(Byte) /\ a # << >> /\ Len(a) = Len(new) + 1
        /\ a[Len(new) + 1] = ch /\ \A i \in 1 .. Len(new) : a[i] = new[i]
    OBVIOUS
  <2> QED
    BY <2>1, Zenon
<1>2. PICK k \in Nat, m \in Nat : k = Len(new) /\ m = n + k
  OBVIOUS
<1> DEFINE t == Overwritten(old, n, more)
           u == PutAt(s, m, ch)
<1>3. /\ s \in Seq(Byte)
      /\ new = << >> => s = old
      /\ new # << >> => Len(s) = IF Len(old) > m THEN Len(old) ELSE m
  BY <1>2, OverwrittenTyped
<1>4. /\ t \in Seq(Byte)
      /\ Len(t) = IF Len(old) > m + 1 THEN Len(old) ELSE m + 1
  <2>1. n + Len(more) = m + 1
    BY <1>1, <1>2
  <2> QED
    BY <1>1, <2>1, OverwrittenTyped
<1>5. /\ u \in Seq(Byte) /\ Len(u) = IF m < Len(s) THEN Len(s) ELSE m + 1
      /\ \A i \in 1 .. Len(u) : u[i] = IF i = m + 1 THEN ch
                                       ELSE IF i <= Len(s) THEN s[i] ELSE Zero
  <2>1. s \in Seq(Byte) /\ m \in Nat
    BY <1>2, <1>3
  <2> HIDE DEF s
  <2> QED
    BY <2>1, PutAtIs, ZenonT(60)
<1>6. \A i \in 1 .. Len(t) :
        t[i] = IF i > n /\ i <= m + 1 THEN more[i - n]
               ELSE IF i <= Len(old) THEN old[i] ELSE Zero
  <2>1. n + Len(more) = m + 1
    BY <1>1, <1>2
  <2> QED
    BY <1>1, <2>1, OverwrittenAt, ZenonT(60)
<1>7. new # << >> =>
        \A i \in 1 .. Len(s) :
          s[i] = IF i > n /\ i <= m THEN new[i - n]
                 ELSE IF i <= Len(old) THEN old[i] ELSE Zero
  BY <1>2, OverwrittenAt
<1>8. new = << >> <=> k = 0
  BY <1>2
<1> HIDE DEF s, t, u
<1>9. Len(t) = Len(u)
  <2>1. Len(old) \in Nat /\ Len(s) \in Nat
    BY <1>3
  <2>2. CASE new = << >>
    <3>1. Len(s) = Len(old) /\ m = n
      BY <1>2, <1>3, <1>8, <2>2
    <3> QED
      BY <1>4, <1>5, <2>1, <3>1
  <2>3. CASE new # << >>
    <3>1. CASE Len(old) > m
      BY <1>3, <1>4, <1>5, <2>1, <2>3, <3>1
    <3>2. CASE ~(Len(old) > m)
      BY <1>3, <1>4, <1>5, <2>1, <2>3, <3>2
    <3> QED
      BY <3>1, <3>2
  <2> QED
    BY <2>2, <2>3
<1>10. ASSUME NEW i \in 1 .. Len(t)
       PROVE  t[i] = u[i]
  <2>1. i \in Nat /\ i >= 1 /\ i <= Len(t) /\ i \in 1 .. Len(u) /\ Len(s) \in Nat
    BY <1>3, <1>4, <1>9
  <2>2. CASE i = m + 1
    <3>1. i > n /\ i <= m + 1 /\ i - n = Len(new) + 1
      BY <1>2, <2>1, <2>2
    <3>2. t[i] = more[i - n]
      BY <1>6, <3>1
    <3> QED
      BY <1>1, <1>5, <2>1, <2>2, <3>1, <3>2
  <2>3. CASE i > n /\ i <= m
    <3>1. t[i] = more[i - n] /\ i - n \in 1 .. Len(new)
      BY <1>2, <1>6, <2>1, <2>3
    <3>2. t[i] = new[i - n]
      BY <1>1, <3>1
    <3>3. k # 0 /\ new # << >>
      BY <1>2, <1>8, <2>1, <2>3
    <3>4. i \in 1 .. Len(s)
      BY <1>3, <2>1, <2>3, <3>3
    <3>5. s[i] = new[i - n]
      BY <1>7, <2>3, <3>3, <3>4
    <3>6. u[i] = s[i]
      <4>1. i # m + 1 /\ i <= Len(s)
        BY <2>1, <2>3, <3>4
      <4> QED
        BY <1>5, <2>1, <4>1
    <3> QED
      BY <3>2, <3>5, <3>6
  <2>4. CASE ~(i > n /\ i <= m + 1)
    <3>1. t[i] = IF i <= Len(old) THEN old[i] ELSE Zero
      BY <1>6, <2>4
    <3>2. u[i] = IF i <= Len(s) THEN s[i] ELSE Zero
      <4>1. i # m + 1
        BY <1>2, <2>1, <2>4
      <4> QED
        BY <1>5, <2>1, <4>1
    <3>3. CASE new = << >>
      <4>1. s = old
        BY <1>3, <3>3
      <4> QED
        BY <3>1, <3>2, <4>1
    <3>4. CASE new # << >>
      <4>1. ~(i > n /\ i <= m)
        BY <2>1, <2>4
      <4>2. CASE i <= Len(s)
        <5>1. i \in 1 .. Len(s)
          BY <2>1, <4>2
        <5> QED
          BY <1>7, <3>1, <3>2, <3>4, <4>1, <4>2, <5>1
      <4>3. CASE ~(i <= Len(s))
        <5>1. ~(i <= Len(old))
          BY <1>3, <2>1, <3>4, <4>3
        <5> QED
          BY <3>1, <3>2, <4>3, <5>1
      <4> QED
        BY <4>2, <4>3
    <3> QED
      BY <3>3, <3>4
  <2> QED
    BY <2>1, <2>2, <2>3, <2>4
<1>11. t = u
  BY <1>4, <1>5, <1>9, <1>10, SeqEqual
<1> QED
  BY <1>1, <1>2, <1>11 DEF s, t, u

-----------------------------------------------------------------------------
(* An object that is there is a string, and none that could be taken for     *)
(* its absence.                                                              *)
LEMMA BytesAreContent ==
  ASSUME NEW s \in Seq(Byte)
  PROVE  s # NoContent
<1>1. SUFFICES ASSUME s = NoContent
               PROVE  FALSE
  OBVIOUS
<1>2. 1 \in 1 .. Len(s) /\ s[1] = Eof
  BY <1>1 DEF NoContent
<1>3. s[1] \in Byte
  BY <1>2, ElementOfSeq
<1> QED
  BY <1>2, <1>3, LoStreamAssumption DEF Byte

LEMMA StreamFacts ==
  ASSUME LoInv
  PROVE  /\ object # NoContent => object \in Seq(Byte) /\ Len(object) \in Nat
         /\ offset \in Nat /\ offset <= MaxLength /\ MaxLength \in Nat
         /\ area.in \in BOOLEAN /\ area.out \in BOOLEAN
         /\ area.get \in Seq(Byte) /\ Len(area.get) \in Nat
         /\ area.next \in Nat /\ area.next <= Len(area.get)
         /\ area.put \in Seq(Char) /\ area.put \in Seq(Byte) /\ Len(area.put) \in Nat
         /\ Unread \in Nat /\ Unread = Len(area.get) - area.next
         /\ BufSize \in Nat /\ BufSize > 0
         /\ ok \in BOOLEAN /\ open \in BOOLEAN /\ id \in BOOLEAN
         /\ turn \in BOOLEAN /\ crossed \in BOOLEAN
<1>1. area \in Area /\ area.next <= Len(area.get)
  BY DEF LoInv, LoTypeOK
<1>2. /\ area.in \in BOOLEAN /\ area.out \in BOOLEAN
      /\ area.get \in Seq(Byte) /\ area.next \in Nat /\ area.put \in Seq(Char)
  BY <1>1 DEF Area, Byte
<1>3. area.put \in Seq(Byte)
  BY <1>2, SeqMonotonic DEF Byte
<1>4. offset \in Nat /\ offset <= MaxLength
  BY LoStreamAssumption DEF LoInv, LoTypeOK
<1>5. object # NoContent => object \in Seq(Byte)
  BY DEF LoInv, LoTypeOK, Byte
<1>6. /\ ok \in BOOLEAN /\ open \in BOOLEAN /\ id \in BOOLEAN
      /\ turn \in BOOLEAN /\ crossed \in BOOLEAN
  BY DEF LoInv, LoTypeOK
<1>7. /\ Len(area.get) \in Nat /\ Len(area.put) \in Nat
      /\ object # NoContent => Len(object) \in Nat
  BY <1>2, <1>5
<1>8. Unread = Len(area.get) - area.next /\ Unread \in Nat
  BY <1>1, <1>2, <1>7 DEF Unread
<1> QED
  BY <1>1, <1>2, <1>3, <1>4, <1>5, <1>6, <1>7, <1>8, LoStreamAssumption

(* What a step of the stream is for the file. *)
FileStep ==
  \/ File!NoTrust \/ File!Begins \/ File!PutChar \/ File!GetChar \/ File!SeekFile
  \/ UNCHANGED File!fileVars

(* Nothing is asked of a step after which the file is not trusted.           *)
LEMMA NoTrustSteps ==
  ASSUME ok' = FALSE \/ object' = NoContent \/ crossed' = TRUE
  PROVE  FileStep
  BY DEF FileStep, File!NoTrust

LEMMA CreateObjectKeeps ==
  ASSUME LoInv, CreateObject
  PROVE  LoInv' /\ FileStep
<1>1. ~open /\ area = NoArea /\ offset = 0 /\ ~id /\ object = NoContent
  BY LoStreamAssumption DEF LoInv, StreamIsOpen, LoTypeOK, CreateObject
<1>2. UNCHANGED <<open, offset, area, read, turn, crossed>>
  BY DEF CreateObject
<1>3. /\ ok' \in BOOLEAN /\ id' \in BOOLEAN
      /\ object' = NoContent \/ (object' \in Seq(Byte) /\ Len(object') <= MaxLength)
  <2>1. CASE Fails /\ UNCHANGED <<object, id, open>>
    BY <1>1, <2>1, StreamFacts DEF Fails
  <2>2. CASE ok /\ UNCHANGED ok /\ object' \in Content /\ id' = TRUE
    <3>1. object' \in Seq(Char) /\ Len(object') <= MaxLength
      BY <2>2, LoStreamAssumption
    <3>2. object' \in Seq(Byte)
      BY <3>1, SeqMonotonic DEF Byte
    <3> QED
      BY <2>2, <3>1, <3>2, StreamFacts
  <2> QED
    BY <2>1, <2>2 DEF CreateObject
<1>4. LoTypeOK'
  BY <1>2, <1>3 DEF LoInv, LoTypeOK, Byte
<1>5. StreamIsOpen'
  BY <1>1, <1>2, <1>3 DEF LoInv, StreamIsOpen
<1>6. AreaIsInObject'
  BY <1>1, <1>2 DEF AreaIsInObject, NoArea, Unread
<1>7. FileStep
  BY <1>1, <1>2 DEF FileStep, File!Begins, NoArea, Unread
<1> QED
  BY <1>4, <1>5, <1>6, <1>7 DEF LoInv

LEMMA UnlinkObjectKeeps ==
  ASSUME LoInv, UnlinkObject
  PROVE  LoInv' /\ FileStep
<1>1. ~open /\ area = NoArea
  BY DEF LoInv, StreamIsOpen, UnlinkObject
<1>2. UNCHANGED <<id, open, offset, area, read, turn, crossed>>
  BY DEF UnlinkObject
<1>3. /\ ok' \in BOOLEAN
      /\ object' = NoContent \/ (object' = object /\ ok' = FALSE)
  BY StreamFacts DEF UnlinkObject, Fails
<1>4. LoTypeOK'
  BY <1>2, <1>3 DEF LoInv, LoTypeOK
<1>5. StreamIsOpen'
  BY <1>1, <1>2, <1>3 DEF LoInv, StreamIsOpen
<1>6. AreaIsInObject'
  BY <1>1, <1>2 DEF AreaIsInObject, NoArea, Unread
<1> QED
  BY <1>3, <1>4, <1>5, <1>6, NoTrustSteps DEF LoInv

LEMMA OpenStreamKeeps ==
  ASSUME LoInv, OpenStream
  PROVE  LoInv' /\ FileStep
<1>1. id /\ ~open /\ area = NoArea /\ UNCHANGED <<object, id, read, turn, crossed>>
  BY DEF LoInv, StreamIsOpen, OpenStream
<1>2. CASE Fails /\ UNCHANGED <<open, offset, area>>
  <2>1. ok' \in BOOLEAN
    BY <1>2 DEF Fails
  <2>2. LoTypeOK'
    BY <1>1, <1>2, <2>1 DEF LoInv, LoTypeOK
  <2>3. StreamIsOpen'
    BY <1>1, <1>2 DEF LoInv, StreamIsOpen
  <2>4. AreaIsInObject'
    BY <1>1, <1>2 DEF AreaIsInObject, NoArea, Unread
  <2> QED
    BY <1>2, <2>2, <2>3, <2>4, NoTrustSteps DEF LoInv, Fails
<1>3. CASE /\ ok /\ object # NoContent /\ UNCHANGED ok
           /\ open' = TRUE /\ offset' = 0
           /\ \E in, out \in BOOLEAN :
                (in \/ out) /\ area' = [NoArea EXCEPT !.in = in, !.out = out]
  <2>1. /\ area' \in Area /\ area'.get = << >> /\ area'.next = 0 /\ area'.put = << >>
    <3>1. << >> \in Seq(Byte) /\ << >> \in Seq(Char)
      OBVIOUS
    <3>2. PICK in \in BOOLEAN, out \in BOOLEAN :
            area' = [NoArea EXCEPT !.in = in, !.out = out]
      BY <1>3
    <3>3. area' = [in |-> in, out |-> out, get |-> << >>, next |-> 0, put |-> << >>]
      BY <3>2 DEF NoArea
    <3> QED
      BY <3>1, <3>3 DEF Area, Byte
  <2>2. LoTypeOK'
    BY <1>1, <1>3, <2>1, LoStreamAssumption DEF LoInv, LoTypeOK
  <2>3. StreamIsOpen'
    BY <1>1, <1>3, <2>1, LoStreamAssumption DEF LoInv, StreamIsOpen
  <2>4. AreaIsInObject'
    BY <2>1 DEF AreaIsInObject, Unread
  <2>5. FileStep
    <3>1. Unread' = 0 /\ Len(area'.put) = 0
      BY <2>1 DEF Unread
    <3>2. area.put = << >>
      BY <1>1 DEF NoArea
    <3>3. (offset + Len(area.put) - Unread)' = 0
      BY <1>3, <3>1
    <3>4. Overwritten(object, offset, area.put)' = Overwritten(object, offset, area.put)
      BY <1>1, <2>1, <3>2 DEF Overwritten
    <3>5. File!SeekFile
      BY <1>1, <1>3, <3>3, <3>4 DEF File!SeekFile
    <3> QED
      BY <3>5 DEF FileStep
  <2> QED
    BY <2>2, <2>3, <2>4, <2>5 DEF LoInv
<1> QED
  BY <1>2, <1>3 DEF OpenStream

(* What is in the put area, written.                                         *)
LEMMA FlushIs ==
  ASSUME LoInv, open, area.put # << >>
  PROVE  LET flushed == Overwritten(object, offset, area.put)
         IN /\ flushed \in Seq(Byte) /\ flushed # NoContent
            /\ Len(flushed) <= MaxLength /\ offset + Len(area.put) <= Len(flushed)
<1> DEFINE flushed == Overwritten(object, offset, area.put)
<1>1. object \in Seq(Byte) /\ Len(object) <= MaxLength /\ offset + Len(area.put) <= MaxLength
  BY StreamFacts DEF LoInv, StreamIsOpen
<1>2. /\ flushed \in Seq(Byte)
      /\ Len(flushed) = IF Len(object) > offset + Len(area.put) THEN Len(object)
                        ELSE offset + Len(area.put)
  BY <1>1, StreamFacts, OverwrittenTyped
<1>3. flushed # NoContent
  BY <1>2, BytesAreContent
<1> HIDE DEF flushed
<1>4. Len(flushed) <= MaxLength /\ offset + Len(area.put) <= Len(flushed)
  BY <1>1, <1>2, StreamFacts
<1> QED
  BY <1>2, <1>3, <1>4 DEF flushed

(* A put area with other characters. *)
LEMMA PutAreaIs ==
  ASSUME LoInv, NEW n \in 0 .. Len(area.get), NEW put \in Seq(Char),
         area' = [area EXCEPT !.next = n, !.put = put]
  PROVE  /\ area' \in Area /\ area'.in = area.in /\ area'.out = area.out
         /\ area'.get = area.get /\ area'.next = n /\ area'.put = put
         /\ Unread' = Len(area.get) - n /\ area'.next <= Len(area'.get)
<1>1. area \in Area /\ n \in Nat /\ n <= Len(area.get)
  BY StreamFacts DEF LoInv, LoTypeOK
<1>2. /\ area' \in Area /\ area'.in = area.in /\ area'.out = area.out
      /\ area'.get = area.get /\ area'.next = n /\ area'.put = put
  BY <1>1 DEF Area
<1> QED
  BY <1>1, <1>2 DEF Unread

LEMMA PutKeeps ==
  ASSUME LoInv, Put
  PROVE  LoInv' /\ FileStep
<1>1. /\ open /\ area.out /\ UNCHANGED <<id, open, read>> /\ turn' = ~turn
      /\ offset + Len(area.put) < MaxLength
      /\ crossed' = (crossed \/ Unread > 0)
  BY DEF Put
<1>2. PICK ch \in Char :
        IF Len(area.put) < BufSize
          THEN area' = [area EXCEPT !.put = Append(@, ch)] /\ UNCHANGED <<object, offset, ok>>
          ELSE Overflow(ch, area)
  BY DEF Put
<1>3. /\ object # NoContent /\ object \in Seq(Byte) /\ id /\ ch \in Byte /\ ch # Eof
      /\ Len(object) <= MaxLength
  BY <1>1, StreamFacts, LoStreamAssumption DEF LoInv, StreamIsOpen, Byte
<1>4. area.next \in 0 .. Len(area.get)
  BY StreamFacts
<1>5. crossed' \in BOOLEAN /\ turn' \in BOOLEAN
  BY <1>1, StreamFacts
<1>6. LoTypeOK /\ read' = read
  BY <1>1 DEF LoInv
<1>7. ~crossed' => ~crossed /\ Unread = 0
  <2>1. ~crossed' => ~crossed /\ ~(Unread > 0)
    BY <1>1, Zenon
  <2> QED
    BY <2>1, StreamFacts
<1>8. /\ offset \in Nat /\ Len(area.put) \in Nat /\ MaxLength \in Nat
      /\ BufSize \in Nat /\ BufSize > 0
  BY StreamFacts
(* There is room in the put area. *)
<1>9. CASE Len(area.put) < BufSize
  <2>1. Append(area.put, ch) \in Seq(Char) /\ Len(Append(area.put, ch)) = Len(area.put) + 1
    BY StreamFacts
  <2>2. /\ area' = [area EXCEPT !.next = area.next, !.put = Append(area.put, ch)]
        /\ UNCHANGED <<object, offset, ok>>
    <3>1. area \in Area
      BY <1>6 DEF LoTypeOK
    <3> QED
      BY <1>2, <1>9, <3>1 DEF Area
  <2>3. /\ area' \in Area /\ area'.get = area.get /\ area'.next = area.next
        /\ area'.put = Append(area.put, ch) /\ area'.next <= Len(area'.get)
        /\ Unread' = Unread
    BY <1>4, <2>1, <2>2, PutAreaIs, StreamFacts
  <2>4. Len(area'.put) <= BufSize /\ offset + Len(area'.put) <= MaxLength
    BY <1>1, <1>9, <2>1, <2>3, StreamFacts
  <2>5. LoTypeOK'
    BY <1>1, <1>5, <1>6, <2>2, <2>3, <2>4 DEF LoTypeOK
  <2>6. StreamIsOpen'
    BY <1>1, <1>3, <2>2, <2>4 DEF LoInv, StreamIsOpen
  <2>7. AreaIsInObject'
    <3>1. CASE crossed'
      BY <3>1 DEF AreaIsInObject
    <3>2. CASE ~crossed'
      BY <1>7, <2>3, <3>2 DEF AreaIsInObject
    <3> QED
      BY <3>1, <3>2
  <2>8. FileStep
    <3>1. CASE crossed' \/ ok = FALSE
      BY <1>5, <2>2, <3>1, NoTrustSteps
    <3>2. CASE ~crossed' /\ ok
      <4> DEFINE content == Overwritten(object, offset, area.put)
                 at == offset + Len(area.put) - Unread
      <4>1. Unread = 0 /\ ~crossed /\ at \in Nat /\ at = offset + Len(area.put)
        BY <1>7, <1>8, <3>2
      <4>2. Overwritten(object, offset, area.put)' = PutAt(content, at, ch)
        BY <1>3, <2>2, <2>3, <4>1, StreamFacts, PutIsPutAt
      <4>3. (offset + Len(area.put) - Unread)' = at + 1
        BY <2>1, <2>2, <2>3, <4>1, StreamFacts
      <4>4. (ok /\ object # NoContent /\ ~crossed)' = (ok /\ object # NoContent /\ ~crossed)
        BY <1>3, <2>2, <3>2, <4>1
      <4>5. File!PutChar
        BY <1>1, <4>2, <4>3, <4>4 DEF File!PutChar, PutAt
      <4> QED
        BY <4>5 DEF FileStep
    <3> QED
      BY <3>1, <3>2, StreamFacts
  <2> QED
    BY <2>5, <2>6, <2>7, <2>8 DEF LoInv
(* What is there is written first. *)
<1>10. CASE ~(Len(area.put) < BufSize)
  <2>1. area.put # << >> /\ Overflow(ch, area) /\ Fresh(ch) = <<ch>>
    BY <1>2, <1>3, <1>10, StreamFacts DEF Fresh
  <2> DEFINE content == Overwritten(object, offset, area.put)
             at == offset + Len(area.put) - Unread
  <2>2. /\ content \in Seq(Byte) /\ content # NoContent
        /\ Len(content) <= MaxLength /\ offset + Len(area.put) <= Len(content)
    BY <1>1, <2>1, FlushIs
  <2>3. CASE Fails /\ area' = area /\ UNCHANGED <<object, offset>>
    <3>1. LoTypeOK'
      BY <1>1, <1>5, <1>6, <2>3 DEF LoTypeOK, Fails
    <3>2. StreamIsOpen'
      BY <1>1, <2>3 DEF LoInv, StreamIsOpen
    <3>3. AreaIsInObject'
      <4>1. CASE crossed'
        BY <4>1 DEF AreaIsInObject
      <4>2. CASE ~crossed'
        BY <1>1, <2>3, <4>2 DEF AreaIsInObject, LoInv, Unread
      <4> QED
        BY <4>1, <4>2
    <3> QED
      BY <2>3, <3>1, <3>2, <3>3, NoTrustSteps DEF LoInv, Fails
  <2>4. CASE /\ ok /\ UNCHANGED ok /\ object' = content
             /\ offset' = offset + Len(area.put)
             /\ area' = [area EXCEPT !.put = Fresh(ch)]
    <3>1. /\ <<ch>> \in Seq(Char) /\ Len(<<ch>>) = 1 /\ << >> \in Seq(Byte)
          /\ Append(<< >>, ch) = <<ch>> /\ Len(<< >>) = 0
      OBVIOUS
    <3>2. area' = [area EXCEPT !.next = area.next, !.put = <<ch>>]
      <4>1. area \in Area
        BY <1>6 DEF LoTypeOK
      <4> QED
        BY <2>1, <2>4, <4>1 DEF Area
    <3>3. /\ area' \in Area /\ area'.get = area.get /\ area'.next = area.next
          /\ area'.put = <<ch>> /\ area'.next <= Len(area'.get)
          /\ Unread' = Unread
      BY <1>4, <3>1, <3>2, PutAreaIs, StreamFacts
    <3> HIDE DEF content
    <3>4. /\ Len(area'.put) <= BufSize /\ offset' + Len(area'.put) <= MaxLength
          /\ offset' \in 0 .. MaxLength
      <4>1. Len(area'.put) = 1 /\ offset' = offset + Len(area.put)
        BY <2>4, <3>1, <3>3, Zenon
      <4>2. offset + Len(area.put) < MaxLength
        BY <1>1
      <4> QED
        BY <1>8, <4>1, <4>2
    <3>5. LoTypeOK'
      BY <1>1, <1>5, <1>6, <2>2, <2>4, <3>3, <3>4 DEF LoTypeOK, Byte
    <3>6. StreamIsOpen'
      BY <1>1, <1>3, <2>2, <2>4, <3>4 DEF LoInv, StreamIsOpen
    <3>7. AreaIsInObject'
      <4>1. CASE crossed'
        BY <4>1 DEF AreaIsInObject
      <4>2. CASE ~crossed'
        BY <1>7, <3>3, <4>2 DEF AreaIsInObject
      <4> QED
        BY <4>1, <4>2
    <3>8. FileStep
      <4>1. CASE crossed'
        BY <1>5, <4>1, NoTrustSteps
      <4>2. CASE ~crossed'
        <5>1. Unread = 0 /\ ~crossed /\ at \in Nat /\ at = offset + Len(area.put)
          BY <1>7, <1>8, <4>2
        <5>2. Overwritten(content, at, << >>) = content
          BY <2>2, <3>1, <5>1, OverwrittenTyped
        <5>3. Overwritten(content, at, <<ch>>) = PutAt(Overwritten(content, at, << >>), at, ch)
          <6> HIDE DEF at
          <6>1. Overwritten(content, at, Append(<< >>, ch)) =
                  PutAt(Overwritten(content, at, << >>), at + Len(<< >>), ch)
            BY <1>3, <2>2, <3>1, <5>1, PutIsPutAt
          <6>2. at + Len(<< >>) = at
            BY <3>1, <5>1
          <6> QED
            BY <3>1, <6>1, <6>2
        <5>4. Overwritten(object, offset, area.put)' = PutAt(content, at, ch)
          BY <2>4, <3>3, <5>1, <5>2, <5>3
        <5>5. (offset + Len(area.put) - Unread)' = at + 1
          <6>1. Len(area'.put) = 1 /\ offset' = at /\ Unread' = 0
            BY <2>4, <3>1, <3>3, <5>1, Zenon
          <6> HIDE DEF at
          <6>2. (offset + Len(area.put) - Unread)' = at + 1 - 0
            BY <6>1
          <6> QED
            BY <5>1, <6>2
        <5>6. (ok /\ object # NoContent /\ ~crossed)' = (ok /\ object # NoContent /\ ~crossed)
          BY <1>3, <2>2, <2>4, <4>2, <5>1
        <5>7. File!PutChar
          BY <1>1, <5>4, <5>5, <5>6 DEF File!PutChar, PutAt, content
        <5> QED
          BY <5>7 DEF FileStep
      <4> QED
        BY <4>1, <4>2
    <3> QED
      BY <3>5, <3>6, <3>7, <3>8 DEF LoInv
  <2> QED
    BY <2>1, <2>3, <2>4 DEF Overflow
<1> QED
  BY <1>9, <1>10

LEMMA GetCharKeeps ==
  ASSUME LoInv, GetChar
  PROVE  LoInv' /\ FileStep
<1> DEFINE end == IF offset + BufSize < Len(object) THEN offset + BufSize ELSE Len(object)
           data == SubSeq(object, offset + 1, end)
<1>1. /\ open /\ area.in /\ UNCHANGED <<object, id, open>> /\ turn' = ~turn
      /\ crossed' = (crossed \/ area.put # << >>)
  BY DEF GetChar
<1>2. /\ object # NoContent /\ object \in Seq(Byte) /\ Len(object) \in Nat
      /\ Len(object) <= MaxLength
  BY <1>1, StreamFacts DEF LoInv, StreamIsOpen
<1>3. /\ offset \in Nat /\ Len(area.put) \in Nat /\ BufSize \in Nat /\ BufSize > 0
      /\ area.next \in Nat /\ Len(area.get) \in Nat /\ Unread \in Nat
      /\ Unread = Len(area.get) - area.next /\ MaxLength \in Nat
      /\ area.get \in Seq(Byte) /\ area.put \in Seq(Char) /\ offset <= MaxLength
      /\ offset + Len(area.put) <= MaxLength
  BY StreamFacts DEF LoInv, StreamIsOpen
<1>4. crossed' \in BOOLEAN /\ turn' \in BOOLEAN
  BY <1>1, StreamFacts
<1>5. ~crossed' => ~crossed /\ area.put = << >>
  BY <1>1, Zenon
<1>6. LoTypeOK /\ area \in Area
  BY DEF LoInv, LoTypeOK
<1>7. Overwritten(object, offset, << >>) = object
  BY DEF Overwritten
(* From the get area. *)
<1>8. CASE Unread > 0
  <2>1. /\ read' = area.get[area.next + 1]
        /\ area' = [area EXCEPT !.next = @ + 1] /\ UNCHANGED <<offset, ok>>
    BY <1>8 DEF GetChar
  <2>2. area.next + 1 \in 1 .. Len(area.get)
    BY <1>3, <1>8
  <2>3. read' \in Byte
    BY <1>3, <2>1, <2>2, ElementOfSeq
  <2>4. /\ area' \in Area /\ area'.get = area.get /\ area'.next = area.next + 1
        /\ area'.put = area.put
    BY <1>3, <1>6, <2>1, SMTT(30) DEF Area
  <2>5. /\ area'.next <= Len(area'.get) /\ Unread' = Unread - 1
        /\ area'.next \in Nat
    BY <1>3, <2>2, <2>4, SMTT(30) DEF Unread
  <2>6. LoTypeOK'
    BY <1>1, <1>4, <1>6, <2>1, <2>3, <2>4, <2>5 DEF LoTypeOK, Byte
  <2>7. StreamIsOpen'
    BY <1>1, <2>1, <2>4 DEF LoInv, StreamIsOpen
  <2>8. ASSUME ~crossed'
        PROVE  /\ Len(area.get) <= offset /\ offset <= Len(object)
               /\ \A i \in area.next + 1 .. Len(area.get) :
                    area.get[i] = object[offset - Len(area.get) + i]
    BY <1>5, <1>8, <2>8 DEF LoInv, AreaIsInObject
  <2>9. AreaIsInObject'
    <3>1. CASE crossed'
      BY <3>1 DEF AreaIsInObject
    <3>2. CASE ~crossed'
      <4>1. area'.put = << >>
        BY <1>5, <2>4, <3>2
      <4>2. \A i \in area'.next + 1 .. Len(area'.get) : i \in area.next + 1 .. Len(area.get)
        BY <1>3, <2>4
      <4> QED
        BY <1>1, <2>1, <2>4, <2>8, <3>2, <4>1, <4>2 DEF AreaIsInObject
    <3> QED
      BY <3>1, <3>2
  <2>10. FileStep
    <3>1. CASE crossed' \/ ok = FALSE
      BY <1>4, <2>1, <3>1, NoTrustSteps
    <3>2. CASE ~crossed' /\ ok
      <4> DEFINE at == offset + Len(area.put) - Unread
      <4>1. /\ Len(area.put) = 0 /\ area.put = << >> /\ area'.put = << >> /\ ~crossed
            /\ Len(area'.put) = 0
        BY <1>5, <2>4, <3>2
      <4>2. /\ at \in Nat /\ at < Len(object)
            /\ at + 1 = offset - Len(area.get) + (area.next + 1)
            /\ (offset + Len(area.put) - Unread)' = at + 1
        <5>1. at = offset - Unread /\ Unread <= offset /\ offset <= Len(object)
          BY <1>3, <2>8, <3>2, <4>1
        <5>2. (offset + Len(area.put) - Unread)' = offset + 0 - (Unread - 1)
          BY <2>1, <2>5, <4>1
        <5> HIDE DEF at
        <5>3. PICK u \in Nat : u = Unread /\ u > 0
          BY <1>3, <1>8
        <5>4. at \in Nat /\ at < Len(object)
          BY <1>2, <1>3, <5>1, <5>3
        <5>5. at + 1 = offset - Len(area.get) + (area.next + 1)
          <6>1. u = Len(area.get) - area.next /\ at = offset - u
            BY <1>3, <5>1, <5>3
          <6>2. PICK k \in Nat, size \in Nat, next \in Nat :
                  k = offset /\ size = Len(area.get) /\ next = area.next
            BY <1>3
          <6>3. k - (size - next) + 1 = k - size + (next + 1)
            OBVIOUS
          <6>4. at + 1 = k - (size - next) + 1
            BY <6>1, <6>2
          <6> QED
            BY <6>2, <6>3, <6>4
        <5>6. offset + 0 - (u - 1) = offset - u + 1
          BY <1>3
        <5> QED
          BY <5>1, <5>2, <5>3, <5>4, <5>5, <5>6
      <4>3. read' = object[at + 1]
        <5>1. area.next + 1 \in area.next + 1 .. Len(area.get)
          BY <2>2
        <5>2. area.get[area.next + 1] = object[offset - Len(area.get) + (area.next + 1)]
          BY <2>8, <3>2, <5>1
        <5> QED
          BY <2>1, <4>2, <5>2
      <4>4. /\ Overwritten(object, offset, area.put) = object
            /\ Overwritten(object, offset, area.put)' = object
        BY <1>1, <4>1 DEF Overwritten
      <4>5. (ok /\ object # NoContent /\ ~crossed)' = (ok /\ object # NoContent /\ ~crossed)
        BY <1>1, <1>2, <2>1, <3>2, <4>1
      <4> HIDE DEF at
      <4>6. File!GetChar
        BY <1>1, <4>2, <4>3, <4>4, <4>5 DEF File!GetChar, at
      <4> QED
        BY <4>6 DEF FileStep
    <3> QED
      BY <1>6, <3>1, <3>2, StreamFacts
  <2> QED
    BY <2>6, <2>7, <2>9, <2>10 DEF LoInv
(* From the server, which may fail. *)
<1>9. CASE /\ Fails /\ read' = Eof /\ UNCHANGED offset
           /\ area' = [area EXCEPT !.get = << >>, !.next = 0]
  <2>1. /\ area' \in Area /\ area'.get = << >> /\ area'.next = 0 /\ area'.put = area.put
    <3>1. << >> \in Seq(Byte)
      OBVIOUS
    <3> QED
      BY <1>6, <1>9, <3>1 DEF Area, Byte
  <2>2. LoTypeOK'
    <3>1. /\ area'.next <= Len(area'.get) /\ Len(area'.get) <= BufSize
          /\ Len(area'.put) <= BufSize /\ ok' = FALSE
      BY <1>3, <1>6, <1>9, <2>1 DEF LoTypeOK, Fails
    <3> QED
      BY <1>1, <1>4, <1>6, <1>9, <2>1, <3>1 DEF LoTypeOK
  <2>3. StreamIsOpen'
    BY <1>1, <1>9, <2>1 DEF LoInv, StreamIsOpen
  <2>4. AreaIsInObject'
    BY <2>1 DEF AreaIsInObject, Unread
  <2> QED
    BY <1>9, <2>2, <2>3, <2>4, NoTrustSteps DEF LoInv, Fails
(* Or what there is, as much as the area holds. *)
<1>10. CASE /\ ok /\ UNCHANGED ok /\ ~(Unread > 0)
            /\ offset' = offset + Len(data)
            /\ area' = [area EXCEPT !.get = data, !.next = NextOf(data)]
            /\ read' = IF data = << >> THEN Eof ELSE data[1]
  <2>1. PICK last \in Nat : last = end
    BY <1>2, <1>3
  <2>2. /\ data \in Seq(Byte)
        /\ Len(data) = IF offset + 1 <= last THEN last - offset ELSE 0
        /\ \A i \in 1 .. last - offset : data[i] = object[offset + i]
    <3>1. \A i \in offset + 1 .. last : object[i] \in Byte
      BY <1>2, <1>3, <2>1
    <3>2. /\ data \in Seq(Byte)
          /\ Len(data) = IF offset + 1 <= last THEN last - (offset + 1) + 1 ELSE 0
          /\ \A i \in 1 .. last - (offset + 1) + 1 : data[i] = object[(offset + 1) + i - 1]
      <4>1. offset + 1 \in Int /\ last \in Int /\ data = SubSeq(object, offset + 1, last)
        BY <1>3, <2>1
      <4> HIDE DEF data
      <4> QED
        BY <3>1, <4>1, SubSeqProperties
    <3> HIDE DEF data
    <3>3. \A i \in 1 .. last - offset : (offset + 1) + i - 1 = offset + i
      BY <1>3
    <3>4. last - (offset + 1) + 1 = last - offset
      BY <1>3
    <3> QED
      BY <3>2, <3>3, <3>4
  <2>3. last <= Len(object) /\ last <= offset + BufSize /\ (offset < Len(object) => offset < last)
    BY <1>2, <1>3, <2>1
  <2> HIDE DEF data, end
  <2>4. PICK n \in Nat : n = Len(data)
    BY <2>2
  <2>5. /\ n <= BufSize /\ offset + n <= MaxLength
        /\ n = 0 <=> data = << >>
        /\ n = 0 <=> ~(offset < Len(object))
        /\ n > 0 => offset + n <= Len(object) /\ n = last - offset
    BY <1>2, <1>3, <2>2, <2>3, <2>4
  <2>6. /\ NextOf(data) = (IF n = 0 THEN 0 ELSE 1) /\ NextOf(data) \in Nat
        /\ NextOf(data) <= n
    BY <2>5 DEF NextOf
  <2>7. n > 0 => data[1] = object[offset + 1] /\ data[1] \in Byte
    <3>1. SUFFICES ASSUME n > 0
                   PROVE  data[1] = object[offset + 1] /\ data[1] \in Byte
      OBVIOUS
    <3>2. 1 \in 1 .. Len(data) /\ 1 \in 1 .. last - offset
      BY <2>4, <2>5, <3>1
    <3> QED
      BY <2>2, <3>2, ElementOfSeq
  <2>8. /\ area' \in Area /\ area'.get = data /\ area'.next = NextOf(data)
        /\ area'.put = area.put
    BY <1>6, <1>10, <2>2, <2>6 DEF Area, Byte
  <2>9. Unread' = n - NextOf(data) /\ offset' = offset + n
    BY <1>10, <2>4, <2>8 DEF Unread
  <2>10. read' \in Byte \cup {Eof}
    BY <1>10, <2>5, <2>7
  <2>11. LoTypeOK'
    <3>1. /\ offset' \in 0 .. MaxLength /\ Len(area'.get) <= BufSize
          /\ area'.next <= Len(area'.get) /\ Len(area'.put) <= BufSize
      BY <1>3, <1>6, <2>4, <2>5, <2>6, <2>8, <2>9 DEF LoTypeOK
    <3> QED
      BY <1>1, <1>4, <1>6, <1>10, <2>8, <2>10, <3>1 DEF LoTypeOK, Byte
  <2>12. StreamIsOpen'
    <3>1. offset' + Len(area'.put) <= MaxLength
      <4>1. CASE n = 0
        BY <1>3, <2>8, <2>9, <4>1
      <4>2. CASE n > 0 /\ area.put # << >>
        <5>1. Len(object) + Len(area.put) <= MaxLength
          BY <4>2 DEF GetChar
        <5> QED
          <6>1. offset' + Len(area'.put) = offset + n + Len(area.put)
            BY <2>8, <2>9
          <6>2. offset + n <= Len(object)
            BY <2>5, <4>2
          <6>3. offset + n + Len(area.put) <= MaxLength
            <7>1. PICK size \in Nat, m \in Nat, k \in Nat :
                    size = Len(object) /\ m = Len(area.put) /\ k = offset
              BY <1>2, <1>3
            <7>2. k + n <= size /\ size + m <= MaxLength /\ MaxLength \in Nat
              BY <1>3, <5>1, <6>2, <7>1
            <7>3. k + n + m <= MaxLength
              BY <7>2
            <7> QED
              BY <7>1, <7>3
          <6> QED
            BY <6>1, <6>3
      <4>3. CASE n > 0 /\ area.put = << >>
        <5>1. Len(area'.put) = 0
          BY <2>8, <4>3
        <5> QED
          BY <1>3, <2>5, <2>9, <5>1
      <4> QED
        BY <4>1, <4>2, <4>3
    <3> QED
      BY <1>1, <2>8, <3>1 DEF LoInv, StreamIsOpen
  <2>13. AreaIsInObject'
    <3>1. SUFFICES ASSUME ~crossed', Unread' > 0
                   PROVE  /\ Len(area'.get) <= offset' /\ offset' <= Len(object')
                          /\ \A i \in area'.next + 1 .. Len(area'.get) :
                               area'.get[i] = object'[offset' - Len(area'.get) + i]
      <4>1. ~crossed' => area'.put = << >>
        BY <1>5, <2>8
      <4> QED
        BY <4>1 DEF AreaIsInObject
    <3>2. n > 0
      BY <2>6, <2>9, <3>1
    <3>3. Len(area'.get) <= offset' /\ offset' <= Len(object')
      BY <1>1, <1>3, <2>4, <2>5, <2>8, <2>9, <3>2
    <3>4. ASSUME NEW i \in area'.next + 1 .. Len(area'.get)
          PROVE  area'.get[i] = object'[offset' - Len(area'.get) + i]
      <4>1. i \in 1 .. last - offset /\ offset' - Len(area'.get) + i = offset + i
        BY <1>3, <2>4, <2>5, <2>6, <2>8, <2>9, <3>2, <3>4
      <4> QED
        BY <1>1, <2>2, <2>8, <4>1
    <3> QED
      BY <3>3, <3>4
  <2>14. FileStep
    <3>1. CASE crossed'
      BY <1>4, <3>1, NoTrustSteps
    <3>2. CASE ~crossed'
      <4> DEFINE at == offset + Len(area.put) - Unread
      <4>1. /\ Len(area.put) = 0 /\ area.put = << >> /\ area'.put = << >> /\ ~crossed
            /\ Len(area'.put) = 0
        BY <1>5, <2>8, <3>2
      <4>2. /\ at = offset
            /\ (offset + Len(area.put) - Unread)' = IF offset < Len(object) THEN at + 1 ELSE at
        <5>1. Unread = 0
          BY <1>3, <1>10
        <5>2. at = offset
          BY <1>3, <4>1, <5>1
        <5>3. (offset + Len(area.put) - Unread)' = offset + n + 0 - (n - NextOf(data))
          BY <2>9, <4>1
        <5>4. offset + n + 0 - (n - NextOf(data)) = offset + NextOf(data)
          BY <1>3, <2>6
        <5>5. NextOf(data) = IF offset < Len(object) THEN 1 ELSE 0
          BY <2>5, <2>6
        <5> HIDE DEF at
        <5>6. CASE offset < Len(object)
          BY <5>2, <5>3, <5>4, <5>5, <5>6
        <5>7. CASE ~(offset < Len(object))
          BY <1>3, <5>2, <5>3, <5>4, <5>5, <5>7
        <5> QED
          BY <5>6, <5>7
      <4>3. read' = IF offset < Len(object) THEN object[offset + 1] ELSE Eof
        BY <1>10, <2>5, <2>7
      <4>4. /\ Overwritten(object, offset, area.put) = object
            /\ Overwritten(object, offset, area.put)' = object
        BY <1>1, <4>1 DEF Overwritten
      <4>5. (ok /\ object # NoContent /\ ~crossed)' = (ok /\ object # NoContent /\ ~crossed)
        BY <1>1, <1>2, <1>10, <3>2, <4>1
      <4> HIDE DEF at
      <4>6. File!GetChar
        BY <1>1, <4>2, <4>3, <4>4, <4>5 DEF File!GetChar, at
      <4> QED
        BY <4>6 DEF FileStep
    <3> QED
      BY <3>1, <3>2
  <2> QED
    BY <2>11, <2>12, <2>13, <2>14 DEF LoInv
<1> QED
  BY <1>8, <1>9, <1>10 DEF GetChar

LEMMA SyncKeeps ==
  ASSUME LoInv, Sync
  PROVE  LoInv' /\ FileStep
<1> DEFINE again == [area EXCEPT !.next = 0]
<1>1. /\ open /\ crossed' = (crossed \/ area.next > 0)
      /\ UNCHANGED <<id, open, read, turn>>
      /\ IF area.out THEN Overflow(Eof, again)
         ELSE area' = again /\ UNCHANGED <<object, offset, ok>>
  BY DEF Sync
<1>2. /\ object # NoContent /\ object \in Seq(Byte) /\ id
      /\ Len(object) <= MaxLength /\ offset + Len(area.put) <= MaxLength
      /\ Len(area.put) <= BufSize
  BY <1>1, StreamFacts DEF LoInv, StreamIsOpen, LoTypeOK
<1>3. 0 \in 0 .. Len(area.get) /\ << >> \in Seq(Char) /\ << >> \in Seq(Byte) /\ Len(<< >>) = 0
  BY StreamFacts
<1>4. crossed' \in BOOLEAN /\ turn' \in BOOLEAN
  BY <1>1, StreamFacts
<1>5. ~crossed' => ~crossed /\ area.next = 0
  <2>1. ~crossed' => ~crossed /\ ~(area.next > 0)
    BY <1>1, Zenon
  <2> QED
    BY <2>1, StreamFacts
<1>6. LoTypeOK /\ area \in Area
  BY DEF LoInv, LoTypeOK
<1>7. /\ offset \in Nat /\ MaxLength \in Nat /\ Len(area.put) \in Nat /\ BufSize \in Nat
      /\ offset <= MaxLength
  BY StreamFacts
<1>8. Fresh(Eof) = << >>
  BY DEF Fresh
(* Nothing is written: there is nothing, or it fails. *)
<1>9. CASE area' = again /\ UNCHANGED <<object, offset>> /\ ok' \in {ok, FALSE}
  <2>1. area' = [area EXCEPT !.next = 0, !.put = area.put] /\ area.put \in Seq(Char)
    BY <1>6, <1>9, StreamFacts DEF Area
  <2>2. /\ area' \in Area /\ area'.get = area.get /\ area'.next = 0 /\ area'.put = area.put
        /\ Unread' = Len(area.get) - 0 /\ area'.next <= Len(area'.get)
    BY <1>3, <2>1, PutAreaIs
  <2>3. LoTypeOK'
    BY <1>1, <1>4, <1>6, <1>9, <2>2 DEF LoTypeOK
  <2>4. StreamIsOpen'
    BY <1>1, <1>9, <2>2 DEF LoInv, StreamIsOpen
  <2>5. ~crossed' => Unread' = Unread /\ area'.next = area.next
    BY <1>5, <2>2 DEF Unread
  <2>6. AreaIsInObject'
    <3>1. CASE crossed'
      BY <3>1 DEF AreaIsInObject
    <3>2. CASE ~crossed'
      BY <1>5, <1>9, <2>2, <2>5, <3>2 DEF AreaIsInObject, LoInv
    <3> QED
      BY <3>1, <3>2
  <2>7. FileStep
    <3>1. CASE crossed' \/ ok' = FALSE
      BY <1>4, <3>1, NoTrustSteps
    <3>2. CASE ~crossed' /\ ok' = ok
      <4>1. /\ Overwritten(object, offset, area.put)' = Overwritten(object, offset, area.put)
            /\ (offset + Len(area.put) - Unread)' = offset + Len(area.put) - Unread
        BY <1>9, <2>2, <2>5, <3>2
      <4>2. (ok /\ object # NoContent /\ ~crossed)' = (ok /\ object # NoContent /\ ~crossed)
        BY <1>5, <1>9, <3>2
      <4> QED
        BY <1>1, <4>1, <4>2 DEF FileStep, File!fileVars
    <3> QED
      BY <1>9, <3>1, <3>2
  <2> QED
    BY <2>3, <2>4, <2>6, <2>7 DEF LoInv
(* What is in the put area is written. *)
<1>10. CASE /\ area.put # << >> /\ ok /\ UNCHANGED ok
            /\ object' = Overwritten(object, offset, area.put)
            /\ offset' = offset + Len(area.put)
            /\ area' = [again EXCEPT !.put = Fresh(Eof)]
  <2> DEFINE flushed == Overwritten(object, offset, area.put)
  <2>1. /\ flushed \in Seq(Byte) /\ flushed # NoContent
        /\ Len(flushed) <= MaxLength /\ offset + Len(area.put) <= Len(flushed)
    BY <1>1, <1>10, FlushIs
  <2>2. area' = [area EXCEPT !.next = 0, !.put = << >>]
    BY <1>6, <1>8, <1>10 DEF Area
  <2>3. /\ area' \in Area /\ area'.get = area.get /\ area'.next = 0 /\ area'.put = << >>
        /\ Unread' = Len(area.get) - 0 /\ area'.next <= Len(area'.get)
    BY <1>3, <2>2, PutAreaIs
  <2> HIDE DEF flushed
  <2>4. /\ Len(area'.put) = 0 /\ offset' \in 0 .. MaxLength
        /\ offset' + Len(area'.put) <= MaxLength
    <3>1. Len(area'.put) = 0
      BY <1>3, <2>3
    <3> QED
      BY <1>2, <1>7, <1>10, <3>1
  <2>5. LoTypeOK'
    <3>1. Len(area'.put) <= BufSize /\ Len(area'.get) <= BufSize
      BY <1>6, <1>7, <2>3, <2>4 DEF LoTypeOK
    <3> QED
      BY <1>1, <1>4, <1>6, <1>10, <2>1, <2>3, <2>4, <3>1 DEF LoTypeOK, Byte, flushed
  <2>6. StreamIsOpen'
    BY <1>1, <1>2, <1>10, <2>1, <2>4 DEF LoInv, StreamIsOpen, flushed
  <2>7. ~crossed' => Unread' = 0 /\ Unread = 0
    <3>1. ~crossed' => Unread = 0
      BY <1>5, <1>10 DEF LoInv, AreaIsInObject
    <3> QED
      BY <1>5, <2>3, <3>1 DEF Unread
  <2>8. AreaIsInObject'
    <3>1. CASE crossed'
      BY <3>1 DEF AreaIsInObject
    <3>2. CASE ~crossed'
      BY <2>3, <2>7, <3>2 DEF AreaIsInObject
    <3> QED
      BY <3>1, <3>2
  <2>9. FileStep
    <3>1. CASE crossed'
      BY <1>4, <3>1, NoTrustSteps
    <3>2. CASE ~crossed'
      <4>1. Overwritten(object, offset, area.put)' = Overwritten(object, offset, area.put)
        BY <1>10, <2>3 DEF Overwritten
      <4>2. (offset + Len(area.put) - Unread)' = offset + Len(area.put) - Unread
        BY <1>7, <1>10, <2>4, <2>7, <3>2
      <4>3. (ok /\ object # NoContent /\ ~crossed)' = (ok /\ object # NoContent /\ ~crossed)
        BY <1>2, <1>5, <1>10, <2>1, <3>2 DEF flushed
      <4> QED
        BY <1>1, <4>1, <4>2, <4>3 DEF FileStep, File!fileVars
    <3> QED
      BY <3>1, <3>2
  <2> QED
    BY <2>5, <2>6, <2>8, <2>9 DEF LoInv
<1>11. CASE area.put = << >> /\ area' = [again EXCEPT !.put = Fresh(Eof)]
            /\ UNCHANGED <<object, offset, ok>>
  <2>1. area' = again
    BY <1>6, <1>8, <1>11 DEF Area
  <2> QED
    BY <1>9, <1>11, <2>1
<1> QED
  <2>1. CASE area.out
    BY <1>1, <1>9, <1>10, <1>11, <2>1 DEF Overflow, Fails
  <2>2. CASE ~area.out
    BY <1>1, <1>9, <2>2
  <2> QED
    BY <2>1, <2>2

LEMMA SeekStreamKeeps ==
  ASSUME LoInv, SeekStream
  PROVE  LoInv' /\ FileStep
<1>1. /\ open /\ crossed' = (crossed \/ Unread > 0 \/ area.put # << >>)
      /\ UNCHANGED <<object, id, open, area, read, turn>>
  BY DEF SeekStream
<1>2. /\ offset' \in 0 .. MaxLength /\ ok' \in {ok, FALSE}
      /\ offset' + Len(area.put) <= MaxLength
      /\ ok' = ok \/ offset' = offset
  <2>1. CASE Fails /\ UNCHANGED offset
    BY <2>1 DEF Fails, LoInv, StreamIsOpen, LoTypeOK
  <2>2. CASE /\ ok /\ UNCHANGED ok
             /\ \E n \in 0 .. MaxLength - Len(area.put) : offset' = n
    BY <2>2, StreamFacts
  <2> QED
    BY <2>1, <2>2 DEF SeekStream
<1>3. crossed' \in BOOLEAN /\ LoTypeOK
  BY <1>1, StreamFacts DEF LoInv
<1>4. ~crossed' => ~crossed /\ area.put = << >> /\ Unread = 0
  <2>1. ~crossed' => ~crossed /\ area.put = << >> /\ ~(Unread > 0)
    BY <1>1, Zenon
  <2> QED
    BY <2>1, StreamFacts
<1>5. LoTypeOK'
  BY <1>1, <1>2, <1>3, StreamFacts DEF LoTypeOK
<1>6. StreamIsOpen'
  BY <1>1, <1>2 DEF LoInv, StreamIsOpen
<1>7. Unread' = Unread
  BY <1>1 DEF Unread
<1>8. AreaIsInObject'
  BY <1>1, <1>4, <1>7 DEF AreaIsInObject
<1>9. FileStep
  <2>1. CASE crossed' \/ ok' = FALSE
    BY <1>3, <2>1, NoTrustSteps
  <2>2. CASE ~crossed' /\ ok' = ok
    <3>1. area'.put = << >> /\ Len(area.put) = 0 /\ Len(area'.put) = 0
      BY <1>1, <1>4, <2>2
    <3>2. /\ Overwritten(object, offset, area.put)' = object
          /\ Overwritten(object, offset, area.put) = object
      BY <1>1, <1>4, <2>2, <3>1 DEF Overwritten
    <3>3. (offset + Len(area.put) - Unread)' \in Nat
      <4>1. PICK n \in Nat : n = offset'
        BY <1>2, LoStreamAssumption
      <4>2. (offset + Len(area.put) - Unread)' = n + 0 - 0
        BY <1>4, <1>7, <2>2, <3>1, <4>1
      <4> QED
        BY <4>2
    <3>4. (ok /\ object # NoContent /\ ~crossed)' = (ok /\ object # NoContent /\ ~crossed)
      BY <1>1, <1>4, <2>2
    <3>5. File!SeekFile
      BY <1>1, <3>2, <3>3, <3>4 DEF File!SeekFile
    <3> QED
      BY <3>5 DEF FileStep
  <2> QED
    BY <1>2, <2>1, <2>2
<1> QED
  BY <1>5, <1>6, <1>8, <1>9 DEF LoInv

LEMMA DestroyStreamKeeps ==
  ASSUME LoInv, DestroyStream
  PROVE  LoInv' /\ FileStep
<1>1. /\ open /\ ~open' /\ open' \in BOOLEAN /\ area' = NoArea
      /\ UNCHANGED <<id, read, turn, crossed>>
  BY DEF DestroyStream
<1>2. /\ area' \in Area /\ area'.get = << >> /\ area'.next = 0 /\ area'.put = << >>
      /\ Len(area'.put) = 0 /\ Unread' = 0 /\ Len(area'.get) = 0
  <2>1. << >> \in Seq(Byte) /\ << >> \in Seq(Char) /\ Len(<< >>) = 0
    OBVIOUS
  <2> QED
    BY <1>1, <2>1 DEF NoArea, Area, Unread, Byte
<1>3. /\ object # NoContent /\ object \in Seq(Byte) /\ id
      /\ Len(object) <= MaxLength /\ offset + Len(area.put) <= MaxLength
  BY <1>1, StreamFacts DEF LoInv, StreamIsOpen
<1>4. /\ object' \in Seq(Byte) /\ object' # NoContent /\ Len(object') <= MaxLength
      /\ offset' \in 0 .. MaxLength /\ ok' \in {ok, FALSE}
      /\ ok' => object' = Overwritten(object, offset, area.put)
  <2>1. CASE area.put = << >> /\ UNCHANGED <<object, offset, ok>>
    <3>1. Overwritten(object, offset, area.put) = object
      BY <2>1 DEF Overwritten
    <3> QED
      BY <1>3, <2>1, <3>1 DEF LoInv, LoTypeOK
  <2>2. CASE area.put # << >> /\ ok' = FALSE /\ UNCHANGED <<object, offset>>
    BY <1>3, <2>2 DEF LoInv, LoTypeOK
  <2>3. CASE /\ area.put # << >> /\ ok /\ UNCHANGED ok
             /\ object' = Overwritten(object, offset, area.put)
             /\ offset' = offset + Len(area.put)
    <3>1. /\ object' \in Seq(Byte) /\ object' # NoContent /\ Len(object') <= MaxLength
      BY <1>1, <2>3, FlushIs
    <3>2. offset' \in 0 .. MaxLength
      BY <1>3, <2>3, StreamFacts
    <3> QED
      BY <2>3, <3>1, <3>2
  <2> QED
    BY <2>1, <2>2, <2>3 DEF DestroyStream, Lastly, Fails
<1>5. LoTypeOK'
  <2>1. /\ area'.next <= Len(area'.get) /\ Len(area'.get) <= BufSize
        /\ Len(area'.put) <= BufSize /\ ok' \in BOOLEAN
    <3>1. BufSize \in Nat /\ ok \in BOOLEAN
      BY StreamFacts
    <3>2. ok' \in BOOLEAN
      BY <1>4, <3>1, Zenon
    <3>3. 0 <= 0 /\ 0 <= BufSize
      BY <3>1
    <3> QED
      BY <1>2, <3>2, <3>3, Zenon
  <2> QED
    BY <1>1, <1>2, <1>4, <2>1 DEF LoInv, LoTypeOK, Byte
<1>6. StreamIsOpen'
  <2>1. PICK n \in Nat : n = offset' /\ n <= MaxLength
    BY <1>4, LoStreamAssumption
  <2>2. offset' + Len(area'.put) <= MaxLength
    <3>1. offset' + Len(area'.put) = n + 0
      BY <1>2, <2>1
    <3> QED
      BY <2>1, <3>1
  <2> QED
    BY <1>1, <1>3, <1>4, <2>2 DEF StreamIsOpen
<1>7. AreaIsInObject'
  BY <1>2 DEF AreaIsInObject
<1>8. FileStep
  <2>1. CASE crossed' \/ ok' = FALSE
    BY <1>1, <2>1, NoTrustSteps, StreamFacts
  <2>2. CASE ok' = ok /\ ok' /\ ~crossed'
    <3>1. Overwritten(object, offset, area.put)' = object'
      BY <1>2 DEF Overwritten
    <3>2. (offset + Len(area.put) - Unread)' \in Nat
      <4>1. PICK n \in Nat : n = offset'
        BY <1>4, LoStreamAssumption
      <4>2. (offset + Len(area.put) - Unread)' = n + 0 - 0
        BY <1>2, <4>1
      <4> QED
        BY <4>2
    <3>3. (ok /\ object # NoContent /\ ~crossed)' = (ok /\ object # NoContent /\ ~crossed)
      BY <1>1, <1>3, <1>4, <2>2
    <3>4. File!SeekFile
      BY <1>1, <1>4, <2>2, <3>1, <3>2, <3>3 DEF File!SeekFile
    <3> QED
      BY <3>4 DEF FileStep
  <2>3. ok \in BOOLEAN /\ crossed' \in BOOLEAN
    BY <1>1, StreamFacts
  <2> QED
    BY <1>4, <2>1, <2>2, <2>3, Zenon
<1> QED
  BY <1>5, <1>6, <1>7, <1>8 DEF LoInv

-----------------------------------------------------------------------------
LEMMA LoInvInit ==
  ASSUME LoInit
  PROVE  LoInv /\ File!FileInit
<1>1. /\ area \in Area /\ area.get = << >> /\ area.next = 0 /\ area.put = << >>
      /\ Len(area.get) = 0 /\ Len(area.put) = 0 /\ Unread = 0
  <2>1. << >> \in Seq(Byte) /\ << >> \in Seq(Char) /\ Len(<< >>) = 0
    OBVIOUS
  <2> QED
    BY <2>1 DEF LoInit, NoArea, Area, Unread, Byte
<1>2. LoTypeOK
  <2>1. offset \in 0 .. MaxLength /\ Len(area.get) <= BufSize /\ Len(area.put) <= BufSize
    BY <1>1, LoStreamAssumption DEF LoInit
  <2>2. area.next <= Len(area.get)
    BY <1>1
  <2> QED
    BY <1>1, <2>1, <2>2 DEF LoInit, LoTypeOK
<1>3. StreamIsOpen
  BY <1>1, LoStreamAssumption DEF LoInit, StreamIsOpen
<1>4. AreaIsInObject
  BY <1>1 DEF AreaIsInObject
<1>5. File!FileInit
  BY DEF LoInit, File!FileInit
<1> QED
  BY <1>2, <1>3, <1>4, <1>5 DEF LoInv

LEMMA LoInvNext ==
  ASSUME LoInv, [LoNext]_loVars
  PROVE  LoInv' /\ FileStep
<1>1. CASE UNCHANGED loVars
  <2>1. LoInv'
    BY <1>1 DEF loVars, LoInv, LoTypeOK, StreamIsOpen, AreaIsInObject, Unread
  <2>2. UNCHANGED File!fileVars
    BY <1>1 DEF loVars, File!fileVars, Overwritten, Unread
  <2> QED
    BY <2>1, <2>2 DEF FileStep
<1>2. CASE LoNext
  BY <1>2, CreateObjectKeeps, UnlinkObjectKeeps, OpenStreamKeeps, PutKeeps,
     GetCharKeeps, SyncKeeps, SeekStreamKeeps, DestroyStreamKeeps DEF LoNext
<1> QED
  BY <1>1, <1>2

(* Every variable has its type, and neither area outgrows its buffer.        *)
THEOREM StreamTyped == LoSpec => []LoTypeOK
<1>1. LoInit => LoInv
  BY LoInvInit
<1>2. LoInv /\ [LoNext]_loVars => LoInv'
  BY LoInvNext
<1>3. LoInv => LoTypeOK
  BY DEF LoInv
<1> QED
  BY <1>1, <1>2, <1>3, PTL DEF LoSpec

(* The stream is the plain file that it replaces, as long as the program     *)
(* crosses neither area: what the put area holds is in the file, what the    *)
(* get area holds is yet to be read, and no flush, underflow or destruction  *)
(* of the stream is seen (largeobject.hxx).                                  *)
THEOREM StreamIsPlainFile == LoSpec => IsPlainFile
<1>1. LoInit => LoInv /\ File!FileInit
  BY LoInvInit
<1>2. LoInv /\ [LoNext]_loVars => LoInv'
  BY LoInvNext
<1>3. LoInv /\ [LoNext]_loVars =>
        [File!NoTrust \/ File!Begins \/ File!PutChar \/ File!GetChar
           \/ File!SeekFile]_(File!fileVars)
  BY LoInvNext DEF FileStep
<1> QED
  BY <1>1, <1>2, <1>3, PTL DEF LoSpec, IsPlainFile, File!FileSpec

================================================================================
