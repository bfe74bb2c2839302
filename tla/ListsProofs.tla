----------------------------- MODULE ListsProofs -----------------------------
(***************************************************************************)
(* Proofs about Lists, for any lists, ranges and slicings a program can    *)
(* write: whichever of its representations a list goes through, it has the *)
(* elements that the program has put there, and an operation is refused if *)
(* it has no meaning, and only then.                                       *)
(*                                                                         *)
(* Most of it is arithmetic: which numbers a range steps on in C++, which  *)
(* ones it lists in Python, and which of them are indices of a list.       *)
(***************************************************************************)
EXTENDS Lists, SequenceTheorems, FiniteSetTheorems, WellFoundedInduction, TLAPS

-----------------------------------------------------------------------------
(* Products: order and divisibility.                                        *)

(* Multiples of a positive number are in the order of their factors.        *)
LEMMA TimesOrder ==
    ASSUME NEW c \in Int, c > 0, NEW j \in Int, NEW k \in Int
    PROVE  /\ j * c \in Int /\ k * c \in Int
           /\ j < k <=> j * c < k * c
           /\ j = k <=> j * c = k * c
           /\ j < k => (j + 1) * c <= k * c
           /\ (j + 1) * c = j * c + c
<1>0. j * c \in Int /\ k * c \in Int
  BY SMT
<1>1. (j + 1) * c = j * c + c
  BY SMT
<1>2. \A d \in Nat : d * c \in Nat /\ (d > 0 => d * c >= c)
  <2>1. SUFFICES ASSUME NEW d \in Nat
                 PROVE  d * c \in Nat /\ (d > 0 => d * c >= c)
    OBVIOUS
  <2> QED
    BY SMT
<1>3. ASSUME NEW x \in Int, NEW y \in Int, x < y
      PROVE  x * c < y * c /\ (x + 1) * c <= y * c
  <2>1. y - x \in Nat /\ y - x > 0 /\ y - (x + 1) \in Nat
    BY <1>3, SMT
  <2>2. (y - x) * c >= c /\ (y - (x + 1)) * c >= 0
    BY <1>2, <2>1, SMT
  <2>3. (y - x) * c = y * c - x * c /\ (y - (x + 1)) * c = y * c - (x + 1) * c
    BY SMT
  <2> QED
    BY <2>2, <2>3, SMT
<1>4. j < k => j * c < k * c /\ (j + 1) * c <= k * c
  BY <1>3
<1>5. k < j => k * c < j * c
  BY <1>3
<1> QED
  BY <1>0, <1>1, <1>4, <1>5, SMT

(* A number is a multiple and what remains of it.                           *)
LEMMA Division ==
    ASSUME NEW a \in Int, NEW c \in Int, c > 0
    PROVE  /\ a \div c \in Int /\ (a % c) \in 0 .. (c - 1)
           /\ a = (a \div c) * c + (a % c)
BY SMT

(* Dividing is finding the multiple below.                                  *)
LEMMA DivisionIs ==
    ASSUME NEW a \in Int, NEW c \in Int, c > 0, NEW k \in Int,
           k * c <= a, a < k * c + c
    PROVE  a \div c = k /\ (a % c) = a - k * c
<1>1. /\ a \div c \in Int /\ (a % c) \in 0 .. (c - 1)
      /\ a = (a \div c) * c + (a % c)
  BY Division
<1> DEFINE q == a \div c
<1>2. q * c \in Int /\ q * c <= a /\ a < q * c + c
  BY <1>1, SMT
<1>3. q \in Int
  BY <1>1
<1> HIDE DEF q
<1>4. ~(q < k)
  <2>1. q < k => q * c + c <= k * c
    BY <1>3, TimesOrder
  <2> QED
    BY <1>2, <2>1, SMT
<1>5. ~(k < q)
  <2>1. k < q => k * c + c <= q * c
    BY <1>3, TimesOrder
  <2> QED
    BY <1>2, <2>1, SMT
<1>6. q = k
  BY <1>3, <1>4, <1>5, SMT
<1> QED
  BY <1>1, <1>6, SMT DEF q

(* Dividing a multiple gives its factor.                                    *)
LEMMA Multiple ==
    ASSUME NEW c \in Int, c > 0, NEW k \in Int
    PROVE  (k * c) \div c = k /\ ((k * c) % c) = 0
<1>1. k * c \in Int
  BY SMT
<1> QED
  BY <1>1, DivisionIs, SMT

-----------------------------------------------------------------------------
(* Sets of integers, listed.                                                *)

(* A set of natural numbers has a least one.                                *)
LEMMA LeastExists ==
    ASSUME NEW T, T \subseteq Nat, T # {}
    PROVE  \E x \in T : \A y \in T : x <= y
<1>1. PICK x \in T : \A y \in T : ~(<<y, x>> \in OpToRel(<, Nat))
  BY NatLessThanWellFounded, WFMin
<1>2. ASSUME NEW y \in T PROVE x <= y
  <2>1. ~(y < x)
    BY <1>1 DEF OpToRel
  <2>2. x \in Nat /\ y \in Nat
    OBVIOUS
  <2> QED
    BY <2>1, <2>2, SMT
<1> QED
  BY <1>2

(* The elements of S before i, upwards or downwards.                        *)
Below(S, i) == {j \in S : j < i}
Above(S, i) == {j \in S : j > i}

Bounded(S) == \E lo, hi \in Int : S \subseteq lo .. hi

(* A set has an element with k others below it, for every k.                *)
LEMMA RankExists ==
    ASSUME NEW S, Bounded(S)
    PROVE  /\ IsFiniteSet(S) /\ Cardinality(S) \in Nat /\ S \subseteq Int
           /\ \A k \in 0 .. (Cardinality(S) - 1) :
                \E i \in S : Cardinality(Below(S, i)) = k
<1>0. PICK lo \in Int, hi \in Int : S \subseteq lo .. hi
  BY DEF Bounded
<1>1. IsFiniteSet(S)
  BY <1>0, FS_Interval, FS_Subset
<1>2. Cardinality(S) \in Nat
  BY <1>1, FS_CardinalityType
<1>3. \A i : IsFiniteSet(Below(S, i)) /\ Cardinality(Below(S, i)) \in Nat
  <2>1. \A i : Below(S, i) \in SUBSET S
    BY DEF Below
  <2> QED
    BY <1>1, <2>1, FS_Subset, FS_CardinalityType
<1>4. ASSUME NEW k \in 0 .. (Cardinality(S) - 1)
      PROVE  \E i \in S : Cardinality(Below(S, i)) = k
  <2> DEFINE K == {t \in Nat : Cardinality(Below(S, lo + t)) > k}
  <2>1. lo <= hi
    <3>1. Cardinality(S) # 0
      BY <1>2, SMT
    <3>2. S # {}
      BY <3>1, FS_EmptySet
    <3>3. PICK j \in S : TRUE
      BY <3>2
    <3>4. j \in lo .. hi
      BY <1>0, <3>3
    <3> QED
      BY <3>4, SMT
  <2>2. hi - lo + 1 \in K
    <3>1. hi - lo + 1 \in Nat
      BY <2>1, SMT
    <3>2. lo + (hi - lo + 1) = hi + 1
      BY SMT
    <3>3. Below(S, hi + 1) = S
      <4>1. \A j \in lo .. hi : j < hi + 1
        BY SMT
      <4> QED
        BY <1>0, <4>1 DEF Below
    <3>4. Cardinality(S) > k
      BY <1>2, SMT
    <3> QED
      BY <3>1, <3>2, <3>3, <3>4
  <2>3. PICK t \in K : \A y \in K : t <= y
    BY <2>2, LeastExists
  <2>4. t \in Nat /\ Cardinality(Below(S, lo + t)) > k
    BY <2>3
  <2>5. t # 0
    <3>1. Below(S, lo + 0) = {}
      <4>1. \A j \in lo .. hi : ~(j < lo + 0)
        BY SMT
      <4> QED
        BY <1>0, <4>1 DEF Below
    <3>2. Cardinality(Below(S, lo + 0)) = 0
      BY <3>1, FS_EmptySet
    <3> QED
      BY <2>4, <3>2, SMT
  <2> DEFINE i == lo + (t - 1)
  <2>6. t - 1 \in Nat /\ ~(t <= t - 1) /\ i \in Int /\ lo + t = i + 1
    BY <2>4, <2>5, SMT
  <2>7. ~(Cardinality(Below(S, i)) > k)
    BY <2>3, <2>6
  <2>8. Below(S, i + 1) = IF i \in S THEN Below(S, i) \cup {i} ELSE Below(S, i)
    <3>1. i \in Int
      BY <2>6
    <3> HIDE DEF i
    <3>2. \A j \in S : j \in Int
      BY <1>0
    <3>3. \A j \in S : j < i + 1 <=> j < i \/ j = i
      BY <3>1, <3>2, SMT
    <3> QED
      BY <3>3 DEF Below
  <2>9. i \in S
    BY <2>4, <2>6, <2>7, <2>8
  <2>10. i \notin Below(S, i)
    BY <2>6, SMT DEF Below
  <2>11. Cardinality(Below(S, i + 1)) = Cardinality(Below(S, i)) + 1
    BY <1>3, <2>8, <2>9, <2>10, FS_AddElement
  <2>12. Cardinality(Below(S, i)) = k
    <3> HIDE DEF i
    <3> QED
      BY <1>3, <2>4, <2>6, <2>7, <2>11, SMT
  <2> QED
    BY <2>9, <2>12
<1>5. S \subseteq Int
  BY <1>0
<1> QED
  BY <1>1, <1>2, <1>4, <1>5

(* What is not below an element, or the element, is above it.               *)
LEMMA AboveBelow ==
    ASSUME NEW S, IsFiniteSet(S), S \subseteq Int, NEW i \in S
    PROVE  Cardinality(Above(S, i)) = Cardinality(S) - 1 - Cardinality(Below(S, i))
<1>1. /\ Below(S, i) \in SUBSET S /\ Above(S, i) \in SUBSET S
  BY DEF Below, Above
<1>2. /\ IsFiniteSet(Below(S, i)) /\ IsFiniteSet(Above(S, i))
  BY <1>1, FS_Subset
<1> DEFINE B == Below(S, i) \cup {i}
<1>3. i \notin Below(S, i)
  BY SMT DEF Below
<1>4. IsFiniteSet(B) /\ Cardinality(B) = Cardinality(Below(S, i)) + 1
  BY <1>2, <1>3, FS_AddElement
<1>5. B \cap Above(S, i) = {}
  <2>1. \A j \in S : j > i => ~(j < i) /\ j # i
    BY SMT
  <2> QED
    BY <2>1 DEF Below, Above
<1>6. B \cup Above(S, i) = S
  <2>1. \A j \in S : j < i \/ j = i \/ j > i
    BY SMT
  <2> QED
    BY <2>1 DEF Below, Above
<1>7. Cardinality(S) =
        Cardinality(B) + Cardinality(Above(S, i)) - Cardinality(B \cap Above(S, i))
  <2> HIDE DEF B
  <2> QED
    BY <1>2, <1>4, <1>6, FS_Union
<1>8. Cardinality(B \cap Above(S, i)) = 0
  BY <1>5, FS_EmptySet
<1>9. /\ Cardinality(S) \in Nat /\ Cardinality(Below(S, i)) \in Nat
      /\ Cardinality(Above(S, i)) \in Nat
  BY <1>2, FS_CardinalityType
<1> HIDE DEF B
<1> QED
  BY <1>4, <1>7, <1>8, <1>9, SMT

(* Listed gives the elements of a set.                                      *)
LEMMA ListedType ==
    ASSUME NEW S, Bounded(S), NEW step
    PROVE  Listed(S, step) \in Seq(S) /\ Len(Listed(S, step)) = Cardinality(S)
<1>0. /\ IsFiniteSet(S) /\ Cardinality(S) \in Nat /\ S \subseteq Int
      /\ \A k \in 0 .. (Cardinality(S) - 1) :
            \E i \in S : Cardinality(Below(S, i)) = k
  BY RankExists
<1> DEFINE Before(i) == {j \in S : IF step > 0 THEN j < i ELSE j > i}
           n == Cardinality(S)
           e(m) == CHOOSE i \in S : Cardinality(Before(i)) = m - 1
<1>1. /\ IsFiniteSet(S) /\ n \in Nat
      /\ \A k \in 0 .. (n - 1) : \E i \in S : Cardinality(Below(S, i)) = k
  BY <1>0
<1>2. ASSUME NEW m \in 1 .. n
      PROVE  \E i \in S : Cardinality(Before(i)) = m - 1
  <2>1. CASE step > 0
    <3>1. \A i \in S : Before(i) = Below(S, i)
      BY <2>1 DEF Below
    <3>2. m - 1 \in 0 .. (n - 1)
      BY <1>1, SMT
    <3> HIDE DEF Before, n
    <3> QED
      BY <1>1, <3>1, <3>2
  <2>2. CASE ~(step > 0)
    <3>1. \A i \in S : Before(i) = Above(S, i)
      BY <2>2 DEF Above
    <3>2. n - m \in 0 .. (n - 1) /\ n - 1 - (n - m) = m - 1
      BY <1>1, SMT
    <3>3. \A i \in S : Cardinality(Above(S, i)) = n - 1 - Cardinality(Below(S, i))
      <4>1. S \subseteq Int
        BY <1>0
      <4> QED
        BY <1>1, <4>1, AboveBelow, Zenon
    <3> HIDE DEF Before, n
    <3>4. PICK i \in S : Cardinality(Below(S, i)) = n - m
      BY <1>1, <3>2
    <3> QED
      BY <3>1, <3>2, <3>3, <3>4
  <2> QED
    BY <2>1, <2>2
<1>3. \A m \in 1 .. n : e(m) \in S
  <2> HIDE DEF Before, n
  <2> QED
    BY <1>2
<1>4. Listed(S, step) = [m \in 1 .. n |-> e(m)]
  BY DEF Listed
<1> HIDE DEF e, n
<1>5. [m \in 1 .. n |-> e(m)] \in [1 .. n -> S]
  BY <1>3
<1>6. [m \in 1 .. n |-> e(m)] \in Seq(S)
  BY <1>1, <1>5, SeqDef
<1>7. Len(Listed(S, step)) = n
  BY <1>1, <1>4, <1>5, SMT
<1> QED
  BY <1>4, <1>6, <1>7 DEF n

Progression(a, c, n) == {a + j * c : j \in 0 .. (n - 1)}

(* A progression has as many members as it has numbers for them.            *)
LEMMA ProgressionCard ==
    ASSUME NEW a \in Int, NEW c \in Int, c # 0, NEW k \in Nat
    PROVE  Cardinality({a + j * c : j \in 0 .. (k - 1)}) = k
<1> DEFINE T == {a + j * c : j \in 0 .. (k - 1)}
           f == [m \in 1 .. k |-> a + (m - 1) * c]
<1>1. f \in [1 .. k -> T]
  <2>1. \A m \in 1 .. k : m - 1 \in 0 .. (k - 1)
    BY SMT
  <2> QED
    BY <2>1
<1>2. \A m, o \in 1 .. k : f[m] = f[o] => m = o
  <2>1. SUFFICES ASSUME NEW m \in 1 .. k, NEW o \in 1 .. k, f[m] = f[o]
                 PROVE  m = o
    BY Zenon
  <2>2. a + (m - 1) * c = a + (o - 1) * c
    BY <2>1
  <2>3. (m - 1) * c \in Int /\ (o - 1) * c \in Int
    BY SMT
  <2>4. (m - 1) * c = (o - 1) * c
    BY <2>2, <2>3, SMT
  <2>5. CASE c > 0
    BY <2>4, <2>5, TimesOrder, SMT
  <2>6. CASE c < 0
    <3>1. -c \in Int /\ -c > 0 /\ m - 1 \in Int /\ o - 1 \in Int
      BY <2>6, SMT
    <3>2. (m - 1) * (-c) = -((m - 1) * c) /\ (o - 1) * (-c) = -((o - 1) * c)
      BY SMT
    <3>3. m - 1 = o - 1 <=> (m - 1) * (-c) = (o - 1) * (-c)
      BY <3>1, TimesOrder
    <3> QED
      BY <2>4, <3>2, <3>3, SMT
  <2> QED
    BY <2>5, <2>6, SMT
<1>3. \A t \in T : \E m \in 1 .. k : f[m] = t
  <2>1. SUFFICES ASSUME NEW j \in 0 .. (k - 1)
                 PROVE  \E m \in 1 .. k : f[m] = a + j * c
    OBVIOUS
  <2>2. j + 1 \in 1 .. k /\ (j + 1) - 1 = j
    BY SMT
  <2> QED
    BY <2>2
<1> HIDE DEF T, f
<1>4. f \in Bijection(1 .. k, T)
  BY <1>1, <1>2, <1>3 DEF Bijection, Injection, Surjection, IsInjective
<1>5. Cardinality(T) = k
  BY <1>4, FS_CountingElements DEF ExistsBijection
<1> QED
  BY <1>5 DEF T

(* A progression is listed in its order.                                    *)
LEMMA ListedProgression ==
    ASSUME NEW a \in Int, NEW c \in Int, c # 0, NEW n \in Nat
    PROVE  Listed(Progression(a, c, n), c) = [m \in 1 .. n |-> a + (m - 1) * c]
<1> DEFINE S == {a + j * c : j \in 0 .. (n - 1)}
           Before(i) == {j \in S : IF c > 0 THEN j < i ELSE j > i}
           e(m) == CHOOSE i \in S : Cardinality(Before(i)) = m - 1
<1>1. Cardinality(S) = n
  BY ProgressionCard
<1>2. ASSUME NEW j \in Int, NEW k \in Int
      PROVE  /\ c > 0 => (a + j * c < a + k * c <=> j < k)
             /\ ~(c > 0) => (a + j * c > a + k * c <=> j < k)
  <2>1. j * c \in Int /\ k * c \in Int
    BY SMT
  <2>2. CASE c > 0
    <3>1. j < k <=> j * c < k * c
      BY <2>2, TimesOrder
    <3> QED
      BY <2>1, <2>2, <3>1, SMT
  <2>3. CASE c < 0
    <3>1. -c \in Int /\ -c > 0
      BY <2>3, SMT
    <3>2. j * (-c) = -(j * c) /\ k * (-c) = -(k * c)
      BY SMT
    <3>3. j < k <=> j * (-c) < k * (-c)
      BY <3>1, TimesOrder
    <3> QED
      BY <2>1, <2>3, <3>2, <3>3, SMT
  <2> QED
    BY <2>2, <2>3, SMT
<1>3. \A k \in 0 .. (n - 1) : Cardinality(Before(a + k * c)) = k
  <2>1. SUFFICES ASSUME NEW k \in 0 .. (n - 1)
                 PROVE  Cardinality(Before(a + k * c)) = k
    OBVIOUS
  <2>2. \A j \in 0 .. (n - 1) :
            (IF c > 0 THEN a + j * c < a + k * c ELSE a + j * c > a + k * c)
                <=> j \in 0 .. (k - 1)
    <3>1. SUFFICES ASSUME NEW j \in 0 .. (n - 1)
                   PROVE  (IF c > 0 THEN a + j * c < a + k * c
                                    ELSE a + j * c > a + k * c)
                            <=> j \in 0 .. (k - 1)
      OBVIOUS
    <3>2. j \in Int /\ k \in Int /\ (j < k <=> j \in 0 .. (k - 1))
      BY SMT
    <3> QED
      BY <1>2, <3>2
  <2>3. \A j \in 0 .. (k - 1) : j \in 0 .. (n - 1)
    BY SMT
  <2>4. Before(a + k * c) = {a + j * c : j \in 0 .. (k - 1)}
    BY <2>2, <2>3
  <2>5. k \in Nat
    BY SMT
  <2>6. Cardinality({a + j * c : j \in 0 .. (k - 1)}) = k
    BY <2>5, ProgressionCard, Zenon
  <2> QED
    BY <2>4, <2>6, Zenon
<1>4. \A m \in 1 .. n : e(m) = a + (m - 1) * c
  <2>1. SUFFICES ASSUME NEW m \in 1 .. n PROVE e(m) = a + (m - 1) * c
    OBVIOUS
  <2>2. m - 1 \in 0 .. (n - 1)
    BY SMT
  <2>3. a + (m - 1) * c \in S /\ Cardinality(Before(a + (m - 1) * c)) = m - 1
    BY <1>3, <2>2
  <2> HIDE DEF Before
  <2>4. e(m) \in S /\ Cardinality(Before(e(m))) = m - 1
    BY <2>3
  <2> HIDE DEF e
  <2>5. PICK k \in 0 .. (n - 1) : e(m) = a + k * c
    BY <2>4
  <2>6. k = m - 1
    BY <1>3, <2>4, <2>5
  <2> QED
    BY <2>5, <2>6
<1>5. Listed(S, c) = [m \in 1 .. n |-> e(m)]
  <2> HIDE DEF S
  <2> QED
    BY <1>1 DEF Listed
<1> HIDE DEF e
<1> QED
  BY <1>4, <1>5 DEF Progression

-----------------------------------------------------------------------------
(* The indices of a slice.                                                  *)

Span(start, stop, step) == IF step > 0 THEN stop - start ELSE start - stop
CountOf(start, stop, step) ==
    IF Span(start, stop, step) <= 0 \/ step = 0 THEN 0
    ELSE (Span(start, stop, step) - 1) \div Magnitude(step) + 1

(* Counting steps over a span: those that begin before its end.             *)
LEMMA CountBound ==
    ASSUME NEW sp \in Int, NEW d \in Int, d > 0, NEW n,
           n = (IF sp <= 0 THEN 0 ELSE (sp - 1) \div d + 1)
    PROVE  n \in Nat /\ \A j \in Nat : j < n <=> j * d < sp
<1>1. CASE sp <= 0
  <2>1. \A j \in Nat : j * d >= 0 /\ j * d \in Int
    <3>1. SUFFICES ASSUME NEW j \in Nat PROVE j * d >= 0 /\ j * d \in Int
      OBVIOUS
    <3> QED
      BY SMT
  <2> QED
    BY <1>1, <2>1, SMT
<1>2. CASE ~(sp <= 0)
  <2> DEFINE q == (sp - 1) \div d
  <2>1. /\ q \in Int /\ ((sp - 1) % d) \in 0 .. (d - 1)
        /\ sp - 1 = q * d + ((sp - 1) % d)
    BY Division
  <2>2. n = q + 1
    BY <1>2
  <2> HIDE DEF q
  <2>3. q * d \in Int /\ q * d <= sp - 1 /\ sp - 1 < q * d + d
    BY <2>1, SMT
  <2>4. q >= 0
    <3>1. q < 0 => (q + 1) * d <= 0 * d /\ (q + 1) * d = q * d + d
      BY <2>1, TimesOrder
    <3> QED
      BY <1>2, <2>1, <2>3, <3>1, SMT
  <2>5. ASSUME NEW j \in Nat PROVE j < n <=> j * d < sp
    <3>1. /\ j * d \in Int /\ (q < j => (q + 1) * d <= j * d)
          /\ (j < q => j * d < q * d)
      BY <2>1, TimesOrder
    <3>2. (q + 1) * d = q * d + d
      BY <2>1, TimesOrder
    <3>3. j = q => j * d = q * d
      OBVIOUS
    <3> QED
      BY <2>1, <2>2, <2>3, <3>1, <3>2, <3>3, SMT
  <2> QED
    BY <2>1, <2>2, <2>4, <2>5, SMT
<1> QED
  BY <1>1, <1>2

(* The magnitude of a step is its length.                                   *)
LEMMA MagnitudeIs ==
    ASSUME NEW c \in Int, c # 0
    PROVE  /\ Magnitude(c) \in Int /\ Magnitude(c) > 0
           /\ c > 0 => Magnitude(c) = c
           /\ c < 0 => Magnitude(c) = -c
BY SMT DEF Magnitude

(* The indices of a slice: those before its stop.                           *)
LEMMA CountIs ==
    ASSUME NEW a \in Int, NEW b \in Int, NEW c \in Int
    PROVE  /\ CountOf(a, b, c) \in Nat /\ Span(a, b, c) \in Int
           /\ c = 0 => CountOf(a, b, c) = 0
           /\ c # 0 => \A j \in Nat :
                j < CountOf(a, b, c) <=> j * Magnitude(c) < Span(a, b, c)
<1>1. Span(a, b, c) \in Int
  BY SMT DEF Span
<1>2. c = 0 => CountOf(a, b, c) = 0
  BY DEF CountOf
<1>3. ASSUME c # 0
      PROVE  /\ CountOf(a, b, c) \in Nat
             /\ \A j \in Nat :
                    j < CountOf(a, b, c) <=> j * Magnitude(c) < Span(a, b, c)
  <2>1. Magnitude(c) \in Int /\ Magnitude(c) > 0
    BY <1>3, MagnitudeIs
  <2>2. CountOf(a, b, c) = IF Span(a, b, c) <= 0 THEN 0
                           ELSE (Span(a, b, c) - 1) \div Magnitude(c) + 1
    BY <1>3 DEF CountOf
  <2> QED
    BY <1>1, <2>1, <2>2, CountBound
<1> QED
  BY <1>1, <1>2, <1>3

(* The list of indices of a slice is an arithmetic progression.             *)
LEMMA IndexListIs ==
    ASSUME NEW a \in Int, NEW b \in Int, NEW c \in Int, NEW single, NEW s,
           s = IndexList(Indices(a, b, c, single))
    PROVE  /\ s = [i \in 1 .. CountOf(a, b, c) |-> a + (i - 1) * c]
           /\ s \in Seq(Int) /\ Len(s) = CountOf(a, b, c)
           /\ DOMAIN s = 1 .. CountOf(a, b, c)
           /\ \A i \in 1 .. CountOf(a, b, c) : s[i] = a + (i - 1) * c
<1> DEFINE n == CountOf(a, b, c)
<1>1. s = [i \in 1 .. n |-> a + (i - 1) * c]
  BY DEF IndexList, Indices, CountOf, Span
<1>2. n \in Nat
  BY CountIs
<1> HIDE DEF n
<1>3. s \in [1 .. n -> Int]
  <2>1. \A i \in 1 .. n : a + (i - 1) * c \in Int
    <3>1. SUFFICES ASSUME NEW i \in 1 .. n PROVE a + (i - 1) * c \in Int
      OBVIOUS
    <3>2. i \in Int
      BY <1>2, SMT
    <3> QED
      BY <3>2, SMT
  <2> QED
    BY <1>1, <2>1
<1>4. s \in Seq(Int)
  BY <1>2, <1>3, SeqDef
<1>5. Len(s) = n
  BY <1>2, <1>3, <1>4, SMT
<1>6. DOMAIN s = 1 .. n /\ \A i \in 1 .. n : s[i] = a + (i - 1) * c
  BY <1>1
<1> QED
  BY <1>1, <1>4, <1>5, <1>6 DEF n

(* The numbers of a range are its start and what follows in steps.          *)
LEMMA NumbersAre ==
    ASSUME NEW a \in Int, NEW b \in Int, NEW c \in Int, c # 0
    PROVE  Numbers(a, b, c) = {a + j * c : j \in 0 .. (CountOf(a, b, c) - 1)}
<1> DEFINE n == CountOf(a, b, c)
           d == Magnitude(c)
           T == {a + j * c : j \in 0 .. (n - 1)}
<1>1. /\ n \in Nat /\ Span(a, b, c) \in Int
      /\ \A j \in Nat : j < n <=> j * d < Span(a, b, c)
  BY CountIs
<1>2. d \in Int /\ d > 0 /\ (c > 0 => d = c) /\ (c < 0 => d = -c)
  BY MagnitudeIs
<1>3. CASE c > 0
  <2>1. /\ Numbers(a, b, c) = {i \in a .. (b - 1) : (i - a) % c = 0}
        /\ d = c /\ Span(a, b, c) = b - a
    BY <1>2, <1>3 DEF Numbers, Span
  <2> HIDE DEF n, d
  <2>2. ASSUME NEW i \in a .. (b - 1), (i - a) % c = 0
        PROVE  i \in T
    <3> DEFINE q == (i - a) \div c
    <3>1. i - a \in Int /\ i - a >= 0 /\ i - a < b - a
      BY SMT
    <3>2. q \in Int /\ i - a = q * c + ((i - a) % c)
      BY <1>3, <3>1, Division
    <3> HIDE DEF q
    <3>3. i - a = q * c /\ q * c \in Int
      BY <2>2, <3>2, SMT
    <3>4. q >= 0
      <4>1. q < 0 => q * c < 0 * c
        BY <1>3, <3>2, TimesOrder
      <4> QED
        BY <3>1, <3>2, <3>3, <4>1, SMT
    <3>5. q < n
      BY <1>1, <2>1, <3>1, <3>2, <3>3, <3>4, SMT
    <3>6. q \in 0 .. (n - 1) /\ i = a + q * c
      BY <1>1, <3>2, <3>3, <3>4, <3>5, SMT
    <3> QED
      BY <3>6
  <2>3. ASSUME NEW j \in 0 .. (n - 1)
        PROVE  a + j * c \in a .. (b - 1) /\ ((a + j * c) - a) % c = 0
    <3>1. j \in Nat /\ j < n
      BY <1>1, SMT
    <3>2. j * c < b - a
      BY <1>1, <2>1, <3>1
    <3>3. j * c \in Int /\ j * c >= 0
      BY <1>3, <3>1, SMT
    <3>4. (a + j * c) - a = j * c /\ a + j * c \in a .. (b - 1)
      BY <3>2, <3>3, SMT
    <3> QED
      BY <1>3, <3>1, <3>4, Multiple
  <2>4. {i \in a .. (b - 1) : (i - a) % c = 0} = T
    <3>1. SUFFICES ASSUME NEW i
                   PROVE  i \in {k \in a .. (b - 1) : (k - a) % c = 0} <=> i \in T
      BY Zenon
    <3>2. i \in a .. (b - 1) /\ (i - a) % c = 0 => i \in T
      BY <2>2
    <3>3. i \in T => i \in a .. (b - 1) /\ (i - a) % c = 0
      BY <2>3
    <3> QED
      BY <3>2, <3>3, Zenon
  <2> QED
    BY <2>1, <2>4 DEF n
<1>4. CASE c < 0
  <2>1. /\ Numbers(a, b, c) = {i \in (b + 1) .. a : (a - i) % -c = 0}
        /\ d = -c /\ Span(a, b, c) = a - b
    BY <1>2, <1>4, SMT DEF Numbers, Span
  <2> HIDE DEF n, d
  <2>0. -c \in Int /\ -c > 0
    BY <1>4, SMT
  <2>2. ASSUME NEW i \in (b + 1) .. a, (a - i) % -c = 0
        PROVE  i \in T
    <3> DEFINE q == (a - i) \div (-c)
    <3>1. a - i \in Int /\ a - i >= 0 /\ a - i < a - b
      BY SMT
    <3>2. q \in Int /\ a - i = q * (-c) + ((a - i) % -c)
      BY <2>0, <3>1, Division
    <3> HIDE DEF q
    <3>3. a - i = q * (-c) /\ q * (-c) \in Int
      BY <2>2, <3>2, SMT
    <3>4. q >= 0
      <4>1. q < 0 => q * (-c) < 0 * (-c)
        BY <2>0, <3>2, TimesOrder
      <4> QED
        BY <3>1, <3>2, <3>3, <4>1, SMT
    <3>5. q < n
      BY <1>1, <2>1, <3>1, <3>2, <3>3, <3>4, SMT
    <3>6. q * (-c) = -(q * c) /\ q * c \in Int
      BY <3>2, SMT
    <3>7. q \in 0 .. (n - 1) /\ i = a + q * c
      BY <1>1, <3>2, <3>3, <3>4, <3>5, <3>6, SMT
    <3> QED
      BY <3>7
  <2>3. ASSUME NEW j \in 0 .. (n - 1)
        PROVE  a + j * c \in (b + 1) .. a /\ (a - (a + j * c)) % -c = 0
    <3>1. j \in Nat /\ j < n
      BY <1>1, SMT
    <3>2. j * (-c) < a - b
      BY <1>1, <2>1, <3>1
    <3>3. j * (-c) \in Int /\ j * (-c) >= 0 /\ j * c \in Int /\ j * (-c) = -(j * c)
      BY <2>0, <3>1, SMT
    <3>4. a - (a + j * c) = j * (-c) /\ a + j * c \in (b + 1) .. a
      BY <3>2, <3>3, SMT
    <3> QED
      BY <2>0, <3>1, <3>4, Multiple
  <2>4. {i \in (b + 1) .. a : (a - i) % -c = 0} = T
    <3>1. SUFFICES ASSUME NEW i
                   PROVE  i \in {k \in (b + 1) .. a : (a - k) % -c = 0} <=> i \in T
      BY Zenon
    <3>2. i \in (b + 1) .. a /\ (a - i) % -c = 0 => i \in T
      BY <2>2
    <3>3. i \in T => i \in (b + 1) .. a /\ (a - i) % -c = 0
      BY <2>3
    <3> QED
      BY <3>2, <3>3, Zenon
  <2> QED
    BY <2>1, <2>4 DEF n
<1> QED
  BY <1>3, <1>4, SMT

(* What a range lists is what a list of indices has.                        *)
LEMMA CountedIs ==
    ASSUME NEW a \in Int, NEW b \in Int, NEW c \in Int, c # 0, NEW single
    PROVE  Counted(a, b, c) = IndexList(Indices(a, b, c, single))
<1>1. CountOf(a, b, c) \in Nat
  BY CountIs
<1>2. Numbers(a, b, c) = Progression(a, c, CountOf(a, b, c))
  BY NumbersAre DEF Progression
<1>3. Listed(Numbers(a, b, c), c) =
        [m \in 1 .. CountOf(a, b, c) |-> a + (m - 1) * c]
  BY <1>1, <1>2, ListedProgression
<1> QED
  BY <1>3, IndexListIs DEF Counted

(* Indices are found up to the first that is not there.                     *)
LEMMA FoundIs ==
    ASSUME NEW s \in Seq(Int), NEW size \in Int
    PROVE  LET n == Found(s, size)
           IN  /\ n \in 0 .. Len(s)
               /\ \A i \in 1 .. n : s[i] < size
               /\ n < Len(s) => s[n + 1] >= size
<1> DEFINE P(n) == /\ \A i \in 1 .. n : s[i] < size
                   /\ n < Len(s) => s[n + 1] >= size
           K == {k \in Nat : k < Len(s) /\ s[k + 1] >= size}
<1>0. Len(s) \in Nat /\ \A i \in 1 .. Len(s) : s[i] \in Int
  BY LenProperties
<1>1. \E n \in 0 .. Len(s) : P(n)
  <2>1. CASE K = {}
    <3>1. \A i \in 1 .. Len(s) : i - 1 \in Nat /\ i - 1 < Len(s) /\ (i - 1) + 1 = i
      BY <1>0, SMT
    <3>2. \A i \in 1 .. Len(s) : ~(s[i] >= size)
      BY <2>1, <3>1
    <3>3. \A i \in 1 .. Len(s) : s[i] < size
      BY <1>0, <3>2, SMT
    <3>4. Len(s) \in 0 .. Len(s) /\ ~(Len(s) < Len(s))
      BY <1>0, SMT
    <3> QED
      BY <3>3, <3>4
  <2>2. CASE K # {}
    <3>1. PICK k \in K : \A y \in K : k <= y
      BY <2>2, LeastExists
    <3>2. k \in Nat /\ k < Len(s) /\ s[k + 1] >= size
      BY <3>1
    <3>3. ASSUME NEW i \in 1 .. k PROVE s[i] < size
      <4>1. /\ i \in 1 .. Len(s) /\ i - 1 \in Nat /\ i - 1 < Len(s)
            /\ (i - 1) + 1 = i /\ ~(k <= i - 1)
        BY <1>0, <3>2, SMT
      <4>2. ~(s[i] >= size)
        BY <3>1, <4>1
      <4> QED
        BY <1>0, <4>1, <4>2, SMT
    <3>4. k \in 0 .. Len(s)
      BY <1>0, <3>2, SMT
    <3> QED
      BY <3>2, <3>3, <3>4
  <2> QED
    BY <2>1, <2>2
<1>2. Found(s, size) = CHOOSE n \in 0 .. Len(s) : P(n)
  BY Zenon DEF Found
<1> HIDE DEF P
<1>3. Found(s, size) \in 0 .. Len(s) /\ P(Found(s, size))
  BY <1>1, <1>2
<1> QED
  BY <1>3 DEF P

(* The numbers of a range have bounds.                                      *)
LEMMA ProgressionBounded ==
    ASSUME NEW a \in Int, NEW b \in Int, NEW c \in Int, NEW lo \in Int, NEW hi \in Int
    PROVE  Bounded(Numbers(a, b, c)) /\ Bounded(Numbers(a, b, c) \cap (lo .. hi))
<1>1. Numbers(a, b, c) \subseteq a .. (b - 1) \/ Numbers(a, b, c) \subseteq (b + 1) .. a
  BY DEF Numbers
<1>2. b - 1 \in Int /\ b + 1 \in Int
  BY SMT
<1>3. Bounded(Numbers(a, b, c))
  BY <1>1, <1>2 DEF Bounded
<1>4. Numbers(a, b, c) \cap (lo .. hi) \subseteq lo .. hi
  OBVIOUS
<1> QED
  BY <1>3, <1>4 DEF Bounded

(* A range lists integers.                                                  *)
LEMMA CountedType ==
    ASSUME NEW a \in Int, NEW b \in Int, NEW c \in Int
    PROVE  Counted(a, b, c) \in Seq(Int)
<1>1. Counted(a, b, c) \in Seq(Numbers(a, b, c))
  BY ProgressionBounded, ListedType DEF Counted
<1>2. Numbers(a, b, c) \subseteq Int
  BY DEF Numbers
<1> QED
  BY <1>1, <1>2, SeqMonotonic

(* Indices of a list that a slice takes are indices of it.                  *)
LEMMA WithinType ==
    ASSUME NEW a \in Int, NEW b \in Int, NEW c \in Int, NEW size \in Int
    PROVE  Within(a, b, c, size) \in Seq(0 .. (size - 1))
<1> DEFINE S == Numbers(a, b, c) \cap (0 .. (size - 1))
<1>1. size - 1 \in Int
  BY SMT
<1>2. Bounded(S)
  BY <1>1, ProgressionBounded
<1>3. Within(a, b, c, size) \in Seq(S)
  BY <1>2, ListedType DEF Within
<1>4. S \subseteq 0 .. (size - 1)
  OBVIOUS
<1> HIDE DEF S
<1> QED
  BY <1>3, <1>4, SeqMonotonic

(* If none is negative, they are the first of the indices: as many as are   *)
(* found.                                                                   *)
LEMMA WithinIs ==
    ASSUME NEW a \in Int, NEW b \in Int, NEW c \in Int, c # 0,
           NEW size \in Int, NEW single, NEW s,
           s = IndexList(Indices(a, b, c, single)),
           \A i \in 1 .. Len(s) : s[i] >= 0,
           c < 0 /\ s # << >> => a < size
    PROVE  Within(a, b, c, size) = [i \in 1 .. Found(s, size) |-> s[i]]
<1> DEFINE n == CountOf(a, b, c)
           f == Found(s, size)
<1>1. /\ s \in Seq(Int) /\ Len(s) = n /\ n \in Nat
      /\ \A i \in 1 .. n : s[i] = a + (i - 1) * c
  <2>1. n \in Nat
    BY CountIs
  <2>2. s \in Seq(Int) /\ Len(s) = CountOf(a, b, c)
    BY IndexListIs
  <2>3. \A i \in 1 .. CountOf(a, b, c) : s[i] = a + (i - 1) * c
    BY IndexListIs
  <2> QED
    BY <2>1, <2>2, <2>3
<1>2. /\ f \in 0 .. n
      /\ \A i \in 1 .. f : s[i] < size
      /\ f < n => s[f + 1] >= size
  BY <1>1, FoundIs
<1>3. Numbers(a, b, c) = {a + j * c : j \in 0 .. (n - 1)}
  BY NumbersAre
<1> HIDE DEF n, f
<1>4. \A j \in 0 .. (n - 1) :
            /\ j + 1 \in 1 .. n /\ (j + 1) - 1 = j
            /\ s[j + 1] = a + j * c /\ a + j * c \in Int /\ a + j * c >= 0
  <2>1. SUFFICES ASSUME NEW j \in 0 .. (n - 1)
                 PROVE  /\ j + 1 \in 1 .. n /\ (j + 1) - 1 = j
                        /\ s[j + 1] = a + j * c /\ a + j * c \in Int
                        /\ a + j * c >= 0
    OBVIOUS
  <2>2. j + 1 \in 1 .. n /\ (j + 1) - 1 = j /\ j \in Int
    BY <1>1, SMT
  <2>3. s[j + 1] = a + j * c
    BY <1>1, <2>2
  <2>4. a + j * c \in Int
    BY <2>2, SMT
  <2>5. s[j + 1] >= 0
    BY <1>1, <2>2
  <2> QED
    BY <2>2, <2>3, <2>4, <2>5
<1>5. ASSUME NEW j \in 0 .. (n - 1)
      PROVE  a + j * c \in 0 .. (size - 1) <=> j \in 0 .. (f - 1)
  <2>1. /\ j + 1 \in 1 .. n /\ s[j + 1] = a + j * c
        /\ a + j * c \in Int /\ a + j * c >= 0
    BY <1>4
  <2>2. j < f => a + j * c < size
    <3>1. j < f => j + 1 \in 1 .. f
      BY <1>2, SMT
    <3> QED
      BY <1>2, <2>1, <3>1
  <2>3. ~(j < f) => a + j * c >= size
    <3>1. SUFFICES ASSUME ~(j < f) PROVE a + j * c >= size
      OBVIOUS
    <3>2. f \in 0 .. (n - 1) /\ f < n /\ (f = j \/ f < j) /\ f \in Int /\ j \in Int
      BY <1>1, <1>2, <3>1, SMT
    <3>3. a + f * c >= size /\ a + f * c \in Int
      BY <1>2, <1>4, <3>2
    <3>4. CASE c > 0
      <4>1. f < j => f * c < j * c
        BY <3>2, <3>4, TimesOrder
      <4>2. f = j => f * c = j * c
        OBVIOUS
      <4>3. f * c \in Int /\ j * c \in Int
        BY <3>2, SMT
      <4> QED
        BY <3>2, <3>3, <4>1, <4>2, <4>3, SMT
    <3>5. CASE c < 0
      <4>1. s # << >>
        BY <1>1, <3>2, EmptySeq, SMT
      <4>2. a < size
        BY <3>5, <4>1
      <4>3. -c \in Int /\ -c > 0 /\ 0 \in Int
        BY <3>5, SMT
      <4>4. 0 < f => 0 * (-c) < f * (-c)
        BY <3>2, <4>3, TimesOrder
      <4>5. f * (-c) = -(f * c) /\ f * c \in Int /\ 0 * (-c) = 0 /\ 0 * c = 0
        BY <3>2, SMT
      <4>6. f = 0 \/ 0 < f
        BY <1>2, SMT
      <4>7. f = 0 => f * c = 0
        BY <4>5
      <4> QED
        BY <3>3, <4>2, <4>4, <4>5, <4>6, <4>7, SMT
    <3> QED
      BY <3>4, <3>5, SMT
  <2>4. j < f <=> j \in 0 .. (f - 1)
    BY <1>2, SMT
  <2> QED
    BY <2>1, <2>2, <2>3, <2>4, SMT
<1>6. \A j \in 0 .. (f - 1) : j \in 0 .. (n - 1)
  BY <1>1, <1>2, SMT
<1>7. Numbers(a, b, c) \cap (0 .. (size - 1)) = {a + j * c : j \in 0 .. (f - 1)}
  <2>1. SUFFICES ASSUME NEW i
                 PROVE  i \in Numbers(a, b, c) /\ i \in 0 .. (size - 1)
                            <=> \E j \in 0 .. (f - 1) : i = a + j * c
    BY Zenon
  <2>2. i \in Numbers(a, b, c) <=> \E j \in 0 .. (n - 1) : i = a + j * c
    BY <1>3
  <2> QED
    BY <1>5, <1>6, <2>2, Zenon
<1>8. Numbers(a, b, c) \cap (0 .. (size - 1)) = Progression(a, c, f)
  BY <1>7 DEF Progression
<1>9. f \in Nat
  BY <1>2, SMT
<1>10. Within(a, b, c, size) = [i \in 1 .. f |-> a + (i - 1) * c]
  <2>1. Within(a, b, c, size) = Listed(Progression(a, c, f), c)
    BY <1>8, Zenon DEF Within
  <2> QED
    BY <1>9, <2>1, ListedProgression
<1>11. \A i \in 1 .. f : i \in 1 .. n
  BY <1>1, <1>2, SMT
<1>12. \A i \in 1 .. f : s[i] = a + (i - 1) * c
  BY <1>1, <1>11
<1>13. [i \in 1 .. f |-> s[i]] = [i \in 1 .. f |-> a + (i - 1) * c]
  BY <1>12
<1> QED
  BY <1>10, <1>13 DEF f

(* If all of them are there, all are taken.                                 *)
LEMMA WithinAll ==
    ASSUME NEW a \in Int, NEW b \in Int, NEW c \in Int, c # 0,
           NEW size \in Int, NEW single, NEW s,
           s = IndexList(Indices(a, b, c, single)),
           \A i \in 1 .. Len(s) : s[i] \in 0 .. (size - 1)
    PROVE  Within(a, b, c, size) = s /\ Found(s, size) = Len(s)
<1>1. /\ s \in Seq(Int) /\ Len(s) = CountOf(a, b, c) /\ Len(s) \in Nat
      /\ \A i \in 1 .. Len(s) : s[i] = a + (i - 1) * c
  <2>1. CountOf(a, b, c) \in Nat
    BY CountIs
  <2>2. s \in Seq(Int) /\ Len(s) = CountOf(a, b, c)
    BY IndexListIs
  <2>3. \A i \in 1 .. CountOf(a, b, c) : s[i] = a + (i - 1) * c
    BY IndexListIs
  <2> QED
    BY <2>1, <2>2, <2>3
<1>2. \A i \in 1 .. Len(s) : s[i] >= 0 /\ s[i] < size /\ s[i] \in Int
  <2>1. \A x \in 0 .. (size - 1) : x >= 0 /\ x < size /\ x \in Int
    BY SMT
  <2> QED
    BY <2>1
<1>3. c < 0 /\ s # << >> => a < size
  <2>1. SUFFICES ASSUME s # << >> PROVE a < size
    OBVIOUS
  <2>2. 1 \in 1 .. Len(s)
    BY <1>1, <2>1, EmptySeq, SMT
  <2>3. s[1] = a + (1 - 1) * c /\ s[1] < size
    BY <1>1, <1>2, <2>2
  <2>4. (1 - 1) * c = 0
    BY SMT
  <2> QED
    BY <2>3, <2>4, SMT
<1>4. Within(a, b, c, size) = [i \in 1 .. Found(s, size) |-> s[i]]
  <2>1. \A i \in 1 .. Len(s) : s[i] >= 0
    BY <1>2
  <2> QED
    BY <1>3, <2>1, WithinIs
<1>5. Found(s, size) = Len(s)
  <2> DEFINE f == Found(s, size)
  <2>1. f \in 0 .. Len(s) /\ (f < Len(s) => s[f + 1] >= size)
    BY <1>1, FoundIs
  <2> HIDE DEF f
  <2>2. f < Len(s) => f + 1 \in 1 .. Len(s)
    BY <1>1, <2>1, SMT
  <2>3. ~(f < Len(s))
    <3>1. SUFFICES ASSUME f < Len(s) PROVE FALSE
      OBVIOUS
    <3>2. s[f + 1] < size /\ s[f + 1] >= size /\ s[f + 1] \in Int
      BY <1>2, <2>1, <2>2, <3>1
    <3> QED
      BY <3>2, SMT
  <2>4. f = Len(s)
    BY <1>1, <2>1, <2>3, SMT
  <2> QED
    BY <2>4 DEF f
<1>6. s = [i \in 1 .. Len(s) |-> s[i]]
  BY <1>1, LenProperties
<1> QED
  BY <1>4, <1>5, <1>6

-----------------------------------------------------------------------------
(* Division in C++.                                                         *)

(* Division that rounds towards zero.                                       *)
LEMMA QuotientType ==
    ASSUME NEW a \in Int, NEW c \in Int, c # 0
    PROVE  Quotient(a, c) \in Int /\ Remainder(a, c) \in Int
<1>1. Magnitude(a) \in Int /\ Magnitude(c) \in Int /\ Magnitude(c) > 0
  BY SMT DEF Magnitude
<1>2. Magnitude(a) \div Magnitude(c) \in Int
  BY <1>1, Division
<1>3. Quotient(a, c) \in Int
  BY <1>2, SMT DEF Quotient
<1>4. Remainder(a, c) = a - Quotient(a, c) * c
  BY DEF Remainder
<1>5. Quotient(a, c) * c \in Int
  BY <1>3, SMT
<1> QED
  BY <1>3, <1>4, <1>5, SMT

(* A number without a remainder is a multiple.                              *)
LEMMA RemainderNone ==
    ASSUME NEW a \in Int, NEW c \in Int, c # 0, Remainder(a, c) = 0
    PROVE  a = Quotient(a, c) * c
<1>1. Quotient(a, c) \in Int /\ Remainder(a, c) = a - Quotient(a, c) * c
  BY QuotientType DEF Remainder
<1>2. Quotient(a, c) * c \in Int
  BY <1>1, SMT
<1> QED
  BY <1>1, <1>2, SMT

(* A multiple of either sign is divided without a remainder.                *)
LEMMA QuotientExact ==
    ASSUME NEW k \in Int, NEW c \in Int, c # 0
    PROVE  /\ k * c \in Int
           /\ Quotient(k * c, c) = k /\ Remainder(k * c, c) = 0
<1> DEFINE a == k * c
           d == Magnitude(c)
           m == Magnitude(k)
<1>1. a \in Int
  BY SMT
<1>2. d \in Int /\ d > 0 /\ (c > 0 => d = c) /\ (c < 0 => d = -c)
  BY MagnitudeIs
<1>3. m \in Int /\ m >= 0 /\ (k >= 0 => m = k) /\ (k < 0 => m = -k)
  BY SMT DEF Magnitude
<1>4. m * d \in Int /\ m * d >= 0
  <2> HIDE DEF m, d
  <2> QED
    BY <1>2, <1>3, SMT
<1>5. /\ (k >= 0 /\ c > 0) \/ (k < 0 /\ c < 0) => a = m * d
      /\ (k >= 0 /\ c < 0) \/ (k < 0 /\ c > 0) => a = -(m * d)
  <2>1. k * (-c) = -(k * c) /\ (-k) * c = -(k * c) /\ (-k) * (-c) = k * c
    BY SMT
  <2> HIDE DEF m, d
  <2>2. k >= 0 /\ c > 0 => a = m * d
    BY <1>2, <1>3
  <2>3. k < 0 /\ c < 0 => a = m * d
    BY <1>2, <1>3, <2>1
  <2>4. k >= 0 /\ c < 0 => a = -(m * d)
    <3>1. SUFFICES ASSUME k >= 0, c < 0 PROVE a = -(m * d)
      OBVIOUS
    <3>2. m * d = -(k * c)
      BY <1>2, <1>3, <2>1, <3>1
    <3> QED
      BY <1>1, <3>2, SMT
  <2>5. k < 0 /\ c > 0 => a = -(m * d)
    <3>1. SUFFICES ASSUME k < 0, c > 0 PROVE a = -(m * d)
      OBVIOUS
    <3>2. m * d = -(k * c)
      BY <1>2, <1>3, <2>1, <3>1
    <3> QED
      BY <1>1, <3>2, SMT
  <2> QED
    BY <2>2, <2>3, <2>4, <2>5
<1> HIDE DEF a, d, m
<1>6. m > 0 => m * d > 0
  <2>1. 0 < m => 0 * d < m * d
    BY <1>2, <1>3, TimesOrder
  <2> QED
    BY <1>2, <1>3, <1>4, <2>1, SMT
<1>7. Magnitude(a) = m * d
  BY <1>1, <1>4, <1>5, SMT DEF Magnitude
<1>8. (m * d) \div d = m
  BY <1>2, <1>3, Multiple
<1>9. Quotient(a, c) = IF (a < 0) = (c < 0) THEN m ELSE -m
  BY <1>7, <1>8 DEF Quotient, d
<1>10. m = 0 => m * d = 0
  BY <1>2, SMT
<1>11. Quotient(a, c) = k
  <2>1. CASE k > 0
    <3>1. m = k /\ m * d > 0
      BY <1>3, <1>6, <2>1, SMT
    <3>2. CASE c > 0
      <4>1. a = m * d
        BY <1>5, <2>1, <3>2, SMT
      <4>2. ~(a < 0) /\ ~(c < 0)
        BY <1>4, <3>1, <3>2, <4>1, SMT
      <4> QED
        BY <1>9, <3>1, <4>2
    <3>3. CASE c < 0
      <4>1. a = -(m * d)
        BY <1>5, <2>1, <3>3, SMT
      <4>2. a < 0
        BY <1>4, <3>1, <4>1, SMT
      <4> QED
        BY <1>9, <3>1, <3>3, <4>2
    <3> QED
      BY <3>2, <3>3, SMT
  <2>2. CASE k < 0
    <3>1. m = -k /\ m * d > 0 /\ -m = k
      BY <1>3, <1>6, <2>2, SMT
    <3>2. CASE c > 0
      <4>1. a = -(m * d)
        BY <1>5, <2>2, <3>2, SMT
      <4>2. a < 0 /\ ~(c < 0)
        BY <1>4, <3>1, <3>2, <4>1, SMT
      <4> QED
        BY <1>9, <3>1, <4>2
    <3>3. CASE c < 0
      <4>1. a = m * d
        BY <1>5, <2>2, <3>3, SMT
      <4>2. ~(a < 0)
        BY <1>4, <3>1, <4>1, SMT
      <4> QED
        BY <1>9, <3>1, <3>3, <4>2
    <3> QED
      BY <3>2, <3>3, SMT
  <2>3. CASE k = 0
    <3>1. m = 0 /\ -m = 0
      <4>1. k >= 0
        BY <2>3, SMT
      <4>2. m = 0
        BY <1>3, <2>3, <4>1
      <4>3. \A x \in Int : x >= 0 /\ x <= 0 => -x = x
        BY SMT
      <4>4. m <= 0
        BY <4>2, SMT
      <4> QED
        BY <1>3, <4>2, <4>3, <4>4
    <3> QED
      BY <1>9, <2>3, <3>1
  <2> QED
    BY <2>1, <2>2, <2>3, SMT
<1>12. Remainder(a, c) = a - k * c
  BY <1>11 DEF Remainder
<1>13. Remainder(a, c) = 0
  BY <1>1, <1>12, SMT DEF a
<1> QED
  BY <1>1, <1>11, <1>13 DEF a

(* Without a sign, this is the division of natural numbers.                 *)
LEMMA QuotientOfNat ==
    ASSUME NEW a \in Nat, NEW c \in Int, c > 0
    PROVE  Quotient(a, c) = a \div c /\ Remainder(a, c) = a % c
<1>1. Magnitude(a) = a /\ Magnitude(c) = c
  BY SMT DEF Magnitude
<1>2. ~(a < 0) /\ ~(c < 0)
  BY SMT
<1>3. Quotient(a, c) = a \div c
  BY <1>1, <1>2 DEF Quotient
<1>4. /\ a \div c \in Int /\ (a % c) \in 0 .. (c - 1)
      /\ a = (a \div c) * c + (a % c)
  BY Division
<1>5. (a \div c) * c \in Int
  BY <1>4, SMT
<1> QED
  BY <1>3, <1>4, <1>5, SMT DEF Remainder

-----------------------------------------------------------------------------
(* What lists look like to an operation: part of a vector, or of a range.   *)

VectorLike(l, s, f, g) ==
    /\ s \in Seq(Int) /\ f \in Int /\ g \in Int
    /\ 0 <= f /\ f <= g /\ g <= Len(s)
    /\ Begin(l) = Iterator(f, 1) /\ End(l) = Iterator(g, 1)
    /\ RBegin(l) = Iterator(g - 1, 1)
    /\ ~CountsIn(l) /\ Owner(l).elements = s
    /\ ListSize(l) = g - f
    /\ Empty(l) <=> f = g

RangeLike(l, f, g, c) ==
    /\ f \in Int /\ g \in Int /\ c \in Int /\ c # 0
    /\ Begin(l) = Iterator(f, c) /\ End(l) = Iterator(g, c)
    /\ RBegin(l).at \in Int /\ RBegin(l).step \in Int
    /\ CountsIn(l)
    /\ ListSize(l) \in Int

(* A range of n numbers, iterated over to its end.                          *)
ExactLike(l, f, n, c) ==
    /\ f \in Int /\ n \in Nat /\ c \in Int /\ c # 0
    /\ Begin(l) = Iterator(f, c) /\ End(l) = Iterator(f + n * c, c)
    /\ l.kind = "xrange" => RBegin(l) = Iterator(f + (n - 1) * c, c)
    /\ CountsIn(l)
    /\ ListSize(l) = n
    /\ Empty(l) <=> n = 0

Exact(l) ==
    \/ \E s \in Seq(Int), f, g \in Int : VectorLike(l, s, f, g)
    \/ \E f, c \in Int, n \in Nat : ExactLike(l, f, n, c)

(* The kinds of lists.                                                      *)
IsVector(l) == \E s \in Seq(Int) : l = Args(s)
IsRange(l) == \E a, b, c \in Int : c # 0 /\ l = Xrange(a, b, c)
IsPartOfVector(l) ==
    \E s \in Seq(Int), f, g \in Int :
        /\ 0 <= f /\ f <= g /\ g <= Len(s)
        /\ l = Pair(Args(s), Iterator(f, 1), Iterator(g, 1))
IsPartOfRange(l) ==
    \E a, b, c, f, g \in Int :
        c # 0 /\ l = Pair(Xrange(a, b, c), Iterator(f, c), Iterator(g, c))

ListType(l) ==
    IsVector(l) \/ IsRange(l) \/ IsPartOfVector(l) \/ IsPartOfRange(l)

(* The fields of an iterator.                                               *)
LEMMA IteratorIs ==
    \A at, step : Iterator(at, step).at = at /\ Iterator(at, step).step = step
BY DEF Iterator

(* A vector is iterated over from its first element to its last.            *)
LEMMA VectorIs ==
    ASSUME NEW s \in Seq(Int)
    PROVE  VectorLike(Args(s), s, 0, Len(s))
<1> DEFINE l == Args(s)
<1>1. l.kind = "args" /\ l.elements = s
  BY DEF Args
<1>2. Len(s) \in Nat
  BY LenProperties
<1> HIDE DEF l
<1>3. Begin(l) = Iterator(0, 1)
  BY <1>1 DEF Begin
<1>4. End(l) = Iterator(Len(s), 1)
  BY <1>1 DEF End
<1>5. RBegin(l) = Iterator(Len(s) - 1, 1)
  BY <1>1 DEF RBegin
<1>6. Owner(l) = l /\ ~CountsIn(l)
  BY <1>1 DEF Owner, CountsIn
<1>7. ListSize(l) = Len(s)
  BY <1>1 DEF ListSize
<1>8. Empty(l) <=> 0 = Len(s)
  BY <1>1, <1>3, <1>4, IteratorIs DEF Empty, Equal
<1> QED
  BY <1>1, <1>2, <1>3, <1>4, <1>5, <1>6, <1>7, <1>8, SMT DEF VectorLike, l

(* The fields of a pair of iterators.                                       *)
LEMMA PairIs ==
    \A of, x, y : /\ Pair(of, x, y).kind = "pair" /\ Pair(of, x, y).of = of
                  /\ Pair(of, x, y).first = x /\ Pair(of, x, y).second = y
BY DEF Pair

(* A pair of iterators into a vector is a part of it.                       *)
LEMMA PartOfVectorIs ==
    ASSUME NEW s \in Seq(Int), NEW f \in Int, NEW g \in Int,
           0 <= f, f <= g, g <= Len(s)
    PROVE  VectorLike(Pair(Args(s), Iterator(f, 1), Iterator(g, 1)), s, f, g)
<1> DEFINE l == Pair(Args(s), Iterator(f, 1), Iterator(g, 1))
<1>1. /\ l.kind = "pair" /\ l.of = Args(s)
      /\ l.first = Iterator(f, 1) /\ l.second = Iterator(g, 1)
  BY PairIs
<1>2. Args(s).kind = "args" /\ Args(s).elements = s
  BY DEF Args
<1> HIDE DEF l
<1>3. Owner(l) = Args(s) /\ ~CountsIn(l)
  BY <1>1, <1>2 DEF Owner, CountsIn
<1>4. Begin(l) = Iterator(f, 1)
  BY <1>1 DEF Begin
<1>5. End(l) = Iterator(g, 1)
  BY <1>1 DEF End
<1>6. RBegin(l) = Iterator(g - 1, 1)
  <2>1. RBegin(l) = Invert(l, Iterator(g, 1))
    BY <1>1 DEF RBegin
  <2>2. Invert(l, Iterator(g, 1)) = Iterator(g - 1, 1)
    BY <1>3, IteratorIs DEF Invert, Decrement
  <2> QED
    BY <2>1, <2>2
<1>7. ListSize(l) = g - f
  <2>1. ListSize(l) = Distance(Iterator(f, 1), Iterator(g, 1))
    BY <1>1 DEF ListSize
  <2>2. Distance(Iterator(f, 1), Iterator(g, 1)) =
            IF f = g THEN 0 ELSE Quotient(g - f, 1)
    BY IteratorIs DEF Distance, Equal
  <2>3. Quotient((g - f) * 1, 1) = g - f /\ (g - f) * 1 = g - f /\ g - f \in Int
    BY QuotientExact, SMT
  <2> QED
    BY <2>1, <2>2, <2>3, SMT
<1>8. Empty(l) <=> f = g
  BY <1>1, <1>4, <1>5, IteratorIs DEF Empty, Equal
<1>9. Owner(l).elements = s
  BY <1>2, <1>3
<1> QED
  BY <1>3, <1>4, <1>5, <1>6, <1>7, <1>8, <1>9 DEF VectorLike, l

(* The fields of a range.                                                   *)
LEMMA XrangeIs ==
    \A a, b, c : /\ Xrange(a, b, c).kind = "xrange" /\ Xrange(a, b, c).start = a
                 /\ Xrange(a, b, c).stop = b /\ Xrange(a, b, c).step = c
BY DEF Xrange

(* A range is iterated over in its steps.                                   *)
LEMMA RangeIs ==
    ASSUME NEW a \in Int, NEW b \in Int, NEW c \in Int, c # 0
    PROVE  \E g \in Int : RangeLike(Xrange(a, b, c), a, g, c)
<1> DEFINE l == Xrange(a, b, c)
<1>1. l.kind = "xrange" /\ l.start = a /\ l.stop = b /\ l.step = c
  BY XrangeIs
<1> HIDE DEF l
<1>2. b - a \in Int
  BY SMT
<1>3. Quotient(b - a, c) \in Int /\ Remainder(b - a, c) \in Int
  BY <1>2, QuotientType
<1> DEFINE q == Quotient(b - a, c)
           r == Remainder(b - a, c)
<1>4. q * c \in Int
  BY <1>3, SMT
<1>5. End(l) = Iterator(a + q * c + (IF r # 0 THEN c ELSE 0), c)
  BY <1>1 DEF End
<1>6. RBegin(l) = Iterator(a + q * c + (IF r # 0 THEN 0 ELSE -c), c)
  BY <1>1 DEF RBegin
<1>7. Begin(l) = Iterator(a, c)
  BY <1>1 DEF Begin
<1>8. CountsIn(l)
  BY <1>1 DEF CountsIn, Owner
<1>9. ListSize(l) = IF (b - a > 0) # (c > 0) THEN 0
                    ELSE q + (IF r > 0 THEN 1 ELSE 0)
  BY <1>1 DEF ListSize
<1> HIDE DEF q, r
<1>10. ListSize(l) \in Int
  BY <1>3, <1>9, SMT DEF q
<1>11. a + q * c + (IF r # 0 THEN c ELSE 0) \in Int
  BY <1>4, SMT
<1>12. a + q * c + (IF r # 0 THEN 0 ELSE -c) \in Int
  BY <1>4, SMT
<1>13. RBegin(l).at \in Int /\ RBegin(l).step \in Int
  BY <1>6, <1>12, IteratorIs
<1> QED
  BY <1>5, <1>7, <1>8, <1>10, <1>11, <1>13 DEF RangeLike, l

(* A pair of iterators into a range is iterated over in its steps.          *)
LEMMA PartOfRangeIs ==
    ASSUME NEW a \in Int, NEW b \in Int, NEW c \in Int, c # 0,
           NEW f \in Int, NEW g \in Int
    PROVE  RangeLike(Pair(Xrange(a, b, c), Iterator(f, c), Iterator(g, c)), f, g, c)
<1> DEFINE l == Pair(Xrange(a, b, c), Iterator(f, c), Iterator(g, c))
<1>1. /\ l.kind = "pair" /\ l.of = Xrange(a, b, c)
      /\ l.first = Iterator(f, c) /\ l.second = Iterator(g, c)
  BY PairIs
<1>2. Xrange(a, b, c).kind = "xrange"
  BY XrangeIs
<1> HIDE DEF l
<1>3. CountsIn(l)
  BY <1>1, <1>2 DEF Owner, CountsIn
<1>4. Begin(l) = Iterator(f, c)
  BY <1>1 DEF Begin
<1>5. End(l) = Iterator(g, c)
  BY <1>1 DEF End
<1>6. RBegin(l) = Iterator(g, 0)
  BY <1>1, <1>3, IteratorIs DEF RBegin, Invert
<1>7. ListSize(l) \in Int
  <2>1. ListSize(l) = Distance(Iterator(f, c), Iterator(g, c))
    BY <1>1 DEF ListSize
  <2>2. Distance(Iterator(f, c), Iterator(g, c)) =
            IF f = g THEN 0 ELSE Quotient(g - f, c)
    BY IteratorIs DEF Distance, Equal
  <2>3. g - f \in Int
    BY SMT
  <2>4. Quotient(g - f, c) \in Int
    BY <2>3, QuotientType
  <2> QED
    BY <2>1, <2>2, <2>4
<1>8. RBegin(l).at \in Int /\ RBegin(l).step \in Int
  BY <1>6, IteratorIs
<1> QED
  BY <1>3, <1>4, <1>5, <1>7, <1>8 DEF RangeLike, l

(* A list is part of a vector or of a range.                                *)
LEMMA ListLike ==
    ASSUME NEW l, ListType(l)
    PROVE  \/ \E s \in Seq(Int), f, g \in Int : VectorLike(l, s, f, g)
           \/ \E f, g, c \in Int : RangeLike(l, f, g, c)
<1>1. CASE IsVector(l)
  <2>1. PICK s \in Seq(Int) : l = Args(s)
    BY <1>1 DEF IsVector
  <2>2. Len(s) \in Int
    BY LenProperties, SMT
  <2> QED
    BY <2>1, <2>2, VectorIs
<1>2. CASE IsRange(l)
  <2>1. PICK a, b, c \in Int : c # 0 /\ l = Xrange(a, b, c)
    BY <1>2 DEF IsRange
  <2> QED
    BY <2>1, RangeIs
<1>3. CASE IsPartOfVector(l)
  <2>1. PICK s \in Seq(Int), f, g \in Int :
            /\ 0 <= f /\ f <= g /\ g <= Len(s)
            /\ l = Pair(Args(s), Iterator(f, 1), Iterator(g, 1))
    BY <1>3 DEF IsPartOfVector
  <2>2. VectorLike(l, s, f, g)
    BY <2>1, PartOfVectorIs
  <2> QED
    BY <2>2
<1>4. CASE IsPartOfRange(l)
  <2>1. PICK a, b, c, f, g \in Int :
            c # 0 /\ l = Pair(Xrange(a, b, c), Iterator(f, c), Iterator(g, c))
    BY <1>4 DEF IsPartOfRange
  <2>2. RangeLike(l, f, g, c)
    BY <2>1, PartOfRangeIs
  <2> QED
    BY <2>2
<1> QED
  BY <1>1, <1>2, <1>3, <1>4 DEF ListType

(* What iterating over a list gives, and reading it from its end.           *)

Reads(l) ==
    /\ Ends(l) /\ Copy(l) \in Seq(Int)
    /\ ListSize(l) = Len(Copy(l))
    /\ Empty(l) <=> Copy(l) = << >>
    /\ \A j \in 0 .. (Len(Copy(l)) - 1) :
        Deref(l, Moved(Begin(l), j)) = Copy(l)[j + 1]
    /\ ~(l.kind = "pair" /\ CountsIn(l)) =>
        \A j \in 0 .. (Len(Copy(l)) - 1) :
            Deref(l, MovedBack(RBegin(l), Len(Copy(l)) - 1 - j)) = Copy(l)[j + 1]

(* Iterating over a part of a vector, from either end, gives the elements.  *)
LEMMA VectorReads ==
    ASSUME NEW l, NEW s, NEW f, NEW g, VectorLike(l, s, f, g)
    PROVE  Reads(l) /\ Copy(l) = [i \in 1 .. (g - f) |-> s[f + i]]
<1> DEFINE n == g - f
           e(i) == Deref(l, Moved(Begin(l), i - 1))
<1>1. /\ s \in Seq(Int) /\ f \in Int /\ g \in Int
      /\ 0 <= f /\ f <= g /\ g <= Len(s) /\ Len(s) \in Nat
      /\ n \in Nat
  <2>1. s \in Seq(Int) /\ f \in Int /\ g \in Int /\ 0 <= f /\ f <= g /\ g <= Len(s)
    BY DEF VectorLike
  <2> QED
    BY <2>1, LenProperties, SMT
<1>2. /\ Begin(l) = Iterator(f, 1) /\ End(l) = Iterator(g, 1)
      /\ RBegin(l) = Iterator(g - 1, 1)
      /\ ~CountsIn(l) /\ Owner(l).elements = s
      /\ ListSize(l) = n
      /\ Empty(l) <=> f = g
  BY DEF VectorLike
<1>3. \A k : Deref(l, Iterator(k, 1)) = s[k + 1]
  BY <1>2, IteratorIs DEF Deref
<1>4. \A k \in Int : Moved(Begin(l), k) = Iterator(f + k, 1)
  <2>1. SUFFICES ASSUME NEW k \in Int PROVE Moved(Begin(l), k) = Iterator(f + k, 1)
    OBVIOUS
  <2>2. Moved(Begin(l), k) = Iterator(f + k * 1, 1)
    BY <1>2, IteratorIs DEF Moved
  <2>3. k * 1 = k
    BY SMT
  <2> QED
    BY <2>2, <2>3
<1>5. \A k \in Int : MovedBack(RBegin(l), k) = Iterator((g - 1) - k, 1)
  <2>1. SUFFICES ASSUME NEW k \in Int
                 PROVE  MovedBack(RBegin(l), k) = Iterator((g - 1) - k, 1)
    OBVIOUS
  <2>2. MovedBack(RBegin(l), k) = Iterator((g - 1) - k * 1, 1)
    BY <1>2, IteratorIs DEF MovedBack
  <2>3. k * 1 = k
    BY SMT
  <2> QED
    BY <2>2, <2>3
<1>6. Distance(Begin(l), End(l)) = n
  <2>1. Distance(Begin(l), End(l)) = IF f = g THEN 0 ELSE Quotient(g - f, 1)
    BY <1>2, IteratorIs DEF Distance, Equal
  <2>2. Quotient((g - f) * 1, 1) = g - f /\ (g - f) * 1 = g - f /\ g - f \in Int
    BY <1>1, QuotientExact, SMT
  <2> QED
    BY <1>1, <2>1, <2>2, SMT
<1>7. Copy(l) = [i \in 1 .. n |-> e(i)]
  BY <1>6 DEF Copy
<1> HIDE DEF n
<1>8. \A i \in 1 .. n : e(i) = s[f + i] /\ s[f + i] \in Int
  <2>1. SUFFICES ASSUME NEW i \in 1 .. n PROVE e(i) = s[f + i] /\ s[f + i] \in Int
    OBVIOUS
  <2>2. i - 1 \in Int /\ (f + (i - 1)) + 1 = f + i /\ f + i \in 1 .. Len(s)
    BY <1>1, SMT DEF n
  <2>3. e(i) = s[f + i]
    BY <1>3, <1>4, <2>2
  <2> QED
    BY <1>1, <2>2, <2>3, ElementOfSeq
<1> HIDE DEF e
<1>9. Copy(l) = [i \in 1 .. n |-> s[f + i]]
  BY <1>7, <1>8
<1>10. Copy(l) \in [1 .. n -> Int]
  BY <1>8, <1>9
<1>11. Copy(l) \in Seq(Int)
  BY <1>1, <1>10, SeqDef
<1>12. Len(Copy(l)) = n
  BY <1>1, <1>10, <1>11, SMT
<1>13. \A j \in 0 .. (n - 1) :
            /\ Deref(l, Moved(Begin(l), j)) = Copy(l)[j + 1]
            /\ Deref(l, MovedBack(RBegin(l), n - 1 - j)) = Copy(l)[j + 1]
  <2>1. SUFFICES ASSUME NEW j \in 0 .. (n - 1)
                 PROVE  /\ Deref(l, Moved(Begin(l), j)) = Copy(l)[j + 1]
                        /\ Deref(l, MovedBack(RBegin(l), n - 1 - j)) = Copy(l)[j + 1]
    OBVIOUS
  <2>2. /\ j \in Int /\ j + 1 \in 1 .. n /\ n - 1 - j \in Int
        /\ (f + j) + 1 = f + (j + 1)
        /\ ((g - 1) - (n - 1 - j)) + 1 = f + (j + 1)
    BY <1>1, SMT DEF n
  <2>3. Copy(l)[j + 1] = s[f + (j + 1)]
    BY <1>9, <2>2
  <2> QED
    BY <1>3, <1>4, <1>5, <2>2, <2>3
<1>14. Ends(l)
  <2>1. Meet(Iterator(f, 1), Iterator(g, 1))
    <3>1. CASE f = g
      BY <3>1, IteratorIs DEF Meet, Equal
    <3>2. CASE f # g
      <4>1. (g - f) * 1 = g - f /\ g - f \in Int /\ g > f
        BY <1>1, <3>2, SMT
      <4>2. Remainder(g - f, 1) = 0
        BY <4>1, QuotientExact
      <4> QED
        BY <4>1, <4>2, IteratorIs, SMT DEF Meet
    <3> QED
      BY <3>1, <3>2
  <2> QED
    BY <1>2, <2>1 DEF Ends
<1>15. Empty(l) <=> Copy(l) = << >>
  <2>1. Copy(l) = << >> <=> n = 0
    BY <1>11, <1>12, EmptySeq, SMT
  <2>2. f = g <=> n = 0
    BY <1>1, SMT DEF n
  <2> QED
    BY <1>2, <2>1, <2>2
<1> QED
  BY <1>2, <1>9, <1>11, <1>12, <1>13, <1>14, <1>15 DEF Reads, n

(* Iterating over a range that is exact gives its numbers.                  *)
LEMMA RangeReads ==
    ASSUME NEW l, NEW f, NEW n, NEW c, ExactLike(l, f, n, c)
    PROVE  Reads(l) /\ Copy(l) = [i \in 1 .. n |-> f + (i - 1) * c]
<1> DEFINE e(i) == Deref(l, Moved(Begin(l), i - 1))
<1>1. f \in Int /\ n \in Nat /\ c \in Int /\ c # 0
  BY DEF ExactLike
<1>2. /\ Begin(l) = Iterator(f, c) /\ End(l) = Iterator(f + n * c, c)
      /\ CountsIn(l)
      /\ ListSize(l) = n
      /\ Empty(l) <=> n = 0
      /\ l.kind = "xrange" => RBegin(l) = Iterator(f + (n - 1) * c, c)
  BY DEF ExactLike
<1>3. \A k, st : Deref(l, Iterator(k, st)) = k
  BY <1>2, IteratorIs DEF Deref
<1>4. \A k : Moved(Begin(l), k) = Iterator(f + k * c, c)
  BY <1>2, IteratorIs DEF Moved
<1>5. n * c \in Int /\ (f + n * c) - f = n * c
  BY <1>1, SMT
<1>6. Quotient(n * c, c) = n /\ Remainder(n * c, c) = 0
  BY <1>1, QuotientExact
<1>7. f = f + n * c <=> n = 0
  <2>1. n = 0 => n * c = 0
    BY <1>1, SMT
  <2>2. n # 0 => n * c # 0
    <3>1. -c \in Int /\ n * (-c) = -(n * c) /\ 0 * c = 0 /\ 0 * (-c) = 0
      BY <1>1, SMT
    <3>2. c > 0 => (0 < n => 0 * c < n * c)
      BY <1>1, TimesOrder
    <3>3. -c > 0 => (0 < n => 0 * (-c) < n * (-c))
      BY <1>1, <3>1, TimesOrder
    <3> QED
      BY <1>1, <1>5, <3>1, <3>2, <3>3, SMT
  <2> QED
    BY <1>1, <1>5, <2>1, <2>2, SMT
<1>8. Distance(Begin(l), End(l)) = n
  <2> DEFINE g == f + n * c
  <2>1. Begin(l) = Iterator(f, c) /\ End(l) = Iterator(g, c)
    BY <1>2
  <2>2. f = g <=> n = 0
    BY <1>7
  <2>3. g - f = n * c
    BY <1>5
  <2> HIDE DEF g
  <2>4. Distance(Begin(l), End(l)) = IF f = g THEN 0 ELSE Quotient(g - f, c)
    BY <2>1, IteratorIs DEF Distance, Equal
  <2> QED
    BY <1>6, <2>2, <2>3, <2>4
<1>9. Copy(l) = [i \in 1 .. n |-> e(i)]
  BY <1>8 DEF Copy
<1>10. \A i \in 1 .. n : e(i) = f + (i - 1) * c /\ f + (i - 1) * c \in Int
  <2>1. SUFFICES ASSUME NEW i \in 1 .. n
                 PROVE  e(i) = f + (i - 1) * c /\ f + (i - 1) * c \in Int
    OBVIOUS
  <2>2. e(i) = f + (i - 1) * c
    BY <1>3, <1>4
  <2>3. i \in Int
    BY <1>1, SMT
  <2>4. f + (i - 1) * c \in Int
    BY <1>1, <2>3, SMT
  <2> QED
    BY <2>2, <2>4
<1> HIDE DEF e
<1>11. Copy(l) = [i \in 1 .. n |-> f + (i - 1) * c]
  BY <1>9, <1>10
<1>12. Copy(l) \in [1 .. n -> Int]
  BY <1>10, <1>11
<1>13. Copy(l) \in Seq(Int)
  BY <1>1, <1>12, SeqDef
<1>14. Len(Copy(l)) = n
  BY <1>1, <1>12, <1>13, SMT
<1>15. \A j \in 0 .. (n - 1) : Deref(l, Moved(Begin(l), j)) = Copy(l)[j + 1]
  <2>1. SUFFICES ASSUME NEW j \in 0 .. (n - 1)
                 PROVE  Deref(l, Moved(Begin(l), j)) = Copy(l)[j + 1]
    OBVIOUS
  <2>2. j + 1 \in 1 .. n /\ (j + 1) - 1 = j
    BY <1>1, SMT
  <2>3. Copy(l)[j + 1] = f + j * c
    BY <1>11, <2>2
  <2> QED
    BY <1>3, <1>4, <2>3
<1>16. l.kind = "xrange" =>
        \A j \in 0 .. (n - 1) :
            Deref(l, MovedBack(RBegin(l), n - 1 - j)) = Copy(l)[j + 1]
  <2>1. SUFFICES ASSUME l.kind = "xrange", NEW j \in 0 .. (n - 1)
                 PROVE  Deref(l, MovedBack(RBegin(l), n - 1 - j)) = Copy(l)[j + 1]
    OBVIOUS
  <2>2. j + 1 \in 1 .. n /\ (j + 1) - 1 = j /\ j \in Int
    BY <1>1, SMT
  <2>3. Copy(l)[j + 1] = f + j * c
    BY <1>11, <2>2
  <2>4. MovedBack(RBegin(l), n - 1 - j) =
            Iterator((f + (n - 1) * c) - (n - 1 - j) * c, c)
    BY <1>2, <2>1, IteratorIs DEF MovedBack
  <2>5. (f + (n - 1) * c) - (n - 1 - j) * c = f + j * c
    BY <1>1, <2>2, SMT
  <2> QED
    BY <1>3, <2>3, <2>4, <2>5
<1>17. CountsIn(l) /\ ~(l.kind = "pair") => l.kind = "xrange"
  BY DEF CountsIn, Owner
<1>18. Ends(l)
  <2>1. Meet(Iterator(f, c), Iterator(f + n * c, c))
    <3>1. CASE n = 0
      BY <1>7, <3>1, IteratorIs DEF Meet, Equal
    <3>2. CASE n # 0
      <4>1. (f + n * c > f) = (c > 0)
        <5>1. -c \in Int /\ n * (-c) = -(n * c) /\ 0 * c = 0 /\ 0 * (-c) = 0
          BY <1>1, SMT
        <5>2. c > 0 => (0 < n => 0 * c < n * c)
          BY <1>1, TimesOrder
        <5>3. -c > 0 => (0 < n => 0 * (-c) < n * (-c))
          BY <1>1, <5>1, TimesOrder
        <5>4. f + n * c > f <=> c > 0
          BY <1>1, <1>5, <3>2, <5>1, <5>2, <5>3, SMT
        <5> DEFINE g == f + n * c
        <5>5. g > f <=> c > 0
          BY <5>4
        <5> HIDE DEF g
        <5>6. (g > f) = (c > 0)
          BY <5>5
        <5> QED
          BY <5>6 DEF g
      <4>2. Remainder((f + n * c) - f, c) = 0
        BY <1>5, <1>6
      <4> QED
        BY <1>1, <4>1, <4>2, IteratorIs DEF Meet
    <3> QED
      BY <3>1, <3>2
  <2> QED
    BY <1>2, <2>1 DEF Ends
<1>19. Empty(l) <=> Copy(l) = << >>
  <2>1. Copy(l) = << >> <=> n = 0
    BY <1>1, <1>13, <1>14, EmptySeq, SMT
  <2> QED
    BY <1>2, <2>1
<1> QED
  BY <1>2, <1>11, <1>13, <1>14, <1>15, <1>16, <1>17, <1>18, <1>19 DEF Reads

(* Iterating over any list that is exact gives its elements.                *)
LEMMA ExactReads ==
    ASSUME NEW l, Exact(l)
    PROVE  Reads(l)
BY VectorReads, RangeReads DEF Exact

(* Part of a range whose end is reached has so many numbers.                *)
LEMMA MeetIs ==
    ASSUME NEW f \in Int, NEW g \in Int, NEW c \in Int, c # 0,
           Meet(Iterator(f, c), Iterator(g, c))
    PROVE  \E n \in Nat : g = f + n * c
<1>1. \/ f = g
      \/ Remainder(g - f, c) = 0 /\ (g > f) = (c > 0)
  BY IteratorIs DEF Meet, Equal
<1>2. CASE f = g
  <2>1. 0 \in Nat /\ g = f + 0 * c
    BY <1>2, SMT
  <2> QED
    BY <2>1
<1>3. CASE f # g /\ Remainder(g - f, c) = 0 /\ (g > f) = (c > 0)
  <2> DEFINE q == Quotient(g - f, c)
  <2>1. g - f \in Int
    BY SMT
  <2>2. q \in Int /\ g - f = q * c
    BY <1>3, <2>1, QuotientType, RemainderNone
  <2> HIDE DEF q
  <2>3. q * c \in Int /\ g = f + q * c
    BY <2>2, SMT
  <2>4. g > f <=> c > 0
    BY <1>3
  <2>5. q >= 0
    <3>1. -c \in Int /\ q * (-c) = -(q * c) /\ 0 * c = 0 /\ 0 * (-c) = 0
      BY <2>2, SMT
    <3>2. c > 0 => (q < 0 => q * c < 0 * c)
      BY <2>2, TimesOrder
    <3>3. -c > 0 => (q < 0 => q * (-c) < 0 * (-c))
      BY <2>2, <3>1, TimesOrder
    <3> QED
      BY <1>3, <2>2, <2>3, <2>4, <3>1, <3>2, <3>3, SMT
  <2>6. q \in Nat
    BY <2>2, <2>5, SMT
  <2> QED
    BY <2>3, <2>6
<1> QED
  BY <1>1, <1>2, <1>3

(* Copying a list gives numbers.                                            *)
LEMMA CopyType ==
    ASSUME NEW l, ListType(l), Ends(l)
    PROVE  Copy(l) \in Seq(Int)
<1>1. CASE \E s \in Seq(Int), f, g \in Int : VectorLike(l, s, f, g)
  BY <1>1, VectorReads DEF Reads
<1>2. CASE \E f, g, c \in Int : RangeLike(l, f, g, c)
  <2>1. PICK f, g, c \in Int : RangeLike(l, f, g, c)
    BY <1>2
  <2>2. c # 0 /\ Begin(l) = Iterator(f, c) /\ End(l) = Iterator(g, c) /\ CountsIn(l)
    BY <2>1 DEF RangeLike
  <2>3. PICK n \in Nat : g = f + n * c
    BY <2>2, MeetIs DEF Ends
  <2>4. Distance(Begin(l), End(l)) \in Nat
    <3>1. Distance(Begin(l), End(l)) = IF f = g THEN 0 ELSE Quotient(g - f, c)
      BY <2>2, IteratorIs DEF Distance, Equal
    <3>2. Quotient(n * c, c) = n /\ n * c \in Int
      BY <2>2, QuotientExact
    <3>3. g - f = n * c
      BY <2>3, <3>2, SMT
    <3> QED
      BY <3>1, <3>2, <3>3
  <2> DEFINE d == Distance(Begin(l), End(l))
             e(i) == Deref(l, Moved(Begin(l), i - 1))
  <2>5. Copy(l) = [i \in 1 .. d |-> e(i)]
    BY DEF Copy
  <2>6. \A i \in 1 .. d : e(i) \in Int
    <3>1. SUFFICES ASSUME NEW i \in 1 .. d PROVE e(i) \in Int
      OBVIOUS
    <3>2. i \in Int
      BY <2>4, SMT
    <3>3. e(i) = f + (i - 1) * c
      BY <2>2, IteratorIs DEF Deref, Moved
    <3> HIDE DEF e
    <3> QED
      BY <3>2, <3>3, SMT
  <2> HIDE DEF d, e
  <2>7. Copy(l) \in [1 .. d -> Int]
    BY <2>5, <2>6
  <2> QED
    BY <2>4, <2>7, SeqDef DEF d
<1> QED
  BY <1>1, <1>2, ListLike

-----------------------------------------------------------------------------
(* Ranges that lead to their stop have as many numbers as Python's.         *)

(* A stop that so many steps reach is that many away.                       *)
LEMMA CountExact ==
    ASSUME NEW a \in Int, NEW c \in Int, c # 0, NEW k \in Nat, NEW b,
           b = a + k * c
    PROVE  CountOf(a, b, c) = k
<1> DEFINE d == Magnitude(c)
           n == CountOf(a, b, c)
<1>1. d \in Int /\ d > 0 /\ (c > 0 => d = c) /\ (c < 0 => d = -c)
  BY MagnitudeIs
<1>2. k * c \in Int /\ b \in Int /\ b - a = k * c /\ a - b = -(k * c)
      /\ k * (-c) = -(k * c)
  BY SMT
<1>3. n \in Nat /\ \A j \in Nat : j < n <=> j * d < Span(a, b, c)
  BY <1>2, CountIs
<1>4. Span(a, b, c) = k * d
  <2>1. c > 0 => Span(a, b, c) = k * c
    BY <1>2 DEF Span
  <2>2. c < 0 => Span(a, b, c) = k * (-c)
    <3>1. c < 0 => Span(a, b, c) = a - b
      BY SMT DEF Span
    <3> QED
      BY <1>2, <3>1
  <2> QED
    BY <1>1, <2>1, <2>2, SMT
<1> HIDE DEF d, n
<1>5. \A j \in Nat : j < n <=> j < k
  <2>1. SUFFICES ASSUME NEW j \in Nat PROVE j < n <=> j < k
    OBVIOUS
  <2>2. j < k <=> j * d < k * d
    BY <1>1, TimesOrder
  <2> QED
    BY <1>3, <1>4, <2>2
<1>6. n = k
  BY <1>3, <1>5, SMT
<1> QED
  BY <1>6 DEF n

(* The division of a range that leads to its stop.                          *)
LEMMA ExactWhole ==
    ASSUME NEW a \in Int, NEW c \in Int, c # 0, NEW k \in Nat, NEW b,
           b = a + k * c
    PROVE  ExactLike(Xrange(a, b, c), a, CountOf(a, b, c), c)
<1> DEFINE l == Xrange(a, b, c)
<1>1. l.kind = "xrange" /\ l.start = a /\ l.stop = b /\ l.step = c
  BY XrangeIs
<1>2. CountOf(a, b, c) = k
  BY CountExact
<1> HIDE DEF l
<1>3. k * c \in Int /\ b \in Int /\ b - a = k * c
  BY SMT
<1>4. Quotient(b - a, c) = k /\ Remainder(b - a, c) = 0
  BY <1>3, QuotientExact
<1>5. End(l) = Iterator(a + k * c, c)
  <2>1. End(l) = Iterator(a + k * c + 0, c)
    BY <1>1, <1>4 DEF End
  <2>2. a + k * c + 0 = a + k * c
    BY <1>3, SMT
  <2> QED
    BY <2>1, <2>2
<1>6. RBegin(l) = Iterator(a + (k - 1) * c, c)
  <2>1. RBegin(l) = Iterator(a + k * c + (-c), c)
    BY <1>1, <1>4 DEF RBegin
  <2>2. a + k * c + (-c) = a + (k - 1) * c
    BY SMT
  <2> QED
    BY <2>1, <2>2
<1>7. Begin(l) = Iterator(a, c)
  BY <1>1 DEF Begin
<1>8. CountsIn(l)
  BY <1>1 DEF CountsIn, Owner
<1>9. /\ k = 0 => b - a = 0
      /\ k # 0 /\ c > 0 => b - a > 0
      /\ k # 0 /\ c < 0 => b - a < 0
  <2>1. -c \in Int /\ k * (-c) = -(k * c) /\ 0 * c = 0 /\ 0 * (-c) = 0
    BY SMT
  <2>2. c > 0 => (0 < k => 0 * c < k * c)
    BY TimesOrder
  <2>3. -c > 0 => (0 < k => 0 * (-c) < k * (-c))
    BY <2>1, TimesOrder
  <2>4. k = 0 => k * c = 0
    BY <2>1
  <2> QED
    BY <1>3, <2>1, <2>2, <2>3, <2>4, SMT
<1>10. ListSize(l) = k
  <2>1. ListSize(l) = IF (b - a > 0) # (c > 0) THEN 0 ELSE k + 0
    <3>1. ListSize(l) = IF (b - a > 0) # (c > 0) THEN 0
                        ELSE k + (IF 0 > 0 THEN 1 ELSE 0)
      BY <1>1, <1>4 DEF ListSize
    <3>2. ~(0 > 0)
      BY SMT
    <3> QED
      BY <3>1, <3>2
  <2>2. k + 0 = k
    BY SMT
  <2>3. (b - a > 0) # (c > 0) => k = 0
    BY <1>3, <1>9, SMT
  <2> QED
    BY <2>1, <2>2, <2>3
<1>11. Empty(l) <=> k = 0
  <2>1. Empty(l) <=> a = b
    BY <1>1 DEF Empty
  <2> QED
    BY <1>3, <1>9, <2>1, SMT
<1> QED
  BY <1>2, <1>5, <1>6, <1>7, <1>8, <1>10, <1>11 DEF ExactLike, l

(* An ascending range is exact if its last step goes past its stop.         *)
LEMMA ExactRest ==
    ASSUME NEW a \in Int, NEW b \in Int, NEW c \in Int, c > 0, a < b,
           (b - a) % c # 0
    PROVE  ExactLike(Xrange(a, b, c), a, CountOf(a, b, c), c)
<1> DEFINE l == Xrange(a, b, c)
           q == (b - a) \div c
           n == CountOf(a, b, c)
<1>1. l.kind = "xrange" /\ l.start = a /\ l.stop = b /\ l.step = c
  BY XrangeIs
<1> HIDE DEF l
<1>2. b - a \in Nat /\ b - a \in Int /\ b - a > 0
  BY SMT
<1>3. /\ q \in Int /\ ((b - a) % c) \in 0 .. (c - 1)
      /\ b - a = q * c + ((b - a) % c)
  BY <1>2, Division
<1>4. Quotient(b - a, c) = q /\ Remainder(b - a, c) = (b - a) % c
  BY <1>2, QuotientOfNat
<1> DEFINE r == (b - a) % c
<1> HIDE DEF q, r
<1>5. q * c \in Int /\ q * c < b - a /\ b - a < q * c + c /\ r > 0 /\ r # 0
  BY <1>3, SMT DEF r
<1>6. q >= 0
  <2>1. q < 0 => (q + 1) * c <= 0 * c /\ (q + 1) * c = q * c + c /\ 0 * c = 0
    <3>1. 0 * c = 0
      BY SMT
    <3> QED
      BY <1>3, <3>1, TimesOrder
  <2> QED
    BY <1>2, <1>3, <1>5, <2>1, SMT
<1>7. n = q + 1
  <2>1. n \in Nat /\ \A j \in Nat : j < n <=> j * c < b - a
    <3>1. Magnitude(c) = c /\ Span(a, b, c) = b - a
      BY SMT DEF Magnitude, Span
    <3>2. c # 0
      BY SMT
    <3>3. /\ CountOf(a, b, c) \in Nat
          /\ \A j \in Nat : j < CountOf(a, b, c) <=>
                j * Magnitude(c) < Span(a, b, c)
      BY <3>2, CountIs
    <3> QED
      BY <3>1, <3>3
  <2> HIDE DEF n
  <2>2. q < n
    BY <1>3, <1>5, <1>6, <2>1, SMT
  <2>3. ~(q + 1 < n)
    <3>1. q + 1 \in Nat /\ (q + 1) * c = q * c + c
      BY <1>3, <1>6, SMT
    <3>2. ~((q + 1) * c < b - a)
      BY <1>2, <1>5, <3>1, SMT
    <3> QED
      BY <2>1, <3>1, <3>2
  <2> QED
    BY <1>3, <2>1, <2>2, <2>3, SMT
<1>8. End(l) = Iterator(a + n * c, c)
  <2>1. End(l) = Iterator(a + q * c + c, c)
    BY <1>1, <1>4, <1>5 DEF End, r
  <2>2. a + q * c + c = a + (q + 1) * c
    BY <1>3, SMT
  <2> QED
    BY <1>7, <2>1, <2>2
<1>9. RBegin(l) = Iterator(a + (n - 1) * c, c)
  <2>1. RBegin(l) = Iterator(a + q * c + 0, c)
    BY <1>1, <1>4, <1>5 DEF RBegin, r
  <2>2. a + q * c + 0 = a + q * c /\ (q + 1) - 1 = q
    BY <1>3, <1>5, SMT
  <2> QED
    BY <1>7, <2>1, <2>2
<1>10. Begin(l) = Iterator(a, c)
  BY <1>1 DEF Begin
<1>11. CountsIn(l)
  BY <1>1 DEF CountsIn, Owner
<1>12. ListSize(l) = n
  <2>1. ListSize(l) = IF (b - a > 0) # (c > 0) THEN 0
                      ELSE q + (IF r > 0 THEN 1 ELSE 0)
    BY <1>1, <1>4 DEF ListSize, r
  <2>2. ~((b - a > 0) # (c > 0))
    BY <1>2
  <2> QED
    BY <1>5, <1>7, <2>1, <2>2
<1>13. Empty(l) <=> n = 0
  <2>1. Empty(l) <=> a = b
    BY <1>1 DEF Empty
  <2> QED
    BY <1>3, <1>6, <1>7, <2>1, SMT
<1>14. n \in Nat
  BY <1>3, <1>6, <1>7, SMT
<1> QED
  BY <1>8, <1>9, <1>10, <1>11, <1>12, <1>13, <1>14 DEF ExactLike, l

(* A range from which its stop is reached is exact.                         *)
LEMMA ExactRange ==
    ASSUME NEW a \in Int, NEW b \in Int, NEW c \in Int, c # 0, Leads(a, b, c)
    PROVE  ExactLike(Xrange(a, b, c), a, CountOf(a, b, c), c)
<1>1. CASE a = b
  <2>1. 0 \in Nat /\ b = a + 0 * c
    BY <1>1, SMT
  <2> QED
    BY <2>1, ExactWhole
<1>2. CASE c > 0 /\ b > a
  <2>1. CASE (b - a) % c = 0
    <3> DEFINE k == (b - a) \div c
    <3>1. b - a \in Int /\ b - a > 0
      BY <1>2, SMT
    <3>2. k \in Int /\ b - a = k * c + ((b - a) % c)
      BY <1>2, <3>1, Division
    <3> HIDE DEF k
    <3>3. k * c \in Int /\ b - a = k * c /\ b = a + k * c
      BY <2>1, <3>2, SMT
    <3>4. k < 0 => k * c < 0 * c
      BY <1>2, <3>2, TimesOrder
    <3>5. k \in Nat
      BY <3>1, <3>2, <3>3, <3>4, SMT
    <3> QED
      BY <3>3, <3>5, ExactWhole
  <2>2. CASE (b - a) % c # 0
    <3>1. a < b
      BY <1>2, SMT
    <3> QED
      BY <1>2, <2>2, <3>1, ExactRest
  <2> QED
    BY <2>1, <2>2
<1>3. CASE ~(c > 0) /\ b < a /\ (a - b) % -c = 0
  <2> DEFINE d == -c
             k == (a - b) \div d
  <2>1. d \in Int /\ d > 0 /\ a - b \in Int /\ a - b > 0
    BY <1>3, SMT
  <2>2. (a - b) % d = 0
    BY <1>3
  <2> HIDE DEF d
  <2>3. k \in Int /\ a - b = k * d + ((a - b) % d)
    BY <2>1, Division
  <2> HIDE DEF k
  <2>4. k * d \in Int /\ a - b = k * d
    BY <2>1, <2>2, <2>3, SMT
  <2>5. k < 0 => k * d < 0 * d
    BY <2>1, <2>3, TimesOrder
  <2>6. k \in Nat
    BY <2>1, <2>3, <2>4, <2>5, SMT
  <2>7. k * c \in Int /\ k * d = -(k * c)
    BY <2>6, SMT DEF d
  <2>8. b = a + k * c
    BY <2>4, <2>7, SMT
  <2> QED
    BY <2>6, <2>8, ExactWhole
<1> QED
  BY <1>1, <1>2, <1>3, Zenon DEF Leads

(* What follows a number of an exact range is exact.                        *)
LEMMA ExactPart ==
    ASSUME NEW a \in Int, NEW b \in Int, NEW c \in Int, c # 0,
           NEW f \in Int, NEW n \in Nat, NEW g, g = f + n * c
    PROVE  ExactLike(Pair(Xrange(a, b, c), Iterator(f, c), Iterator(g, c)), f, n, c)
<1> DEFINE l == Pair(Xrange(a, b, c), Iterator(f, c), Iterator(g, c))
<1>1. /\ l.kind = "pair" /\ l.of = Xrange(a, b, c)
      /\ l.first = Iterator(f, c) /\ l.second = Iterator(g, c)
  BY PairIs
<1>2. Xrange(a, b, c).kind = "xrange"
  BY XrangeIs
<1> HIDE DEF l
<1>3. CountsIn(l)
  BY <1>1, <1>2 DEF Owner, CountsIn
<1>4. Begin(l) = Iterator(f, c)
  BY <1>1 DEF Begin
<1>5. End(l) = Iterator(g, c)
  BY <1>1 DEF End
<1>6. n * c \in Int /\ g \in Int /\ g - f = n * c
  BY SMT
<1>7. f = g <=> n = 0
  <2>1. -c \in Int /\ n * (-c) = -(n * c) /\ 0 * c = 0 /\ 0 * (-c) = 0
    BY SMT
  <2>2. c > 0 => (0 < n => 0 * c < n * c)
    BY TimesOrder
  <2>3. -c > 0 => (0 < n => 0 * (-c) < n * (-c))
    BY <2>1, TimesOrder
  <2>4. n = 0 => n * c = 0
    BY <2>1
  <2> QED
    BY <1>6, <2>1, <2>2, <2>3, <2>4, SMT
<1>8. ListSize(l) = n
  <2>1. ListSize(l) = Distance(Iterator(f, c), Iterator(g, c))
    BY <1>1 DEF ListSize
  <2>2. Distance(Iterator(f, c), Iterator(g, c)) =
            IF f = g THEN 0 ELSE Quotient(g - f, c)
    BY IteratorIs DEF Distance, Equal
  <2>3. Quotient(n * c, c) = n
    BY QuotientExact
  <2> QED
    BY <1>6, <1>7, <2>1, <2>2, <2>3
<1>9. Empty(l) <=> n = 0
  <2>1. Empty(l) <=> f = g
    BY <1>1, <1>4, <1>5, IteratorIs DEF Empty, Equal
  <2> QED
    BY <1>7, <2>1
<1>10. l.kind # "xrange"
  BY <1>1
<1> QED
  BY <1>3, <1>4, <1>5, <1>8, <1>9, <1>10 DEF ExactLike, l

-----------------------------------------------------------------------------
(* Operations on lists.                                                     *)

CdrOf(l) == IF IsRef(l) THEN Pair(Owner(l), Increment(Begin(l)), End(l))
            ELSE Args(Tail(l.elements))

(* Iterating over a vector gives the vector.                                *)
LEMMA ArgsExact ==
    ASSUME NEW s \in Seq(Int)
    PROVE  ListType(Args(s)) /\ Exact(Args(s)) /\ Copy(Args(s)) = s
<1>1. VectorLike(Args(s), s, 0, Len(s))
  BY VectorIs
<1>2. Len(s) \in Nat /\ Len(s) \in Int /\ 0 \in Int /\ Len(s) - 0 = Len(s)
  BY LenProperties, SMT
<1>3. Copy(Args(s)) = [i \in 1 .. (Len(s) - 0) |-> s[0 + i]]
  BY <1>1, VectorReads
<1>4. \A i \in 1 .. Len(s) : 0 + i = i
  BY <1>2, SMT
<1>5. Copy(Args(s)) = [i \in 1 .. Len(s) |-> s[i]]
  BY <1>2, <1>3, <1>4
<1>6. s = [i \in 1 .. Len(s) |-> s[i]]
  BY LenProperties
<1>7. ListType(Args(s))
  BY DEF ListType, IsVector
<1>8. Exact(Args(s))
  BY <1>1, <1>2 DEF Exact
<1> QED
  BY <1>5, <1>6, <1>7, <1>8

(* A reference to a vector gives the vector.                                *)
LEMMA ReferExact ==
    ASSUME NEW s \in Seq(Int), NEW l, l = Pair(Args(s), Begin(Args(s)), End(Args(s)))
    PROVE  ListType(l) /\ Exact(l) /\ Copy(l) = s
<1>1. Begin(Args(s)) = Iterator(0, 1) /\ End(Args(s)) = Iterator(Len(s), 1)
  BY VectorIs DEF VectorLike
<1>2. Len(s) \in Nat /\ Len(s) \in Int /\ 0 \in Int /\ Len(s) - 0 = Len(s)
      /\ 0 <= 0 /\ 0 <= Len(s) /\ Len(s) <= Len(s)
  BY LenProperties, SMT
<1>3. l = Pair(Args(s), Iterator(0, 1), Iterator(Len(s), 1))
  BY <1>1
<1>4. VectorLike(l, s, 0, Len(s))
  BY <1>2, <1>3, PartOfVectorIs
<1>5. Copy(l) = [i \in 1 .. (Len(s) - 0) |-> s[0 + i]]
  BY <1>4, VectorReads
<1>6. \A i \in 1 .. Len(s) : 0 + i = i
  BY <1>2, SMT
<1>7. Copy(l) = [i \in 1 .. Len(s) |-> s[i]]
  BY <1>2, <1>5, <1>6
<1>8. s = [i \in 1 .. Len(s) |-> s[i]]
  BY LenProperties
<1>9. ListType(l)
  BY <1>2, <1>3 DEF ListType, IsPartOfVector
<1>10. Exact(l)
  BY <1>2, <1>4 DEF Exact
<1> QED
  BY <1>7, <1>8, <1>9, <1>10

(* What is left without the first element.                                  *)
LEMMA TailIs ==
    ASSUME NEW s \in Seq(Int), s # << >>
    PROVE  /\ Tail(s) \in Seq(Int)
           /\ Tail(s) = [i \in 1 .. (Len(s) - 1) |-> s[i + 1]]
<1>1. /\ Tail(s) \in Seq(Int) /\ Len(Tail(s)) = Len(s) - 1
      /\ \A i \in 1 .. Len(Tail(s)) : Tail(s)[i] = s[i + 1]
  BY HeadTailProperties
<1>2. Tail(s) = [i \in 1 .. Len(Tail(s)) |-> Tail(s)[i]]
  BY <1>1, LenProperties
<1> QED
  BY <1>1, <1>2

Part(s, f, n) == [i \in 1 .. n |-> s[f + i]]

(* The copy of a part of a vector.                                          *)
LEMMA VectorCopy ==
    ASSUME NEW l, NEW s, NEW f, NEW g, VectorLike(l, s, f, g)
    PROVE  Reads(l) /\ Copy(l) = Part(s, f, g - f)
BY VectorReads DEF Part

(* The rest of part of a vector.                                            *)
LEMMA RestOfVector ==
    ASSUME NEW s \in Seq(Int), NEW f \in Int, NEW g \in Int,
           0 <= f, f < g, g <= Len(s),
           NEW l, VectorLike(l, s, f, g),
           NEW r, r = Pair(Args(s), Iterator(f + 1, 1), Iterator(g, 1))
    PROVE  ListType(r) /\ Exact(r) /\ Copy(r) = Tail(Copy(l))
<1>1. f + 1 \in Int /\ 0 <= f + 1 /\ f + 1 <= g
  BY SMT
<1>2. VectorLike(r, s, f + 1, g)
  BY <1>1, PartOfVectorIs
<1>3. Copy(r) = [i \in 1 .. (g - (f + 1)) |-> s[(f + 1) + i]]
  <2>1. Copy(r) = Part(s, f + 1, g - (f + 1))
    BY <1>2, VectorCopy
  <2> QED
    BY <2>1 DEF Part
<1>4. /\ Copy(l) = [i \in 1 .. (g - f) |-> s[f + i]] /\ Copy(l) \in Seq(Int)
      /\ ListSize(l) = Len(Copy(l))
  <2>1. Copy(l) = Part(s, f, g - f) /\ Reads(l)
    BY VectorCopy
  <2>2. Copy(l) \in Seq(Int) /\ ListSize(l) = Len(Copy(l))
    BY <2>1 DEF Reads
  <2> QED
    BY <2>1, <2>2 DEF Part
<1>5. Len(Copy(l)) = g - f
  BY <1>4 DEF VectorLike
<1>6. Copy(l) # << >>
  BY <1>4, <1>5, EmptySeq, SMT
<1>7. Tail(Copy(l)) = [i \in 1 .. ((g - f) - 1) |-> Copy(l)[i + 1]]
  BY <1>4, <1>5, <1>6, TailIs
<1>8. (g - f) - 1 = g - (f + 1)
  BY SMT
<1>9. \A i \in 1 .. ((g - f) - 1) : i + 1 \in 1 .. (g - f) /\ f + (i + 1) = (f + 1) + i
  BY SMT
<1>10. \A i \in 1 .. ((g - f) - 1) : Copy(l)[i + 1] = s[(f + 1) + i]
  BY <1>4, <1>9
<1>11. Copy(r) = Tail(Copy(l))
  BY <1>3, <1>7, <1>8, <1>10
<1>12. ListType(r)
  BY <1>1 DEF ListType, IsPartOfVector
<1>13. Exact(r)
  BY <1>1, <1>2 DEF Exact
<1> QED
  BY <1>11, <1>12, <1>13

(* The rest of part of a range.                                             *)
LEMMA RestOfRange ==
    ASSUME NEW a \in Int, NEW b \in Int, NEW c \in Int, c # 0,
           NEW f \in Int, NEW g \in Int,
           NEW l, Begin(l) = Iterator(f, c), End(l) = Iterator(g, c), CountsIn(l),
           NEW r, r = Pair(Xrange(a, b, c), Iterator(f + c, c), Iterator(g, c))
    PROVE  ListType(r)
<1>1. f + c \in Int
  BY SMT
<1> QED
  BY <1>1 DEF ListType, IsPartOfRange

IsTail(t, s) == t = Tail(s)

(* cdr of a range that is exact steps on to the next number.                *)
LEMMA RestOfExact ==
    ASSUME NEW a \in Int, NEW b \in Int, NEW c \in Int, c # 0,
           NEW f \in Int, NEW g \in Int,
           NEW l, Begin(l) = Iterator(f, c), End(l) = Iterator(g, c), CountsIn(l),
           Exact(l), ~Empty(l),
           NEW r, r = Pair(Xrange(a, b, c), Iterator(f + c, c), Iterator(g, c))
    PROVE  Exact(r) /\ IsTail(Copy(r), Copy(l))
<1>1. f + c \in Int
  BY SMT
<1>3. Exact(r) /\ Copy(r) = Tail(Copy(l))
  <2>1. PICK f1, c1 \in Int, n \in Nat : ExactLike(l, f1, n, c1)
    BY DEF Exact, VectorLike
  <2>2. Iterator(f1, c1) = Iterator(f, c) /\ Iterator(f1 + n * c1, c1) = Iterator(g, c)
    BY <2>1 DEF ExactLike
  <2>3. f1 = f /\ c1 = c /\ g = f + n * c
    BY <2>2, IteratorIs
  <2>4. ExactLike(l, f, n, c) /\ n # 0
    <3>1. ExactLike(l, f, n, c)
      BY <2>1, <2>3
    <3> QED
      BY <3>1 DEF ExactLike
  <2>5. n - 1 \in Nat /\ g = (f + c) + (n - 1) * c
    <3>1. n - 1 \in Nat
      BY <2>4, SMT
    <3>2. f + n * c = (f + c) + (n - 1) * c
      BY SMT
    <3> QED
      BY <2>3, <3>1, <3>2
  <2>6. ExactLike(r, f + c, n - 1, c)
    BY <1>1, <2>5, ExactPart
  <2>7. Copy(r) = [i \in 1 .. (n - 1) |-> (f + c) + (i - 1) * c]
    BY <2>6, RangeReads
  <2>8. /\ Copy(l) = [i \in 1 .. n |-> f + (i - 1) * c] /\ Copy(l) \in Seq(Int)
        /\ ListSize(l) = Len(Copy(l))
    BY <2>4, RangeReads DEF Reads
  <2>9. Len(Copy(l)) = n
    BY <2>4, <2>8 DEF ExactLike
  <2>10. Copy(l) # << >>
    <3>1. Reads(l) /\ ~Empty(l)
      BY <2>4, RangeReads
    <3> QED
      BY <3>1 DEF Reads
  <2>11. Tail(Copy(l)) = [i \in 1 .. (n - 1) |-> Copy(l)[i + 1]]
    BY <2>8, <2>9, <2>10, TailIs
  <2>12. \A i \in 1 .. (n - 1) : Copy(l)[i + 1] = (f + c) + (i - 1) * c
    <3>1. SUFFICES ASSUME NEW i \in 1 .. (n - 1)
                   PROVE  Copy(l)[i + 1] = (f + c) + (i - 1) * c
      OBVIOUS
    <3>2. i + 1 \in 1 .. n /\ i \in Int
      BY SMT
    <3>3. Copy(l)[i + 1] = f + ((i + 1) - 1) * c
      BY <2>8, <3>2
    <3>4. f + ((i + 1) - 1) * c = (f + c) + (i - 1) * c
      BY <3>2, SMT
    <3> QED
      BY <3>3, <3>4
  <2>13. Copy(r) = Tail(Copy(l))
    BY <2>7, <2>11, <2>12
  <2>14. Exact(r)
    BY <1>1, <2>5, <2>6 DEF Exact
  <2> QED
    BY <2>13, <2>14
<1> QED
  BY <1>3 DEF IsTail

(* cdr of a list is a list, and all but its first element.                  *)
LEMMA CdrIs ==
    ASSUME NEW l, ListType(l), ~Empty(l)
    PROVE  /\ ListType(CdrOf(l))
           /\ Exact(l) => Exact(CdrOf(l)) /\ Copy(CdrOf(l)) = Tail(Copy(l))
<1>1. CASE IsVector(l)
  <2>1. PICK s \in Seq(Int) : l = Args(s)
    BY <1>1 DEF IsVector
  <2>2. l.kind = "args" /\ l.elements = s /\ ~IsRef(l)
    BY <2>1 DEF Args, IsRef
  <2>3. CdrOf(l) = Args(Tail(s))
    BY <2>2 DEF CdrOf
  <2>4. Copy(l) = s
    BY <2>1, ArgsExact
  <2>5. s # << >>
    <3>1. Empty(l) <=> s = << >>
      BY <2>1, <2>4, ArgsExact, ExactReads DEF Reads
    <3> QED
      BY <3>1
  <2>6. Tail(s) \in Seq(Int)
    BY <2>5, TailIs
  <2> QED
    BY <2>3, <2>4, <2>6, ArgsExact
<1>2. CASE IsRange(l)
  <2>1. PICK a, b, c \in Int : c # 0 /\ l = Xrange(a, b, c)
    BY <1>2 DEF IsRange
  <2>2. PICK g \in Int : RangeLike(l, a, g, c)
    BY <2>1, RangeIs
  <2>3. Begin(l) = Iterator(a, c) /\ End(l) = Iterator(g, c) /\ CountsIn(l)
    BY <2>2 DEF RangeLike
  <2>4. Owner(l) = l /\ IsRef(l)
    BY <2>1, XrangeIs DEF Owner, IsRef
  <2>5. Increment(Begin(l)) = Iterator(a + c, c)
    BY <2>3, IteratorIs DEF Increment
  <2>6. CdrOf(l) = Pair(Xrange(a, b, c), Iterator(a + c, c), Iterator(g, c))
    BY <2>1, <2>3, <2>4, <2>5 DEF CdrOf
  <2>7. ListType(CdrOf(l))
    BY <2>1, <2>3, <2>6, RestOfRange
  <2>8. Exact(l) => Exact(CdrOf(l)) /\ Copy(CdrOf(l)) = Tail(Copy(l))
    <3>1. SUFFICES ASSUME Exact(l)
                   PROVE  Exact(CdrOf(l)) /\ Copy(CdrOf(l)) = Tail(Copy(l))
      OBVIOUS
    <3> DEFINE r == CdrOf(l)
    <3>2. r = Pair(Xrange(a, b, c), Iterator(a + c, c), Iterator(g, c))
      BY <2>6
    <3> HIDE DEF r
    <3>3. Exact(r)
      BY <2>1, <2>3, <3>1, <3>2, RestOfExact
    <3>4. IsTail(Copy(r), Copy(l))
      BY <2>1, <2>3, <3>1, <3>2, RestOfExact
    <3> QED
      BY <3>3, <3>4 DEF r, IsTail
  <2> QED
    BY <2>7, <2>8
<1>3. CASE IsPartOfVector(l)
  <2>1. PICK s \in Seq(Int), f, g \in Int :
            /\ 0 <= f /\ f <= g /\ g <= Len(s)
            /\ l = Pair(Args(s), Iterator(f, 1), Iterator(g, 1))
    BY <1>3 DEF IsPartOfVector
  <2>2. VectorLike(l, s, f, g)
    BY <2>1, PartOfVectorIs
  <2>3. Begin(l) = Iterator(f, 1) /\ End(l) = Iterator(g, 1) /\ (Empty(l) <=> f = g)
    BY <2>2 DEF VectorLike
  <2>4. Owner(l) = Args(s) /\ IsRef(l)
    BY <2>1, PairIs DEF Owner, IsRef
  <2>5. Increment(Begin(l)) = Iterator(f + 1, 1)
    BY <2>3, IteratorIs DEF Increment
  <2>6. CdrOf(l) = Pair(Args(s), Iterator(f + 1, 1), Iterator(g, 1))
    BY <2>3, <2>4, <2>5 DEF CdrOf
  <2>7. f < g
    BY <2>1, <2>3, SMT
  <2> QED
    BY <2>1, <2>2, <2>6, <2>7, RestOfVector
<1>4. CASE IsPartOfRange(l)
  <2>1. PICK a, b, c, f, g \in Int :
            c # 0 /\ l = Pair(Xrange(a, b, c), Iterator(f, c), Iterator(g, c))
    BY <1>4 DEF IsPartOfRange
  <2>2. RangeLike(l, f, g, c)
    BY <2>1, PartOfRangeIs
  <2>3. Begin(l) = Iterator(f, c) /\ End(l) = Iterator(g, c) /\ CountsIn(l)
    BY <2>2 DEF RangeLike
  <2>4. Owner(l) = Xrange(a, b, c) /\ IsRef(l)
    BY <2>1, PairIs DEF Owner, IsRef
  <2>5. Increment(Begin(l)) = Iterator(f + c, c)
    BY <2>3, IteratorIs DEF Increment
  <2>6. CdrOf(l) = Pair(Xrange(a, b, c), Iterator(f + c, c), Iterator(g, c))
    BY <2>3, <2>4, <2>5 DEF CdrOf
  <2>7. ListType(CdrOf(l))
    BY <2>1, <2>3, <2>6, RestOfRange
  <2>8. Exact(l) => Exact(CdrOf(l)) /\ Copy(CdrOf(l)) = Tail(Copy(l))
    <3>1. SUFFICES ASSUME Exact(l)
                   PROVE  Exact(CdrOf(l)) /\ Copy(CdrOf(l)) = Tail(Copy(l))
      OBVIOUS
    <3> DEFINE r == CdrOf(l)
    <3>2. r = Pair(Xrange(a, b, c), Iterator(f + c, c), Iterator(g, c))
      BY <2>6
    <3> HIDE DEF r
    <3>3. Exact(r)
      BY <2>1, <2>3, <3>1, <3>2, RestOfExact
    <3>4. IsTail(Copy(r), Copy(l))
      BY <2>1, <2>3, <3>1, <3>2, RestOfExact
    <3> QED
      BY <3>3, <3>4 DEF r, IsTail
  <2> QED
    BY <2>7, <2>8
<1> QED
  BY <1>1, <1>2, <1>3, <1>4 DEF ListType

(* The indices a slice takes.                                               *)
LEMMA FoundThere ==
    ASSUME NEW s \in Seq(Int), NEW size \in Int, \A i \in 1 .. Len(s) : s[i] >= 0
    PROVE  /\ Found(s, size) \in Nat
           /\ \A i \in 1 .. Found(s, size) :
                i \in 1 .. Len(s) /\ s[i] \in 0 .. (size - 1)
<1> DEFINE n == Found(s, size)
<1>1. Len(s) \in Nat /\ \A i \in 1 .. Len(s) : s[i] \in Int
  BY LenProperties, ElementOfSeq
<1>2. n \in 0 .. Len(s) /\ \A i \in 1 .. n : s[i] < size
  BY FoundIs
<1> HIDE DEF n
<1>3. \A i \in 1 .. n : i \in 1 .. Len(s) /\ s[i] \in 0 .. (size - 1)
  <2>1. SUFFICES ASSUME NEW i \in 1 .. n
                 PROVE  i \in 1 .. Len(s) /\ s[i] \in 0 .. (size - 1)
    OBVIOUS
  <2>2. i \in 1 .. Len(s)
    BY <1>1, <1>2, SMT
  <2>3. s[i] \in Int /\ s[i] >= 0 /\ s[i] < size
    BY <1>1, <1>2, <2>2
  <2> QED
    BY <2>2, <2>3, SMT
<1>4. n \in Nat
  BY <1>1, <1>2, SMT
<1> QED
  BY <1>3, <1>4 DEF n

(* Where a slice looks for an index.                                        *)
LooksAt(l, ix, i) ==
    IF ix.step # 1 /\ Backward(ix)
    THEN MovedBack(RBegin(l), ListSize(l) - 1 - i) ELSE Moved(Begin(l), i)

(* The first numbers of a list of them.                                     *)
Firsts(s, n) == [i \in 1 .. n |-> s[i]]

(* The indices that Python takes are the first ones, up to one not there.   *)
LEMMA WithinFirsts ==
    ASSUME NEW a \in Int, NEW b \in Int, NEW c \in Int, c # 0,
           NEW size \in Int, NEW single, NEW s,
           s = IndexList(Indices(a, b, c, single)),
           \A i \in 1 .. Len(s) : s[i] >= 0,
           c < 0 /\ s # << >> => a < size
    PROVE  Within(a, b, c, size) = Firsts(s, Found(s, size))
BY WithinIs DEF Firsts

(* A slice has numbers.                                                     *)
LEMMA TakenType ==
    ASSUME NEW l, ListType(l), NEW a \in Int, NEW b \in Int, NEW c \in Int,
           NEW ix, ix = Indices(a, b, c, FALSE),
           \A i \in 1 .. Len(IndexList(ix)) : IndexList(ix)[i] >= 0
    PROVE  Taken(l, ix) \in Seq(Int)
<1> DEFINE s == IndexList(ix)
           size == ListSize(l)
<1>1. s \in Seq(Int) /\ \A i \in 1 .. Len(s) : s[i] >= 0
  BY IndexListIs
<1>2. size \in Int
  BY ListLike, SMT DEF VectorLike, RangeLike
<1> HIDE DEF s, size
<1>3. /\ Found(s, size) \in Nat
      /\ \A i \in 1 .. Found(s, size) : s[i] \in 0 .. (size - 1)
  BY <1>1, <1>2, FoundThere
<1>4. Taken(l, ix) = [i \in 1 .. Found(s, size) |-> Deref(l, LooksAt(l, ix, s[i]))]
  BY DEF Taken, LooksAt, s, size
<1>5. ASSUME NEW j \in 0 .. (size - 1) PROVE Deref(l, LooksAt(l, ix, j)) \in Int
  <2>1. CASE \E q \in Seq(Int), f, g \in Int : VectorLike(l, q, f, g)
    <3>1. PICK q \in Seq(Int), f, g \in Int : VectorLike(l, q, f, g)
      BY <2>1
    <3>2. Reads(l)
      BY <3>1, VectorReads
    <3>3. /\ Copy(l) \in Seq(Int) /\ size = Len(Copy(l))
          /\ \A k \in 0 .. (size - 1) : Deref(l, Moved(Begin(l), k)) = Copy(l)[k + 1]
      BY <3>2 DEF Reads, size
    <3>4. \A k \in 0 .. (size - 1) :
            Deref(l, MovedBack(RBegin(l), size - 1 - k)) = Copy(l)[k + 1]
      <4>1. ~CountsIn(l)
        BY <3>1 DEF VectorLike
      <4> QED
        BY <3>2, <4>1 DEF Reads, size
    <3>5. j + 1 \in 1 .. Len(Copy(l))
      BY <3>3, SMT
    <3>6. Copy(l)[j + 1] \in Int
      BY <3>3, <3>5, ElementOfSeq
    <3> QED
      BY <3>3, <3>4, <3>6 DEF LooksAt, size
  <2>2. CASE \E f, g, e \in Int : RangeLike(l, f, g, e)
    <3>1. PICK f, g, e \in Int : RangeLike(l, f, g, e)
      BY <2>2
    <3>2. /\ Begin(l) = Iterator(f, e) /\ CountsIn(l)
          /\ RBegin(l).at \in Int /\ RBegin(l).step \in Int
      BY <3>1 DEF RangeLike
    <3>3. j \in Int /\ size - 1 - j \in Int
      BY <1>2, SMT
    <3>4. \A it : Deref(l, it) = it.at
      BY <3>2 DEF Deref
    <3>5. Moved(Begin(l), j).at = f + j * e
      BY <3>2, IteratorIs DEF Moved
    <3>6. f + j * e \in Int
      BY <3>3, SMT
    <3> DEFINE k == size - 1 - j
               x == RBegin(l).at
               y == RBegin(l).step
    <3>7. MovedBack(RBegin(l), k).at = x - k * y
      BY IteratorIs DEF MovedBack
    <3>8. x \in Int /\ k \in Int /\ y \in Int
      BY <3>2, <3>3
    <3> HIDE DEF k, x, y
    <3>9. x - k * y \in Int
      BY <3>8, SMT
    <3> QED
      BY <3>4, <3>5, <3>6, <3>7, <3>9 DEF LooksAt, k, size
  <2> QED
    BY <2>1, <2>2, ListLike
<1>6. Taken(l, ix) \in [1 .. Found(s, size) -> Int]
  BY <1>3, <1>4, <1>5
<1> QED
  BY <1>3, <1>6, SeqDef

(* What a slice is answered with, and what it means.                        *)
Chosen(s, indexes) == [i \in DOMAIN indexes |-> s[indexes[i] + 1]]

(* It has what Python's slice has, unless it is one of those answered       *)
(* differently.                                                             *)
LEMMA TakenMeans ==
    ASSUME NEW l, Exact(l), NEW a \in Int, NEW b \in Int, NEW c \in Int, c # 0,
           NEW ix, ix = Indices(a, b, c, FALSE), TakenAsMeant(l, ix),
           \A i \in 1 .. Len(IndexList(ix)) : IndexList(ix)[i] >= 0
    PROVE  Taken(l, ix) = Chosen(Copy(l), Within(a, b, c, ListSize(l)))
<1> DEFINE s == IndexList(ix)
           w == Within(a, b, c, ListSize(l))
           size == ListSize(l)
           single == FALSE
<1>6. s = IndexList(Indices(a, b, c, single))
  OBVIOUS
<1>15. \A i \in 1 .. Len(s) : s[i] >= 0
  OBVIOUS
<1> HIDE DEF s, single
<1>1. /\ s \in Seq(Int) /\ \A i \in 1 .. Len(s) : s[i] >= 0
      /\ Len(s) = CountOf(a, b, c)
  <2>1. s \in Seq(Int)
    BY <1>6, IndexListIs
  <2>2. Len(s) = CountOf(a, b, c)
    BY <1>6, IndexListIs
  <2> QED
    BY <2>1, <2>2, <1>15
<1>0. ix.start = a /\ ix.stop = b /\ ix.step = c
  BY DEF Indices
<1>2. /\ size = Len(Copy(l)) /\ Copy(l) \in Seq(Int) /\ size \in Nat
      /\ \A j \in 0 .. (size - 1) : Deref(l, Moved(Begin(l), j)) = Copy(l)[j + 1]
      /\ ~(l.kind = "pair" /\ CountsIn(l)) =>
            \A j \in 0 .. (size - 1) :
                Deref(l, MovedBack(RBegin(l), size - 1 - j)) = Copy(l)[j + 1]
  <2>1. Reads(l)
    BY ExactReads
  <2>2. size = Len(Copy(l)) /\ Copy(l) \in Seq(Int)
    BY <2>1 DEF Reads
  <2>3. size \in Nat
    BY <2>2, LenProperties
  <2> QED
    BY <2>1, <2>2, <2>3 DEF Reads
<1>3. /\ c < 0 /\ s # << >> => a < size
      /\ c < 0 => ~(l.kind = "pair" /\ CountsIn(l))
  BY <1>0 DEF TakenAsMeant, s
<1>4. Taken(l, ix) = [i \in 1 .. Found(s, size) |-> Deref(l, LooksAt(l, ix, s[i]))]
  BY DEF Taken, LooksAt, s
<1>5. size \in Int
  BY <1>2, SMT
<1>7. w = Within(a, b, c, size)
  OBVIOUS
<1> HIDE DEF w
<1>8. Backward(ix) => c < 0 \/ a > b
  BY <1>0 DEF Backward
<1>9. ix.step = c
  BY <1>0
<1> HIDE DEF size
<1>10. w = [i \in 1 .. Found(s, size) |-> s[i]]
  <2>2. c < 0 /\ s # << >> => a < size
    BY <1>3
  <2>3. Within(a, b, c, size) = Firsts(s, Found(s, size))
    BY <1>15, <2>2, <1>5, <1>6, WithinFirsts
  <2>1. w = Firsts(s, Found(s, size))
    BY <1>7, <2>3
  <2> QED
    BY <2>1 DEF Firsts
<1>11. /\ Found(s, size) \in Nat
       /\ \A i \in 1 .. Found(s, size) :
            i \in 1 .. Len(s) /\ s[i] \in 0 .. (size - 1)
  BY <1>1, <1>5, FoundThere
<1>12. \A i \in 1 .. Found(s, size) :
            Deref(l, LooksAt(l, ix, s[i])) = Copy(l)[s[i] + 1]
  <2>1. SUFFICES ASSUME NEW i \in 1 .. Found(s, size)
                 PROVE  Deref(l, LooksAt(l, ix, s[i])) = Copy(l)[s[i] + 1]
    OBVIOUS
  <2>2. i \in 1 .. Len(s) /\ s[i] \in 0 .. (size - 1)
    BY <1>11
  <2>3. CASE ix.step # 1 /\ Backward(ix)
    <3>1. c < 0
      <4>1. 0 < CountOf(a, b, c)
        <5>1. CountOf(a, b, c) \in Nat
          BY CountIs
        <5> QED
          BY <1>1, <2>2, <5>1, SMT
      <4>2. Span(a, b, c) > 0
        <5>1. ~(Span(a, b, c) <= 0)
          BY <4>1, SMT DEF CountOf
        <5>2. Span(a, b, c) \in Int
          BY CountIs
        <5> QED
          BY <5>1, <5>2, SMT
      <4> QED
        BY <1>8, <2>3, <4>2, SMT DEF Span
    <3>2. LooksAt(l, ix, s[i]) = MovedBack(RBegin(l), size - 1 - s[i])
      BY <2>3 DEF LooksAt, size
    <3> QED
      BY <1>2, <1>3, <2>2, <3>1, <3>2
  <2>4. CASE ~(ix.step # 1 /\ Backward(ix))
    <3>1. LooksAt(l, ix, s[i]) = Moved(Begin(l), s[i])
      BY <2>4 DEF LooksAt
    <3> QED
      BY <1>2, <2>2, <3>1
  <2> QED
    BY <2>3, <2>4
<1>13. DOMAIN w = 1 .. Found(s, size)
  BY <1>10
<1>14. \A i \in 1 .. Found(s, size) : w[i] = s[i]
  BY <1>10
<1>16. Taken(l, ix) = Chosen(Copy(l), w)
  BY <1>4, <1>12, <1>13, <1>14 DEF Chosen
<1> QED
  BY <1>16 DEF w

-----------------------------------------------------------------------------
(* What a slicing says, and what it means.                                  *)

SingleIndex(x) == Len(x) = 1 /\ x # <<None>>

OneMeant(x, size, a) ==
    /\ a = IF x[1] < 0 THEN size + x[1] ELSE x[1]
    /\ a \in Int /\ Step(x) = 1
    /\ ExtractSlicing(x, size) = Indices(a, a + 1, 1, TRUE)
    /\ Meant(x, size) = Within(a, a + 1, 1, size)

ManyMeant(x, size, a, b, c) ==
    /\ a \in Int /\ b \in Int /\ c \in Int /\ Step(x) = c
    /\ ExtractSlicing(x, size) = Indices(a, b, c, FALSE)
    /\ size >= 0 =>
        Meant(x, size) = IF c = 0 THEN << >> ELSE Within(a, b, c, size)

(* Numbers of a slicing are integers, where it has them.                    *)
LEMMA SlicingHas ==
    ASSUME NEW x \in Seq(Int \cup {None})
    PROVE  /\ \A i \in DOMAIN x : x[i] # None => x[i] \in Int
           /\ DOMAIN x = 1 .. Len(x) /\ Len(x) \in Nat
           /\ Step(x) \in Int
           /\ SingleIndex(x) => 1 \in DOMAIN x /\ x[1] # None /\ 3 \notin DOMAIN x
           /\ Len(x) = 1 /\ ~SingleIndex(x) => x[1] = None
<1>1. DOMAIN x = 1 .. Len(x) /\ Len(x) \in Nat
  BY LenProperties
<1>2. \A i \in DOMAIN x : x[i] # None => x[i] \in Int
  BY <1>1, ElementOfSeq
<1>3. Step(x) \in Int
  BY <1>2 DEF Step
<1>4. Len(x) = 1 => DOMAIN x = {1}
  BY <1>1, SMT
<1>5. Len(x) = 1 /\ x[1] = None => x = <<None>>
  <2>1. <<None>> \in Seq(Int \cup {None}) /\ Len(<<None>>) = 1 /\ <<None>>[1] = None
    BY SMT
  <2> QED
    BY <2>1, SeqEqual, SMT
<1>6. <<None>>[1] = None
  BY SMT
<1> QED
  BY <1>1, <1>2, <1>3, <1>4, <1>5, <1>6, SMT DEF SingleIndex

(* One index is one index, from the end if it is negative.                  *)
LEMMA OneIs ==
    ASSUME NEW x \in Seq(Int \cup {None}), NEW size \in Int, SingleIndex(x)
    PROVE  \E a : OneMeant(x, size, a)
<1> DEFINE a == IF x[1] < 0 THEN size + x[1] ELSE x[1]
<1>1. x[1] \in Int /\ x[1] # None /\ 1 \in DOMAIN x /\ 3 \notin DOMAIN x /\ Len(x) = 1
  BY SlicingHas DEF SingleIndex
<1>2. a \in Int /\ a = IF x[1] < 0 THEN x[1] + size ELSE x[1]
  BY <1>1, SMT
<1>3. Step(x) = 1
  BY <1>1 DEF Step
<1>4. ~(1 < 0) /\ 1 # 0
  OBVIOUS
<1>5. ExtractSlicing(x, size) = Indices(a, a + 1, 1, TRUE)
  BY <1>1, <1>4, Zenon DEF ExtractSlicing, SingleIndex
<1>6. Meant(x, size) = Within(a, a + 1, 1, size)
  BY <1>1, <1>2, <1>3, <1>4, Zenon DEF Meant
<1>8. a = IF x[1] < 0 THEN size + x[1] ELSE x[1]
  OBVIOUS
<1> HIDE DEF a
<1>7. OneMeant(x, size, a)
  BY <1>2, <1>3, <1>5, <1>6, <1>8 DEF OneMeant
<1> QED
  BY <1>7

(* What is left out of a slicing is where Python begins and ends.           *)
LEMMA ManyIs ==
    ASSUME NEW x \in Seq(Int \cup {None}), NEW size \in Int, ~SingleIndex(x)
    PROVE  \E a, b, c : ManyMeant(x, size, a, b, c)
<1> DEFINE Left(i) == i \notin DOMAIN x \/ x[i] = None
           FromEnd(i) == IF i < 0 THEN size + i ELSE i
           c == Step(x)
           up == IF c < 0 THEN -1 ELSE 0
           down == IF c < 0 THEN -size - 1 ELSE size
           a == FromEnd(IF Left(1) THEN up ELSE x[1])
           b == FromEnd(IF Left(2) THEN down ELSE x[2])
<1>1. c \in Int
  BY SlicingHas
<1>2. \A i : ~Left(i) => x[i] \in Int
  BY SlicingHas
<1>3. c = IF ~Left(3) THEN x[3] ELSE 1
  BY DEF Step
<1>4. ExtractSlicing(x, size) = Indices(a, b, c, FALSE)
  BY <1>3, Zenon DEF ExtractSlicing, SingleIndex, Step
<1>5. up \in Int /\ down \in Int
  BY <1>1, SMT
<1>6. a \in Int /\ b \in Int
  BY <1>2, <1>5, SMT
<1>10. ~(Len(x) = 1 /\ ~Left(1))
  BY SlicingHas
<1>7. ASSUME size >= 0, c # 0
      PROVE  Meant(x, size) = Within(a, b, c, size)
  <2> DEFINE At(i) == IF x[i] < 0 THEN x[i] + size ELSE x[i]
             Or(i, u, d) == IF ~Left(i) THEN At(i) ELSE IF c > 0 THEN u ELSE d
  <2>2. Meant(x, size) = Within(Or(1, 0, size - 1), Or(2, size, -1), c, size)
    BY <1>7, <1>10, Zenon DEF Meant
  <2>3. FromEnd(up) = (IF c > 0 THEN 0 ELSE size - 1)
    BY <1>1, <1>7, SMT
  <2>4. FromEnd(down) = (IF c > 0 THEN size ELSE -1)
    BY <1>1, <1>7, SMT
  <2>5. \A i : ~Left(i) => FromEnd(x[i]) = At(i)
    <3>1. \A k \in Int : FromEnd(k) = IF k < 0 THEN k + size ELSE k
      BY SMT
    <3> QED
      BY <1>2, <3>1
  <2> HIDE DEF up, down, FromEnd, At, Left, c
  <2>6. a = Or(1, 0, size - 1)
    BY <2>3, <2>5
  <2>7. b = Or(2, size, -1)
    BY <2>4, <2>5
  <2> QED
    BY <2>2, <2>6, <2>7
<1>8. c = 0 => Meant(x, size) = << >>
  BY <1>10, Zenon DEF Meant
<1>9. ManyMeant(x, size, a, b, c)
  <2> HIDE DEF a, b
  <2> QED
    BY <1>1, <1>4, <1>6, <1>7, <1>8 DEF ManyMeant
<1> QED
  BY <1>9

(* What is meant are indices of the list.                                   *)
LEMMA MeantType ==
    ASSUME NEW x \in Seq(Int \cup {None}), NEW size \in Nat
    PROVE  Meant(x, size) \in Seq(0 .. (size - 1))
<1>1. size \in Int /\ size >= 0
  BY SMT
<1>2. CASE SingleIndex(x)
  <2>1. PICK a : OneMeant(x, size, a)
    BY <1>1, <1>2, OneIs
  <2>2. a \in Int /\ a + 1 \in Int /\ 1 \in Int
    BY <2>1, SMT DEF OneMeant
  <2>3. Within(a, a + 1, 1, size) \in Seq(0 .. (size - 1))
    BY <1>1, <2>2, WithinType
  <2> QED
    BY <2>1, <2>3 DEF OneMeant
<1>3. CASE ~SingleIndex(x)
  <2>1. PICK a, b, c : ManyMeant(x, size, a, b, c)
    BY <1>1, <1>3, ManyIs
  <2>2. CASE c = 0
    <3>1. Meant(x, size) = << >>
      BY <1>1, <2>1, <2>2 DEF ManyMeant
    <3> QED
      BY <3>1, EmptySeq
  <2>3. CASE c # 0
    <3>1. Meant(x, size) = Within(a, b, c, size)
      BY <1>1, <2>1, <2>3 DEF ManyMeant
    <3> QED
      BY <1>1, <2>1, <3>1, WithinType DEF ManyMeant
  <2> QED
    BY <2>2, <2>3
<1> QED
  BY <1>2, <1>3

-----------------------------------------------------------------------------
(* The inductive invariant.  A list is always one of the four that the code *)
(* makes.  As long as no operation was one of those that are answered       *)
(* differently, it is one whose iterators meet at its end, a range or part  *)
(* of a range that steps onto its stop among them, and what iterating over  *)
(* it gives is what the program takes it for.                               *)
Holds(l, meaning, threw, wrong) ==
    Exact(l) /\ Copy(l) = meaning /\ threw = wrong

LInv ==
    /\ ListType(list)
    /\ contents \in Seq(Int)
    /\ listSteps \in 0 .. MaxListSteps
    /\ regular \in BOOLEAN
    /\ regular => Holds(list, contents, refused, senseless)

(* An operation that answers with a list.                                   *)
LEMMA AnswerHolds ==
    ASSUME LInv, NEW sensible, Operation(sensible), regular' \in BOOLEAN,
           NEW l, ListType(l), NEW meaning \in Seq(Int), Results(l, meaning),
           regular' => sensible = TRUE /\ Exact(l) /\ Copy(l) = meaning
    PROVE  LInv'
<1>1. listSteps' \in 0 .. MaxListSteps
  BY ListsAssumption, SMT DEF LInv, Operation
<1>2. list' = l /\ contents' = meaning /\ refused' = FALSE
  BY DEF Results
<1>3. regular' => senseless' = FALSE
  BY DEF Operation
<1> QED
  BY <1>1, <1>2, <1>3 DEF LInv, Holds

(* An operation that throws.                                                *)
LEMMA ThrowHolds ==
    ASSUME LInv, NEW sensible, Operation(sensible), regular' \in BOOLEAN,
           Throw, regular' => regular /\ sensible = FALSE
    PROVE  LInv'
<1>1. listSteps' \in 0 .. MaxListSteps
  BY ListsAssumption, SMT DEF LInv, Operation
<1>2. list' = list /\ contents' = contents /\ refused' = TRUE
  BY DEF Throw
<1>3. regular' => senseless' = TRUE
  BY DEF Operation
<1> QED
  BY <1>1, <1>2, <1>3 DEF LInv, Holds

(* A list that is written down is what it is taken for.                     *)
LEMMA MakeListHolds == LInv /\ MakeList => LInv'
<1>1. SUFFICES ASSUME LInv, MakeList PROVE LInv'
  OBVIOUS
<1>2. PICK s \in Literals : Results(Args(s), s)
  BY <1>1 DEF MakeList
<1>3. s \in Seq(Int)
  BY ListsAssumption
<1>4. Operation(TRUE) /\ regular' \in BOOLEAN
  BY <1>1 DEF MakeList, LInv
<1>5. ListType(Args(s)) /\ Exact(Args(s)) /\ Copy(Args(s)) = s
  BY <1>3, ArgsExact
<1> QED
  BY <1>1, <1>2, <1>3, <1>4, <1>5, AnswerHolds

(* A range lists its numbers, if its stop is reached from its start.        *)
LEMMA MakeRangeHolds == LInv /\ MakeRange => LInv'
<1>1. SUFFICES ASSUME LInv, MakeRange PROVE LInv'
  OBVIOUS
<1>2. PICK r \in Ranges :
        /\ Results(Xrange(r[1], r[2], r[3]), Counted(r[1], r[2], r[3]))
        /\ regular' = Leads(r[1], r[2], r[3])
  BY <1>1 DEF MakeRange
<1> DEFINE a == r[1]
           b == r[2]
           c == r[3]
           single == FALSE
           l == Xrange(a, b, c)
           s == IndexList(Indices(a, b, c, single))
<1>3. a \in Int /\ b \in Int /\ c \in Int /\ c # 0
  BY ListsAssumption
<1>4. Operation(TRUE) /\ regular' \in BOOLEAN
  BY <1>1, <1>2 DEF MakeRange, Leads
<1>5. Results(l, Counted(a, b, c)) /\ regular' = Leads(a, b, c)
  BY <1>2
<1>6. s = IndexList(Indices(a, b, c, single))
  OBVIOUS
<1> HIDE DEF a, b, c, single, s
<1>7. ListType(l)
  BY <1>3 DEF ListType, IsRange
<1> HIDE DEF l
<1>8. Counted(a, b, c) \in Seq(Int)
  BY <1>3, CountedType
<1>9. ASSUME regular' PROVE Exact(l) /\ Copy(l) = Counted(a, b, c)
  <2>1. ExactLike(l, a, CountOf(a, b, c), c)
    BY <1>3, <1>5, <1>9, ExactRange DEF l
  <2>2. Copy(l) = [i \in 1 .. CountOf(a, b, c) |-> a + (i - 1) * c]
    BY <2>1, RangeReads
  <2>3. s = [i \in 1 .. CountOf(a, b, c) |-> a + (i - 1) * c]
    BY <1>3, <1>6, IndexListIs
  <2>4. Counted(a, b, c) = s
    BY <1>3, <1>6, CountedIs
  <2>5. CountOf(a, b, c) \in Nat
    BY <1>3, CountIs
  <2> QED
    BY <1>3, <2>1, <2>2, <2>3, <2>4, <2>5 DEF Exact
<1> QED
  BY <1>1, <1>4, <1>5, <1>7, <1>8, <1>9, AnswerHolds

(* A variable that holds a list refers to all of it.                        *)
LEMMA ReferHolds == LInv /\ Refer => LInv'
<1>1. SUFFICES ASSUME LInv, Refer PROVE LInv'
  OBVIOUS
<1>2. PICK s \in Seq(Int) : list = Args(s)
  BY <1>1, XrangeIs, PairIs
     DEF LInv, ListType, Refer, IsRef, IsVector, IsRange, IsPartOfVector,
         IsPartOfRange
<1> DEFINE l == Pair(Args(s), Begin(Args(s)), End(Args(s)))
<1>3. Results(l, contents) /\ Operation(TRUE) /\ regular' = regular
  BY <1>1, <1>2 DEF Refer
<1>4. l = Pair(Args(s), Begin(Args(s)), End(Args(s)))
  OBVIOUS
<1> HIDE DEF l
<1>5. ListType(l) /\ Exact(l) /\ Copy(l) = s
  BY <1>4, ReferExact
<1>6. Copy(list) = s
  BY <1>2, ArgsExact
<1>7. regular => Copy(list) = contents
  BY <1>1 DEF LInv, Holds
<1>8. contents \in Seq(Int) /\ regular' \in BOOLEAN
  BY <1>1, <1>3 DEF LInv
<1> QED
  BY <1>1, <1>3, <1>5, <1>6, <1>7, <1>8, AnswerHolds

(* cdr takes the first element away, and is refused if there is none.       *)
LEMMA CdrHolds == LInv /\ Cdr => LInv'
<1>1. SUFFICES ASSUME LInv, Cdr PROVE LInv'
  OBVIOUS
<1>2. /\ Operation(contents # << >>) /\ regular' = regular /\ regular' \in BOOLEAN
      /\ contents \in Seq(Int) /\ ListType(list)
  BY <1>1 DEF Cdr, LInv
<1>3. regular => /\ Exact(list) /\ Copy(list) = contents
                 /\ Empty(list) <=> contents = << >>
  <2>1. regular => Exact(list) /\ Copy(list) = contents
    BY <1>1 DEF LInv, Holds
  <2>2. Exact(list) => (Empty(list) <=> Copy(list) = << >>)
    BY ExactReads DEF Reads
  <2> QED
    BY <2>1, <2>2
<1>4. CASE Empty(list)
  <2>1. Throw
    BY <1>1, <1>4 DEF Cdr
  <2>2. regular' => regular /\ (contents # << >>) = FALSE
    BY <1>2, <1>3, <1>4
  <2> QED
    BY <1>1, <1>2, <2>1, <2>2, ThrowHolds
<1>5. CASE ~Empty(list)
  <2> DEFINE meaning == IF contents = << >> THEN << >> ELSE Tail(contents)
  <2>1. Results(CdrOf(list), meaning)
    BY <1>1, <1>5 DEF Cdr, CdrOf
  <2>2. meaning \in Seq(Int)
    BY <1>2, TailIs, EmptySeq
  <2>3. ListType(CdrOf(list))
    BY <1>2, <1>5, CdrIs
  <2>4. ASSUME regular'
        PROVE  /\ (contents # << >>) = TRUE
               /\ Exact(CdrOf(list)) /\ Copy(CdrOf(list)) = meaning
    BY <1>2, <1>3, <1>5, <2>4, CdrIs
  <2> HIDE DEF meaning
  <2> QED
    BY <1>1, <1>2, <2>1, <2>2, <2>3, <2>4, AnswerHolds
<1> QED
  BY <1>4, <1>5

(* append and prepend copy the list and add a value.                        *)
LEMMA InsertHolds == LInv /\ Insert => LInv'
<1>1. SUFFICES ASSUME LInv, Insert PROVE LInv'
  OBVIOUS
<1>2. PICK v \in Inserted :
        \/ Results(Args(Append(Copy(list), v)), Append(contents, v))
        \/ Results(Args(<<v>> \o Copy(list)), <<v>> \o contents)
  BY <1>1 DEF Insert
<1>3. v \in Int
  BY ListsAssumption
<1>4. /\ Operation(TRUE) /\ regular' = regular /\ regular' \in BOOLEAN
      /\ contents \in Seq(Int) /\ ListType(list) /\ Ends(list)
      /\ regular => Copy(list) = contents
  BY <1>1 DEF Insert, LInv, Holds
<1>5. Copy(list) \in Seq(Int)
  BY <1>4, CopyType
<1> DEFINE s == Append(Copy(list), v)
           t == <<v>> \o Copy(list)
           m == Append(contents, v)
           n == <<v>> \o contents
<1>6. <<v>> \in Seq(Int)
  BY <1>3
<1>7. s \in Seq(Int) /\ t \in Seq(Int) /\ m \in Seq(Int) /\ n \in Seq(Int)
  BY <1>3, <1>4, <1>5, <1>6, AppendProperties, ConcatProperties
<1>8. regular' => s = m /\ t = n
  BY <1>4
<1>9. Results(Args(s), m) \/ Results(Args(t), n)
  BY <1>2
<1> HIDE DEF s, t, m, n
<1>10. /\ ListType(Args(s)) /\ Exact(Args(s)) /\ Copy(Args(s)) = s
       /\ ListType(Args(t)) /\ Exact(Args(t)) /\ Copy(Args(t)) = t
  BY <1>7, ArgsExact
<1> QED
  BY <1>1, <1>4, <1>7, <1>8, <1>9, <1>10, AnswerHolds

(* Elements at indices of a list are integers.                              *)
LEMMA ChosenType ==
    ASSUME NEW s \in Seq(Int), NEW indexes \in Seq(0 .. (Len(s) - 1))
    PROVE  Chosen(s, indexes) \in Seq(Int)
<1>1. Len(s) \in Nat
  BY LenProperties
<1>2. DOMAIN indexes = 1 .. Len(indexes) /\ Len(indexes) \in Nat
  BY LenProperties
<1>3. \A i \in DOMAIN indexes : s[indexes[i] + 1] \in Int
  <2>1. SUFFICES ASSUME NEW i \in DOMAIN indexes PROVE s[indexes[i] + 1] \in Int
    OBVIOUS
  <2>2. indexes[i] \in 0 .. (Len(s) - 1)
    BY <1>2, ElementOfSeq
  <2>3. indexes[i] + 1 \in 1 .. Len(s)
    BY <1>1, <2>2, SMT
  <2> QED
    BY <2>3, ElementOfSeq
<1> QED
  BY <1>2, <1>3, SeqDef DEF Chosen

(* A slice is a list, and what is meant unless answered differently.        *)
LEMMA SliceAtHolds ==
    ASSUME LInv, NEW a \in Int, NEW b \in Int, NEW c \in Int,
           NEW ix, ix = Indices(a, b, c, FALSE),
           NEW indexes \in Seq(0 .. (Len(contents) - 1)),
           regular /\ c # 0 => indexes = Within(a, b, c, Len(contents)),
           SliceAt(ix, indexes)
    PROVE  LInv'
<1>1. /\ ix.start = a /\ ix.stop = b /\ ix.step = c /\ ix.single = FALSE
  BY DEF Indices
<1>2. \A i \in 1 .. Len(IndexList(ix)) : IndexList(ix)[i] >= 0
  BY <1>1 DEF SliceAt, Granted
<1>3. /\ Operation(c # 0)
      /\ regular' = (regular /\ TakenAsMeant(list, ix)) /\ regular' \in BOOLEAN
  BY <1>1 DEF SliceAt, LInv
<1>4. ListType(list) /\ contents \in Seq(Int)
  BY DEF LInv
<1>5. regular => Exact(list) /\ Copy(list) = contents
  BY DEF LInv, Holds
<1>6. TakenAsMeant(list, ix) => (c = 1 => a <= b)
  BY <1>1 DEF TakenAsMeant
<1>7. Throws(ix) <=> c = 0 \/ (c = 1 /\ a > b)
  BY <1>1 DEF Throws
<1>8. regular' => (Throws(ix) <=> c = 0)
  <2>1. regular' => TakenAsMeant(list, ix)
    BY <1>3
  <2>2. c = 1 /\ a <= b => ~(a > b)
    BY SMT
  <2> QED
    BY <1>6, <1>7, <2>1, <2>2
<1>9. CASE Throws(ix)
  <2>1. Throw
    BY <1>9 DEF SliceAt
  <2>2. regular' => regular /\ (c # 0) = FALSE
    BY <1>3, <1>8, <1>9
  <2> QED
    BY <1>3, <2>1, <2>2, ThrowHolds
<1>10. CASE ~Throws(ix)
  <2> DEFINE s == Taken(list, ix)
             m == Chosen(contents, indexes)
  <2>1. Results(Args(s), m)
    BY <1>10 DEF SliceAt, Chosen
  <2>2. s \in Seq(Int)
    BY <1>2, <1>4, TakenType
  <2>3. m \in Seq(Int)
    BY <1>4, ChosenType
  <2>4. ASSUME regular' PROVE (c # 0) = TRUE /\ s = m
    <3>1. regular /\ TakenAsMeant(list, ix) /\ c # 0
      BY <1>3, <1>8, <1>10, <2>4
    <3>2. Exact(list) /\ Copy(list) = contents
      BY <1>5, <3>1
    <3>3. ListSize(list) = Len(contents)
      BY <3>2, ExactReads DEF Reads
    <3>4. indexes = Within(a, b, c, ListSize(list))
      BY <3>1, <3>3
    <3>5. Taken(list, ix) = Chosen(Copy(list), indexes)
      <4>1. TakenAsMeant(list, ix) /\ c # 0 /\ Exact(list)
        BY <3>1, <3>2
      <4>2. Taken(list, ix) = Chosen(Copy(list), Within(a, b, c, ListSize(list)))
        BY <1>2, <4>1, TakenMeans
      <4> QED
        BY <3>4, <4>2
    <3> QED
      BY <3>1, <3>2, <3>5
  <2> HIDE DEF s, m
  <2>5. ListType(Args(s)) /\ Exact(Args(s)) /\ Copy(Args(s)) = s
    BY <2>2, ArgsExact
  <2> QED
    BY <1>3, <2>1, <2>3, <2>4, <2>5, AnswerHolds
<1> QED
  BY <1>9, <1>10

(* The size of a list is a number, and that of what it is taken for.        *)
LEMMA SizesAre ==
    ASSUME LInv
    PROVE  /\ ListSize(list) \in Int /\ Len(contents) \in Nat
           /\ regular => /\ Exact(list) /\ Copy(list) = contents
                         /\ ListSize(list) = Len(contents)
<1>1. ListSize(list) \in Int
  BY ListLike, SMT DEF LInv, VectorLike, RangeLike
<1>2. Len(contents) \in Nat
  BY LenProperties DEF LInv
<1>3. regular => Exact(list) /\ Copy(list) = contents
  BY DEF LInv, Holds
<1>4. Exact(list) => ListSize(list) = Len(Copy(list))
  BY ExactReads DEF Reads
<1> QED
  BY <1>1, <1>2, <1>3, <1>4

(* The same for every slicing and range that is used as index.              *)
LEMMA SliceHolds == LInv /\ Slice => LInv'
<1>1. SUFFICES ASSUME LInv, Slice PROVE LInv'
  OBVIOUS
<1>2. /\ ListSize(list) \in Int /\ Len(contents) \in Nat
      /\ regular => ListSize(list) = Len(contents)
  BY <1>1, SizesAre
<1>3. ASSUME NEW x \in Slicings,
             SliceAt(ExtractSlicing(x, ListSize(list)), Meant(x, Len(contents)))
      PROVE  LInv'
  <2>1. x \in Seq(Int \cup {None})
    BY ListsAssumption
  <2>2. ~SingleIndex(x)
    <3>1. SUFFICES ASSUME SingleIndex(x) PROVE FALSE
      OBVIOUS
    <3>2. PICK a : OneMeant(x, ListSize(list), a)
      BY <1>2, <2>1, <3>1, OneIs
    <3>3. ExtractSlicing(x, ListSize(list)).single = TRUE
      BY <3>2 DEF OneMeant, Indices
    <3> QED
      BY <1>3, <3>3 DEF SliceAt
  <2>3. PICK a, b, c : ManyMeant(x, ListSize(list), a, b, c)
    BY <1>2, <2>1, <2>2, ManyIs
  <2> DEFINE ix == ExtractSlicing(x, ListSize(list))
             indexes == Meant(x, Len(contents))
  <2>4. a \in Int /\ b \in Int /\ c \in Int /\ ix = Indices(a, b, c, FALSE)
    BY <2>3 DEF ManyMeant
  <2>5. indexes \in Seq(0 .. (Len(contents) - 1))
    BY <1>2, <2>1, MeantType
  <2>6. ASSUME regular, c # 0
        PROVE  indexes = Within(a, b, c, Len(contents))
    <3>1. ListSize(list) = Len(contents) /\ Len(contents) >= 0
      BY <1>2, <2>6, SMT
    <3> QED
      BY <2>3, <2>6, <3>1 DEF ManyMeant
  <2>7. SliceAt(ix, indexes)
    BY <1>3
  <2> HIDE DEF ix, indexes
  <2> QED
    BY <1>1, <2>4, <2>5, <2>6, <2>7, SliceAtHolds
<1>4. ASSUME NEW r \in RangeSlicings,
             SliceAt(Indices(r[1], r[2], r[3], FALSE),
                     Within(r[1], r[2], r[3], Len(contents)))
      PROVE  LInv'
  <2> DEFINE a == r[1]
             b == r[2]
             c == r[3]
             ix == Indices(a, b, c, FALSE)
             indexes == Within(a, b, c, Len(contents))
  <2>1. a \in Int /\ b \in Int /\ c \in Int
    BY ListsAssumption
  <2>2. SliceAt(ix, indexes)
    BY <1>4
  <2>3. ix = Indices(a, b, c, FALSE) /\ indexes = Within(a, b, c, Len(contents))
    OBVIOUS
  <2> HIDE DEF a, b, c, ix, indexes
  <2>5. Len(contents) \in Int
    BY <1>2, SMT
  <2>4. indexes \in Seq(0 .. (Len(contents) - 1))
    BY <2>1, <2>3, <2>5, WithinType
  <2> QED
    BY <1>1, <2>1, <2>2, <2>3, <2>4, SliceAtHolds
<1> QED
  BY <1>1, <1>3, <1>4 DEF Slice

-----------------------------------------------------------------------------
(* Assignments.                                                             *)

(* Replacing elements leaves a list of integers.                            *)
LEMMA ReplacedType ==
    ASSUME NEW s \in Seq(Int), NEW values \in Seq(Int), NEW indexes
    PROVE  Replaced(s, indexes, values) \in Seq(Int)
<1> DEFINE Replaces(n, i) == n \in DOMAIN indexes /\ indexes[n] = i - 1
           e(i) == IF \E n \in DOMAIN values : Replaces(n, i)
                   THEN values[CHOOSE n \in DOMAIN values : Replaces(n, i)]
                   ELSE s[i]
<1>1. DOMAIN s = 1 .. Len(s) /\ Len(s) \in Nat /\ DOMAIN values = 1 .. Len(values)
  BY LenProperties
<1>2. \A i \in DOMAIN s : e(i) \in Int
  <2>1. SUFFICES ASSUME NEW i \in DOMAIN s PROVE e(i) \in Int
    OBVIOUS
  <2>2. CASE \E n \in DOMAIN values : Replaces(n, i)
    <3>1. (CHOOSE n \in DOMAIN values : Replaces(n, i)) \in DOMAIN values
      BY <2>2
    <3> QED
      BY <1>1, <2>2, <3>1, ElementOfSeq
  <2>3. CASE ~\E n \in DOMAIN values : Replaces(n, i)
    BY <1>1, <2>3, ElementOfSeq
  <2> QED
    BY <2>2, <2>3
<1>3. Replaced(s, indexes, values) = [i \in 1 .. Len(s) |-> e(i)]
  BY <1>1 DEF Replaced
<1> HIDE DEF e
<1> QED
  BY <1>1, <1>2, <1>3, SeqDef

(* The indices of a slice with step 1 that is within the list.              *)
LEMMA StepsOfOne ==
    ASSUME NEW a \in Int, NEW b \in Int, NEW single, NEW size \in Int,
           0 <= a, a <= b, b <= size,
           NEW s, s = IndexList(Indices(a, b, 1, single))
    PROVE  Within(a, b, 1, size) = s /\ Len(s) = b - a
<1>1. b - a \in Nat /\ b = a + (b - a) * 1 /\ 1 \in Int /\ 1 # 0
  BY SMT
<1>2. CountOf(a, b, 1) = b - a
  BY <1>1, CountExact
<1>3. /\ Len(s) = b - a
      /\ \A i \in 1 .. CountOf(a, b, 1) : s[i] = a + (i - 1) * 1
  BY <1>1, <1>2, IndexListIs
<1>4. \A i \in 1 .. Len(s) : s[i] \in 0 .. (size - 1)
  BY <1>2, <1>3, SMT
<1>5. Within(a, b, 1, size) = s
  BY <1>1, <1>4, WithinAll
<1> QED
  BY <1>3, <1>5

(* What is assigned: the same in the code and in the program, if the slice  *)
(* is what it means; a value for one index is one.                          *)
LEMMA StoreAtHolds ==
    ASSUME LInv, NEW x \in Seq(Int \cup {None}),
           NEW given \in Seq(Int), NEW meant \in Seq(Int),
           IndexList(ExtractSlicing(x, ListSize(list))) = Meant(x, Len(contents))
                => given = meant,
           SingleIndex(x) => Len(meant) = Len(Meant(x, Len(contents))),
           Ends(list), regular' = regular,
           StoreAt(x, given, meant)
    PROVE  LInv'
<1> DEFINE ix == ExtractSlicing(x, ListSize(list))
           indexes == Meant(x, Len(contents))
           sensible == Step(x) = 1 /\ Len(meant) = Len(indexes)
           s == Replaced(Copy(list), IndexList(ix), given)
           m == Replaced(contents, indexes, meant)
<1>1. /\ Granted(ix, ListSize(list))
      /\ ix.step = 1 => ix.start <= ix.stop
      /\ Operation(sensible)
      /\ StoreThrows(ix, given) => Throw
      /\ ~StoreThrows(ix, given) => Results(Args(s), m)
  BY DEF StoreAt
<1>2. IndexList(ix) = indexes => given = meant
  OBVIOUS
<1>3. SingleIndex(x) => Len(meant) = Len(indexes)
  OBVIOUS
<1>4. /\ ListSize(list) \in Int /\ Len(contents) \in Nat
      /\ regular => /\ Exact(list) /\ Copy(list) = contents
                    /\ ListSize(list) = Len(contents)
  BY SizesAre
<1>5. ListType(list) /\ contents \in Seq(Int) /\ regular' \in BOOLEAN
  BY DEF LInv
<1>6. Copy(list) \in Seq(Int)
  BY <1>5, CopyType
<1>7. s \in Seq(Int) /\ m \in Seq(Int)
  BY <1>5, <1>6, ReplacedType
<1>8. regular /\ IndexList(ix) = indexes => s = m
  BY <1>2, <1>4
<1>9. sensible <=> Step(x) = 1 /\ Len(meant) = Len(indexes)
  OBVIOUS
<1>10. ListType(Args(s)) /\ Exact(Args(s)) /\ Copy(Args(s)) = s
  <2> HIDE DEF s
  <2> QED
    BY <1>7, ArgsExact
<1>11. ix = ExtractSlicing(x, ListSize(list))
  OBVIOUS
<1>12. regular => indexes = Meant(x, ListSize(list))
  BY <1>4
<1>13. sensible \in BOOLEAN
  OBVIOUS
<1> HIDE DEF ix, indexes, s, m, sensible
<1>14. ASSUME regular
       PROVE  /\ StoreThrows(ix, given) <=> ~sensible
              /\ ~StoreThrows(ix, given) => s = m
  <2>1. ListSize(list) >= 0 /\ Exact(list)
    BY <1>4, <1>14, SMT
  <2>2. CASE SingleIndex(x)
    <3>1. PICK a : OneMeant(x, ListSize(list), a)
      BY <1>4, <2>2, OneIs
    <3>2. /\ a \in Int /\ Step(x) = 1 /\ ix = Indices(a, a + 1, 1, TRUE)
          /\ indexes = Within(a, a + 1, 1, ListSize(list))
      BY <1>11, <1>12, <1>14, <3>1 DEF OneMeant
    <3>3. ix.single = TRUE /\ ix.start = a
      BY <3>2 DEF Indices
    <3>4. a \in 0 .. (ListSize(list) - 1)
      BY <1>1, <3>3 DEF Granted
    <3>5. /\ 0 <= a /\ a <= a + 1 /\ a + 1 <= ListSize(list)
          /\ a + 1 \in Int
      BY <1>4, <3>2, <3>4, SMT
    <3> DEFINE single == TRUE
               t == IndexList(Indices(a, a + 1, 1, single))
    <3>6. t = IndexList(ix)
      BY <3>2
    <3>7. t = IndexList(Indices(a, a + 1, 1, single))
      OBVIOUS
    <3> HIDE DEF single, t
    <3>8. Within(a, a + 1, 1, ListSize(list)) = t
      BY <1>4, <3>2, <3>5, <3>7, StepsOfOne
    <3>9. IndexList(ix) = indexes
      BY <3>2, <3>6, <3>8
    <3>10. ~StoreThrows(ix, given)
      BY <3>3 DEF StoreThrows
    <3> QED
      BY <1>3, <1>8, <1>9, <1>14, <2>2, <3>2, <3>9, <3>10
  <2>3. CASE ~SingleIndex(x)
    <3>1. PICK a, b, c : ManyMeant(x, ListSize(list), a, b, c)
      BY <1>4, <2>3, ManyIs
    <3>2. /\ a \in Int /\ b \in Int /\ Step(x) = c
          /\ ix = Indices(a, b, c, FALSE)
          /\ c = 1 => indexes = Within(a, b, 1, ListSize(list))
      BY <1>11, <1>12, <1>14, <2>1, <3>1 DEF ManyMeant
    <3>3. ix.single = FALSE /\ ix.start = a /\ ix.stop = b /\ ix.step = c
      BY <3>2 DEF Indices
    <3>4. StoreThrows(ix, given) <=> c # 1 \/ Len(given) # b - a
      BY <3>3 DEF StoreThrows
    <3>5. CASE c # 1
      BY <1>9, <3>2, <3>4, <3>5
    <3>6. CASE c = 1
      <4>1. a <= b
        BY <1>1, <3>3, <3>6
      <4>2. a >= 0 /\ b <= ListSize(list)
        BY <1>1, <3>3, <3>6, <4>1 DEF Granted
      <4> DEFINE single == FALSE
                 t == IndexList(Indices(a, b, 1, single))
      <4>3. t = IndexList(ix)
        BY <3>2, <3>6
      <4>4. t = IndexList(Indices(a, b, 1, single))
        OBVIOUS
      <4> HIDE DEF single, t
      <4>8. 0 <= a
        BY <3>2, <4>2, SMT
      <4>5. Within(a, b, 1, ListSize(list)) = t
        BY <1>4, <3>2, <4>1, <4>2, <4>8, <4>4, StepsOfOne
      <4>6. Len(t) = b - a
        BY <1>4, <3>2, <4>1, <4>2, <4>8, <4>4, StepsOfOne
      <4>7. IndexList(ix) = indexes /\ Len(indexes) = b - a
        BY <3>2, <3>6, <4>3, <4>5, <4>6
      <4> QED
        BY <1>2, <1>8, <1>9, <1>14, <3>2, <3>4, <3>6, <4>7
    <3> QED
      BY <3>5, <3>6
  <2> QED
    BY <2>2, <2>3
<1>15. CASE StoreThrows(ix, given)
  <2>1. Throw
    BY <1>1, <1>15
  <2>2. regular' => regular /\ sensible = FALSE
    BY <1>13, <1>14, <1>15
  <2> QED
    BY <1>1, <1>5, <2>1, <2>2, ThrowHolds
<1>16. CASE ~StoreThrows(ix, given)
  <2>1. Results(Args(s), m)
    BY <1>1, <1>16
  <2>2. regular' => sensible = TRUE /\ s = m
    BY <1>13, <1>14, <1>16
  <2> QED
    BY <1>1, <1>5, <1>7, <1>10, <2>1, <2>2, AnswerHolds
<1> QED
  BY <1>15, <1>16

Repeated(n, v) == [i \in 1 .. n |-> v]

(* A value for every index is a list.                                       *)
LEMMA RepeatedType ==
    ASSUME NEW n \in Nat, NEW v \in Int
    PROVE  Repeated(n, v) \in Seq(Int) /\ Len(Repeated(n, v)) = n
<1>1. Repeated(n, v) \in [1 .. n -> Int]
  BY DEF Repeated
<1>2. Repeated(n, v) \in Seq(Int)
  BY <1>1, SeqDef
<1>3. DOMAIN Repeated(n, v) = 1 .. n
  BY DEF Repeated
<1> QED
  BY <1>2, <1>3, LenProperties, SMT

(* An assignment replaces the elements that the program means.              *)
LEMMA StoreSliceHolds == LInv /\ StoreSlice => LInv'
<1>1. SUFFICES ASSUME LInv, StoreSlice PROVE LInv'
  OBVIOUS
<1>2. Ends(list) /\ regular' = regular
  BY <1>1 DEF StoreSlice
<1>3. /\ ListSize(list) \in Int /\ Len(contents) \in Nat
  BY <1>1, SizesAre
<1>4. PICK x \in Slicings :
        \/ \E v \in Inserted :
            StoreAt(x,
                Repeated(Len(IndexList(ExtractSlicing(x, ListSize(list)))), v),
                Repeated(Len(Meant(x, Len(contents))), v))
        \/ \E s \in Literals : Len(x) # 1 /\ StoreAt(x, s, s)
  BY <1>1 DEF StoreSlice, Repeated
<1>5. x \in Seq(Int \cup {None})
  BY ListsAssumption
<1> DEFINE u == IndexList(ExtractSlicing(x, ListSize(list)))
           w == Meant(x, Len(contents))
<1>6. Len(w) \in Nat
  BY <1>3, <1>5, MeantType, LenProperties
<1>7. Len(u) \in Nat
  <2>1. PICK a, b, c \in Int, single \in BOOLEAN : u = IndexList(Indices(a, b, c, single))
    <3>1. CASE SingleIndex(x)
      <4>1. PICK a : OneMeant(x, ListSize(list), a)
        BY <1>3, <1>5, <3>1, OneIs
      <4>2. a \in Int /\ a + 1 \in Int /\ 1 \in Int
        BY <4>1, SMT DEF OneMeant
      <4>3. u = IndexList(Indices(a, a + 1, 1, TRUE))
        BY <4>1 DEF OneMeant
      <4> QED
        BY <4>2, <4>3
    <3>2. CASE ~SingleIndex(x)
      <4>1. PICK a, b, c : ManyMeant(x, ListSize(list), a, b, c)
        BY <1>3, <1>5, <3>2, ManyIs
      <4> QED
        BY <4>1 DEF ManyMeant
    <3> QED
      BY <3>1, <3>2
  <2> HIDE DEF u
  <2>2. u \in Seq(Int)
    BY <2>1, IndexListIs
  <2> QED
    BY <2>2, LenProperties
<1>8. ASSUME NEW v \in Inserted, StoreAt(x, Repeated(Len(u), v), Repeated(Len(w), v))
      PROVE  LInv'
  <2> DEFINE given == Repeated(Len(u), v)
             meant == Repeated(Len(w), v)
  <2>1. v \in Int
    BY ListsAssumption
  <2>2. given \in Seq(Int) /\ meant \in Seq(Int) /\ Len(meant) = Len(w)
    BY <1>6, <1>7, <2>1, RepeatedType
  <2>3. u = w => given = meant
    OBVIOUS
  <2>4. StoreAt(x, given, meant)
    BY <1>8
  <2> HIDE DEF given, meant
  <2> QED
    BY <1>1, <1>2, <1>5, <2>2, <2>3, <2>4, StoreAtHolds
<1>9. ASSUME NEW s \in Literals, Len(x) # 1, StoreAt(x, s, s)
      PROVE  LInv'
  <2>1. s \in Seq(Int)
    BY ListsAssumption
  <2>2. ~SingleIndex(x)
    BY <1>9 DEF SingleIndex
  <2> QED
    BY <1>1, <1>2, <1>5, <1>9, <2>1, <2>2, StoreAtHolds
<1> QED
  BY <1>4, <1>8, <1>9

(* At first there is the empty list.                                        *)
LEMMA ListsInitHolds == ListsInit => LInv
<1>1. SUFFICES ASSUME ListsInit PROVE LInv
  OBVIOUS
<1>2. << >> \in Seq(Int)
  BY EmptySeq
<1> DEFINE s == << >>
<1>3. s \in Seq(Int)
  BY <1>2
<1> HIDE DEF s
<1>4. ListType(Args(s)) /\ Exact(Args(s)) /\ Copy(Args(s)) = s
  BY <1>3, ArgsExact
<1>5. /\ list = Args(s) /\ contents = s /\ refused = FALSE /\ senseless = FALSE
      /\ regular = TRUE /\ listSteps = 0
  BY <1>1 DEF ListsInit, s
<1>6. 0 \in 0 .. MaxListSteps
  BY ListsAssumption, SMT
<1> QED
  BY <1>3, <1>4, <1>5, <1>6 DEF LInv, Holds

(* Every operation keeps the invariant.                                     *)
LEMMA ListsStep == LInv /\ [ListsNext]_listVars => LInv'
<1>1. SUFFICES ASSUME LInv, [ListsNext]_listVars PROVE LInv'
  OBVIOUS
<1>2. CASE UNCHANGED listVars
  BY <1>1, <1>2 DEF LInv, listVars
<1>3. CASE MakeList
  BY <1>1, <1>3, MakeListHolds
<1>4. CASE MakeRange
  BY <1>1, <1>4, MakeRangeHolds
<1>5. CASE Refer
  BY <1>1, <1>5, ReferHolds
<1>6. CASE Cdr
  BY <1>1, <1>6, CdrHolds
<1>7. CASE Insert
  BY <1>1, <1>7, InsertHolds
<1>8. CASE Slice
  BY <1>1, <1>8, SliceHolds
<1>9. CASE StoreSlice
  BY <1>1, <1>9, StoreSliceHolds
<1> QED
  BY <1>1, <1>2, <1>3, <1>4, <1>5, <1>6, <1>7, <1>8, <1>9 DEF ListsNext

(* Whatever a program has done, its list is one of the four that the code   *)
(* makes; and unless one of the operations is among those answered          *)
(* differently, it is what the program takes it for.                        *)
THEOREM ListsInvariant == ListsSpec => []LInv
<1>1. ListsInit => LInv
  BY ListsInitHolds
<1>2. LInv /\ [ListsNext]_listVars => LInv'
  BY ListsStep
<1> QED
  BY <1>1, <1>2, PTL DEF ListsSpec

(* The four kinds of lists are well formed.                                 *)
LEMMA ListsTyped == LInv => ListsTypeOK
<1>1. SUFFICES ASSUME LInv PROVE ListsTypeOK
  OBVIOUS
<1>2. ListType(list) /\ contents \in Seq(Int) /\ listSteps \in 0 .. MaxListSteps
  BY <1>1 DEF LInv
<1>3. CASE IsVector(list)
  <2>1. PICK s \in Seq(Int) : list = Args(s)
    BY <1>3 DEF IsVector
  <2>2. list.kind = "args" /\ list.elements \in Seq(Int)
    BY <2>1 DEF Args
  <2> QED
    BY <1>2, <2>2 DEF ListsTypeOK
<1>4. CASE IsRange(list)
  <2>1. list.kind = "xrange"
    BY <1>4, XrangeIs DEF IsRange
  <2> QED
    BY <1>2, <2>1 DEF ListsTypeOK
<1>5. CASE IsPartOfVector(list)
  <2>1. PICK s \in Seq(Int), f, g \in Int :
            /\ 0 <= f /\ f <= g /\ g <= Len(s)
            /\ list = Pair(Args(s), Iterator(f, 1), Iterator(g, 1))
    BY <1>5 DEF IsPartOfVector
  <2>2. /\ list.kind = "pair" /\ list.of = Args(s)
        /\ list.first.at = f /\ list.second.at = g
    BY <2>1, PairIs, IteratorIs
  <2>3. list.of.kind = "args" /\ list.of.elements = s
    BY <2>2 DEF Args
  <2>4. ~IsRef(list.of)
    BY <2>3 DEF IsRef
  <2> QED
    BY <1>2, <2>1, <2>2, <2>3, <2>4 DEF ListsTypeOK
<1>6. CASE IsPartOfRange(list)
  <2>1. PICK a, b, c, f, g \in Int :
            list = Pair(Xrange(a, b, c), Iterator(f, c), Iterator(g, c))
    BY <1>6 DEF IsPartOfRange
  <2>2. list.kind = "pair" /\ list.of.kind = "xrange"
    BY <2>1, PairIs, XrangeIs
  <2>3. CountsIn(list)
    BY <2>2 DEF CountsIn, Owner
  <2> QED
    BY <1>2, <2>2, <2>3 DEF ListsTypeOK
<1> QED
  BY <1>2, <1>3, <1>4, <1>5, <1>6 DEF ListType

(* An index from the end.                                                   *)
LEMMA IndexFromEnd ==
    ASSUME NEW n \in Nat, NEW i \in 1 .. n
    PROVE  ExtractSlicing(<<-i>>, n).start = n - i /\ n - i \in 0 .. (n - 1)
<1>1. -i \in Int /\ -i < 0 /\ n \in Int /\ n + -i = n - i /\ n - i \in 0 .. (n - 1)
  BY SMT
<1> DEFINE k == -i
           x == <<k>>
<1>2. k \in Int /\ k < 0 /\ n + k = n - i
  BY <1>1
<1> HIDE DEF k
<1>3. x \in Seq(Int \cup {None}) /\ Len(x) = 1 /\ x[1] = k
  BY <1>2
<1>4. <<None>>[1] = None
  OBVIOUS
<1>5. x # <<None>>
  BY <1>2, <1>3, <1>4, ListsAssumption
<1> HIDE DEF x
<1>6. SingleIndex(x)
  BY <1>3, <1>5 DEF SingleIndex
<1>7. PICK a : OneMeant(x, n, a)
  BY <1>1, <1>3, <1>6, OneIs
<1>8. a = n + k /\ ExtractSlicing(x, n) = Indices(a, a + 1, 1, TRUE)
  BY <1>2, <1>3, <1>7 DEF OneMeant
<1>9. ExtractSlicing(x, n).start = n - i
  BY <1>2, <1>8 DEF Indices
<1> QED
  BY <1>1, <1>9 DEF x, k

(* An exact list has its elements, counted from either end.                 *)
LEMMA ListsHold == LInv => ListHoldsItsElements
<1>1. SUFFICES ASSUME LInv, regular PROVE ListHoldsItsElements
  BY DEF ListHoldsItsElements
<1>2. Exact(list) /\ Copy(list) = contents
  BY <1>1 DEF LInv, Holds
<1>3. Reads(list)
  BY <1>2, ExactReads
<1>4. /\ Ends(list) /\ ListSize(list) = Len(contents)
      /\ Empty(list) <=> contents = << >>
      /\ \A j \in 0 .. (Len(contents) - 1) :
            Deref(list, Moved(Begin(list), j)) = contents[j + 1]
  BY <1>2, <1>3 DEF Reads
<1>5. Len(contents) \in Nat
  BY <1>1, SizesAre
<1>6. ASSUME NEW i \in 1 .. Len(contents)
      PROVE  Deref(list, Moved(Begin(list),
                ExtractSlicing(<<-i>>, ListSize(list)).start)) =
                    contents[Len(contents) + 1 - i]
  <2>1. /\ ExtractSlicing(<<-i>>, ListSize(list)).start = Len(contents) - i
        /\ Len(contents) - i \in 0 .. (Len(contents) - 1)
    BY <1>4, <1>5, IndexFromEnd
  <2>2. (Len(contents) - i) + 1 = Len(contents) + 1 - i
    BY <1>5, SMT
  <2> QED
    BY <1>4, <2>1, <2>2
<1> QED
  BY <1>2, <1>4, <1>6 DEF ListHoldsItsElements

(* What was refused had no meaning.                                         *)
LEMMA ListsRefuse == LInv => RefusesOnlyNonsense
BY DEF LInv, Holds, RefusesOnlyNonsense

(* Iterators stay within what they go through, for every list, range and    *)
(* slicing a program can write.                                             *)
THEOREM ListsTypes == ListsSpec => []ListsTypeOK
BY ListsInvariant, ListsTyped, PTL

(* A list has the elements the program has put there, in their order and as *)
(* many as it says, whichever of the representations holds them.            *)
THEOREM ListsHoldElements == ListsSpec => []ListHoldsItsElements
BY ListsInvariant, ListsHold, PTL

(* Operations are refused if they have no meaning, and only then.           *)
THEOREM ListsRefuseNonsense == ListsSpec => []RefusesOnlyNonsense
BY ListsInvariant, ListsRefuse, PTL
=============================================================================
