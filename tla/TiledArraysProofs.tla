---------------------------- MODULE TiledArraysProofs ----------------------------
(* Proofs about Tiling and TiledArrays: tiles divide a dimension among them, *)
(* overlapping tiles stay within it, and a piece of a tile is where it is    *)
(* looked for; whatever the sites do, an array's annotation fits its tiles,  *)
(* tiles that overlap agree, and no site waits for another; and the sites    *)
(* together do what WholeArray says is done to one array.                    *)
EXTENDS TiledAnswers, SequenceTheorems, FiniteSetTheorems, WellFoundedInduction,
        TLAPS

-----------------------------------------------------------------------------
(* Natural numbers.                                                         *)

LEMMA Division ==
    ASSUME NEW x \in Nat, NEW d \in Nat \ {0}
    PROVE  /\ x \div d \in Nat
           /\ x % d \in 0..(d - 1)
           /\ x = d * (x \div d) + (x % d)
  BY SMT

LEMMA TimesMonotone ==
    ASSUME NEW a \in Nat, NEW b \in Nat, NEW d \in Nat, a <= b
    PROVE  d * a <= d * b
  BY SMT

LEMMA QuotientBelow ==
    ASSUME NEW x \in Nat, NEW d \in Nat \ {0}, NEW q \in Nat, x < d * q
    PROVE  x \div d < q
<1> DEFINE k == x \div d
<1>1. k \in Nat /\ d * k <= x
  BY Division, SMT
<1>2. q <= k => d * q <= d * k
  BY <1>1, TimesMonotone
<1> QED
  BY <1>1, <1>2, SMT

(* A set of natural numbers has a least element, and one that is bounded a  *)
(* largest one.                                                             *)
LEMMA LeastElement ==
    ASSUME NEW T, T \subseteq Nat, T # {}
    PROVE  \E x \in T : \A y \in T : x <= y
<1>1. PICK x \in T : \A y \in T : ~(<<y, x>> \in OpToRel(<, Nat))
  BY NatLessThanWellFounded, WFMin
<1>2. ASSUME NEW y \in T PROVE x <= y
  <2>1. ~(y < x)
    BY <1>1 DEF OpToRel
  <2>2. x \in Nat /\ y \in Nat
    OBVIOUS
  <2> QED
    BY <2>1, <2>2, SMT
<1> QED
  BY <1>2

LEMMA LargestElement ==
    ASSUME NEW S, S \subseteq Nat, S # {}, NEW b \in Nat, \A x \in S : x <= b
    PROVE  Largest(S) \in S /\ \A x \in S : x <= Largest(S)
<1> DEFINE T == {c \in Nat : b - c \in S}
<1>1. T \subseteq Nat /\ T # {}
  <2>1. PICK x \in S : x <= b
    OBVIOUS
  <2>2. x \in Nat /\ b - x \in Nat /\ b - (b - x) = x
    BY <2>1, SMT
  <2>3. b - x \in T
    BY <2>2
  <2> QED
    BY <2>3
<1>2. PICK y \in T : \A z \in T : y <= z
  BY <1>1, LeastElement
<1>3. y \in Nat /\ b - y \in S
  BY <1>2
<1>4. ASSUME NEW z \in S PROVE z <= b - y
  <2>1. z \in Nat /\ b - z \in Nat /\ b - (b - z) = z
    BY SMT
  <2>2. b - z \in T
    BY <2>1
  <2>3. y <= b - z
    BY <1>2, <2>2
  <2> QED
    BY <1>3, <2>1, <2>3, SMT
<1>5. \E x \in S : \A z \in S : z <= x
  BY <1>3, <1>4
<1> QED
  BY <1>5 DEF Largest

(* Finitely many natural numbers are bounded.                               *)
LEMMA Bounded ==
    ASSUME NEW n \in Nat, NEW f, \A i \in 0 .. (n - 1) : f[i] \in Nat
    PROVE  \E b \in Nat : \A i \in 0 .. (n - 1) : f[i] <= b
<1> DEFINE Bound(k) == \E b \in Nat : \A i \in 0 .. (k - 1) : f[i] <= b
           T == {k \in 0 .. n : ~Bound(k)}
<1>1. SUFFICES ASSUME T # {} PROVE FALSE
  OBVIOUS
<1>2. PICK k \in T : \A j \in T : k <= j
  <2>1. T \subseteq Nat
    BY SMT
  <2> HIDE DEF T
  <2> QED
    BY <1>1, <2>1, LeastElement
<1>3. k \in 0 .. n /\ ~Bound(k)
  OBVIOUS
<1>4. k # 0
  BY <1>3, SMT
<1>5. k - 1 \in 0 .. n
  BY <1>3, <1>4, SMT
<1>6. Bound(k - 1)
  <2>1. k - 1 \notin T
    <3>1. ~(k <= k - 1)
      BY <1>3, SMT
    <3> HIDE DEF T
    <3> QED
      BY <1>2, <3>1
  <2> HIDE DEF Bound
  <2> QED
    BY <1>5, <2>1
<1>7. PICK b \in Nat : \A i \in 0 .. (k - 1 - 1) : f[i] <= b
  BY <1>6
<1>8. f[k - 1] \in Nat
  BY <1>3, <1>4, SMT
<1> DEFINE c == IF f[k - 1] <= b THEN b ELSE f[k - 1]
<1>9. c \in Nat /\ \A i \in 0 .. (k - 1) : f[i] <= c
  <2>1. ASSUME NEW i \in 0 .. (k - 1) PROVE f[i] <= c
    <3>1. f[i] \in Nat
      BY <1>3, SMT
    <3>2. i = k - 1 \/ i \in 0 .. (k - 1 - 1)
      BY <1>3, SMT
    <3> QED
      BY <1>7, <1>8, <3>1, <3>2, SMT
  <2> QED
    BY <1>8, <2>1
<1> HIDE DEF c
<1> QED
  BY <1>3, <1>9

-----------------------------------------------------------------------------
(* Tiles of a dimension.                                                    *)

(* tile_calculation_1d in one line: the tiles before idx are of the smaller *)
(* size, but the first remainder ones are one longer.                       *)
LEMMA StartOfTile ==
    ASSUME NEW dim \in Nat, NEW n \in Nat \ {0}, NEW idx \in Nat
    PROVE  TileStart(idx, dim, n) =
            (dim \div n) * idx + Least(idx, dim % n)
<1> DEFINE q == dim \div n
           r == dim % n
<1>1. q \in Nat /\ r \in 0 .. (n - 1) /\ dim = n * q + r
  BY Division
<1> HIDE DEF q, r
<1>2. CASE idx < r
  BY <1>1, <1>2, SMT DEF TileStart, TileSize, Least, q, r
<1>3. CASE ~(idx < r) /\ r = 0
  BY <1>1, <1>3, SMT DEF TileStart, TileSize, Least, q, r
<1>4. CASE ~(idx < r) /\ r # 0
  <2>1. TileStart(idx, dim, n) = (q + 1) * r + q * (idx - r)
    BY <1>1, <1>4, SMT DEF TileStart, TileSize, q, r
  <2>2. (q + 1) * r + q * (idx - r) = q * idx + r
    BY <1>1, <1>4, SMT
  <2> QED
    BY <1>1, <1>4, <2>1, <2>2, SMT DEF Least, q, r
<1> QED
  BY <1>2, <1>3, <1>4

LEMMA QuotientPositive ==
    ASSUME NEW dim \in Nat, NEW n \in Nat \ {0}, n <= dim
    PROVE  dim \div n >= 1
<1> DEFINE q == dim \div n
           r == dim % n
<1>1. q \in Nat /\ r \in 0 .. (n - 1) /\ dim = n * q + r
  BY Division
<1> HIDE DEF q, r
<1>2. q # 0
  BY <1>1, SMT
<1> QED
  BY <1>1, <1>2, SMT DEF q

(* Every tile begins where the one before it ends, and is not empty.        *)
LEMMA TileFollowsTile ==
    ASSUME NEW dim \in Nat, NEW n \in Nat \ {0}, n <= dim, NEW idx \in Nat
    PROVE  /\ EvenTile(idx, dim, n).start = TileStart(idx, dim, n)
           /\ EvenTile(idx, dim, n).stop = TileStart(idx + 1, dim, n)
           /\ TileStart(idx, dim, n) \in Nat
           /\ TileStart(idx + 1, dim, n) >= TileStart(idx, dim, n) + dim \div n
           /\ dim \div n \in Nat /\ dim \div n >= 1
<1> DEFINE q == dim \div n
           r == dim % n
<1>1. q \in Nat /\ r \in 0 .. (n - 1) /\ dim = n * q + r
  BY Division
<1>2. q >= 1
  BY QuotientPositive
<1>3. /\ TileStart(idx, dim, n) = q * idx + Least(idx, r)
      /\ TileStart(idx + 1, dim, n) = q * (idx + 1) + Least(idx + 1, r)
  <2>1. idx + 1 \in Nat
    OBVIOUS
  <2> QED
    BY <2>1, StartOfTile
<1>4. /\ EvenTile(idx, dim, n).start = TileStart(idx, dim, n)
      /\ EvenTile(idx, dim, n).stop =
            TileStart(idx, dim, n) + q + (IF idx < r THEN 1 ELSE 0)
  <2>1. TileSize(idx, dim, n) = q + (IF idx < r THEN 1 ELSE 0)
    BY DEF TileSize
  <2>2. TileStart(idx, dim, n) \in Nat
    BY <1>1, <1>3, SMT DEF Least
  <2> QED
    BY <1>1, <2>1, <2>2, SMT DEF EvenTile, Span
<1> HIDE DEF q, r
<1>5. q * (idx + 1) = q * idx + q /\ q * idx \in Nat
  BY <1>1, SMT
<1>6. Least(idx + 1, r) = Least(idx, r) + (IF idx < r THEN 1 ELSE 0)
  BY <1>1, SMT DEF Least
<1>7. Least(idx, r) \in Nat
  BY <1>1, SMT DEF Least
<1>8. /\ TileStart(idx, dim, n) \in Nat
      /\ TileStart(idx + 1, dim, n) =
            TileStart(idx, dim, n) + q + (IF idx < r THEN 1 ELSE 0)
  BY <1>1, <1>3, <1>5, <1>6, <1>7, SMT
<1> QED
  BY <1>1, <1>2, <1>4, <1>8, SMT DEF q

(* The first tile begins at 0, and the last one ends with the dimension.    *)
LEMMA TilesCover ==
    ASSUME NEW dim \in Nat, NEW n \in Nat \ {0}, n <= dim
    PROVE  TileStart(0, dim, n) = 0 /\ TileStart(n, dim, n) = dim
<1> DEFINE q == dim \div n
           r == dim % n
<1>1. q \in Nat /\ r \in 0 .. (n - 1) /\ dim = n * q + r
  BY Division
<1>2. /\ TileStart(0, dim, n) = q * 0 + Least(0, r)
      /\ TileStart(n, dim, n) = q * n + Least(n, r)
  BY StartOfTile
<1> HIDE DEF q, r
<1> QED
  BY <1>1, <1>2, SMT DEF Least

LEMMA TilesAscend ==
    ASSUME NEW dim \in Nat, NEW n \in Nat \ {0}, n <= dim,
           NEW i \in Nat, NEW j \in Nat, i <= j
    PROVE  TileStart(i, dim, n) <= TileStart(j, dim, n)
<1> DEFINE q == dim \div n
           r == dim % n
<1>1. q \in Nat /\ r \in 0 .. (n - 1) /\ dim = n * q + r
  BY Division
<1>2. /\ TileStart(i, dim, n) = q * i + Least(i, r)
      /\ TileStart(j, dim, n) = q * j + Least(j, r)
  BY StartOfTile
<1> HIDE DEF q, r
<1>3. q * i <= q * j
  BY <1>1, TimesMonotone
<1>4. Least(i, r) \in Nat /\ Least(j, r) \in Nat /\ Least(i, r) <= Least(j, r)
  BY <1>1, SMT DEF Least
<1>5. q * i \in Nat /\ q * j \in Nat
  BY <1>1, SMT
<1> QED
  BY <1>2, <1>3, <1>4, <1>5, SMT

(* A tile is a part of the dimension that is not empty.                     *)
LEMMA TileWithinArray ==
    ASSUME NEW dim \in Nat, NEW n \in Nat \ {0}, n <= dim, NEW idx \in 0 .. (n - 1)
    PROVE  /\ EvenTile(idx, dim, n) \in [start : Nat, stop : Nat]
           /\ EvenTile(idx, dim, n).start < EvenTile(idx, dim, n).stop
           /\ EvenTile(idx, dim, n).stop <= dim
<1>1. idx \in Nat /\ idx + 1 \in Nat /\ idx + 1 <= n /\ n \in Nat
  BY SMT
<1>2. TileStart(idx + 1, dim, n) \in Nat
  BY <1>1, TileFollowsTile
<1>3. TileStart(idx + 1, dim, n) <= dim
  BY <1>1, TilesAscend, TilesCover
<1>4. /\ EvenTile(idx, dim, n).start = TileStart(idx, dim, n)
      /\ EvenTile(idx, dim, n).stop = TileStart(idx + 1, dim, n)
      /\ TileStart(idx, dim, n) \in Nat
      /\ TileStart(idx + 1, dim, n) >= TileStart(idx, dim, n) + dim \div n
      /\ dim \div n \in Nat /\ dim \div n >= 1
  BY <1>1, TileFollowsTile
<1>5. EvenTile(idx, dim, n) =
        [start |-> TileStart(idx, dim, n), stop |-> TileStart(idx + 1, dim, n)]
  BY <1>4, Zenon DEF EvenTile, Span
<1>6. TileStart(idx, dim, n) < TileStart(idx + 1, dim, n)
  BY <1>2, <1>4, SMT
<1> QED
  BY <1>2, <1>3, <1>4, <1>5, <1>6

(* The tiles of a dimension are a partition of it: every index is in one of *)
(* them and in no other, whatever the numbers are.                          *)
THEOREM TilesPartition ==
    ASSUME NEW dim \in Nat, NEW n \in Nat \ {0}, n <= dim, NEW g \in 0 .. (dim - 1)
    PROVE  /\ \E idx \in 0 .. (n - 1) : InSpan(g, EvenTile(idx, dim, n))
           /\ \A i, j \in 0 .. (n - 1) :
                InSpan(g, EvenTile(i, dim, n)) /\ InSpan(g, EvenTile(j, dim, n))
                    => i = j
<1> DEFINE T == {i \in Nat : g < TileStart(i, dim, n)}
<1>1. T \subseteq Nat /\ n \in T
  BY TilesCover, SMT
<1>2. PICK k \in T : \A i \in T : k <= i
  <2> HIDE DEF T
  <2> QED
    BY <1>1, LeastElement
<1>3. k \in Nat /\ g < TileStart(k, dim, n) /\ k <= n
  BY <1>1, <1>2
<1>4. k # 0
  BY <1>3, TilesCover, SMT
<1>5. k - 1 \in 0 .. (n - 1) /\ k - 1 \in Nat /\ (k - 1) + 1 = k
  BY <1>3, <1>4, SMT
<1>6. k - 1 \notin T
  <2>1. ~(k <= k - 1)
    BY <1>3, SMT
  <2> QED
    BY <1>2, <2>1
<1>7. TileStart(k - 1, dim, n) \in Nat
  BY <1>5, TileFollowsTile
<1>8. TileStart(k - 1, dim, n) <= g
  BY <1>5, <1>6, <1>7, SMT
<1>9. InSpan(g, EvenTile(k - 1, dim, n))
  <2>1. /\ EvenTile(k - 1, dim, n).start = TileStart(k - 1, dim, n)
        /\ EvenTile(k - 1, dim, n).stop = TileStart((k - 1) + 1, dim, n)
    BY <1>5, TileFollowsTile
  <2> QED
    BY <1>3, <1>5, <1>8, <2>1, Zenon DEF InSpan
<1>10. ASSUME NEW i \in 0 .. (n - 1), NEW j \in 0 .. (n - 1),
              InSpan(g, EvenTile(i, dim, n)), InSpan(g, EvenTile(j, dim, n)),
              i < j
       PROVE  FALSE
  <2>1. i \in Nat /\ j \in Nat /\ i + 1 \in Nat /\ i + 1 <= j
    BY <1>10, SMT
  <2>2. TileStart(i + 1, dim, n) <= TileStart(j, dim, n)
    BY <2>1, TilesAscend
  <2>3. /\ EvenTile(i, dim, n).stop = TileStart(i + 1, dim, n)
        /\ EvenTile(j, dim, n).start = TileStart(j, dim, n)
        /\ TileStart(i + 1, dim, n) \in Nat /\ TileStart(j, dim, n) \in Nat
    BY <2>1, TileFollowsTile
  <2> QED
    BY <1>10, <2>2, <2>3, SMT DEF InSpan
<1>11. ASSUME NEW i \in 0 .. (n - 1), NEW j \in 0 .. (n - 1),
              InSpan(g, EvenTile(i, dim, n)), InSpan(g, EvenTile(j, dim, n))
       PROVE  i = j
  <2>1. ~(i < j) /\ ~(j < i)
    BY <1>10, <1>11
  <2> QED
    BY <2>1, SMT
<1> QED
  BY <1>5, <1>9, <1>11

(* An overlap that is not larger than the smallest tile stays within the    *)
(* array, so no tile of it is refused: there is always a neighbour to take  *)
(* the indices from.                                                        *)
THEOREM OverlapFits ==
    ASSUME NEW dim \in Nat, NEW n \in Nat \ {0, 1}, n <= dim,
           NEW idx \in 0 .. (n - 1), NEW k \in Nat, k <= dim \div n
    PROVE  /\ Overlap(EvenTile(idx, dim, n), dim, k) \in [start : Nat, stop : Nat]
           /\ WithinArray(Overlap(EvenTile(idx, dim, n), dim, k), dim)
           /\ Overlap(EvenTile(idx, dim, n), dim, k).start <=
                EvenTile(idx, dim, n).start
           /\ EvenTile(idx, dim, n).stop <=
                Overlap(EvenTile(idx, dim, n), dim, k).stop
<1> DEFINE tile == EvenTile(idx, dim, n)
           q == dim \div n
<1>1. idx \in Nat /\ idx + 1 \in Nat /\ idx + 1 <= n /\ n \in Nat /\ 1 \in Nat
  BY SMT
<1>2. /\ tile.start = TileStart(idx, dim, n)
      /\ tile.stop = TileStart(idx + 1, dim, n)
      /\ q \in Nat /\ q >= 1
  BY <1>1, TileFollowsTile
<1>3. tile \in [start : Nat, stop : Nat] /\ tile.start < tile.stop /\ tile.stop <= dim
  BY TileWithinArray
<1>4. idx # 0 => tile.start >= q
  <2> SUFFICES ASSUME idx # 0 PROVE tile.start >= q
    OBVIOUS
  <2>1. 1 <= idx
    BY SMT
  <2>2. TileStart(1, dim, n) <= TileStart(idx, dim, n)
    BY <1>1, <2>1, TilesAscend
  <2>3. TileStart(1, dim, n) >= TileStart(0, dim, n) + q
    <3>1. 0 + 1 = 1 /\ 0 \in Nat
      BY SMT
    <3> QED
      BY <3>1, TileFollowsTile
  <2>4. TileStart(0, dim, n) = 0
    BY TilesCover
  <2>5. TileStart(1, dim, n) \in Nat /\ TileStart(idx, dim, n) \in Nat
    BY <1>1, TileFollowsTile
  <2> HIDE DEF q
  <2> QED
    BY <1>2, <2>2, <2>3, <2>4, <2>5, SMT
<1>5. idx + 1 # n => tile.stop + q <= dim
  <2> SUFFICES ASSUME idx + 1 # n PROVE tile.stop + q <= dim
    OBVIOUS
  <2>1. (idx + 1) + 1 \in Nat /\ (idx + 1) + 1 <= n
    BY <1>1, SMT
  <2>2. TileStart((idx + 1) + 1, dim, n) <= dim
    BY <1>1, <2>1, TilesAscend, TilesCover
  <2>3. TileStart((idx + 1) + 1, dim, n) >= TileStart(idx + 1, dim, n) + q
    BY <1>1, TileFollowsTile
  <2>4. TileStart((idx + 1) + 1, dim, n) \in Nat /\ TileStart(idx + 1, dim, n) \in Nat
    BY <1>1, <2>1, TileFollowsTile
  <2> HIDE DEF q
  <2> QED
    BY <1>2, <2>2, <2>3, <2>4, SMT
<1>6. idx + 1 = n => tile.stop = dim
  BY <1>2, TilesCover
<1>7. idx = 0 => tile.start = 0
  BY <1>2, TilesCover
<1>8. k <= q
  OBVIOUS
<1> HIDE DEF tile, q
<1>9. idx = 0 => idx + 1 # n
  BY SMT
<1>10. tile.start \in Nat /\ tile.stop \in Nat
  BY <1>3
<1>11. Overlap(tile, dim, k) =
        [start |-> IF tile.stop # dim /\ tile.start = 0 THEN 0 ELSE tile.start - k,
         stop |-> IF tile.stop = dim THEN dim ELSE tile.stop + k]
  BY DEF Overlap, Span
<1>12. (tile.stop # dim /\ tile.start = 0) \/ tile.start >= k
  BY <1>2, <1>3, <1>4, <1>5, <1>7, <1>8, <1>9, <1>10, SMT
<1>13. tile.stop = dim \/ tile.stop + k <= dim
  BY <1>2, <1>5, <1>6, <1>8, <1>10, SMT
<1>14. /\ Overlap(tile, dim, k).start \in Nat /\ Overlap(tile, dim, k).stop \in Nat
       /\ Overlap(tile, dim, k).stop <= dim
       /\ Overlap(tile, dim, k).start <= tile.start
       /\ tile.stop <= Overlap(tile, dim, k).stop
  BY <1>10, <1>11, <1>12, <1>13, SMT
<1>15. Overlap(tile, dim, k) \in [start : Nat, stop : Nat]
  BY <1>11, <1>14, Zenon
<1>16. WithinArray(Overlap(tile, dim, k), dim)
  BY <1>14, SMT DEF WithinArray
<1> QED
  BY <1>14, <1>15, <1>16 DEF tile

-----------------------------------------------------------------------------
(* Divisors of a number of tiles.                                           *)

LEMMA FunctionIsSequence ==
    ASSUME NEW S, NEW n \in Nat, NEW f \in [1 .. n -> S]
    PROVE  f \in Seq(S) /\ Len(f) = n /\ DOMAIN f = 1 .. n
<1>1. f \in Seq(S)
  BY SeqDef
<1>2. DOMAIN f = 1 .. Len(f) /\ Len(f) \in Nat
  BY <1>1, LenProperties
<1> QED
  BY <1>1, <1>2, SMT

LEMMA DivisorDivides ==
    ASSUME NEW n \in Nat \ {0}, NEW f \in DivisorsOf(n)
    PROVE  f \in Nat \ {0} /\ n \div f \in Nat \ {0} /\ f * (n \div f) = n
<1>1. f \in Nat \ {0} /\ n % f = 0
  BY SMT DEF DivisorsOf
<1>2. n \div f \in Nat /\ n = f * (n \div f) + 0
  BY <1>1, Division
<1> DEFINE q == n \div f
<1> HIDE DEF q
<1>3. q \in Nat /\ n = f * q
  BY <1>1, <1>2, SMT DEF q
<1>4. q # 0
  BY <1>1, <1>3, SMT
<1> QED
  BY <1>1, <1>3, <1>4, SMT DEF q

LEMMA OneDivides ==
    ASSUME NEW n \in Nat \ {0}
    PROVE  1 \in DivisorsOf(n) /\ DivisorsOf(n) \subseteq Nat
           /\ \A f \in DivisorsOf(n) : f <= n
  BY SMT DEF DivisorsOf

(* get_middle_divisors: two factors of the number.                          *)
LEMMA TwoFactors ==
    ASSUME NEW n \in Nat \ {0}
    PROVE  \E a, b \in Nat \ {0} : MiddleDivisors(n) = <<a, b>> /\ a * b = n
<1> DEFINE S == {f \in DivisorsOf(n) : f * f <= n}
           first == Largest(S)
<1>1. 1 \in S /\ S \subseteq Nat /\ \A f \in S : f <= n
  BY OneDivides, SMT
<1>2. first \in S
  <2> HIDE DEF S
  <2> QED
    BY <1>1, LargestElement
<1>3. first \in DivisorsOf(n)
  BY <1>2
<1>4. MiddleDivisors(n) = <<first, n \div first>>
  BY DEF MiddleDivisors
<1> HIDE DEF first
<1>5. first \in Nat \ {0} /\ n \div first \in Nat \ {0} /\ first * (n \div first) = n
  BY <1>3, DivisorDivides
<1> QED
  BY <1>4, <1>5

(* get_middle_divisors of a tensor: three factors.                          *)
LEMMA ThreeFactors ==
    ASSUME NEW n \in Nat \ {0}
    PROVE  \E a, b, c \in Nat \ {0} :
            ThreeMiddleDivisors(n) = <<a, b, c>> /\ a * (b * c) = n
<1> DEFINE S == {f \in DivisorsOf(n) : f * f * f <= n}
           first == Largest(S)
<1>1. CASE n \in {2, 3, 5}
  <2>1. ThreeMiddleDivisors(n) = <<1, 1, n>>
    BY <1>1 DEF ThreeMiddleDivisors
  <2>2. 1 \in Nat \ {0} /\ 1 * (1 * n) = n
    BY SMT
  <2> QED
    BY <2>1, <2>2
<1>2. CASE n = 4
  <2>1. ThreeMiddleDivisors(n) = <<1, 2, 2>>
    BY <1>2, SMT DEF ThreeMiddleDivisors
  <2>2. 1 \in Nat \ {0} /\ 2 \in Nat \ {0} /\ 1 * (2 * 2) = n
    BY <1>2, SMT
  <2> QED
    BY <2>1, <2>2
<1>3. CASE n \notin {2, 3, 5} /\ n # 4
  <2>1. 1 \in S /\ S \subseteq Nat /\ \A f \in S : f <= n
    BY OneDivides, SMT
  <2>2. first \in S
    <3> HIDE DEF S
    <3> QED
      BY <2>1, LargestElement
  <2>3. first \in DivisorsOf(n)
    BY <2>2
  <2>4. ThreeMiddleDivisors(n) = <<first>> \o MiddleDivisors(n \div first)
    BY <1>3 DEF ThreeMiddleDivisors
  <2> HIDE DEF first
  <2>5. first \in Nat \ {0} /\ n \div first \in Nat \ {0} /\ first * (n \div first) = n
    BY <2>3, DivisorDivides
  <2>6. PICK a, b \in Nat \ {0} :
            MiddleDivisors(n \div first) = <<a, b>> /\ a * b = n \div first
    BY <2>5, TwoFactors
  <2>7. <<first>> \o <<a, b>> = <<first, a, b>>
    <3>1. <<first>> \in Seq(Nat) /\ <<a, b>> \in Seq(Nat) /\ <<first, a, b>> \in Seq(Nat)
      BY <2>5
    <3>2. Len(<<first>>) = 1 /\ Len(<<a, b>>) = 2 /\ Len(<<first, a, b>>) = 3
      OBVIOUS
    <3>3. /\ <<first>> \o <<a, b>> \in Seq(Nat)
          /\ Len(<<first>> \o <<a, b>>) = 3
          /\ \A i \in 1 .. 3 : (<<first>> \o <<a, b>>)[i] =
                IF i <= 1 THEN <<first>>[i] ELSE <<a, b>>[i - 1]
      BY <3>1, <3>2, ConcatProperties, SMT
    <3>4. \A i \in 1 .. 3 : (<<first>> \o <<a, b>>)[i] = <<first, a, b>>[i]
      BY <3>3, SMT
    <3> QED
      BY <3>1, <3>2, <3>3, <3>4, SeqEqual
  <2> QED
    BY <2>4, <2>5, <2>6, <2>7
<1> QED
  BY <1>1, <1>2, <1>3

(* The order of the dimensions is one of the six.                           *)
LEMMA OrderOfDimensions ==
    ASSUME NEW dims
    PROVE  \E i \in 1 .. 6 : Ascending(dims) = AscendingOrders[i]
<1> DEFINE Fits(o) == dims[o[1]] <= dims[o[2]] /\ dims[o[2]] <= dims[o[3]]
           T == {i \in 1 .. 6 : Fits(AscendingOrders[i]) \/ i = 6}
           IsFirst(i) == /\ Fits(AscendingOrders[i]) \/ i = 6
                         /\ \A j \in 1 .. (i - 1) : ~Fits(AscendingOrders[j])
<1>1. T \subseteq Nat /\ 6 \in T
  BY SMT
<1>2. PICK k \in T : \A i \in T : k <= i
  <2> HIDE DEF T
  <2> QED
    BY <1>1, LeastElement
<1>3. \A j \in 1 .. (k - 1) : ~Fits(AscendingOrders[j])
  <2> SUFFICES ASSUME NEW j \in 1 .. (k - 1) PROVE ~Fits(AscendingOrders[j])
    OBVIOUS
  <2>1. j \in 1 .. 6 /\ ~(k <= j)
    BY SMT
  <2>2. j \notin T
    BY <1>2, <2>1
  <2> QED
    BY <2>1, <2>2
<1>4. \E i \in 1 .. 6 : IsFirst(i)
  BY <1>3
<1> DEFINE first == CHOOSE i \in 1 .. 6 : IsFirst(i)
<1>5. first \in 1 .. 6
  BY <1>4
<1>6. Ascending(dims) = AscendingOrders[first]
  BY DEF Ascending
<1> QED
  BY <1>5, <1>6

(* Which of the three divisors a dimension gets: each gets another one.     *)
Rankings ==
    {<<1, 2, 3>>, <<1, 3, 2>>, <<2, 1, 3>>, <<2, 3, 1>>, <<3, 1, 2>>, <<3, 2, 1>>}

LEMMA RankingOfDimensions ==
    ASSUME NEW dims
    PROVE  \E r \in Rankings : \A d \in 1 .. 3 :
            (CHOOSE x \in 1 .. 3 : Ascending(dims)[x] = d) = r[d]
<1>1. ASSUME NEW o, NEW r,
             r[1] \in 1 .. 3, r[2] \in 1 .. 3, r[3] \in 1 .. 3,
             o[r[1]] = 1, o[r[2]] = 2, o[r[3]] = 3,
             {r[1], r[2], r[3]} = {1, 2, 3}
      PROVE  \A d \in 1 .. 3 : (CHOOSE x \in 1 .. 3 : o[x] = d) = r[d]
  <2> SUFFICES ASSUME NEW d \in 1 .. 3
               PROVE  (CHOOSE x \in 1 .. 3 : o[x] = d) = r[d]
    OBVIOUS
  <2>1. d = 1 \/ d = 2 \/ d = 3
    BY SMT
  <2>2. r[d] \in 1 .. 3 /\ o[r[d]] = d
    BY <1>1, <2>1
  <2>3. 1 .. 3 = {1, 2, 3}
    BY SMT
  <2>4. ASSUME NEW x \in 1 .. 3, o[x] = d PROVE x = r[d]
    <3>1. x = r[1] \/ x = r[2] \/ x = r[3]
      BY <1>1, <2>3
    <3>2. CASE x = r[1]
      BY <1>1, <2>4, <3>2
    <3>3. CASE x = r[2]
      BY <1>1, <2>4, <3>3
    <3>4. CASE x = r[3]
      BY <1>1, <2>4, <3>4
    <3> QED
      BY <3>1, <3>2, <3>3, <3>4
  <2> QED
    BY <2>2, <2>4
<1>2. PICK i \in 1 .. 6 : Ascending(dims) = AscendingOrders[i]
  BY OrderOfDimensions
<1>3. i = 1 \/ i = 2 \/ i = 3 \/ i = 4 \/ i = 5 \/ i = 6
  BY SMT
<1> DEFINE o == Ascending(dims)
           r == CASE i = 1 -> <<3, 2, 1>>
                  [] i = 2 -> <<2, 3, 1>>
                  [] i = 3 -> <<2, 1, 3>>
                  [] i = 4 -> <<3, 1, 2>>
                  [] i = 5 -> <<1, 3, 2>>
                  [] i = 6 -> <<1, 2, 3>>
<1>4. /\ r \in Rankings
      /\ r[1] \in 1 .. 3 /\ r[2] \in 1 .. 3 /\ r[3] \in 1 .. 3
      /\ o[r[1]] = 1 /\ o[r[2]] = 2 /\ o[r[3]] = 3
      /\ {r[1], r[2], r[3]} = {1, 2, 3}
  <2>1. CASE i = 1
    BY <1>2, <2>1, SMT DEF AscendingOrders, Rankings
  <2>2. CASE i = 2
    BY <1>2, <2>2, SMT DEF AscendingOrders, Rankings
  <2>3. CASE i = 3
    BY <1>2, <2>3, SMT DEF AscendingOrders, Rankings
  <2>4. CASE i = 4
    BY <1>2, <2>4, SMT DEF AscendingOrders, Rankings
  <2>5. CASE i = 5
    BY <1>2, <2>5, SMT DEF AscendingOrders, Rankings
  <2>6. CASE i = 6
    BY <1>2, <2>6, SMT DEF AscendingOrders, Rankings
  <2> QED
    BY <1>3, <2>1, <2>2, <2>3, <2>4, <2>5, <2>6
<1> HIDE DEF r, o
<1>5. \A d \in 1 .. 3 : (CHOOSE x \in 1 .. 3 : o[x] = d) = r[d]
  BY <1>1, <1>4
<1> QED
  BY <1>4, <1>5 DEF o

-----------------------------------------------------------------------------
(* Tiles of an array.                                                       *)
IsDims(dims) == dims \in Seq(Nat \ {0}) /\ Len(dims) \in 1 .. 3

IsSpan == [start : Nat, stop : Nat]

(* The place of a tile in each dimension is a place of that dimension, if   *)
(* the tile is one of those there are.                                      *)
LEMMA DigitsOfPair ==
    ASSUME NEW a \in Nat \ {0}, NEW b \in Nat \ {0}, NEW idx \in Nat
    PROVE  /\ Digit(idx, <<a, b>>, 1) \in Nat
           /\ idx < a * b => Digit(idx, <<a, b>>, 1) < a
           /\ Digit(idx, <<a, b>>, 2) \in 0 .. (b - 1)
<1>1. Digit(idx, <<a, b>>, 1) = idx \div b
  BY SMT DEF Digit
<1>2. idx \div b \in Nat
  BY Division
<1>3. ASSUME idx < a * b PROVE idx \div b < a
  <2>1. idx < b * a
    BY <1>3, SMT
  <2> QED
    BY <2>1, QuotientBelow
<1>4. Digit(idx, <<a, b>>, 2) = (idx \div 1) % b
  BY SMT DEF Digit
<1>5. (idx \div 1) % b \in 0 .. (b - 1)
  <2>1. idx \div 1 \in Nat
    BY SMT
  <2> QED
    BY <2>1, Division
<1> QED
  BY <1>1, <1>2, <1>3, <1>4, <1>5

LEMMA DigitsOfTriple ==
    ASSUME NEW a \in Nat \ {0}, NEW b \in Nat \ {0}, NEW c \in Nat \ {0},
           NEW idx \in Nat
    PROVE  /\ Digit(idx, <<a, b, c>>, 1) \in Nat
           /\ idx < a * (b * c) => Digit(idx, <<a, b, c>>, 1) < a
           /\ Digit(idx, <<a, b, c>>, 2) \in 0 .. (b - 1)
           /\ Digit(idx, <<a, b, c>>, 3) \in 0 .. (c - 1)
<1>1. /\ Digit(idx, <<a, b, c>>, 1) = idx \div (b * c)
      /\ Digit(idx, <<a, b, c>>, 2) = (idx \div c) % b
      /\ Digit(idx, <<a, b, c>>, 3) = (idx \div 1) % c
  BY SMT DEF Digit
<1> DEFINE d == b * c
<1>2. d \in Nat \ {0}
  BY SMT
<1> HIDE DEF d
<1>3. idx \div d \in Nat
  BY <1>2, Division
<1>4. ASSUME idx < a * d PROVE idx \div d < a
  <2>1. idx < d * a
    BY <1>2, <1>4, SMT
  <2> QED
    BY <1>2, <2>1, QuotientBelow
<1>5. (idx \div c) % b \in 0 .. (b - 1)
  <2>1. idx \div c \in Nat
    BY Division
  <2> QED
    BY <2>1, Division
<1>6. (idx \div 1) % c \in 0 .. (c - 1)
  <2>1. idx \div 1 \in Nat
    BY SMT
  <2> QED
    BY <2>1, Division
<1> QED
  BY <1>1, <1>3, <1>4, <1>5, <1>6 DEF d

(* "sym" cuts an array in as many tiles as there are.                       *)
LEMMA SymFactors ==
    ASSUME NEW dims, NEW n \in Nat \ {0}
    PROVE  /\ Len(dims) = 2 =>
                \E x, y \in Nat \ {0} : SymDivisors(dims, n) = <<x, y>> /\ x * y = n
           /\ Len(dims) = 3 =>
                \E x, y, z \in Nat \ {0} :
                    SymDivisors(dims, n) = <<x, y, z>> /\ x * (y * z) = n
<1>1. CASE Len(dims) = 2
  <2>1. PICK a, b \in Nat \ {0} : MiddleDivisors(n) = <<a, b>> /\ a * b = n
    BY TwoFactors
  <2>2. SymDivisors(dims, n) = <<a, b>> \/ SymDivisors(dims, n) = <<b, a>>
    <3>1. SymDivisors(dims, n) =
            (IF dims[1] > dims[2] THEN <<MiddleDivisors(n)[2], MiddleDivisors(n)[1]>>
             ELSE MiddleDivisors(n))
      BY <1>1, SMT DEF SymDivisors
    <3> QED
      BY <2>1, <3>1
  <2>3. \E x, y \in Nat \ {0} : SymDivisors(dims, n) = <<x, y>> /\ x * y = n
    <3>1. b * a = n
      BY <2>1, SMT
    <3> QED
      BY <2>1, <2>2, <3>1
  <2> QED
    BY <1>1, <2>3
<1>2. CASE Len(dims) = 3
  <2>1. PICK a, b, c \in Nat \ {0} :
            ThreeMiddleDivisors(n) = <<a, b, c>> /\ a * (b * c) = n
    BY ThreeFactors
  <2>2. PICK r \in Rankings : \A d \in 1 .. 3 :
            (CHOOSE x \in 1 .. 3 : Ascending(dims)[x] = d) = r[d]
    BY RankingOfDimensions
  <2>3. SymDivisors(dims, n) = [d \in 1 .. 3 |-> <<a, b, c>>[r[d]]]
    <3> DEFINE R(d) == CHOOSE x \in 1 .. 3 : Ascending(dims)[x] = d
    <3>1. SymDivisors(dims, n) = [d \in 1 .. 3 |-> ThreeMiddleDivisors(n)[R(d)]]
      BY <1>2, SMT DEF SymDivisors
    <3>2. \A d \in 1 .. 3 : R(d) = r[d]
      BY <2>2
    <3> HIDE DEF R
    <3> QED
      BY <2>1, <3>1, <3>2
  <2>4. \E x, y, z \in Nat \ {0} :
            SymDivisors(dims, n) = <<x, y, z>> /\ x * (y * z) = n
    <3>1. \A u, v, w \in Nat \ {0} :
            u = <<a, b, c>>[r[1]] /\ v = <<a, b, c>>[r[2]] /\ w = <<a, b, c>>[r[3]]
                => [d \in 1 .. 3 |-> <<a, b, c>>[r[d]]] = <<u, v, w>>
      BY SMT
    <3>2. /\ a * (c * b) = n /\ b * (a * c) = n /\ b * (c * a) = n
          /\ c * (a * b) = n /\ c * (b * a) = n
      BY <2>1, SMT
    <3>3. /\ r \in {<<1, 2, 3>>, <<1, 3, 2>>, <<2, 1, 3>>, <<2, 3, 1>>, <<3, 1, 2>>,
                    <<3, 2, 1>>}
      BY DEF Rankings
    <3>4. CASE r = <<1, 2, 3>>
      BY <2>1, <2>3, <3>1, <3>4
    <3>5. CASE r = <<1, 3, 2>>
      BY <2>3, <3>1, <3>2, <3>5
    <3>6. CASE r = <<2, 1, 3>>
      BY <2>3, <3>1, <3>2, <3>6
    <3>7. CASE r = <<2, 3, 1>>
      BY <2>3, <3>1, <3>2, <3>7
    <3>8. CASE r = <<3, 1, 2>>
      BY <2>3, <3>1, <3>2, <3>8
    <3>9. CASE r = <<3, 2, 1>>
      BY <2>3, <3>1, <3>2, <3>9
    <3> QED
      BY <3>3, <3>4, <3>5, <3>6, <3>7, <3>8, <3>9
  <2> QED
    BY <1>2, <2>4
<1> QED
  BY <1>1, <1>2

LEMMA DigitsOfSym ==
    ASSUME NEW dims, Len(dims) \in 2 .. 3, NEW n \in Nat \ {0}
    PROVE  /\ SymDivisors(dims, n) \in [1 .. Len(dims) -> Nat \ {0}]
           /\ \A idx \in Nat : \A d \in 1 .. Len(dims) :
                /\ Digit(idx, SymDivisors(dims, n), d) \in Nat
                /\ idx < n => Digit(idx, SymDivisors(dims, n), d) <
                                SymDivisors(dims, n)[d]
<1>1. CASE Len(dims) = 2
  <2>3. PICK x, y \in Nat \ {0} : SymDivisors(dims, n) = <<x, y>> /\ x * y = n
    BY <1>1, SymFactors
  <2>4. ASSUME NEW idx \in Nat
        PROVE  /\ Digit(idx, <<x, y>>, 1) \in Nat
               /\ idx < n => Digit(idx, <<x, y>>, 1) < x
               /\ Digit(idx, <<x, y>>, 2) \in Nat
               /\ Digit(idx, <<x, y>>, 2) < y
    <3>1. /\ Digit(idx, <<x, y>>, 1) \in Nat
          /\ idx < n => Digit(idx, <<x, y>>, 1) < x
          /\ Digit(idx, <<x, y>>, 2) \in 0 .. (y - 1)
      BY <2>3, DigitsOfPair
    <3> QED
      BY <3>1, SMT
  <2>5. 1 .. Len(dims) = {1, 2} /\ <<x, y>>[1] = x /\ <<x, y>>[2] = y
    BY <1>1, SMT
  <2>6. <<x, y>> \in [1 .. 2 -> Nat \ {0}]
    BY SMT
  <2> QED
    BY <1>1, <2>3, <2>4, <2>5, <2>6
<1>2. CASE Len(dims) = 3
  <2>4. PICK x, y, z \in Nat \ {0} :
            SymDivisors(dims, n) = <<x, y, z>> /\ x * (y * z) = n
    BY <1>2, SymFactors
  <2>5. ASSUME NEW idx \in Nat
        PROVE  /\ Digit(idx, <<x, y, z>>, 1) \in Nat
               /\ idx < n => Digit(idx, <<x, y, z>>, 1) < x
               /\ Digit(idx, <<x, y, z>>, 2) \in Nat
               /\ Digit(idx, <<x, y, z>>, 2) < y
               /\ Digit(idx, <<x, y, z>>, 3) \in Nat
               /\ Digit(idx, <<x, y, z>>, 3) < z
    <3>1. /\ Digit(idx, <<x, y, z>>, 1) \in Nat
          /\ idx < n => Digit(idx, <<x, y, z>>, 1) < x
          /\ Digit(idx, <<x, y, z>>, 2) \in 0 .. (y - 1)
          /\ Digit(idx, <<x, y, z>>, 3) \in 0 .. (z - 1)
      BY <2>4, DigitsOfTriple
    <3> QED
      BY <3>1, SMT
  <2>6. /\ 1 .. Len(dims) = {1, 2, 3}
        /\ <<x, y, z>>[1] = x /\ <<x, y, z>>[2] = y /\ <<x, y, z>>[3] = z
    BY <1>2, SMT
  <2>7. <<x, y, z>> \in [1 .. 3 -> Nat \ {0}]
    BY SMT
  <2> QED
    BY <1>2, <2>4, <2>5, <2>6, <2>7
<1>3. Len(dims) = 2 \/ Len(dims) = 3
  BY SMT
<1> QED
  BY <1>1, <1>2, <1>3

(* A number of two digits, and what they are.                               *)
LEMMA TwoDigits ==
    ASSUME NEW y \in Nat \ {0}, NEW a \in Nat, NEW b \in 0 .. (y - 1)
    PROVE  /\ a * y + b \in Nat
           /\ (a * y + b) \div y = a
           /\ (a * y + b) % y = b
           /\ \A x \in Nat : a < x => a * y + b < x * y
<1> DEFINE n == a * y + b
           q == n \div y
           r == n % y
<1>1. a * y \in Nat
  BY SMT
<1>2. n \in Nat
  BY <1>1, SMT
<1> HIDE DEF n
<1>3. q \in Nat /\ r \in 0 .. (y - 1) /\ n = y * q + r
  BY <1>2, Division
<1>4. n = y * a + b
  BY SMT DEF n
<1> HIDE DEF q, r
<1>5. ~(q < a)
  <2> SUFFICES ASSUME q + 1 <= a PROVE FALSE
    BY <1>3, SMT
  <2>1. y * (q + 1) <= y * a
    BY <1>3, TimesMonotone
  <2>2. y * (q + 1) = y * q + y
    BY <1>3, SMT
  <2> DEFINE u == y * q
             v == y * a
  <2>3. u \in Nat /\ v \in Nat
    BY <1>3, SMT
  <2>4. n = u + r /\ n = v + b /\ u + y <= v
    BY <1>3, <1>4, <2>1, <2>2
  <2> HIDE DEF u, v
  <2> QED
    BY <1>2, <1>3, <2>3, <2>4, SMT
<1>6. ~(a < q)
  <2> SUFFICES ASSUME a + 1 <= q PROVE FALSE
    BY <1>3, SMT
  <2>1. y * (a + 1) <= y * q
    BY <1>3, TimesMonotone
  <2>2. y * (a + 1) = y * a + y
    BY <1>3, SMT
  <2> DEFINE u == y * q
             v == y * a
  <2>3. u \in Nat /\ v \in Nat
    BY <1>3, SMT
  <2>4. n = u + r /\ n = v + b /\ v + y <= u
    BY <1>3, <1>4, <2>1, <2>2
  <2> HIDE DEF u, v
  <2> QED
    BY <1>2, <1>3, <2>3, <2>4, SMT
<1>7. q = a
  BY <1>3, <1>5, <1>6, SMT
<1>8. r = b
  <2> DEFINE v == y * a
  <2>1. v \in Nat
    BY SMT
  <2>2. n = v + r /\ n = v + b
    BY <1>3, <1>4, <1>7
  <2> HIDE DEF v
  <2> QED
    BY <1>2, <1>3, <2>1, <2>2, SMT
<1>9. ASSUME NEW x \in Nat, a < x PROVE n < x * y
  <2>1. y * (a + 1) <= y * x
    BY <1>9, TimesMonotone
  <2>2. y * (a + 1) = y * a + y /\ y * x = x * y
    BY SMT
  <2> DEFINE u == x * y
             v == y * a
  <2>3. u \in Nat /\ v \in Nat
    BY SMT
  <2>4. n = v + b /\ v + y <= u
    BY <1>4, <2>1, <2>2
  <2> HIDE DEF u, v
  <2>5. n < u
    BY <1>2, <2>3, <2>4, SMT
  <2> QED
    BY <2>5 DEF u
<1> QED
  BY <1>2, <1>7, <1>8, <1>9 DEF n, q, r

(* A number of three digits, and what they are.                             *)
HasDigits(idx, y, z, i, j, k) ==
    /\ idx \div (y * z) = i
    /\ ((idx \div z) % y) = j
    /\ (idx % z) = k
    /\ \A x \in Nat : i < x => idx < x * (y * z)

LEMMA ThreeDigits ==
    ASSUME NEW y \in Nat \ {0}, NEW z \in Nat \ {0},
           NEW i \in Nat, NEW j \in 0 .. (y - 1), NEW k \in 0 .. (z - 1)
    PROVE  \E idx \in Nat : HasDigits(idx, y, z, i, j, k)
<1> DEFINE m == y * z
           low == j * z + k
           idx == i * m + low
           high == i * y + j
<1>1. j \in Nat /\ j < y /\ y \in Nat
  BY SMT
<1>2. m \in Nat \ {0}
  BY SMT
<1>3. low \in Nat /\ low < m
  <2>1. /\ j * z + k \in Nat
        /\ \A u \in Nat : j < u => j * z + k < u * z
    BY <1>1, TwoDigits
  <2> QED
    BY <1>1, <2>1
<1>4. high \in Nat /\ high % y = j
  BY TwoDigits
<1>5. idx = high * z + k
  <2>1. (i * y + j) * z = i * (y * z) + j * z
    BY <1>1, SMT
  <2>2. i * (y * z) \in Nat /\ j * z \in Nat
    BY <1>1, SMT
  <2>3. i * (y * z) + (j * z + k) = (i * y + j) * z + k
    BY <2>1, <2>2, SMT
  <2> QED
    BY <2>3
<1> HIDE DEF m, low, high
<1>6. low \in 0 .. (m - 1)
  BY <1>2, <1>3, SMT
<1>7. idx \in Nat /\ idx \div m = i /\ \A x \in Nat : i < x => idx < x * m
  BY <1>2, <1>6, TwoDigits
<1> HIDE DEF idx
<1>8. idx \div z = high /\ (idx % z) = k
  <2>1. (high * z + k) \div z = high /\ (high * z + k) % z = k
    BY <1>4, TwoDigits
  <2> QED
    BY <1>5, <2>1
<1>9. (idx \div z) % y = j
  BY <1>4, <1>8
<1> QED
  BY <1>7, <1>8, <1>9 DEF m, HasDigits

(* Every place is the place of a tile.                                      *)
LEMMA PlaceOfPair ==
    ASSUME NEW D, Len(D) = 2, D \in [1 .. 2 -> Nat \ {0}],
           NEW p \in [1 .. 2 -> Nat], \A d \in 1 .. 2 : p[d] < D[d]
    PROVE  \E idx \in Nat : idx < D[1] * D[2] /\ \A d \in 1 .. 2 : Digit(idx, D, d) = p[d]
<1>1. PICK x, y \in Nat \ {0} : x = D[1] /\ y = D[2]
  BY SMT
<1>2. PICK i, j \in Nat : i = p[1] /\ j = p[2]
  BY SMT
<1>3. x \in Nat /\ i < x /\ j \in 0 .. (y - 1)
  BY <1>1, <1>2, SMT
<1> DEFINE idx == i * y + j
<1>4. idx \in Nat /\ idx \div y = i /\ idx % y = j /\ idx < x * y
  BY <1>3, TwoDigits
<1> HIDE DEF idx
<1>5. Digit(idx, D, 1) = idx \div y /\ Digit(idx, D, 2) = (idx \div 1) % y
  BY <1>1, SMT DEF Digit
<1>6. idx \div 1 = idx
  BY <1>4, SMT
<1>7. 1 .. 2 = {1, 2}
  BY SMT
<1>8. \A d \in 1 .. 2 : Digit(idx, D, d) = p[d]
  BY <1>2, <1>4, <1>5, <1>6, <1>7
<1> QED
  BY <1>1, <1>4, <1>8

LEMMA PlaceOfTriple ==
    ASSUME NEW D, Len(D) = 3, D \in [1 .. 3 -> Nat \ {0}],
           NEW p \in [1 .. 3 -> Nat], \A d \in 1 .. 3 : p[d] < D[d]
    PROVE  \E idx \in Nat :
            idx < D[1] * (D[2] * D[3]) /\ \A d \in 1 .. 3 : Digit(idx, D, d) = p[d]
<1>1. PICK x, y, z \in Nat \ {0} : x = D[1] /\ y = D[2] /\ z = D[3]
  BY SMT
<1>2. PICK i, j, k \in Nat : i = p[1] /\ j = p[2] /\ k = p[3]
  BY SMT
<1>3. x \in Nat /\ i < x /\ j \in 0 .. (y - 1) /\ k \in 0 .. (z - 1)
  BY <1>1, <1>2, SMT
<1>4. PICK idx \in Nat : HasDigits(idx, y, z, i, j, k)
  BY <1>3, ThreeDigits
<1>5. /\ Digit(idx, D, 1) = idx \div (y * z)
      /\ Digit(idx, D, 2) = (idx \div z) % y
      /\ Digit(idx, D, 3) = (idx \div 1) % z
  BY <1>1, SMT DEF Digit
<1>6. idx \div 1 = idx
  BY <1>4, SMT
<1>7. 1 .. 3 = {1, 2, 3}
  BY SMT
<1>8. \A d \in 1 .. 3 : Digit(idx, D, d) = p[d]
  BY <1>2, <1>4, <1>5, <1>6, <1>7 DEF HasDigits
<1>9. idx < x * (y * z)
  BY <1>3, <1>4 DEF HasDigits
<1> QED
  BY <1>1, <1>4, <1>8, <1>9

LEMMA EveryPlaceIsTaken ==
    ASSUME NEW dims, Len(dims) \in 2 .. 3, NEW n \in Nat \ {0},
           NEW p \in [1 .. Len(dims) -> Nat],
           \A d \in 1 .. Len(dims) : p[d] < SymDivisors(dims, n)[d]
    PROVE  \E idx \in Nat :
            /\ idx < n
            /\ \A d \in 1 .. Len(dims) : Digit(idx, SymDivisors(dims, n), d) = p[d]
<1> DEFINE D == SymDivisors(dims, n)
<1>1. D \in [1 .. Len(dims) -> Nat \ {0}]
  BY DigitsOfSym
<1>2. CASE Len(dims) = 2
  <2>1. Len(D) = 2 /\ D[1] * D[2] = n
    <3>1. PICK x, y \in Nat \ {0} : D = <<x, y>> /\ x * y = n
      BY <1>2, SymFactors
    <3> HIDE DEF D
    <3> QED
      BY <3>1
  <2> HIDE DEF D
  <2>2. \E idx \in Nat :
            idx < D[1] * D[2] /\ \A d \in 1 .. 2 : Digit(idx, D, d) = p[d]
    BY <1>1, <1>2, <2>1, PlaceOfPair DEF D
  <2> QED
    BY <1>2, <2>1, <2>2 DEF D
<1>3. CASE Len(dims) = 3
  <2>1. Len(D) = 3 /\ D[1] * (D[2] * D[3]) = n
    <3>1. PICK x, y, z \in Nat \ {0} : D = <<x, y, z>> /\ x * (y * z) = n
      BY <1>3, SymFactors
    <3> HIDE DEF D
    <3> QED
      BY <3>1
  <2> HIDE DEF D
  <2>2. \E idx \in Nat :
            idx < D[1] * (D[2] * D[3]) /\ \A d \in 1 .. 3 : Digit(idx, D, d) = p[d]
    BY <1>1, <1>3, <2>1, PlaceOfTriple DEF D
  <2> QED
    BY <1>3, <2>1, <2>2 DEF D
<1> QED
  BY <1>2, <1>3, SMT

LEMMA OneDimensionAlone ==
    ASSUME NEW dims, IsDims(dims), NEW type, NEW n \in Nat \ {0}
    PROVE  /\ TiledDimension(type, dims, n) \in 0 .. Len(dims)
           /\ TiledDimension(type, dims, n) = 0 => Len(dims) \in 2 .. 3
<1>1. Len(dims) = 1 \/ Len(dims) = 2 \/ Len(dims) = 3
  BY SMT DEF IsDims
<1>2. CASE Len(dims) = 1
  BY <1>2, SMT DEF TiledDimension
<1>3. CASE Len(dims) = 2
  BY <1>3, SMT DEF TiledDimension
<1>4. CASE Len(dims) = 3
  BY <1>4, SMT DEF TiledDimension
<1> QED
  BY <1>1, <1>2, <1>3, <1>4

(* A dimension that is not tiled is one tile.                               *)
LEMMA WholeDimension ==
    ASSUME NEW dim \in Nat
    PROVE  EvenTile(0, dim, 1) = Span(0, dim)
<1>1. dim \div 1 = dim /\ dim % 1 = 0
  BY SMT
<1>2. TileSize(0, dim, 1) = dim
  BY <1>1, SMT DEF TileSize
<1>3. TileStart(0, dim, 1) = 0
  BY <1>1, <1>2, SMT DEF TileStart
<1> QED
  BY <1>2, <1>3, SMT DEF EvenTile

(* tile_calculation_2d, tile_calculation_3d: the tile of a site is a tile   *)
(* of each dimension.                                                       *)
THEOREM TileOfEachDimension ==
    ASSUME NEW dims, IsDims(dims), NEW type, NEW n \in Nat \ {0}, NEW idx \in Nat
    PROVE  /\ Divisors(type, dims, n) \in [1 .. Len(dims) -> Nat \ {0}]
           /\ TileCalculation(idx, type, dims, n) =
                [d \in 1 .. Len(dims) |-> TileCalculation(idx, type, dims, n)[d]]
           /\ \A d \in 1 .. Len(dims) : \E i \in Nat :
                /\ TileCalculation(idx, type, dims, n)[d] =
                        EvenTile(i, dims[d], Divisors(type, dims, n)[d])
                /\ idx < n => i < Divisors(type, dims, n)[d]
<1> DEFINE only == TiledDimension(type, dims, n)
           D == Divisors(type, dims, n)
           N == Len(dims)
           tile == TileCalculation(idx, type, dims, n)
<1>1. \A d \in 1 .. N : dims[d] \in Nat
  <2>1. dims \in Seq(Nat \ {0})
    BY DEF IsDims
  <2> QED
    BY <2>1, ElementOfSeq
<1>2. only \in 0 .. N /\ (only = 0 => N \in 2 .. 3) /\ N \in Nat
  BY OneDimensionAlone DEF IsDims
<1>3. D = IF only = 0 THEN SymDivisors(dims, n)
          ELSE [d \in 1 .. N |-> IF d = only THEN n ELSE 1]
  BY DEF Divisors
<1>4. tile =
        [d \in 1 .. N |->
            CASE only = d -> EvenTile(idx, dims[d], n)
              [] only = 0 -> EvenTile(Digit(idx, D, d), dims[d], D[d])
              [] OTHER -> Span(0, dims[d])]
  BY DEF TileCalculation
<1> HIDE DEF only, D, tile
<1>5. tile = [d \in 1 .. N |-> tile[d]]
  BY <1>4
<1>6. CASE only = 0
  <2>1. /\ D \in [1 .. N -> Nat \ {0}]
        /\ \A d \in 1 .. N : /\ Digit(idx, D, d) \in Nat
                             /\ idx < n => Digit(idx, D, d) < D[d]
    BY <1>2, <1>3, <1>6, DigitsOfSym
  <2>2. \A d \in 1 .. N : only # d
    BY <1>6, SMT
  <2>3. tile = [d \in 1 .. N |-> EvenTile(Digit(idx, D, d), dims[d], D[d])]
    BY <1>4, <1>6, <2>2
  <2> QED
    BY <1>5, <2>1, <2>3 DEF D, tile
<1>7. CASE only # 0
  <2>1. D = [d \in 1 .. N |-> IF d = only THEN n ELSE 1]
    BY <1>3, <1>7
  <2>2. D \in [1 .. N -> Nat \ {0}]
    BY <2>1, SMT
  <2>3. ASSUME NEW d \in 1 .. N
        PROVE  \E i \in Nat : /\ tile[d] = EvenTile(i, dims[d], D[d])
                              /\ idx < n => i < D[d]
    <3>1. CASE d = only
      <4>1. D[d] = n /\ tile[d] = EvenTile(idx, dims[d], n)
        BY <1>4, <2>1, <3>1
      <4> QED
        BY <4>1
    <3>2. CASE d # only
      <4>1. D[d] = 1
        BY <2>1, <3>2
      <4>2. tile[d] = Span(0, dims[d])
        BY <1>4, <1>7, <3>2
      <4>3. tile[d] = EvenTile(0, dims[d], 1)
        BY <1>1, <4>2, WholeDimension
      <4>4. 0 \in Nat /\ 0 < D[d]
        BY <4>1, SMT
      <4> QED
        BY <4>1, <4>3, <4>4
    <3> QED
      BY <3>1, <3>2
  <2> QED
    BY <1>5, <2>2, <2>3 DEF D, tile
<1> QED
  BY <1>6, <1>7

(* The tiles of all sites make up the array.                                *)
THEOREM TilesMakeUpArray ==
    ASSUME NEW dims, IsDims(dims), NEW type, NEW n \in Nat \ {0},
           Tileable(type, dims, n),
           NEW g \in [1 .. Len(dims) -> Nat], \A d \in 1 .. Len(dims) : g[d] < dims[d]
    PROVE  \E idx \in Nat : idx < n /\ Holds(TileCalculation(idx, type, dims, n), g)
<1> DEFINE only == TiledDimension(type, dims, n)
           D == Divisors(type, dims, n)
           N == Len(dims)
           tile(idx) == TileCalculation(idx, type, dims, n)
<1>1. N \in Nat /\ \A d \in 1 .. N : dims[d] \in Nat /\ g[d] \in 0 .. (dims[d] - 1)
  <2>1. dims \in Seq(Nat \ {0})
    BY DEF IsDims
  <2>2. N \in Nat /\ \A d \in 1 .. N : dims[d] \in Nat
    BY <2>1, ElementOfSeq, LenProperties
  <2>3. ASSUME NEW d \in 1 .. N PROVE g[d] \in 0 .. (dims[d] - 1)
    <3>1. g[d] \in Nat /\ dims[d] \in Nat /\ g[d] < dims[d]
      BY <2>2
    <3> QED
      BY <3>1, SMT
  <2> QED
    BY <2>2, <2>3
<1>2. only \in 0 .. N /\ (only = 0 => N \in 2 .. 3)
  BY OneDimensionAlone
<1>3. /\ D = IF only = 0 THEN SymDivisors(dims, n)
             ELSE [d \in 1 .. N |-> IF d = only THEN n ELSE 1]
  BY DEF Divisors
<1>4. \A idx : tile(idx) =
        [d \in 1 .. N |->
            CASE only = d -> EvenTile(idx, dims[d], n)
              [] only = 0 -> EvenTile(Digit(idx, D, d), dims[d], D[d])
              [] OTHER -> Span(0, dims[d])]
  BY Zenon DEF TileCalculation
<1>5. \A d \in 1 .. N : dims[d] >= D[d]
  BY DEF Tileable
<1>6. D \in [1 .. N -> Nat \ {0}]
  BY TileOfEachDimension, 0 \in Nat
<1> HIDE DEF only, D, tile
<1>7. CASE only = 0
  <2> DEFINE p == [d \in 1 .. N |-> CHOOSE i \in 0 .. (D[d] - 1) :
                                        InSpan(g[d], EvenTile(i, dims[d], D[d]))]
  <2>1. ASSUME NEW d \in 1 .. N
        PROVE  p[d] \in 0 .. (D[d] - 1) /\ InSpan(g[d], EvenTile(p[d], dims[d], D[d]))
    <3>1. /\ dims[d] \in Nat /\ g[d] \in 0 .. (dims[d] - 1) /\ D[d] \in Nat \ {0}
          /\ D[d] <= dims[d]
      BY <1>1, <1>5, <1>6
    <3>2. \E i \in 0 .. (D[d] - 1) : InSpan(g[d], EvenTile(i, dims[d], D[d]))
      BY <3>1, TilesPartition
    <3> QED
      BY <3>2
  <2> HIDE DEF p
  <2>2. D = SymDivisors(dims, n)
    BY <1>3, <1>7
  <2>3. PICK idx \in Nat : idx < n /\ \A d \in 1 .. N : Digit(idx, D, d) = p[d]
    <3>1. \A d \in 1 .. N : p[d] < SymDivisors(dims, n)[d]
      <4>1. \A d \in 1 .. N : p[d] < D[d]
        BY <1>6, <2>1, SMT
      <4> QED
        BY <2>2, <4>1
    <3>2. p \in [1 .. N -> Nat]
      <4>1. \A d \in 1 .. N : p[d] \in Nat
        BY <1>6, <2>1, SMT
      <4> QED
        BY <4>1 DEF p
    <3>3. \E idx \in Nat : idx < n /\ \A d \in 1 .. N :
            Digit(idx, SymDivisors(dims, n), d) = p[d]
      BY <1>2, <1>7, <3>1, <3>2, EveryPlaceIsTaken
    <3> QED
      BY <2>2, <3>3
  <2>4. \A d \in 1 .. N : only # d
    BY <1>7, SMT
  <2>5. tile(idx) = [d \in 1 .. N |-> EvenTile(p[d], dims[d], D[d])]
    BY <1>4, <1>7, <2>3, <2>4
  <2>6. Holds(tile(idx), g)
    BY <2>1, <2>5 DEF Holds
  <2> QED
    BY <2>3, <2>6 DEF tile
<1>8. CASE only # 0
  <2>1. only \in 1 .. N
    BY <1>2, <1>8, <1>1, SMT
  <2>2. D[only] = n
    BY <1>3, <1>8, <2>1
  <2>3. n <= dims[only] /\ dims[only] \in Nat /\ g[only] \in 0 .. (dims[only] - 1)
    BY <1>1, <1>5, <2>1, <2>2
  <2>4. PICK idx \in 0 .. (n - 1) : InSpan(g[only], EvenTile(idx, dims[only], n))
    BY <2>3, TilesPartition
  <2>5. ASSUME NEW d \in 1 .. N PROVE InSpan(g[d], tile(idx)[d])
    <3>1. CASE d = only
      BY <1>4, <2>4, <3>1
    <3>2. CASE d # only
      <4>1. tile(idx)[d] = Span(0, dims[d])
        BY <1>4, <1>8, <3>2
      <4>2. g[d] \in 0 .. (dims[d] - 1) /\ dims[d] \in Nat
        BY <1>1
      <4>3. InSpan(g[d], Span(0, dims[d]))
        BY <4>2, SMT DEF InSpan, Span
      <4> QED
        BY <4>1, <4>3
    <3> QED
      BY <3>1, <3>2
  <2>6. DOMAIN tile(idx) = 1 .. N
    BY <1>4
  <2>7. Holds(tile(idx), g)
    BY <2>5, <2>6 DEF Holds
  <2> QED
    BY <2>4, <2>7, SMT DEF tile
<1> QED
  BY <1>7, <1>8

-----------------------------------------------------------------------------
(* A piece of a tile is where it is looked for: the indices a site copies   *)
(* are the ones both tiles have, and an index of the result is copied from  *)
(* the same index of the array.                                             *)
THEOREM PieceIsFound ==
    ASSUME NEW des \in IsSpan, NEW loc \in IsSpan,
           loc.start < loc.stop,
           NEW c \in Nat, c < Size(des),
           NEW piece \in {IndexCalculation(des, loc), RetileCalculation(loc, des)}
    PROVE  /\ Intersects(des, loc) /\ InPiece(c, piece) <=>
                InSpan(c + des.start, loc)
           /\ InSpan(c + des.start, loc) =>
                c - piece.projected + piece.local = (c + des.start) - loc.start
<1>1. /\ des.start \in Nat /\ des.stop \in Nat
      /\ loc.start \in Nat /\ loc.stop \in Nat
  BY DEF IsSpan
<1>2. CASE piece = IndexCalculation(des, loc)
  BY <1>1, <1>2, SMT DEF IndexCalculation, Piece, Least, Greatest, InPiece,
        Intersects, InSpan, Size
<1>3. CASE piece = RetileCalculation(loc, des)
  BY <1>1, <1>3, SMT DEF RetileCalculation, Piece, Least, Greatest, InPiece,
        Intersects, Intersection, InSpan, Size, Span
<1> QED
  BY <1>2, <1>3

-----------------------------------------------------------------------------
(* The arrays of the sites.                                                 *)

(* A tile of an array of n dimensions.                                      *)
IsTile(tile, n) ==
    /\ tile \in Seq(IsSpan)
    /\ Len(tile) = n
    /\ \A d \in 1 .. n : tile[d].start < tile[d].stop

LEMMA TileIsFunction ==
    ASSUME NEW n \in Nat, NEW tile, IsTile(tile, n)
    PROVE  /\ DOMAIN tile = 1 .. n
           /\ \A d \in 1 .. n :
                /\ tile[d] \in IsSpan
                /\ tile[d].start \in Nat /\ tile[d].stop \in Nat
                /\ Size(tile[d]) \in Nat /\ Size(tile[d]) > 0
                /\ Size(tile[d]) = tile[d].stop - tile[d].start
                /\ tile[d].start < tile[d].stop
<1>1. tile \in Seq(IsSpan) /\ Len(tile) = n
  BY DEF IsTile
<1>2. DOMAIN tile = 1 .. n
  BY <1>1, LenProperties
<1>3. ASSUME NEW d \in 1 .. n
      PROVE  /\ tile[d] \in IsSpan
             /\ tile[d].start \in Nat /\ tile[d].stop \in Nat
             /\ tile[d].start < tile[d].stop
  <2>1. tile[d] \in IsSpan
    BY <1>1, ElementOfSeq
  <2> QED
    BY <2>1 DEF IsSpan, IsTile
<1> QED
  BY <1>2, <1>3, SMT DEF Size

LEMMA FunctionIsTile ==
    ASSUME NEW n \in Nat, NEW f, DOMAIN f = 1 .. n, f = [d \in 1 .. n |-> f[d]],
           \A d \in 1 .. n : f[d] \in IsSpan /\ f[d].start < f[d].stop
    PROVE  IsTile(f, n)
<1>1. f \in [1 .. n -> IsSpan]
  OBVIOUS
<1>2. f \in Seq(IsSpan) /\ Len(f) = n
  BY <1>1, FunctionIsSequence
<1> QED
  BY <1>2 DEF IsTile

LEMMA LocalIndex ==
    ASSUME NEW n \in Nat, NEW tile, IsTile(tile, n), NEW c
    PROVE  c \in LocalIndices(tile) <=>
            /\ c \in [1 .. n -> Nat]
            /\ \A d \in 1 .. n : c[d] < Size(tile[d])
<1> DEFINE U == UNION {0 .. (Size(tile[d]) - 1) : d \in DOMAIN tile}
<1>1. /\ DOMAIN tile = 1 .. n
      /\ \A d \in 1 .. n : Size(tile[d]) \in Nat
  BY TileIsFunction
<1>2. c \in LocalIndices(tile) <=>
        /\ c \in [1 .. n -> U]
        /\ \A d \in 1 .. n : c[d] < Size(tile[d])
  BY <1>1 DEF LocalIndices
<1>3. U \subseteq Nat
  BY SMT
<1>4. ASSUME c \in [1 .. n -> Nat], \A d \in 1 .. n : c[d] < Size(tile[d])
      PROVE  c \in [1 .. n -> U]
  <2>1. ASSUME NEW d \in 1 .. n PROVE c[d] \in U
    <3>1. c[d] \in 0 .. (Size(tile[d]) - 1)
      BY <1>1, <1>4, SMT
    <3> QED
      BY <1>1, <3>1
  <2> HIDE DEF U
  <2> QED
    BY <1>4, <2>1
<1> HIDE DEF U
<1> QED
  BY <1>2, <1>3, <1>4

-----------------------------------------------------------------------------
(* From local to global indices and back.                                   *)
LEMMA GlobalOfLocal ==
    ASSUME NEW n \in Nat, NEW tile, IsTile(tile, n), NEW c \in LocalIndices(tile)
    PROVE  /\ ToGlobal(tile, c) \in [1 .. n -> Nat]
           /\ \A d \in 1 .. n : ToGlobal(tile, c)[d] = c[d] + tile[d].start
           /\ Holds(tile, ToGlobal(tile, c))
           /\ ToLocal(tile, ToGlobal(tile, c)) = c
<1>1. /\ DOMAIN tile = 1 .. n
      /\ \A d \in 1 .. n : /\ tile[d].start \in Nat /\ tile[d].stop \in Nat
                           /\ Size(tile[d]) = tile[d].stop - tile[d].start
  BY TileIsFunction
<1>2. c \in [1 .. n -> Nat] /\ \A d \in 1 .. n : c[d] < Size(tile[d])
  BY LocalIndex
<1>3. ToGlobal(tile, c) = [d \in 1 .. n |-> c[d] + tile[d].start]
  BY <1>1 DEF ToGlobal
<1>4. ToGlobal(tile, c) \in [1 .. n -> Nat]
  BY <1>1, <1>2, <1>3
<1>5. ToLocal(tile, ToGlobal(tile, c)) = [d \in 1 .. n |-> c[d]]
  <2>1. ToLocal(tile, ToGlobal(tile, c)) =
            [d \in 1 .. n |-> ToGlobal(tile, c)[d] - tile[d].start]
    BY <1>1 DEF ToLocal
  <2>2. \A d \in 1 .. n : ToGlobal(tile, c)[d] - tile[d].start = c[d]
    BY <1>1, <1>2, <1>3, SMT
  <2> QED
    BY <2>1, <2>2
<1>6. Holds(tile, ToGlobal(tile, c))
  BY <1>1, <1>2, <1>3, SMT DEF Holds, InSpan
<1> QED
  BY <1>2, <1>3, <1>4, <1>5, <1>6

LEMMA LocalOfGlobal ==
    ASSUME NEW n \in Nat, NEW tile, IsTile(tile, n),
           NEW g \in [1 .. n -> Nat], Holds(tile, g)
    PROVE  /\ ToLocal(tile, g) \in LocalIndices(tile)
           /\ ToGlobal(tile, ToLocal(tile, g)) = g
<1>1. /\ DOMAIN tile = 1 .. n
      /\ \A d \in 1 .. n : /\ tile[d].start \in Nat /\ tile[d].stop \in Nat
                           /\ Size(tile[d]) = tile[d].stop - tile[d].start
  BY TileIsFunction
<1>2. ToLocal(tile, g) = [d \in 1 .. n |-> g[d] - tile[d].start]
  BY <1>1 DEF ToLocal
<1>3. \A d \in 1 .. n : tile[d].start <= g[d] /\ g[d] < tile[d].stop
  <2>1. \A d \in 1 .. n : InSpan(g[d], tile[d])
    BY <1>1, Zenon DEF Holds
  <2> QED
    BY <2>1 DEF InSpan
<1>4. ToLocal(tile, g) \in [1 .. n -> Nat]
  <2>1. ASSUME NEW d \in 1 .. n PROVE g[d] - tile[d].start \in Nat
    <3>1. g[d] \in Nat /\ tile[d].start \in Nat /\ tile[d].start <= g[d]
      BY <1>1, <1>3
    <3> QED
      BY <3>1, SMT
  <2> QED
    BY <1>2, <2>1
<1>5. \A d \in 1 .. n : ToLocal(tile, g)[d] < Size(tile[d])
  BY <1>1, <1>2, <1>3, SMT
<1>6. ToGlobal(tile, ToLocal(tile, g)) = [d \in 1 .. n |-> g[d]]
  <2>1. ToGlobal(tile, ToLocal(tile, g)) =
            [d \in 1 .. n |-> ToLocal(tile, g)[d] + tile[d].start]
    BY <1>1 DEF ToGlobal
  <2>2. \A d \in 1 .. n : ToLocal(tile, g)[d] + tile[d].start = g[d]
    BY <1>1, <1>2, SMT
  <2> QED
    BY <2>1, <2>2
<1> QED
  BY <1>4, <1>5, <1>6, LocalIndex

-----------------------------------------------------------------------------
(* Tiles of an array.                                                       *)
Sound(a) == IsArray(a) /\ Rank(a) \in 1 .. 3 /\ Agree(a)

LEMMA SitesNotEmpty == 0 \in Sites /\ Sites \subseteq Nat /\ NumSites \in Nat
  BY TiledArraysAssumption, SMT DEF Sites

LEMMA TilesOfArray ==
    ASSUME NEW a, IsArray(a), NEW s \in Sites
    PROVE  IsTile(a.tiles[s], Rank(a)) /\ Rank(a) \in Nat
<1>1. a.tiles \in [Sites -> Seq(IsSpan)]
  BY DEF IsArray, IsSpan
<1>2. Rank(a) \in Nat
  <2>1. a.tiles[0] \in Seq(IsSpan)
    BY <1>1, SitesNotEmpty
  <2> QED
    BY <2>1, LenProperties DEF Rank
<1>3. /\ a.tiles[s] \in Seq(IsSpan) /\ Len(a.tiles[s]) = Rank(a)
      /\ \A d \in 1 .. Rank(a) : Size(a.tiles[s][d]) > 0
  BY <1>1 DEF IsArray
<1>4. ASSUME NEW d \in 1 .. Rank(a) PROVE a.tiles[s][d].start < a.tiles[s][d].stop
  <2>1. a.tiles[s][d] \in IsSpan /\ Size(a.tiles[s][d]) > 0
    BY <1>3, ElementOfSeq
  <2>2. a.tiles[s][d].start \in Nat /\ a.tiles[s][d].stop \in Nat
    BY <2>1 DEF IsSpan
  <2> QED
    BY <2>1, <2>2, SMT DEF Size
<1> QED
  BY <1>2, <1>3, <1>4 DEF IsTile

(* Tiles that are all of the same rank, with data that only depends on the  *)
(* global index of an element, are an array whose tiles agree.              *)
HasValues(n, tiles, data, V) ==
    /\ tiles = [s \in Sites |-> tiles[s]]
    /\ \A s \in Sites :
        /\ IsTile(tiles[s], n)
        /\ DOMAIN data[s] = LocalIndices(tiles[s])
        /\ \A c \in LocalIndices(tiles[s]) : data[s][c] = V[ToGlobal(tiles[s], c)]

LEMMA DataByGlobalIndex ==
    ASSUME NEW n \in 1 .. 3, NEW tiles, NEW data, NEW V,
           HasValues(n, tiles, data, V)
    PROVE  Sound([tiles |-> tiles, data |-> data])
<1> DEFINE a == [tiles |-> tiles, data |-> data]
<1> USE DEF HasValues
<1>1. n \in Nat /\ Rank(a) = n
  BY SitesNotEmpty, SMT DEF Rank, IsTile
<1>2. tiles \in [Sites -> Seq(IsSpan)]
  BY DEF IsTile
<1>3. ASSUME NEW s \in Sites
      PROVE  /\ Len(tiles[s]) = n
             /\ \A d \in 1 .. n : Size(tiles[s][d]) > 0
  BY <1>1, TileIsFunction DEF IsTile
<1>4. IsArray(a)
  BY <1>1, <1>2, <1>3 DEF IsArray, IsSpan
<1>5. Agree(a)
  <2> SUFFICES ASSUME NEW s \in Sites, NEW t \in Sites, NEW c \in LocalIndices(tiles[s]),
                      Holds(tiles[t], ToGlobal(tiles[s], c))
               PROVE  data[s][c] = At(a, t, ToGlobal(tiles[s], c))
    BY DEF Agree
  <2> DEFINE g == ToGlobal(tiles[s], c)
             e == ToLocal(tiles[t], g)
  <2>1. g \in [1 .. n -> Nat]
    BY <1>1, GlobalOfLocal
  <2>2. e \in LocalIndices(tiles[t]) /\ ToGlobal(tiles[t], e) = g
    BY <1>1, <2>1, LocalOfGlobal
  <2>3. data[t][e] = V[g] /\ data[s][c] = V[g]
    BY <2>2
  <2> QED
    BY <2>3 DEF At
<1> QED
  BY <1>1, <1>4, <1>5 DEF Sound

(* The extent of an array: no tile ends behind it.                          *)
LEMMA ExtentOfArray ==
    ASSUME NEW a, IsArray(a), NEW d \in 1 .. Rank(a)
    PROVE  /\ Extent(a.tiles, d) \in Nat \ {0}
           /\ \A s \in Sites : a.tiles[s][d].stop <= Extent(a.tiles, d)
<1> DEFINE f == [s \in Sites |-> a.tiles[s][d].stop]
           S == {a.tiles[s][d].stop : s \in Sites}
<1>1. \A s \in Sites : a.tiles[s][d].stop \in Nat /\ a.tiles[s][d].stop > 0
  <2> SUFFICES ASSUME NEW s \in Sites
               PROVE  a.tiles[s][d].stop \in Nat /\ a.tiles[s][d].stop > 0
    OBVIOUS
  <2>1. IsTile(a.tiles[s], Rank(a)) /\ Rank(a) \in Nat
    BY TilesOfArray
  <2>2. /\ a.tiles[s][d].start \in Nat /\ a.tiles[s][d].stop \in Nat
        /\ a.tiles[s][d].start < a.tiles[s][d].stop
    BY <2>1, TileIsFunction
  <2> QED
    BY <2>2, SMT
<1>2. PICK b \in Nat : \A s \in Sites : a.tiles[s][d].stop <= b
  <2>1. \A i \in 0 .. (NumSites - 1) : f[i] \in Nat
    BY <1>1 DEF Sites
  <2> HIDE DEF f
  <2>2. \E b \in Nat : \A i \in 0 .. (NumSites - 1) : f[i] <= b
    BY <2>1, SitesNotEmpty, Bounded
  <2> QED
    BY <2>2 DEF Sites, f
<1>3. S \subseteq Nat /\ S # {} /\ \A x \in S : x <= b /\ x > 0
  BY <1>1, <1>2, SitesNotEmpty
<1>4. Largest(S) \in S /\ \A x \in S : x <= Largest(S)
  <2> HIDE DEF S
  <2> QED
    BY <1>3, LargestElement
<1>5. Extent(a.tiles, d) = Largest(S)
  BY DEF Extent
<1>6. Largest(S) \in Nat \ {0}
  <2> DEFINE L == Largest(S)
  <2>1. L \in S
    BY <1>4
  <2> HIDE DEF L
  <2>2. L \in Nat /\ L > 0
    BY <1>3, <2>1, Zenon
  <2> HIDE DEF S
  <2> QED
    BY <2>2, SMT DEF L
<1> QED
  BY <1>4, <1>5, <1>6

LEMMA DimsOfArray ==
    ASSUME NEW a, IsArray(a), Rank(a) \in 1 .. 3
    PROVE  IsDims(Dims(a)) /\ Len(Dims(a)) = Rank(a)
<1>1. DOMAIN a.tiles[0] = 1 .. Rank(a) /\ Rank(a) \in Nat
  BY SitesNotEmpty, TilesOfArray, TileIsFunction
<1>2. Dims(a) = [d \in 1 .. Rank(a) |-> Extent(a.tiles, d)]
  BY <1>1 DEF Dims
<1>3. Dims(a) \in [1 .. Rank(a) -> Nat \ {0}]
  BY <1>2, ExtentOfArray
<1> QED
  BY <1>1, <1>3, FunctionIsSequence DEF IsDims

-----------------------------------------------------------------------------
(* What a site finds where it looks for an element.                         *)
LEMMA PiecesOfTiles ==
    ASSUME NEW a, IsArray(a), NEW s \in Sites, NEW w \in Sites,
           NEW des, IsTile(des, Rank(a)), NEW c \in LocalIndices(des)
    PROVE  /\ Writes(a, s, w, des, c) <=> Holds(a.tiles[w], ToGlobal(des, c))
           /\ Holds(a.tiles[w], ToGlobal(des, c)) =>
                Copied(a, s, w, des, c) = At(a, w, ToGlobal(des, c))
<1> DEFINE n == Rank(a)
           loc == a.tiles[w]
           p == Pieces(a, s, w, des)
           g == ToGlobal(des, c)
<1>1. IsTile(loc, n) /\ n \in Nat
  BY TilesOfArray
<1>2. DOMAIN des = 1 .. n /\ DOMAIN loc = 1 .. n
  BY <1>1, TileIsFunction
<1>3. c \in [1 .. n -> Nat] /\ \A d \in 1 .. n : c[d] < Size(des[d])
  BY <1>1, LocalIndex
<1>4. /\ g \in [1 .. n -> Nat]
      /\ \A d \in 1 .. n : g[d] = c[d] + des[d].start
  BY <1>1, GlobalOfLocal
<1>5. \A d \in 1 .. n : p[d] \in
            {IndexCalculation(des[d], loc[d]), RetileCalculation(loc[d], des[d])}
  <2> SUFFICES ASSUME NEW d \in 1 .. n
               PROVE  p[d] \in {IndexCalculation(des[d], loc[d]),
                                RetileCalculation(loc[d], des[d])}
    OBVIOUS
  <2>1. p[d] = IF w = s THEN IndexCalculation(des[d], a.tiles[s][d])
               ELSE RetileCalculation(loc[d], des[d])
    BY <1>2 DEF Pieces
  <2> QED
    BY <2>1
<1> HIDE DEF p, loc, g, n
<1>6. ASSUME NEW d \in 1 .. n
      PROVE  /\ Intersects(des[d], loc[d]) /\ InPiece(c[d], p[d]) <=> InSpan(g[d], loc[d])
             /\ InSpan(g[d], loc[d]) =>
                    c[d] - p[d].projected + p[d].local = g[d] - loc[d].start
  <2>1. /\ des[d] \in IsSpan /\ loc[d] \in IsSpan /\ loc[d].start < loc[d].stop
    BY <1>1, TileIsFunction DEF n
  <2>2. c[d] \in Nat /\ c[d] < Size(des[d]) /\ g[d] = c[d] + des[d].start
    BY <1>3, <1>4
  <2> QED
    BY <1>5, <2>1, <2>2, PieceIsFound
<1>7. Writes(a, s, w, des, c) <=> Holds(loc, g)
  <2>1. Writes(a, s, w, des, c) <=>
            \A d \in 1 .. n : Intersects(des[d], loc[d]) /\ InPiece(c[d], p[d])
    BY <1>2, Zenon DEF Writes, p, loc
  <2>2. Holds(loc, g) <=> \A d \in 1 .. n : InSpan(g[d], loc[d])
    BY <1>2 DEF Holds
  <2> QED
    BY <1>6, <2>1, <2>2
<1>8. ASSUME Holds(loc, g)
      PROVE  Copied(a, s, w, des, c) = At(a, w, g)
  <2>1. \A d \in 1 .. n : InSpan(g[d], loc[d])
    BY <1>2, <1>8 DEF Holds
  <2>2. Copied(a, s, w, des, c) =
            a.data[w][[d \in 1 .. n |-> c[d] - p[d].projected + p[d].local]]
    BY <1>2, Zenon DEF Copied, p
  <2>3. At(a, w, g) = a.data[w][[d \in 1 .. n |-> g[d] - loc[d].start]]
    BY <1>2 DEF At, ToLocal, loc
  <2>4. [d \in 1 .. n |-> c[d] - p[d].projected + p[d].local] =
            [d \in 1 .. n |-> g[d] - loc[d].start]
    BY <1>6, <2>1
  <2> QED
    BY <2>2, <2>3, <2>4
<1> QED
  BY <1>7, <1>8 DEF loc, g

(* The element with global index g, wherever it is.                         *)
Found(a, g) ==
    IF \E w \in Sites : Holds(a.tiles[w], g)
    THEN At(a, CHOOSE w \in Sites : Holds(a.tiles[w], g), g) ELSE Junk

LEMMA AnyHolderWillDo ==
    ASSUME NEW a, Sound(a), NEW g \in [1 .. Rank(a) -> Nat],
           NEW w \in Sites, Holds(a.tiles[w], g)
    PROVE  Found(a, g) = At(a, w, g)
<1> DEFINE v == CHOOSE u \in Sites : Holds(a.tiles[u], g)
<1>1. v \in Sites /\ Holds(a.tiles[v], g) /\ Found(a, g) = At(a, v, g)
  BY DEF Found
<1> HIDE DEF v
<1>2. IsTile(a.tiles[v], Rank(a)) /\ Rank(a) \in Nat
  BY <1>1, TilesOfArray DEF Sound
<1>3. /\ ToLocal(a.tiles[v], g) \in LocalIndices(a.tiles[v])
      /\ ToGlobal(a.tiles[v], ToLocal(a.tiles[v], g)) = g
  BY <1>1, <1>2, LocalOfGlobal
<1>4. a.data[v][ToLocal(a.tiles[v], g)] = At(a, w, g)
  BY <1>1, <1>3 DEF Sound, Agree
<1> QED
  BY <1>1, <1>4 DEF At

(* A site that asks for a tile gets, for every index, the element that some *)
(* site has, its own or another's.                                          *)
LEMMA RetiledFinds ==
    ASSUME NEW a, Sound(a), NEW s \in Sites,
           NEW des, IsTile(des, Rank(a)), NEW c \in LocalIndices(des)
    PROVE  Retiled(a, s, des)[c] = Found(a, ToGlobal(des, c))
<1> DEFINE n == Rank(a)
           own == a.tiles[s]
           g == ToGlobal(des, c)
           subset == \A d \in DOMAIN des :
                des[d].start >= own[d].start /\ des[d].stop <= own[d].stop
<1>1. IsTile(own, n) /\ n \in Nat /\ IsArray(a)
  BY TilesOfArray DEF Sound
<1>2. DOMAIN des = 1 .. n /\ DOMAIN own = 1 .. n
  BY <1>1, TileIsFunction
<1>3. c \in [1 .. n -> Nat] /\ \A d \in 1 .. n : c[d] < Size(des[d])
  BY <1>1, LocalIndex
<1>4. /\ g \in [1 .. n -> Nat]
      /\ \A d \in 1 .. n : g[d] = c[d] + des[d].start
  BY <1>1, GlobalOfLocal
<1>5. \A d \in 1 .. n :
        /\ des[d].start \in Nat /\ des[d].stop \in Nat
        /\ Size(des[d]) = des[d].stop - des[d].start
        /\ own[d].start \in Nat /\ own[d].stop \in Nat
  BY <1>1, TileIsFunction
<1>6. Retiled(a, s, des)[c] =
        IF subset
        THEN a.data[s][[d \in 1 .. n |-> c[d] + (des[d].start - own[d].start)]]
        ELSE Fetched(a, s, des, c)
  BY <1>2, Zenon DEF Retiled
<1>7. \A w \in Sites :
        /\ Writes(a, s, w, des, c) <=> Holds(a.tiles[w], g)
        /\ Holds(a.tiles[w], g) => Copied(a, s, w, des, c) = At(a, w, g)
  BY <1>1, PiecesOfTiles
<1>8. \A w \in Sites : Holds(a.tiles[w], g) => Found(a, g) = At(a, w, g)
  BY <1>4, AnyHolderWillDo
<1> HIDE DEF g, own, n
<1>9. CASE subset
  <2>1. \A d \in 1 .. n : own[d].start <= g[d] /\ g[d] < own[d].stop
    BY <1>2, <1>3, <1>4, <1>5, <1>9, SMT
  <2>2. Holds(own, g)
    BY <1>2, <2>1 DEF Holds, InSpan
  <2>3. At(a, s, g) = a.data[s][[d \in 1 .. n |-> g[d] - own[d].start]]
    BY <1>2 DEF At, ToLocal, own
  <2>4. \A d \in 1 .. n : c[d] + (des[d].start - own[d].start) = g[d] - own[d].start
    BY <1>3, <1>4, <1>5, SMT
  <2>5. Retiled(a, s, des)[c] = At(a, s, g)
    BY <1>6, <1>9, <2>3, <2>4
  <2> QED
    BY <1>8, <2>2, <2>5 DEF own, g
<1>10. CASE ~subset
  <2> DEFINE others == {w \in Sites \ {s} : Writes(a, s, w, des, c)}
             last == Largest(others)
  <2>1. CASE others # {}
    <3>1. others \subseteq Nat /\ NumSites \in Nat /\ \A x \in others : x <= NumSites
      BY SitesNotEmpty, SMT DEF Sites
    <3>2. last \in others
      <4> HIDE DEF others
      <4> QED
        BY <2>1, <3>1, LargestElement
    <3>3. last \in Sites /\ Writes(a, s, last, des, c)
      BY <3>2
    <3>4. Fetched(a, s, des, c) = Copied(a, s, last, des, c)
      BY <2>1, Zenon DEF Fetched
    <3> HIDE DEF last
    <3> QED
      BY <1>6, <1>7, <1>8, <1>10, <3>3, <3>4 DEF g
  <2>2. CASE others = {} /\ Writes(a, s, s, des, c)
    <3>1. Fetched(a, s, des, c) = Copied(a, s, s, des, c)
      BY <2>2, Zenon DEF Fetched
    <3> QED
      BY <1>6, <1>7, <1>8, <1>10, <2>2, <3>1 DEF g
  <2>3. CASE others = {} /\ ~Writes(a, s, s, des, c)
    <3>1. Fetched(a, s, des, c) = Junk
      BY <2>3, Zenon DEF Fetched
    <3>2. \A w \in Sites : ~Writes(a, s, w, des, c)
      BY <2>3
    <3>3. Found(a, g) = Junk
      BY <1>7, <3>2 DEF Found
    <3> QED
      BY <1>6, <1>10, <3>1, <3>3 DEF g
  <2> QED
    BY <2>1, <2>2, <2>3
<1> QED
  BY <1>9, <1>10

-----------------------------------------------------------------------------
(* The tiles the operations ask for.                                        *)
LEMMA EvenTileIsSpan ==
    ASSUME NEW dim \in Nat, NEW n \in Nat \ {0}, n <= dim, NEW i \in Nat
    PROVE  /\ EvenTile(i, dim, n) \in IsSpan
           /\ EvenTile(i, dim, n).start < EvenTile(i, dim, n).stop
<1>1. /\ EvenTile(i, dim, n).start = TileStart(i, dim, n)
      /\ EvenTile(i, dim, n).stop = TileStart(i + 1, dim, n)
      /\ TileStart(i, dim, n) \in Nat
      /\ TileStart(i + 1, dim, n) >= TileStart(i, dim, n) + dim \div n
      /\ dim \div n \in Nat /\ dim \div n >= 1
  BY TileFollowsTile
<1>2. i + 1 \in Nat
  OBVIOUS
<1>3. TileStart(i + 1, dim, n) \in Nat
  BY <1>2, TileFollowsTile
<1>4. EvenTile(i, dim, n) =
        [start |-> EvenTile(i, dim, n).start, stop |-> EvenTile(i, dim, n).stop]
  BY DEF EvenTile, Span
<1>5. EvenTile(i, dim, n).start < EvenTile(i, dim, n).stop
  BY <1>1, <1>3, SMT
<1> QED
  BY <1>1, <1>3, <1>4, <1>5 DEF IsSpan

LEMMA TileCalculationIsTile ==
    ASSUME NEW dims, IsDims(dims), NEW type, NEW n \in Nat \ {0},
           Tileable(type, dims, n), NEW idx \in Nat
    PROVE  IsTile(TileCalculation(idx, type, dims, n), Len(dims))
<1> DEFINE tile == TileCalculation(idx, type, dims, n)
           N == Len(dims)
           D == Divisors(type, dims, n)
<1>1. N \in Nat /\ \A d \in 1 .. N : dims[d] \in Nat
  <2>1. dims \in Seq(Nat \ {0})
    BY DEF IsDims
  <2> QED
    BY <2>1, ElementOfSeq, LenProperties
<1>2. /\ D \in [1 .. N -> Nat \ {0}]
      /\ tile = [d \in 1 .. N |-> tile[d]]
      /\ \A d \in 1 .. N : \E i \in Nat : tile[d] = EvenTile(i, dims[d], D[d])
  BY TileOfEachDimension
<1>3. \A d \in 1 .. N : D[d] <= dims[d]
  BY <1>1, <1>2, SMT DEF Tileable
<1> HIDE DEF D, tile, N
<1>4. \A d \in 1 .. N : tile[d] \in IsSpan /\ tile[d].start < tile[d].stop
  BY <1>1, <1>2, <1>3, EvenTileIsSpan
<1>5. DOMAIN tile = 1 .. N
  BY <1>2
<1>6. IsTile(tile, N)
  BY <1>1, <1>2, <1>4, <1>5, FunctionIsTile
<1> QED
  BY <1>6 DEF tile, N

(* A tile that is extended on its sides and still within the array is a     *)
(* tile.                                                                    *)
LEMMA OverlapIsSpan ==
    ASSUME NEW span \in IsSpan, span.start < span.stop, NEW dim \in Nat, NEW k \in Nat,
           WithinArray(Overlap(span, dim, k), dim)
    PROVE  /\ Overlap(span, dim, k) \in IsSpan
           /\ Overlap(span, dim, k).start < Overlap(span, dim, k).stop
<1>1. span.start \in Nat /\ span.stop \in Nat
  BY DEF IsSpan
<1> DEFINE new == Overlap(span, dim, k)
<1>2. new = [start |-> IF span.stop # dim /\ span.start = 0 THEN 0
                       ELSE span.start - k,
             stop |-> IF span.stop = dim THEN dim ELSE span.stop + k]
  BY DEF Overlap, Span
<1>3. new.start >= 0
  BY DEF WithinArray
<1> HIDE DEF new
<1>4. /\ new.start \in Nat /\ new.stop \in Nat /\ new.start < new.stop
      /\ new = [start |-> new.start, stop |-> new.stop]
  BY <1>1, <1>2, <1>3, SMT
<1>5. new \in IsSpan
  BY <1>4, Zenon DEF IsSpan
<1> QED
  BY <1>4, <1>5 DEF new

LEMMA DesiredIsTile ==
    ASSUME NEW dims, IsDims(dims), NEW type, NEW n \in Nat \ {0},
           NEW ks \in Seq(Nat), Len(ks) = Len(dims),
           NEW s \in Sites, s \notin Throwing(type, dims, n, ks)
    PROVE  IsTile(DesiredTile(s, type, dims, n, ks), Len(dims))
<1> DEFINE tile == TileCalculation(s, type, dims, n)
           desired == DesiredTile(s, type, dims, n, ks)
           N == Len(dims)
           O == Overlapped(tile, dims, ks)
<1>1. /\ N \in Nat
      /\ \A d \in 1 .. N : dims[d] \in Nat /\ ks[d] \in Nat
  <2>1. dims \in Seq(Nat \ {0})
    BY DEF IsDims
  <2> QED
    BY <2>1, ElementOfSeq, LenProperties
<1>2. /\ Tileable(type, dims, n)
      /\ \A d \in O : WithinArray(desired[d], dims[d])
  BY DEF Throwing
<1>3. IsTile(tile, N)
  <2>1. s \in Nat
    BY SitesNotEmpty
  <2> QED
    BY <1>2, <2>1, TileCalculationIsTile
<1>4. DOMAIN tile = 1 .. N
  BY <1>1, <1>3, TileIsFunction
<1>5. desired = [d \in 1 .. N |-> IF d \in O THEN Overlap(tile[d], dims[d], ks[d])
                                  ELSE tile[d]]
  BY <1>4 DEF DesiredTile
<1> HIDE DEF tile, desired, N, O
<1>6. ASSUME NEW d \in 1 .. N
      PROVE  desired[d] \in IsSpan /\ desired[d].start < desired[d].stop
  <2>1. tile[d] \in IsSpan /\ tile[d].start < tile[d].stop
    BY <1>1, <1>3, TileIsFunction
  <2>2. CASE d \in O
    <3>1. desired[d] = Overlap(tile[d], dims[d], ks[d])
      BY <1>5, <2>2
    <3>2. WithinArray(Overlap(tile[d], dims[d], ks[d]), dims[d])
      BY <1>2, <2>2, <3>1
    <3>3. dims[d] \in Nat /\ ks[d] \in Nat
      BY <1>1
    <3> QED
      BY <2>1, <3>1, <3>2, <3>3, OverlapIsSpan
  <2>3. CASE d \notin O
    BY <1>5, <2>1, <2>3
  <2> QED
    BY <2>2, <2>3
<1>7. DOMAIN desired = 1 .. N /\ desired = [d \in 1 .. N |-> desired[d]]
  BY <1>5
<1>8. IsTile(desired, N)
  BY <1>1, <1>6, <1>7, FunctionIsTile
<1> QED
  BY <1>8 DEF desired, N

(* tile_extraction_2d, tile_extraction_3d: exchanging spans of a list gives *)
(* a list of the same spans.                                                *)
LEMMA ExchangeKeepsSpans ==
    ASSUME NEW n \in Nat, NEW R, NEW f \in [1 .. n -> R],
           NEW i \in 1 .. n, NEW j \in 1 .. n
    PROVE  Exchange(f, <<i, j>>) \in [1 .. n -> R]
<1>1. Exchange(f, <<i, j>>) = [f EXCEPT ![i] = f[j], ![j] = f[i]]
  BY DEF Exchange
<1> QED
  BY <1>1

LEMMA ExtractionIsTile ==
    ASSUME NEW named \in UserTiles
    PROVE  IsTile(TileExtraction(named), Len(named)) /\ Len(named) \in 1 .. 3
<1> DEFINE n == Len(named)
           R == {r \in [name : {"pages", "rows", "columns"}, start : Nat, stop : Nat] :
                    r.start < r.stop}
           names == [i \in DOMAIN named |-> named[i].name]
           xs == Exchanges(names)
           listed == ExchangeAll(named, xs)
<1>1. /\ named \in Seq([name : {"pages", "rows", "columns"}, start : Nat, stop : Nat])
      /\ n \in 1 .. 3
      /\ \A i \in 1 .. n : named[i].start < named[i].stop
  BY TiledArraysAssumption
<1>2. n \in Nat /\ DOMAIN named = 1 .. n
      /\ named \in [1 .. n -> [name : {"pages", "rows", "columns"},
                               start : Nat, stop : Nat]]
  BY <1>1, LenProperties
<1>3. named \in [1 .. n -> R]
  BY <1>1, <1>2
<1>4. names = [i \in 1 .. n |-> named[i].name]
  BY <1>2
<1> HIDE DEF n, R, names, xs
<1>5. \/ xs = << >>
      \/ n = 2 /\ xs = << <<1, 2>> >>
      \/ n = 3 /\ \/ xs = << <<2, 3>> >>
                  \/ xs = << <<1, 2>>, <<1, 3>> >>
                  \/ xs = << <<1, 2>> >>
                  \/ xs = << <<1, 2>>, <<2, 3>> >>
                  \/ xs = << <<1, 3>> >>
  <2>1. DOMAIN names = 1 .. n /\ n \in Nat
    BY <1>2, <1>4
  <2>2. names = <<"columns", "rows">> => n = 2
    <3> SUFFICES ASSUME names = <<"columns", "rows">> PROVE n = 2
      OBVIOUS
    <3>1. DOMAIN names = 1 .. 2
      OBVIOUS
    <3> QED
      BY <2>1, <3>1, SMT
  <2>3. ASSUME NEW x, NEW y, NEW z, names = <<x, y, z>> PROVE n = 3
    <3>1. DOMAIN names = 1 .. 3
      BY <2>3
    <3> QED
      BY <2>1, <3>1, SMT
  <2> QED
    BY <2>2, <2>3 DEF xs, Exchanges
<1>6. listed \in [1 .. n -> R]
  <2>1. CASE xs = << >>
    <3>1. listed = named
      BY <2>1, SMT DEF ExchangeAll
    <3> QED
      BY <1>3, <3>1
  <2>2. ASSUME NEW x, xs = <<x>> PROVE listed = Exchange(named, x)
    BY <2>2, SMT DEF ExchangeAll
  <2>3. ASSUME NEW x, NEW y, xs = <<x, y>>
        PROVE  listed = Exchange(Exchange(named, x), y)
    BY <2>3, SMT DEF ExchangeAll
  <2> HIDE DEF listed
  <2>4. CASE n = 2 /\ xs = << <<1, 2>> >>
    <3>1. 1 \in 1 .. n /\ 2 \in 1 .. n
      BY <2>4, SMT
    <3>2. Exchange(named, <<1, 2>>) \in [1 .. n -> R]
      BY <1>2, <1>3, <3>1, ExchangeKeepsSpans
    <3>3. listed = Exchange(named, <<1, 2>>)
      BY <2>2, <2>4
    <3> QED
      BY <3>2, <3>3
  <2>5. CASE n = 3 /\ \/ xs = << <<2, 3>> >>
                      \/ xs = << <<1, 2>>, <<1, 3>> >>
                      \/ xs = << <<1, 2>> >>
                      \/ xs = << <<1, 2>>, <<2, 3>> >>
                      \/ xs = << <<1, 3>> >>
    <3>1. 1 \in 1 .. n /\ 2 \in 1 .. n /\ 3 \in 1 .. n
      BY <2>5, SMT
    <3>2. /\ Exchange(named, <<1, 2>>) \in [1 .. n -> R]
          /\ Exchange(named, <<1, 3>>) \in [1 .. n -> R]
          /\ Exchange(named, <<2, 3>>) \in [1 .. n -> R]
      BY <1>2, <1>3, <3>1, ExchangeKeepsSpans
    <3>3. /\ Exchange(Exchange(named, <<1, 2>>), <<1, 3>>) \in [1 .. n -> R]
          /\ Exchange(Exchange(named, <<1, 2>>), <<2, 3>>) \in [1 .. n -> R]
      BY <1>2, <3>1, <3>2, ExchangeKeepsSpans
    <3> QED
      BY <2>2, <2>3, <2>5, <3>2, <3>3
  <2> QED
    BY <1>5, <2>1, <2>4, <2>5
<1>7. TileExtraction(named) =
        [d \in 1 .. n |-> [start |-> listed[d].start, stop |-> listed[d].stop]]
  BY <1>2 DEF TileExtraction, Span, names, xs
<1> HIDE DEF listed
<1>8. \A d \in 1 .. n : /\ listed[d].start \in Nat /\ listed[d].stop \in Nat
                        /\ listed[d].start < listed[d].stop
  BY <1>6 DEF R
<1>9. \A d \in 1 .. n : /\ TileExtraction(named)[d] \in IsSpan
                        /\ TileExtraction(named)[d].start < TileExtraction(named)[d].stop
  BY <1>7, <1>8 DEF IsSpan
<1>10. /\ DOMAIN TileExtraction(named) = 1 .. n
       /\ TileExtraction(named) = [d \in 1 .. n |-> TileExtraction(named)[d]]
  BY <1>7
<1>11. IsTile(TileExtraction(named), n)
  BY <1>2, <1>9, <1>10, FunctionIsTile
<1> QED
  BY <1>1, <1>11 DEF n

-----------------------------------------------------------------------------
(* What the operations leave.                                               *)

(* retile_d: whatever tiles are asked for, every element that some site had *)
(* keeps its value, on all sites that have it now.                          *)
LEMMA RetiledIsSound ==
    ASSUME NEW a, Sound(a), NEW desired, desired = [s \in Sites |-> desired[s]],
           \A s \in Sites : IsTile(desired[s], Rank(a))
    PROVE  /\ HasValues(Rank(a), desired, [s \in Sites |-> Retiled(a, s, desired[s])],
                        [g \in [1 .. Rank(a) -> Nat] |-> Found(a, g)])
           /\ Sound([tiles |-> desired,
                     data |-> [s \in Sites |-> Retiled(a, s, desired[s])]])
<1> DEFINE n == Rank(a)
           data == [s \in Sites |-> Retiled(a, s, desired[s])]
           V == [g \in [1 .. n -> Nat] |-> Found(a, g)]
<1>1. n \in 1 .. 3 /\ n \in Nat
  BY SMT DEF Sound
<1>2. ASSUME NEW s \in Sites
      PROVE  /\ DOMAIN data[s] = LocalIndices(desired[s])
             /\ \A c \in LocalIndices(desired[s]) :
                    data[s][c] = V[ToGlobal(desired[s], c)]
  <2>1. data[s] = Retiled(a, s, desired[s])
    OBVIOUS
  <2>2. DOMAIN data[s] = LocalIndices(desired[s])
    BY <2>1, Zenon DEF Retiled
  <2>3. ASSUME NEW c \in LocalIndices(desired[s])
        PROVE  data[s][c] = V[ToGlobal(desired[s], c)]
    <3>1. data[s][c] = Found(a, ToGlobal(desired[s], c))
      BY <2>1, RetiledFinds
    <3>2. ToGlobal(desired[s], c) \in [1 .. n -> Nat]
      BY <1>1, GlobalOfLocal
    <3> QED
      BY <3>1, <3>2
  <2> QED
    BY <2>2, <2>3
<1> HIDE DEF V, data, n
<1>3. \A s \in Sites : IsTile(desired[s], n)
  BY DEF n
<1>4. HasValues(n, desired, data, V)
  BY <1>2, <1>3 DEF HasValues
<1>5. Sound([tiles |-> desired, data |-> data])
  BY <1>1, <1>4, DataByGlobalIndex
<1> QED
  BY <1>4, <1>5 DEF data, V, n

(* transpose_d: the axes are a permutation of the dimensions.               *)
LEMMA AxesOnto ==
    ASSUME NEW n \in 1 .. 3, NEW axes \in Axes(n), NEW d \in 1 .. n
    PROVE  \E i \in 1 .. n : axes[i] = d
<1>1. /\ axes \in [1 .. n -> 1 .. n]
      /\ \A i, j \in 1 .. n : axes[i] = axes[j] => i = j
  BY DEF Axes
<1>2. n = 1 \/ n = 2 \/ n = 3
  BY SMT
<1>3. CASE n = 1
  BY <1>1, <1>3, SMT
<1>4. CASE n = 2
  <2>1. /\ axes[1] \in 1 .. 2 /\ axes[2] \in 1 .. 2 /\ axes[1] # axes[2]
    BY <1>1, <1>4, SMT
  <2>2. axes[1] = d \/ axes[2] = d
    BY <1>4, <2>1, SMT
  <2> QED
    BY <1>4, <2>2, SMT
<1>5. CASE n = 3
  <2>1. /\ axes[1] \in 1 .. 3 /\ axes[2] \in 1 .. 3 /\ axes[3] \in 1 .. 3
        /\ axes[1] # axes[2] /\ axes[1] # axes[3] /\ axes[2] # axes[3]
    BY <1>1, <1>5, SMT
  <2>2. axes[1] = d \/ axes[2] = d \/ axes[3] = d
    BY <1>5, <2>1, SMT
  <2> QED
    BY <1>5, <2>2, SMT
<1> QED
  BY <1>2, <1>3, <1>4, <1>5

(* Where the element with index g of the transposed array comes from.       *)
Back(n, axes, g) == [d \in 1 .. n |-> g[CHOOSE i \in 1 .. n : axes[i] = d]]

LEMMA TransposedIsSound ==
    ASSUME NEW a, Sound(a), NEW axes \in Axes(Rank(a)), NEW tiles, NEW data,
           tiles = [s \in Sites |-> Transposed(a.tiles[s], axes)],
           data = [s \in Sites |-> TransposedData(a.data[s], a.tiles[s], axes)]
    PROVE  /\ HasValues(Rank(a), tiles, data,
                        [g \in [1 .. Rank(a) -> Nat] |->
                            Found(a, Back(Rank(a), axes, g))])
           /\ Sound([tiles |-> tiles, data |-> data])
<1> DEFINE n == Rank(a)
           inv(d) == CHOOSE i \in 1 .. n : axes[i] = d
           back(g) == [d \in 1 .. n |-> g[inv(d)]]
           V == [g \in [1 .. n -> Nat] |-> Found(a, back(g))]
<1>1. n \in 1 .. 3 /\ n \in Nat /\ IsArray(a)
  BY SMT DEF Sound
<1>2. /\ axes \in [1 .. n -> 1 .. n]
      /\ \A d \in 1 .. n : inv(d) \in 1 .. n /\ axes[inv(d)] = d
  BY <1>1, AxesOnto DEF Axes
<1> HIDE DEF inv
<1>3. ASSUME NEW s \in Sites
      PROVE  /\ IsTile(tiles[s], n)
             /\ DOMAIN data[s] = LocalIndices(tiles[s])
             /\ \A c \in LocalIndices(tiles[s]) :
                    data[s][c] = V[ToGlobal(tiles[s], c)]
  <2> DEFINE old == a.tiles[s]
  <2>1. IsTile(old, n)
    BY <1>1, TilesOfArray
  <2>2. /\ DOMAIN old = 1 .. n
        /\ \A d \in 1 .. n : /\ old[d] \in IsSpan /\ old[d].start < old[d].stop
                             /\ old[d].start \in Nat
    BY <1>1, <2>1, TileIsFunction
  <2>3. tiles[s] = [i \in 1 .. n |-> old[axes[i]]]
    BY <2>2 DEF Transposed
  <2>4. IsTile(tiles[s], n)
    <3>1. DOMAIN tiles[s] = 1 .. n /\ tiles[s] = [i \in 1 .. n |-> tiles[s][i]]
      BY <2>3
    <3>2. \A i \in 1 .. n : tiles[s][i] \in IsSpan /\ tiles[s][i].start < tiles[s][i].stop
      <4> SUFFICES ASSUME NEW i \in 1 .. n
                   PROVE  tiles[s][i] \in IsSpan /\ tiles[s][i].start < tiles[s][i].stop
        OBVIOUS
      <4>1. axes[i] \in 1 .. n /\ tiles[s][i] = old[axes[i]]
        BY <1>2, <2>3
      <4> QED
        BY <2>2, <4>1
    <3> HIDE DEF n
    <3> QED
      BY <1>1, <3>1, <3>2, FunctionIsTile
  <2>5. DOMAIN data[s] = LocalIndices(tiles[s])
    BY Zenon DEF TransposedData
  <2>6. ASSUME NEW c \in LocalIndices(tiles[s])
        PROVE  data[s][c] = V[ToGlobal(tiles[s], c)]
    <3> DEFINE g == ToGlobal(tiles[s], c)
               e == back(c)
    <3>1. c \in [1 .. n -> Nat] /\ \A d \in 1 .. n : c[d] < Size(tiles[s][d])
      BY <1>1, <2>4, LocalIndex
    <3>2. data[s][c] = a.data[s][e]
      <4> DEFINE J(d) == CHOOSE i \in DOMAIN c : axes[i] = d
      <4>1. data[s][c] = a.data[s][[d \in DOMAIN c |-> c[J(d)]]]
        BY Zenon DEF TransposedData
      <4>2. DOMAIN c = 1 .. n
        BY <3>1
      <4>3. \A d \in 1 .. n : J(d) = inv(d)
        BY <4>2 DEF inv
      <4> HIDE DEF J
      <4>4. [d \in DOMAIN c |-> c[J(d)]] = e
        BY <4>2, <4>3
      <4> QED
        BY <4>1, <4>4
    <3>3. e \in LocalIndices(old)
      <4>1. e \in [1 .. n -> Nat]
        BY <1>2, <3>1
      <4>2. \A d \in 1 .. n : e[d] < Size(old[d])
        <5> SUFFICES ASSUME NEW d \in 1 .. n PROVE e[d] < Size(old[d])
          OBVIOUS
        <5>1. e[d] = c[inv(d)] /\ inv(d) \in 1 .. n /\ axes[inv(d)] = d
          BY <1>2
        <5>2. c[inv(d)] < Size(tiles[s][inv(d)])
          BY <3>1, <5>1
        <5>3. tiles[s][inv(d)] = old[d]
          BY <2>3, <5>1
        <5> QED
          BY <5>1, <5>2, <5>3
      <4> QED
        BY <1>1, <2>1, <4>1, <4>2, LocalIndex
    <3>4. /\ g \in [1 .. n -> Nat]
          /\ \A d \in 1 .. n : g[d] = c[d] + tiles[s][d].start
      BY <1>1, <2>4, GlobalOfLocal
    <3>5. /\ ToGlobal(old, e) \in [1 .. n -> Nat]
          /\ \A d \in 1 .. n : ToGlobal(old, e)[d] = e[d] + old[d].start
          /\ Holds(old, ToGlobal(old, e))
          /\ ToLocal(old, ToGlobal(old, e)) = e
      <4> HIDE DEF e, n
      <4> QED
        BY <1>1, <2>1, <3>3, GlobalOfLocal
    <3>6. ToGlobal(old, e) = back(g)
      <4>1. \A d \in 1 .. n : ToGlobal(old, e)[d] = g[inv(d)]
        <5> SUFFICES ASSUME NEW d \in 1 .. n PROVE ToGlobal(old, e)[d] = g[inv(d)]
          OBVIOUS
        <5>1. e[d] = c[inv(d)] /\ inv(d) \in 1 .. n /\ axes[inv(d)] = d
          BY <1>2
        <5>2. tiles[s][inv(d)] = old[d]
          BY <2>3, <5>1
        <5>3. g[inv(d)] = c[inv(d)] + tiles[s][inv(d)].start
          BY <3>4, <5>1
        <5> QED
          BY <3>5, <5>1, <5>2, <5>3
      <4> QED
        BY <3>5, <4>1
    <3>7. Found(a, back(g)) = At(a, s, back(g))
      BY <3>5, <3>6, AnyHolderWillDo
    <3>8. At(a, s, back(g)) = a.data[s][e]
      BY <3>5, <3>6 DEF At
    <3>9. V[g] = Found(a, back(g))
      BY <3>4
    <3> QED
      BY <3>2, <3>7, <3>8, <3>9
  <2> QED
    BY <2>4, <2>5, <2>6
<1> HIDE DEF V
<1>4. tiles = [s \in Sites |-> tiles[s]]
  BY Zenon
<1>5. HasValues(n, tiles, data, V)
  BY <1>3, <1>4 DEF HasValues
<1>6. V = [g \in [1 .. n -> Nat] |-> Found(a, Back(n, axes, g))]
  BY Zenon DEF V, Back, inv
<1>7. Sound([tiles |-> tiles, data |-> data])
  BY <1>1, <1>5, DataByGlobalIndex
<1> QED
  BY <1>5, <1>6, <1>7

(* diag_d: every site fills its band with the part of the vector that       *)
(* belongs there, wherever its tile begins.                                 *)
DiagValue(a, k, g) ==
    IF g[2] - g[1] = k THEN Found(a, <<IF k < 0 THEN g[2] ELSE g[1]>>) ELSE 0

LEMMA BandOfTile ==
    ASSUME NEW r \in IsSpan, r.start < r.stop, NEW q \in IsSpan, q.start < q.stop,
           NEW type \in {"row", "column", "sym"}, NEW k \in Int,
           type = "row" => q.start = 0, type = "column" => r.start = 0,
           NEW c1 \in Nat, c1 < Size(r), NEW c2 \in Nat, c2 < Size(q)
    PROVE  LET band == NumBand(type, <<r, q>>, k)
               start == BandStart(type, <<r, q>>, k)
               diagonal == (c2 + q.start) - (c1 + r.start) = k
           IN  /\ c2 - c1 = band <=> diagonal
               /\ diagonal =>
                    /\ HasBand(<<r, q>>, band)
                    /\ start \in Nat
                    /\ BandSize(<<r, q>>, band) \in Nat
                    /\ Least(c1, c2) \in Nat
                    /\ Least(c1, c2) < BandSize(<<r, q>>, band)
                    /\ Least(c1, c2) + start =
                        IF k < 0 THEN c2 + q.start ELSE c1 + r.start
<1> DEFINE band == NumBand(type, <<r, q>>, k)
           start == BandStart(type, <<r, q>>, k)
           diagonal == (c2 + q.start) - (c1 + r.start) = k
<1>1. /\ r.start \in Nat /\ r.stop \in Nat /\ q.start \in Nat /\ q.stop \in Nat
      /\ Size(r) = r.stop - r.start /\ Size(q) = q.stop - q.start
  BY DEF IsSpan, Size
<1>2. <<r, q>>[1] = r /\ <<r, q>>[2] = q
  OBVIOUS
<1>3. band = k - (q.start - r.start)
  <2>1. band = CASE type = "row" -> r.start + k
                 [] type = "column" -> k - q.start
                 [] type = "sym" -> k - (q.start - r.start)
    BY <1>2 DEF NumBand
  <2>2. CASE type = "row"
    BY <1>1, <2>1, <2>2, SMT
  <2>3. CASE type = "column"
    BY <1>1, <2>1, <2>3, SMT
  <2>4. CASE type = "sym"
    BY <1>1, <2>1, <2>4, SMT
  <2> QED
    BY <2>2, <2>3, <2>4
<1>4. start = IF k < 0 THEN Greatest(q.start, q.start + band)
              ELSE Greatest(r.start, r.start - band)
  <2>1. start = CASE type = "row" -> IF k < 0 THEN Greatest(0, band) ELSE r.start
                  [] type = "column" -> IF k < 0 THEN q.start ELSE Greatest(0, -band)
                  [] type = "sym" -> IF k < 0 THEN Greatest(q.start, q.start + band)
                                     ELSE Greatest(r.start, r.start - band)
    BY <1>2 DEF BandStart
  <2>2. CASE type = "row"
    <3>1. q.start = 0
      BY <2>2
    <3> QED
      BY <1>1, <1>3, <2>1, <2>2, <3>1, SMT DEF Greatest
  <2>3. CASE type = "column"
    <3>1. r.start = 0
      BY <2>3
    <3> QED
      BY <1>1, <1>3, <2>1, <2>3, <3>1, SMT DEF Greatest
  <2>4. CASE type = "sym"
    BY <2>1, <2>4
  <2> QED
    BY <2>2, <2>3, <2>4
<1> HIDE DEF band, start
<1>5. c2 - c1 = band <=> diagonal
  BY <1>1, <1>3, SMT
<1>6. ASSUME diagonal
      PROVE  /\ HasBand(<<r, q>>, band)
             /\ start \in Nat
             /\ BandSize(<<r, q>>, band) \in Nat
             /\ Least(c1, c2) \in Nat
             /\ Least(c1, c2) < BandSize(<<r, q>>, band)
             /\ Least(c1, c2) + start = IF k < 0 THEN c2 + q.start ELSE c1 + r.start
  <2>1. band = c2 - c1 /\ band \in Int
    BY <1>1, <1>5, <1>6, SMT
  <2>2. HasBand(<<r, q>>, band)
    BY <1>1, <1>2, <2>1, SMT DEF HasBand, Greatest, Least
  <2>3. BandSize(<<r, q>>, band) = IF band < 0 THEN Least(Size(q), Size(r) + band)
                                   ELSE Least(Size(r), Size(q) - band)
    BY <1>2 DEF BandSize
  <2>4. /\ BandSize(<<r, q>>, band) \in Nat
        /\ Least(c1, c2) \in Nat
        /\ Least(c1, c2) < BandSize(<<r, q>>, band)
    BY <1>1, <2>1, <2>3, SMT DEF Least
  <2>5. /\ start \in Nat
        /\ Least(c1, c2) + start = IF k < 0 THEN c2 + q.start ELSE c1 + r.start
    BY <1>1, <1>4, <1>6, <2>1, SMT DEF Least, Greatest
  <2> QED
    BY <2>2, <2>4, <2>5
<1> QED
  BY <1>5, <1>6 DEF band, start

LEMMA DiagTileValue ==
    ASSUME NEW a, Sound(a), Rank(a) = 1, NEW s \in Sites,
           NEW type \in {"row", "column", "sym"}, NEW k \in Int,
           NEW tile, IsTile(tile, 2), tile = <<tile[1], tile[2]>>,
           type = "row" => tile[2].start = 0,
           type = "column" => tile[1].start = 0,
           NEW c \in LocalIndices(tile)
    PROVE  DiagTile(a, s, type, tile, k)[c] = DiagValue(a, k, ToGlobal(tile, c))
<1> DEFINE band == NumBand(type, tile, k)
           start == BandStart(type, tile, k)
           size == BandSize(tile, band)
           des == <<Span(start, start + size)>>
           g == ToGlobal(tile, c)
           e == <<Least(c[1], c[2])>>
           diagonal == (c[2] + tile[2].start) - (c[1] + tile[1].start) = k
<1>1. 2 \in Nat /\ 1 \in Nat /\ 1 \in 1 .. 2 /\ 2 \in 1 .. 2
  BY SMT
<1>2. \A d \in 1 .. 2 : tile[d] \in IsSpan /\ tile[d].start < tile[d].stop
  BY <1>1, TileIsFunction
<1>3. c \in [1 .. 2 -> Nat] /\ \A d \in 1 .. 2 : c[d] < Size(tile[d])
  BY <1>1, LocalIndex
<1>4. /\ g[1] = c[1] + tile[1].start /\ g[2] = c[2] + tile[2].start
  BY <1>1, GlobalOfLocal
<1>5. /\ c[2] - c[1] = band <=> diagonal
      /\ diagonal =>
            /\ HasBand(tile, band)
            /\ start \in Nat
            /\ size \in Nat
            /\ Least(c[1], c[2]) \in Nat
            /\ Least(c[1], c[2]) < size
            /\ Least(c[1], c[2]) + start =
                IF k < 0 THEN c[2] + tile[2].start ELSE c[1] + tile[1].start
  <2>1. /\ tile[1] \in IsSpan /\ tile[1].start < tile[1].stop
        /\ tile[2] \in IsSpan /\ tile[2].start < tile[2].stop
        /\ c[1] \in Nat /\ c[1] < Size(tile[1])
        /\ c[2] \in Nat /\ c[2] < Size(tile[2])
    BY <1>1, <1>2, <1>3
  <2> DEFINE r == tile[1]
             q == tile[2]
             x == c[1]
             y == c[2]
  <2>2. LET b == NumBand(type, <<r, q>>, k)
            st == BandStart(type, <<r, q>>, k)
            dg == (y + q.start) - (x + r.start) = k
        IN  /\ y - x = b <=> dg
            /\ dg =>
                /\ HasBand(<<r, q>>, b)
                /\ st \in Nat
                /\ BandSize(<<r, q>>, b) \in Nat
                /\ Least(x, y) \in Nat
                /\ Least(x, y) < BandSize(<<r, q>>, b)
                /\ Least(x, y) + st =
                    IF k < 0 THEN y + q.start ELSE x + r.start
    <3>1. /\ r \in IsSpan /\ r.start < r.stop /\ q \in IsSpan /\ q.start < q.stop
          /\ x \in Nat /\ x < Size(r) /\ y \in Nat /\ y < Size(q)
          /\ type = "row" => q.start = 0
          /\ type = "column" => r.start = 0
      BY <2>1
    <3> HIDE DEF r, q, x, y
    <3> QED
      BY <3>1, BandOfTile
  <2>3. <<r, q>> = tile
    OBVIOUS
  <2> QED
    BY <2>2, <2>3
<1>6. DiagTile(a, s, type, tile, k)[c] =
        IF HasBand(tile, band) /\ c[2] - c[1] = band
        THEN Retiled(a, s, des)[e] ELSE 0
  BY Zenon DEF DiagTile
<1> HIDE DEF band, start, size, g
<1>7. CASE diagonal
  <2>1. DiagTile(a, s, type, tile, k)[c] = Retiled(a, s, des)[e]
    BY <1>5, <1>6, <1>7
  <2>2. start \in Nat /\ size \in Nat /\ size > 0 /\ start + size \in Nat
    BY <1>5, <1>7, SMT
  <2>3. IsTile(des, 1)
    <3>1. /\ Span(start, start + size) \in IsSpan
          /\ Span(start, start + size).start < Span(start, start + size).stop
      BY <2>2, SMT DEF Span, IsSpan
    <3>2. /\ DOMAIN des = 1 .. 1 /\ des = [d \in 1 .. 1 |-> des[d]]
          /\ \A d \in 1 .. 1 : des[d] = Span(start, start + size)
      BY SMT
    <3> HIDE DEF des
    <3> QED
      BY <1>1, <3>1, <3>2, FunctionIsTile
  <2>4. e \in LocalIndices(des)
    <3>1. e \in [1 .. 1 -> Nat] /\ \A d \in 1 .. 1 : e[d] = Least(c[1], c[2])
      BY <1>5, <1>7, SMT
    <3>2. \A d \in 1 .. 1 : des[d] = Span(start, start + size)
      BY SMT
    <3>3. Size(Span(start, start + size)) = size
      BY <2>2, SMT DEF Size, Span
    <3>4. Least(c[1], c[2]) < size
      BY <1>5, <1>7
    <3>5. \A d \in 1 .. 1 : e[d] < Size(des[d])
      BY <3>1, <3>2, <3>3, <3>4
    <3> HIDE DEF e, des
    <3> QED
      BY <1>1, <2>3, <3>1, <3>5, LocalIndex
  <2>5. Retiled(a, s, des)[e] = Found(a, ToGlobal(des, e))
    <3> HIDE DEF e, des
    <3> QED
      BY <2>3, <2>4, RetiledFinds
  <2>6. ToGlobal(des, e) = <<IF k < 0 THEN g[2] ELSE g[1]>>
    <3>1. ToGlobal(des, e) = [d \in 1 .. 1 |-> e[d] + des[d].start]
      BY DEF ToGlobal
    <3>2. \A d \in 1 .. 1 : e[d] + des[d].start = Least(c[1], c[2]) + start
      BY SMT DEF Span
    <3>3. Least(c[1], c[2]) + start = IF k < 0 THEN g[2] ELSE g[1]
      BY <1>4, <1>5, <1>7
    <3> HIDE DEF e, des
    <3>4. ToGlobal(des, e) = [d \in 1 .. 1 |-> IF k < 0 THEN g[2] ELSE g[1]]
      BY <3>1, <3>2, <3>3
    <3> QED
      BY <3>4
  <2>7. g[2] - g[1] = k
    BY <1>4, <1>7
  <2> QED
    BY <2>1, <2>5, <2>6, <2>7 DEF DiagValue, g
<1>8. CASE ~diagonal
  <2>1. g[2] - g[1] # k
    BY <1>4, <1>8
  <2>2. DiagTile(a, s, type, tile, k)[c] = 0
    BY <1>5, <1>6, <1>8
  <2> QED
    BY <2>1, <2>2 DEF DiagValue, g
<1> QED
  BY <1>7, <1>8

LEMMA DiagIsSound ==
    ASSUME NEW a, Sound(a), Rank(a) = 1, NEW type \in {"row", "column", "sym"},
           NEW k \in Int, NEW n \in Nat \ {0}, NEW size \in Nat \ {0},
           NEW tiles, NEW data, Tileable(type, <<size, size>>, n),
           tiles = [s \in Sites |-> TileCalculation(s, type, <<size, size>>, n)],
           data = [s \in Sites |-> DiagTile(a, s, type, tiles[s], k)]
    PROVE  /\ HasValues(2, tiles, data, [g \in [1 .. 2 -> Nat] |-> DiagValue(a, k, g)])
           /\ Sound([tiles |-> tiles, data |-> data])
<1> DEFINE dims == <<size, size>>
           V == [g \in [1 .. 2 -> Nat] |-> DiagValue(a, k, g)]
<1>1. IsDims(dims) /\ Len(dims) = 2
  BY SMT DEF IsDims
<1>2. 2 \in Nat /\ 2 \in 1 .. 3
  BY SMT
<1>3. ASSUME NEW s \in Sites
      PROVE  /\ IsTile(tiles[s], 2)
             /\ tiles[s] = <<tiles[s][1], tiles[s][2]>>
             /\ type = "row" => tiles[s][2].start = 0
             /\ type = "column" => tiles[s][1].start = 0
  <2>1. tiles[s] = TileCalculation(s, type, dims, n)
    OBVIOUS
  <2>2. s \in Nat
    BY SitesNotEmpty
  <2>3. IsTile(tiles[s], 2)
    <3> HIDE DEF dims
    <3>1. IsTile(TileCalculation(s, type, dims, n), Len(dims))
      BY <1>1, <2>2, TileCalculationIsTile DEF dims
    <3> QED
      BY <1>1, <2>1, <3>1
  <2>4. tiles[s] = [d \in 1 .. 2 |-> tiles[s][d]]
    <3>1. tiles[s] \in [1 .. 2 -> IsSpan]
      BY <2>3, LenProperties DEF IsTile
    <3> QED
      BY <3>1
  <2>5. tiles[s] = <<tiles[s][1], tiles[s][2]>>
    BY <2>4
  <2>6. /\ TiledDimension("row", dims, n) = 1
        /\ TiledDimension("column", dims, n) = 2
    BY <1>1, SMT DEF TiledDimension
  <2>7. \A d \in 1 .. 2 : d # TiledDimension(type, dims, n) /\ type \in {"row", "column"}
            => TileCalculation(s, type, dims, n)[d] = Span(0, dims[d])
    <3> SUFFICES ASSUME NEW d \in 1 .. 2, d # TiledDimension(type, dims, n),
                        type \in {"row", "column"}
                 PROVE  TileCalculation(s, type, dims, n)[d] = Span(0, dims[d])
      OBVIOUS
    <3>1. TiledDimension(type, dims, n) # 0
      BY <2>6, SMT
    <3> DEFINE only == TiledDimension(type, dims, n)
    <3>2. TileCalculation(s, type, dims, n) =
            [x \in 1 .. Len(dims) |->
                CASE only = x -> EvenTile(s, dims[x], n)
                  [] only = 0 -> EvenTile(Digit(s, Divisors(type, dims, n), x),
                                          dims[x], Divisors(type, dims, n)[x])
                  [] OTHER -> Span(0, dims[x])]
      BY Zenon DEF TileCalculation
    <3> HIDE DEF only, dims
    <3> QED
      BY <1>1, <3>1, <3>2 DEF only
  <2>8. \A x : Span(0, x).start = 0
    BY DEF Span
  <2>9. 1 \in 1 .. 2 /\ 2 \in 1 .. 2 /\ 1 # 2
    BY SMT
  <2> HIDE DEF dims
  <2>10. type = "row" => tiles[s][2].start = 0
    BY <2>1, <2>6, <2>7, <2>8, <2>9
  <2>11. type = "column" => tiles[s][1].start = 0
    BY <2>1, <2>6, <2>7, <2>8, <2>9
  <2> QED
    BY <2>3, <2>5, <2>10, <2>11
<1>4. ASSUME NEW s \in Sites, NEW c \in LocalIndices(tiles[s])
      PROVE  data[s][c] = V[ToGlobal(tiles[s], c)]
  <2>1. data[s][c] = DiagValue(a, k, ToGlobal(tiles[s], c))
    <3>1. DiagTile(a, s, type, tiles[s], k)[c] = DiagValue(a, k, ToGlobal(tiles[s], c))
      BY <1>3, DiagTileValue
    <3> QED
      BY <3>1
  <2>2. ToGlobal(tiles[s], c) \in [1 .. 2 -> Nat]
    BY <1>2, <1>3, GlobalOfLocal
  <2> QED
    BY <2>1, <2>2
<1>5. ASSUME NEW s \in Sites
      PROVE  DOMAIN data[s] = LocalIndices(tiles[s])
  <2>1. data[s] = DiagTile(a, s, type, tiles[s], k)
    OBVIOUS
  <2> QED
    BY <2>1, Zenon DEF DiagTile
<1>6. tiles = [s \in Sites |-> tiles[s]]
  BY Zenon
<1> HIDE DEF V, dims
<1>7. HasValues(2, tiles, data, V)
  BY <1>3, <1>4, <1>5, <1>6, Zenon DEF HasValues
<1>8. Sound([tiles |-> tiles, data |-> data])
  BY <1>2, <1>7, DataByGlobalIndex
<1> QED
  BY <1>7, <1>8 DEF V

(* Arrays that are created.                                                 *)
LEMMA NewArrayIsSound ==
    ASSUME NEW dims \in Shapes, NEW tiles \in Tilings(dims)
    PROVE  LET data == [s \in Sites |->
                            [c \in LocalIndices(tiles[s]) |->
                                Elements[1 + Flat(dims, ToGlobal(tiles[s], c))]]]
           IN  /\ HasValues(Len(dims), tiles, data,
                            [g \in [1 .. Len(dims) -> Nat] |->
                                Elements[1 + Flat(dims, g)]])
               /\ Sound([tiles |-> tiles, data |-> data])
<1> DEFINE n == Len(dims)
           data == [s \in Sites |->
                        [c \in LocalIndices(tiles[s]) |->
                            Elements[1 + Flat(dims, ToGlobal(tiles[s], c))]]]
           V == [g \in [1 .. n -> Nat] |-> Elements[1 + Flat(dims, g)]]
<1>1. IsDims(dims) /\ n \in 1 .. 3 /\ n \in Nat
  BY TiledArraysAssumption, SMT DEF IsDims
<1>2. tiles = [s \in Sites |-> tiles[s]] /\ \A s \in Sites : IsTile(tiles[s], n)
  <2>1. CASE \E type \in Types(n) : /\ Tileable(type, dims, NumSites)
                                    /\ tiles = [s \in Sites |->
                                        TileCalculation(s, type, dims, NumSites)]
    <3>1. PICK type \in Types(n) :
            /\ Tileable(type, dims, NumSites)
            /\ tiles = [s \in Sites |-> TileCalculation(s, type, dims, NumSites)]
      BY <2>1
    <3>2. \A s \in Sites : IsTile(TileCalculation(s, type, dims, NumSites), n)
      BY <1>1, <3>1, TileCalculationIsTile, SitesNotEmpty, TiledArraysAssumption
    <3>3. \A s \in Sites : tiles[s] = TileCalculation(s, type, dims, NumSites)
      BY <3>1
    <3> QED
      BY <3>1, <3>2, <3>3
  <2>2. CASE \E named \in [Sites -> {u \in UserTiles : Len(u) = n}] :
                tiles = [s \in Sites |-> TileExtraction(named[s])]
    <3>1. PICK named \in [Sites -> {u \in UserTiles : Len(u) = n}] :
                tiles = [s \in Sites |-> TileExtraction(named[s])]
      BY <2>2
    <3>2. ASSUME NEW s \in Sites PROVE IsTile(tiles[s], n)
      <4>1. named[s] \in UserTiles /\ Len(named[s]) = n
        BY <3>1
      <4>2. tiles[s] = TileExtraction(named[s])
        BY <3>1
      <4> QED
        BY <4>1, <4>2, ExtractionIsTile
    <3> QED
      BY <3>1, <3>2
  <2>3. \/ \E type \in {t \in Types(n) : Tileable(t, dims, NumSites)} :
                tiles = [s \in Sites |-> TileCalculation(s, type, dims, NumSites)]
        \/ \E named \in [Sites -> {u \in UserTiles : Len(u) = n}] :
                tiles = [s \in Sites |-> TileExtraction(named[s])]
    BY Zenon DEF Tilings
  <2> HIDE DEF n
  <2> QED
    BY <2>1, <2>2, <2>3, Zenon
<1>3. ASSUME NEW s \in Sites
      PROVE  /\ DOMAIN data[s] = LocalIndices(tiles[s])
             /\ \A c \in LocalIndices(tiles[s]) :
                    data[s][c] = V[ToGlobal(tiles[s], c)]
  <2>1. DOMAIN data[s] = LocalIndices(tiles[s])
    BY Zenon
  <2>2. ASSUME NEW c \in LocalIndices(tiles[s])
        PROVE  data[s][c] = V[ToGlobal(tiles[s], c)]
    <3>1. data[s][c] = Elements[1 + Flat(dims, ToGlobal(tiles[s], c))]
      BY Zenon
    <3>2. ToGlobal(tiles[s], c) \in [1 .. n -> Nat]
      BY <1>1, <1>2, GlobalOfLocal
    <3> QED
      BY <3>1, <3>2
  <2> QED
    BY <2>1, <2>2
<1> HIDE DEF data, V, n
<1>4. HasValues(n, tiles, data, V)
  BY <1>2, <1>3 DEF HasValues
<1>5. Sound([tiles |-> tiles, data |-> data])
  BY <1>1, <1>4, DataByGlobalIndex
<1> QED
  BY <1>4, <1>5 DEF data, V, n

-----------------------------------------------------------------------------
(* All sites refuse, or none does.                                          *)
LEMMA RefusedTogether ==
    ASSUME NEW dims, IsDims(dims), NEW type, NEW n \in Nat \ {0},
           NEW ks \in Seq(Nat), Len(ks) = Len(dims),
           n >= NumSites,
           \A d \in 1 .. Len(dims) : ks[d] <= dims[d] \div Divisors(type, dims, n)[d]
    PROVE  Throwing(type, dims, n, ks) \in {{}, Sites}
<1> DEFINE D == Divisors(type, dims, n)
           N == Len(dims)
<1>1. N \in Nat /\ \A d \in 1 .. N : dims[d] \in Nat /\ ks[d] \in Nat
  <2>1. dims \in Seq(Nat \ {0})
    BY DEF IsDims
  <2> QED
    BY <2>1, ElementOfSeq, LenProperties
<1>2. CASE ~Tileable(type, dims, n)
  BY <1>2 DEF Throwing
<1>3. CASE n = 1
  <2>1. NumSites = 1
    BY <1>3, TiledArraysAssumption, SMT
  <2>2. Sites = {0}
    BY <2>1, SMT DEF Sites
  <2>3. Throwing(type, dims, n, ks) \subseteq Sites
    BY Zenon DEF Throwing
  <2> QED
    BY <2>2, <2>3
<1>4. CASE Tileable(type, dims, n) /\ n # 1
  <2>1. ASSUME NEW s \in Sites,
               NEW d \in Overlapped(TileCalculation(s, type, dims, n), dims, ks)
        PROVE  WithinArray(DesiredTile(s, type, dims, n, ks)[d], dims[d])
    <3> DEFINE tile == TileCalculation(s, type, dims, n)
    <3>1. s \in Nat /\ s < n
      BY SitesNotEmpty, SMT DEF Sites
    <3>2. /\ D \in [1 .. N -> Nat \ {0}]
          /\ tile = [x \in 1 .. N |-> tile[x]]
          /\ \A x \in 1 .. N : \E i \in Nat :
                tile[x] = EvenTile(i, dims[x], D[x]) /\ i < D[x]
      BY <3>1, TileOfEachDimension
    <3>3. DOMAIN tile = 1 .. N
      BY <3>2
    <3>4. /\ d \in 1 .. N
          /\ N = 1 \/ Size(tile[d]) # dims[d]
          /\ DesiredTile(s, type, dims, n, ks)[d] = Overlap(tile[d], dims[d], ks[d])
      BY <3>3, Zenon DEF Overlapped, DesiredTile
    <3>5. PICK i \in Nat : tile[d] = EvenTile(i, dims[d], D[d]) /\ i < D[d]
      BY <3>2, <3>4
    <3>6. D[d] \in Nat \ {0} /\ dims[d] \in Nat /\ ks[d] \in Nat
      BY <1>1, <3>2, <3>4
    <3>7. D[d] <= dims[d]
      BY <1>4, <3>4, <3>6, SMT DEF Tileable
    <3>8. ks[d] <= dims[d] \div D[d]
      BY <3>4
    <3>9. D[d] # 1
      <4> SUFFICES ASSUME D[d] = 1 PROVE FALSE
        OBVIOUS
      <4>1. CASE N = 1
        <5>1. d = 1 /\ Len(dims) = 1
          BY <3>4, <4>1, SMT
        <5>2. TiledDimension(type, dims, n) = 1
          BY <5>1 DEF TiledDimension
        <5>3. D = [x \in 1 .. Len(dims) |-> IF x = 1 THEN n ELSE 1]
          BY <5>2, SMT DEF Divisors
        <5>4. D[1] = n
          BY <5>1, <5>3, SMT
        <5> QED
          BY <1>4, <5>1, <5>4
      <4>2. CASE N # 1
        <5>1. i = 0
          BY <3>5, SMT
        <5>2. tile[d] = Span(0, dims[d])
          BY <3>5, <3>6, <5>1, WholeDimension
        <5>3. Size(tile[d]) = dims[d]
          BY <3>6, <5>2, SMT DEF Size, Span
        <5> QED
          BY <3>4, <4>2, <5>3
      <4> QED
        BY <4>1, <4>2
    <3> HIDE DEF D, tile
    <3>10. i \in 0 .. (D[d] - 1) /\ D[d] \in Nat \ {0, 1}
      BY <3>5, <3>6, <3>9, SMT
    <3>11. WithinArray(Overlap(EvenTile(i, dims[d], D[d]), dims[d], ks[d]), dims[d])
      BY <3>6, <3>7, <3>8, <3>10, OverlapFits DEF D
    <3> QED
      BY <3>4, <3>5, <3>11
  <2>2. Throwing(type, dims, n, ks) = {}
    BY <1>4, <2>1, Zenon DEF Throwing
  <2> QED
    BY <2>2
<1> QED
  BY <1>2, <1>3, <1>4

-----------------------------------------------------------------------------
(* The inductive invariant: an array, or what was put aside of one, is      *)
(* sound.                                                                   *)
NoneOrSound(a) == a = NoArray \/ Sound(a)

TiledInv ==
    /\ NoneOrSound(cur)
    /\ NoneOrSound(kept)
    /\ verdict \in {"fine", "refused", "stuck"}
    /\ steps \in 0 .. MaxSteps
    /\ NobodyWaits

LEMMA AskCounts ==
    ASSUME TiledInv, NEW r, Ask(r)
    PROVE  /\ Sound(cur)
           /\ steps' \in 0 .. MaxSteps
           /\ request' = r
           /\ NoneOrSound(kept')
<1>1. /\ cur # NoArray /\ steps < MaxSteps /\ steps' = steps + 1
      /\ request' = r /\ kept' = kept
  BY DEF Ask
<1>2. steps' \in 0 .. MaxSteps
  BY <1>1, TiledArraysAssumption, SMT DEF TiledInv
<1> QED
  BY <1>1, <1>2 DEF TiledInv, NoneOrSound

LEMMA BecomeIsFine ==
    ASSUME NEW tiles, NEW data, Sound([tiles |-> tiles, data |-> data]),
           Become(tiles, data), steps' \in 0 .. MaxSteps, NoneOrSound(kept')
    PROVE  TiledInv'
<1>1. cur' = [tiles |-> tiles, data |-> data] /\ verdict' = "fine"
  BY DEF Become
<1>2. NoneOrSound(cur')
  BY <1>1 DEF NoneOrSound
<1>3. NobodyWaits'
  BY <1>1 DEF NobodyWaits
<1> QED
  BY <1>1, <1>2, <1>3 DEF TiledInv

LEMMA RefuseIsFine ==
    ASSUME TiledInv, NEW throwing, throwing # {}, Refuse(throwing),
           steps' \in 0 .. MaxSteps, NoneOrSound(kept'),
           Reasonable' => throwing \in {{}, Sites}
    PROVE  TiledInv'
<1>1. /\ cur' = cur
      /\ verdict' = IF throwing = Sites THEN "refused" ELSE "stuck"
  BY DEF Refuse
<1>2. NobodyWaits'
  BY <1>1 DEF NobodyWaits
<1> QED
  BY <1>1, <1>2 DEF TiledInv

LEMMA StepRetile ==
    ASSUME TiledInv, NEW type, NEW n \in TileNumbers, NEW ks \in Overlaps,
           Len(ks) = Rank(cur), Retile(type, n, ks)
    PROVE  TiledInv'
<1> DEFINE dims == Dims(cur)
           throwing == Throwing(type, dims, n, ks)
           r == [op |-> "retile", type |-> type, n |-> n, ks |-> ks]
<1>1. Ask(r)
  BY DEF Retile
<1>2. /\ Sound(cur) /\ steps' \in 0 .. MaxSteps /\ request' = r /\ NoneOrSound(kept')
  BY <1>1, AskCounts
<1>3. n \in Nat \ {0} /\ ks \in Seq(Nat)
  BY TiledArraysAssumption
<1>4. IsDims(dims) /\ Len(dims) = Rank(cur)
  BY <1>2, DimsOfArray DEF Sound
<1>5. CASE throwing = {}
  <2> DEFINE desired == [s \in Sites |-> DesiredTile(s, type, dims, n, ks)]
  <2>1. RetileTo(desired)
    BY <1>5, Zenon DEF Retile
  <2>2. \A s \in Sites : IsTile(DesiredTile(s, type, dims, n, ks), Rank(cur))
    <3> HIDE DEF dims
    <3>1. \A s \in Sites : s \notin throwing
      BY <1>5
    <3> QED
      BY <1>3, <1>4, <3>1, DesiredIsTile
  <2>3. /\ desired = [s \in Sites |-> desired[s]]
        /\ \A s \in Sites : IsTile(desired[s], Rank(cur))
    BY <2>2
  <2> HIDE DEF desired
  <2>4. Sound([tiles |-> desired,
               data |-> [s \in Sites |-> Retiled(cur, s, desired[s])]])
    BY <1>2, <2>3, RetiledIsSound
  <2>5. Become(desired, [s \in Sites |-> Retiled(cur, s, desired[s])])
    BY <2>1 DEF RetileTo
  <2> QED
    BY <1>2, <2>4, <2>5, BecomeIsFine
<1>6. CASE throwing # {}
  <2>1. Refuse(throwing)
    BY <1>6, Zenon DEF Retile
  <2>2. cur' = cur
    BY <2>1 DEF Refuse
  <2>3. ASSUME Reasonable' PROVE throwing \in {{}, Sites}
    <3>1. /\ n >= NumSites
          /\ \A d \in 1 .. Rank(cur) : ks[d] <= dims[d] \div Divisors(type, dims, n)[d]
      <4>1. request'.op = "retile" /\ request'.type = type /\ request'.n = n
                /\ request'.ks = ks
        BY <1>2
      <4> QED
        BY <2>2, <2>3, <4>1 DEF Reasonable
    <3> HIDE DEF dims
    <3> QED
      BY <1>3, <1>4, <3>1, RefusedTogether
  <2> HIDE DEF throwing
  <2> QED
    BY <1>2, <1>6, <2>1, <2>3, RefuseIsFine
<1> QED
  BY <1>5, <1>6

LEMMA StepRetileUser ==
    ASSUME TiledInv, NEW named \in [Sites -> {u \in UserTiles : Len(u) = Rank(cur)}],
           RetileUser(named)
    PROVE  TiledInv'
<1> DEFINE desired == [s \in Sites |-> TileExtraction(named[s])]
           r == [op |-> "user", tiles |-> {named[s] : s \in Sites}]
<1>1. Ask(r) /\ RetileTo(desired)
  BY Zenon DEF RetileUser
<1>2. /\ Sound(cur) /\ steps' \in 0 .. MaxSteps /\ NoneOrSound(kept')
  <2> HIDE DEF r
  <2> QED
    BY <1>1, AskCounts
<1>3. \A s \in Sites : IsTile(TileExtraction(named[s]), Rank(cur))
  <2> SUFFICES ASSUME NEW s \in Sites
               PROVE  IsTile(TileExtraction(named[s]), Rank(cur))
    OBVIOUS
  <2>1. named[s] \in UserTiles /\ Len(named[s]) = Rank(cur)
    OBVIOUS
  <2> QED
    BY <2>1, ExtractionIsTile
<1>4. /\ desired = [s \in Sites |-> desired[s]]
      /\ \A s \in Sites : IsTile(desired[s], Rank(cur))
  BY <1>3
<1> HIDE DEF desired
<1>5. Sound([tiles |-> desired, data |-> [s \in Sites |-> Retiled(cur, s, desired[s])]])
  BY <1>2, <1>4, RetiledIsSound
<1>6. Become(desired, [s \in Sites |-> Retiled(cur, s, desired[s])])
  BY <1>1 DEF RetileTo
<1> QED
  BY <1>2, <1>5, <1>6, BecomeIsFine

LEMMA StepTranspose ==
    ASSUME TiledInv, NEW axes \in Axes(Rank(cur)), Transpose(axes)
    PROVE  TiledInv'
<1> DEFINE tiles == [s \in Sites |-> Transposed(cur.tiles[s], axes)]
           data == [s \in Sites |->
                        TransposedData(cur.data[s], cur.tiles[s], axes)]
           r == [op |-> "transpose", axes |-> axes]
<1>1. Ask(r) /\ Become(tiles, data)
  BY Zenon DEF Transpose
<1>2. /\ Sound(cur) /\ steps' \in 0 .. MaxSteps /\ NoneOrSound(kept')
  <2> HIDE DEF r
  <2> QED
    BY <1>1, AskCounts
<1>3. Sound([tiles |-> tiles, data |-> data])
  BY <1>2, TransposedIsSound
<1> HIDE DEF tiles, data
<1> QED
  BY <1>1, <1>2, <1>3, BecomeIsFine

LEMMA StepDiag ==
    ASSUME TiledInv, NEW type \in Types(2), NEW n \in TileNumbers, NEW k \in Diagonals,
           Diag(type, n, k)
    PROVE  TiledInv'
<1> DEFINE size == Extent(cur.tiles, 1) + (IF k < 0 THEN -k ELSE k)
           dims == <<size, size>>
           desired == [s \in Sites |-> TileCalculation(s, type, dims, n)]
           data == [s \in Sites |-> DiagTile(cur, s, type, desired[s], k)]
           throwing == {s \in Sites : s >= n \/ ~Tileable(type, dims, n)}
           r == [op |-> "diag", type |-> type, n |-> n, k |-> k]
<1>1. Ask(r) /\ Rank(cur) = 1
  BY DEF Diag
<1>2. /\ Sound(cur) /\ steps' \in 0 .. MaxSteps /\ request' = r /\ NoneOrSound(kept')
  BY <1>1, AskCounts
<1>3. n \in Nat \ {0} /\ k \in Int /\ type \in {"row", "column", "sym"}
  BY TiledArraysAssumption, SMT DEF Types
<1>4. size \in Nat \ {0}
  <2> DEFINE x == Extent(cur.tiles, 1)
  <2>1. 1 \in 1 .. Rank(cur)
    BY <1>1, SMT
  <2>2. x \in Nat \ {0}
    BY <1>2, <2>1, ExtentOfArray DEF Sound
  <2> HIDE DEF x
  <2>3. x + (IF k < 0 THEN -k ELSE k) \in Nat \ {0}
    BY <1>3, <2>2, SMT
  <2> QED
    BY <2>3 DEF x
<1>5. CASE throwing = {}
  <2>1. Become(desired, data)
    BY <1>5, Zenon DEF Diag
  <2>2. Tileable(type, dims, n)
    BY <1>5, SitesNotEmpty
  <2>3. Sound([tiles |-> desired, data |-> data])
    <3> HIDE DEF size
    <3> QED
      BY <1>1, <1>2, <1>3, <1>4, <2>2, DiagIsSound, Zenon
  <2> HIDE DEF desired, data
  <2> QED
    BY <1>2, <2>1, <2>3, BecomeIsFine
<1>6. CASE throwing # {}
  <2>1. Refuse(throwing)
    BY <1>6, Zenon DEF Diag
  <2>2. ASSUME Reasonable' PROVE throwing \in {{}, Sites}
    <3>1. n >= NumSites
      <4>1. request'.op = "diag" /\ request'.n = n
        BY <1>2
      <4> QED
        BY <2>2, <4>1 DEF Reasonable
    <3>2. \A s \in Sites : ~(s >= n)
      BY <1>3, <3>1, TiledArraysAssumption, SMT DEF Sites
    <3> HIDE DEF dims
    <3> QED
      BY <3>2
  <2> HIDE DEF throwing
  <2> QED
    BY <1>2, <1>6, <2>1, <2>2, RefuseIsFine
<1> QED
  BY <1>5, <1>6

LEMMA StepNewArray ==
    ASSUME TiledInv, NEW dims \in Shapes, NEW tiles \in Tilings(dims),
           NewArray(dims, tiles)
    PROVE  TiledInv'
<1> DEFINE data == [s \in Sites |->
                        [c \in LocalIndices(tiles[s]) |->
                            Elements[1 + Flat(dims, ToGlobal(tiles[s], c))]]]
<1>1. Become(tiles, data) /\ kept' = kept /\ steps' = steps
  BY Zenon DEF NewArray
<1>2. Sound([tiles |-> tiles, data |-> data])
  BY NewArrayIsSound
<1>3. steps' \in 0 .. MaxSteps /\ NoneOrSound(kept')
  BY <1>1 DEF TiledInv
<1> HIDE DEF data
<1> QED
  BY <1>1, <1>2, <1>3, BecomeIsFine

LEMMA StepKeep ==
    ASSUME TiledInv, Keep
    PROVE  TiledInv'
<1>1. kept' = cur /\ UNCHANGED <<cur, verdict, request, steps>>
  BY DEF Keep
<1>2. NobodyWaits'
  BY <1>1 DEF TiledInv, NobodyWaits, Reasonable
<1> QED
  BY <1>1, <1>2 DEF TiledInv, NoneOrSound

LEMMA TiledInvInitially == TiledInit => TiledInv
<1> SUFFICES ASSUME TiledInit PROVE TiledInv
  OBVIOUS
<1>1. /\ NoneOrSound(cur) /\ NoneOrSound(kept) /\ verdict = "fine"
      /\ steps = 0
  BY DEF TiledInit, NoneOrSound
<1>2. steps \in 0 .. MaxSteps
  BY <1>1, TiledArraysAssumption, SMT
<1> QED
  BY <1>1, <1>2 DEF TiledInv, NobodyWaits

LEMMA TiledInvStep == TiledInv /\ [TiledNext]_tiledVars => TiledInv'
<1> SUFFICES ASSUME TiledInv, [TiledNext]_tiledVars PROVE TiledInv'
  OBVIOUS
<1>1. CASE NewArrayAny
  BY <1>1, StepNewArray DEF NewArrayAny
<1>2. CASE RetileAny
  <2>1. PICK type \in Types(Rank(cur)), n \in TileNumbers :
            \E ks \in {k \in Overlaps : Len(k) = Rank(cur)} : Retile(type, n, ks)
    BY <1>2 DEF RetileAny
  <2>2. PICK ks \in {k \in Overlaps : Len(k) = Rank(cur)} : Retile(type, n, ks)
    BY <2>1
  <2> QED
    BY <2>2, StepRetile
<1>3. CASE RetileAsListed
  BY <1>3, StepRetileUser DEF RetileAsListed
<1>4. CASE TransposeAny
  BY <1>4, StepTranspose DEF TransposeAny
<1>5. CASE DiagAny
  BY <1>5, StepDiag DEF DiagAny
<1>6. CASE Keep
  BY <1>6, StepKeep
<1>7. CASE UNCHANGED tiledVars
  BY <1>7 DEF tiledVars, TiledInv, NoneOrSound, NobodyWaits, Reasonable
<1> QED
  BY <1>1, <1>2, <1>3, <1>4, <1>5, <1>6, <1>7 DEF TiledNext

LEMMA TiledInvAlways == TiledSpec => []TiledInv
  BY TiledInvInitially, TiledInvStep, PTL DEF TiledSpec

(* The annotation of every array fits its tiles, on all sites.              *)
THEOREM AnnotationFits == TiledSpec => []TiledTypeOK
<1>1. TiledInv => TiledTypeOK
  BY DEF TiledInv, TiledTypeOK, Operands, NoneOrSound, Sound
<1> QED
  BY <1>1, TiledInvAlways, PTL

(* Whatever operations follow one another, in whatever tiles, all sites that *)
(* hold an element hold the same value of it.                               *)
THEOREM OverlapsAgree == TiledSpec => []TilesAgree
<1>1. TiledInv => TilesAgree
  BY DEF TiledInv, TilesAgree, Operands, NoneOrSound, Sound
<1> QED
  BY <1>1, TiledInvAlways, PTL

(* No site is left waiting by one that refuses, for tiles of any number and *)
(* an overlap up to the size of the smallest one.                           *)
THEOREM NobodyIsLeftWaiting == TiledSpec => []NobodyWaits
<1>1. TiledInv => NobodyWaits
  BY DEF TiledInv
<1> QED
  BY <1>1, TiledInvAlways, PTL
-----------------------------------------------------------------------------
(* The array the tiles make up together.                                    *)
LEMMA HeldBySomeone ==
    ASSUME NEW a, IsArray(a), NEW g
    PROVE  g \in Held(a) <=>
            g \in [1 .. Rank(a) -> Nat] /\ \E s \in Sites : Holds(a.tiles[s], g)
<1>1. \A s \in Sites : IsTile(a.tiles[s], Rank(a)) /\ DOMAIN a.data[s] = LocalIndices(a.tiles[s])
  BY TilesOfArray DEF IsArray
<1>2. Rank(a) \in Nat
  BY SitesNotEmpty, TilesOfArray
<1>3. ASSUME g \in Held(a)
      PROVE  g \in [1 .. Rank(a) -> Nat] /\ \E s \in Sites : Holds(a.tiles[s], g)
  <2>1. PICK s \in Sites : g \in {ToGlobal(a.tiles[s], c) : c \in DOMAIN a.data[s]}
    BY <1>3 DEF Held
  <2>2. PICK c \in LocalIndices(a.tiles[s]) : g = ToGlobal(a.tiles[s], c)
    BY <1>1, <2>1
  <2> QED
    BY <1>1, <1>2, <2>2, GlobalOfLocal
<1>4. ASSUME g \in [1 .. Rank(a) -> Nat], NEW s \in Sites, Holds(a.tiles[s], g)
      PROVE  g \in Held(a)
  <2>1. /\ ToLocal(a.tiles[s], g) \in LocalIndices(a.tiles[s])
        /\ ToGlobal(a.tiles[s], ToLocal(a.tiles[s], g)) = g
    BY <1>1, <1>2, <1>4, LocalOfGlobal
  <2>2. g \in {ToGlobal(a.tiles[s], c) : c \in DOMAIN a.data[s]}
    BY <1>1, <2>1
  <2> QED
    BY <2>2 DEF Held
<1> QED
  BY <1>3, <1>4

LEMMA WholeArrayFound ==
    ASSUME NEW a, IsArray(a)
    PROVE  /\ DOMAIN Whole(a) = Held(a)
           /\ \A g \in Held(a) : Whole(a)[g] = Found(a, g)
           /\ \A g \in [1 .. Rank(a) -> Nat] \ Held(a) : Found(a, g) = Junk
<1>1. ASSUME NEW g \in Held(a) PROVE Whole(a)[g] = Found(a, g)
  <2>1. \E s \in Sites : Holds(a.tiles[s], g)
    BY HeldBySomeone
  <2>2. Whole(a)[g] = At(a, CHOOSE s \in Sites : Holds(a.tiles[s], g), g)
    BY DEF Whole, Element
  <2> QED
    BY <2>1, <2>2 DEF Found
<1>2. ASSUME NEW g \in [1 .. Rank(a) -> Nat] \ Held(a) PROVE Found(a, g) = Junk
  BY HeldBySomeone DEF Found
<1> QED
  BY <1>1, <1>2 DEF Whole

(* Data that only depends on the global index make up a whole array.        *)
LEMMA WholeByGlobalIndex ==
    ASSUME NEW n \in 1 .. 3, NEW tiles, NEW data, NEW V,
           HasValues(n, tiles, data, V)
    PROVE  LET a == [tiles |-> tiles, data |-> data]
           IN  /\ DOMAIN Whole(a) = Held(a)
               /\ \A g : g \in Held(a) <=>
                    g \in [1 .. n -> Nat] /\ \E s \in Sites : Holds(tiles[s], g)
               /\ \A g \in Held(a) : Whole(a)[g] = V[g]
<1> DEFINE a == [tiles |-> tiles, data |-> data]
<1>1. Sound(a)
  BY DataByGlobalIndex
<1>2. n \in Nat /\ Rank(a) = n
  BY SitesNotEmpty, SMT DEF HasValues, Rank, IsTile
<1>3. \A g : g \in Held(a) <=>
        g \in [1 .. n -> Nat] /\ \E s \in Sites : Holds(tiles[s], g)
  <2>1. IsArray(a) /\ a.tiles = tiles
    BY <1>1 DEF Sound
  <2> HIDE DEF a
  <2> QED
    BY <1>2, <2>1, HeldBySomeone
<1>4. ASSUME NEW g \in Held(a) PROVE Whole(a)[g] = V[g]
  <2>1. PICK s \in Sites : Holds(tiles[s], g)
    BY <1>3
  <2>2. g \in [1 .. n -> Nat]
    BY <1>3
  <2>3. Whole(a)[g] = Found(a, g)
    BY <1>1, WholeArrayFound DEF Sound
  <2>4. Found(a, g) = data[s][ToLocal(tiles[s], g)]
    <3>1. Found(a, g) = At(a, s, g)
      BY <1>1, <1>2, <2>1, <2>2, AnyHolderWillDo
    <3> QED
      BY <3>1 DEF At
  <2>5. /\ ToLocal(tiles[s], g) \in LocalIndices(tiles[s])
        /\ ToGlobal(tiles[s], ToLocal(tiles[s], g)) = g
    BY <1>2, <2>1, <2>2, LocalOfGlobal DEF HasValues
  <2>6. data[s][ToLocal(tiles[s], g)] = V[g]
    BY <2>5 DEF HasValues
  <2> QED
    BY <2>3, <2>4, <2>6
<1> QED
  BY <1>3, <1>4 DEF Whole


-----------------------------------------------------------------------------
(* Indices of an array.                                                     *)
LEMMA BoxIndex ==
    ASSUME NEW dims, IsDims(dims), NEW g
    PROVE  g \in Box(dims) <=>
            /\ g \in [1 .. Len(dims) -> Nat]
            /\ \A d \in 1 .. Len(dims) : g[d] < dims[d]
<1> DEFINE n == Len(dims)
           tile == [d \in DOMAIN dims |-> Span(0, dims[d])]
<1>1. n \in Nat /\ DOMAIN dims = 1 .. n /\ \A d \in 1 .. n : dims[d] \in Nat \ {0}
  BY ElementOfSeq, LenProperties DEF IsDims
<1>2. \A d \in 1 .. n : /\ tile[d] \in IsSpan /\ tile[d].start < tile[d].stop
                        /\ Size(tile[d]) = dims[d]
  BY <1>1, SMT DEF Span, IsSpan, Size
<1>3. DOMAIN tile = 1 .. n /\ tile = [d \in 1 .. n |-> tile[d]]
  BY <1>1
<1> HIDE DEF tile
<1>4. IsTile(tile, n)
  BY <1>1, <1>2, <1>3, FunctionIsTile
<1>5. g \in LocalIndices(tile) <=>
        /\ g \in [1 .. n -> Nat]
        /\ \A d \in 1 .. n : g[d] < Size(tile[d])
  BY <1>1, <1>4, LocalIndex
<1>6. Box(dims) = LocalIndices(tile)
  BY DEF Box, tile
<1> QED
  BY <1>2, <1>5, <1>6

LEMMA HeldWithin ==
    ASSUME NEW a, Sound(a), NEW g \in Held(a)
    PROVE  /\ g \in [1 .. Rank(a) -> Nat]
           /\ \A d \in 1 .. Rank(a) : g[d] < Dims(a)[d]
           /\ g \in Box(Dims(a))
<1>1. IsArray(a) /\ Rank(a) \in 1 .. 3 /\ Rank(a) \in Nat
  BY SMT DEF Sound
<1>2. PICK s \in Sites : Holds(a.tiles[s], g)
  BY <1>1, HeldBySomeone
<1>3. g \in [1 .. Rank(a) -> Nat]
  BY <1>1, HeldBySomeone
<1>4. IsTile(a.tiles[s], Rank(a))
  BY <1>1, TilesOfArray
<1>5. ASSUME NEW d \in 1 .. Rank(a) PROVE g[d] < Dims(a)[d]
  <2>1. /\ a.tiles[s][d].stop \in Nat /\ d \in DOMAIN a.tiles[s]
        /\ d \in DOMAIN a.tiles[0]
    BY <1>1, <1>4, TileIsFunction, TilesOfArray, SitesNotEmpty
  <2>2. g[d] < a.tiles[s][d].stop
    BY <1>2, <2>1 DEF Holds, InSpan
  <2>3. a.tiles[s][d].stop <= Extent(a.tiles, d) /\ Extent(a.tiles, d) \in Nat
    BY <1>1, ExtentOfArray
  <2>4. g[d] < Extent(a.tiles, d)
    BY <1>3, <2>1, <2>2, <2>3, SMT
  <2> QED
    BY <2>1, <2>4 DEF Dims
<1>6. g \in Box(Dims(a))
  BY <1>1, <1>3, <1>5, BoxIndex, DimsOfArray
<1> QED
  BY <1>3, <1>5, <1>6

(* No two elements are in the same place of the flattened array.            *)
LEMMA FlatIsInjective ==
    ASSUME NEW dims, IsDims(dims)
    PROVE  \E m \in Nat : /\ \A g \in Box(dims) : Flat(dims, g) \in 0 .. m
                          /\ \A g, h \in Box(dims) :
                                Flat(dims, g) = Flat(dims, h) => g = h
<1> DEFINE n == Len(dims)
<1>1. n = 1 \/ n = 2 \/ n = 3
  BY SMT DEF IsDims
<1>2. \A d \in 1 .. n : dims[d] \in Nat \ {0}
  BY ElementOfSeq DEF IsDims
<1>3. \A g \in Box(dims) : /\ g \in [1 .. n -> Nat]
                           /\ \A d \in 1 .. n : g[d] < dims[d]
  BY BoxIndex
<1>4. \A g, h \in Box(dims) : (\A d \in 1 .. n : g[d] = h[d]) => g = h
  <2> SUFFICES ASSUME NEW g \in Box(dims), NEW h \in Box(dims),
                      \A d \in 1 .. n : g[d] = h[d]
               PROVE  g = h
    OBVIOUS
  <2>1. g \in [1 .. n -> Nat] /\ h \in [1 .. n -> Nat]
    BY <1>3
  <2> QED
    BY <2>1
<1>5. CASE n = 1
  <2>1. \A g \in Box(dims) : /\ Flat(dims, g) = g[1] /\ g[1] \in Nat /\ g[1] < dims[1]
    BY <1>3, <1>5, SMT DEF Flat
  <2>2. dims[1] \in Nat /\ \A g \in Box(dims) : Flat(dims, g) \in 0 .. dims[1]
    BY <1>2, <1>5, <2>1, SMT
  <2>3. 1 .. n = {1}
    BY <1>5, SMT
  <2> QED
    BY <1>4, <2>1, <2>2, <2>3
<1>6. CASE n = 2
  <2>1. PICK x, y \in Nat \ {0} : x = dims[1] /\ y = dims[2]
    BY <1>2, <1>6, SMT
  <2>2. 1 .. n = {1, 2}
    BY <1>6, SMT
  <2>3. ASSUME NEW g \in Box(dims)
        PROVE  /\ Flat(dims, g) \in Nat /\ Flat(dims, g) < x * y
               /\ Flat(dims, g) \div y = g[1]
               /\ (Flat(dims, g) % y) = g[2]
    <3>1. PICK i, j \in Nat : i = g[1] /\ j = g[2] /\ i < x /\ j < y
      BY <1>3, <2>1, <2>2
    <3>2. Flat(dims, g) = i * y + j
      BY <1>6, <2>1, <3>1, SMT DEF Flat
    <3>3. j \in 0 .. (y - 1) /\ x \in Nat
      BY <3>1, SMT
    <3>4. /\ i * y + j \in Nat /\ i * y + j < x * y
          /\ (i * y + j) \div y = i
          /\ ((i * y + j) % y) = j
      BY <3>1, <3>3, TwoDigits
    <3> QED
      BY <3>1, <3>2, <3>4
  <2>4. x * y \in Nat
    BY SMT
  <2>5. \A g \in Box(dims) : Flat(dims, g) \in 0 .. (x * y)
    BY <2>3, <2>4, SMT
  <2>6. ASSUME NEW g \in Box(dims), NEW h \in Box(dims), Flat(dims, g) = Flat(dims, h)
        PROVE  g = h
    <3>1. g[1] = h[1] /\ g[2] = h[2]
      BY <2>3, <2>6
    <3> QED
      BY <1>4, <2>2, <3>1
  <2> QED
    BY <2>4, <2>5, <2>6
<1>7. CASE n = 3
  <2>1. PICK x, y, z \in Nat \ {0} : x = dims[1] /\ y = dims[2] /\ z = dims[3]
    BY <1>2, <1>7, SMT
  <2>2. 1 .. n = {1, 2, 3}
    BY <1>7, SMT
  <2> DEFINE xy == x * y
             Upper(g) == g[1] * y + g[2]
  <2>3. xy \in Nat
    BY SMT
  <2>4. ASSUME NEW g \in Box(dims)
        PROVE  /\ Upper(g) \in Nat /\ Upper(g) < xy
               /\ Upper(g) \div y = g[1]
               /\ (Upper(g) % y) = g[2]
    <3>1. PICK i, j \in Nat : i = g[1] /\ j = g[2] /\ i < x /\ j < y
      BY <1>3, <2>1, <2>2
    <3>3. j \in 0 .. (y - 1) /\ x \in Nat
      BY <3>1, SMT
    <3>4. /\ i * y + j \in Nat /\ i * y + j < x * y
          /\ (i * y + j) \div y = i
          /\ ((i * y + j) % y) = j
      BY <3>1, <3>3, TwoDigits
    <3> QED
      BY <3>1, <3>4
  <2>5. \A g \in Box(dims) : Flat(dims, g) = Upper(g) * z + g[3]
    BY <1>7, <2>1, SMT DEF Flat
  <2> HIDE DEF xy, Upper
  <2>6. ASSUME NEW g \in Box(dims)
        PROVE  /\ Flat(dims, g) \in Nat /\ Flat(dims, g) < xy * z
               /\ Flat(dims, g) \div z = Upper(g)
               /\ (Flat(dims, g) % z) = g[3]
    <3>1. PICK i, j \in Nat : i = Upper(g) /\ j = g[3] /\ i < xy /\ j < z
      BY <1>3, <2>1, <2>2, <2>4
    <3>2. Flat(dims, g) = i * z + j
      BY <2>5, <3>1
    <3>3. j \in 0 .. (z - 1)
      BY <3>1, SMT
    <3>4. /\ i * z + j \in Nat /\ i * z + j < xy * z
          /\ (i * z + j) \div z = i
          /\ ((i * z + j) % z) = j
      BY <2>3, <3>1, <3>3, TwoDigits
    <3> QED
      BY <3>1, <3>2, <3>4
  <2>7. xy * z \in Nat
    BY <2>3, SMT
  <2>8. \A g \in Box(dims) : Flat(dims, g) \in 0 .. (xy * z)
    BY <2>6, <2>7, SMT
  <2>9. ASSUME NEW g \in Box(dims), NEW h \in Box(dims), Flat(dims, g) = Flat(dims, h)
        PROVE  g = h
    <3>1. Upper(g) = Upper(h) /\ g[3] = h[3]
      BY <2>6, <2>9
    <3>2. g[1] = h[1] /\ g[2] = h[2]
      BY <2>4, <3>1
    <3> QED
      BY <1>4, <2>2, <3>1, <3>2
  <2> QED
    BY <2>7, <2>8, <2>9
<1> QED
  BY <1>1, <1>5, <1>6, <1>7

LEMMA HeldIsFinite ==
    ASSUME NEW a, Sound(a)
    PROVE  IsFiniteSet(Held(a))
<1> DEFINE dims == Dims(a)
           f == [g \in Held(a) |-> Flat(dims, g)]
<1>1. PICK m \in Nat : /\ \A g \in Box(dims) : Flat(dims, g) \in 0 .. m
                       /\ \A g, h \in Box(dims) : Flat(dims, g) = Flat(dims, h) => g = h
  BY FlatIsInjective, DimsOfArray DEF Sound
<1>2. \A g \in Held(a) : g \in Box(dims)
  BY HeldWithin
<1> HIDE DEF dims
<1>3. f \in [Held(a) -> 0 .. m]
  BY <1>1, <1>2
<1>4. \A g, h \in Held(a) : f[g] = f[h] => g = h
  BY <1>1, <1>2
<1> HIDE DEF f
<1>5. f \in Injection(Held(a), 0 .. m)
  BY <1>3, <1>4 DEF Injection, IsInjective
<1>6. IsFiniteSet(0 .. m)
  BY FS_Interval, SMT
<1> QED
  BY <1>5, <1>6, FS_Injection


LEMMA OverlapExtends ==
    ASSUME NEW span \in IsSpan, NEW dim \in Nat, NEW k \in Nat,
           NEW i \in Nat, InSpan(i, span)
    PROVE  InSpan(i, Overlap(span, dim, k))
<1>1. /\ span.start \in Nat /\ span.stop \in Nat
      /\ span.start <= i /\ i < span.stop
  BY DEF IsSpan, InSpan
<1>2. /\ Overlap(span, dim, k).start =
            (IF span.stop # dim /\ span.start = 0 THEN 0 ELSE span.start - k)
      /\ Overlap(span, dim, k).stop = (IF span.stop = dim THEN dim ELSE span.stop + k)
  BY DEF Overlap, Span
<1>3. Overlap(span, dim, k).start <= i /\ i < Overlap(span, dim, k).stop
  BY <1>1, <1>2, SMT
<1> QED
  BY <1>3 DEF InSpan

(* What is in a tile is still in it when it has been given an overlap.      *)
LEMMA DesiredHolds ==
    ASSUME NEW dims, IsDims(dims), NEW type, NEW n \in Nat \ {0},
           Tileable(type, dims, n),
           NEW ks \in Seq(Nat), Len(ks) = Len(dims),
           NEW s \in Nat, NEW g \in [1 .. Len(dims) -> Nat],
           Holds(TileCalculation(s, type, dims, n), g)
    PROVE  Holds(DesiredTile(s, type, dims, n, ks), g)
<1> DEFINE tile == TileCalculation(s, type, dims, n)
           desired == DesiredTile(s, type, dims, n, ks)
           N == Len(dims)
           O == Overlapped(tile, dims, ks)
<1>1. /\ N \in Nat
      /\ \A d \in 1 .. N : dims[d] \in Nat /\ ks[d] \in Nat
  <2>1. dims \in Seq(Nat \ {0})
    BY DEF IsDims
  <2> QED
    BY <2>1, ElementOfSeq, LenProperties
<1>2. IsTile(tile, N)
  BY TileCalculationIsTile
<1>3. DOMAIN tile = 1 .. N /\ \A d \in 1 .. N : tile[d] \in IsSpan
  BY <1>1, <1>2, TileIsFunction
<1>4. desired = [d \in 1 .. N |-> IF d \in O THEN Overlap(tile[d], dims[d], ks[d])
                                  ELSE tile[d]]
  BY <1>3 DEF DesiredTile
<1>5. \A d \in 1 .. N : InSpan(g[d], tile[d])
  BY <1>3 DEF Holds
<1> HIDE DEF tile, desired, N, O
<1>6. ASSUME NEW d \in 1 .. N PROVE InSpan(g[d], desired[d])
  <2>1. InSpan(g[d], tile[d]) /\ g[d] \in Nat /\ tile[d] \in IsSpan
    BY <1>3, <1>5 DEF N
  <2>2. CASE d \in O
    <3>1. desired[d] = Overlap(tile[d], dims[d], ks[d])
      BY <1>4, <2>2
    <3>2. dims[d] \in Nat /\ ks[d] \in Nat
      BY <1>1
    <3> QED
      BY <2>1, <3>1, <3>2, OverlapExtends
  <2>3. CASE d \notin O
    BY <1>4, <2>1, <2>3
  <2> QED
    BY <2>2, <2>3
<1>7. DOMAIN desired = 1 .. N
  BY <1>4
<1>8. Holds(desired, g)
  BY <1>6, <1>7 DEF Holds
<1> QED
  BY <1>8 DEF desired

(* As many sites as tiles: together they have every element.                *)
LEMMA DesiredTilesCover ==
    ASSUME NEW dims, IsDims(dims), NEW type, NEW n \in Nat \ {0}, n <= NumSites,
           NEW ks \in Seq(Nat), Len(ks) = Len(dims),
           Throwing(type, dims, n, ks) = {},
           NEW g \in [1 .. Len(dims) -> Nat],
           \A d \in 1 .. Len(dims) : g[d] < dims[d]
    PROVE  \E s \in Sites : Holds(DesiredTile(s, type, dims, n, ks), g)
<1>1. Tileable(type, dims, n)
  <2>1. 0 \notin Throwing(type, dims, n, ks)
    OBVIOUS
  <2> QED
    BY <2>1, SitesNotEmpty DEF Throwing
<1>2. PICK s \in Nat : s < n /\ Holds(TileCalculation(s, type, dims, n), g)
  BY <1>1, TilesMakeUpArray
<1>3. s \in Sites
  BY <1>2, SitesNotEmpty, SMT DEF Sites
<1> QED
  BY <1>1, <1>2, <1>3, DesiredHolds


(* An array is created with a value for every element.                      *)
LEMMA CreatesOneArray ==
    ASSUME TiledInv, NEW dims \in Shapes, NEW tiles \in Tilings(dims),
           NewArray(dims, tiles)
    PROVE  OneArray!WholeNext
<1> DEFINE data == [s \in Sites |->
                        [c \in LocalIndices(tiles[s]) |->
                            Elements[1 + Flat(dims, ToGlobal(tiles[s], c))]]]
           V == [g \in [1 .. Len(dims) -> Nat] |-> Elements[1 + Flat(dims, g)]]
           a == [tiles |-> tiles, data |-> data]
<1>1. /\ cur = NoArray /\ request' = [op |-> "create"]
      /\ [d \in DOMAIN dims |-> Extent(tiles, d)] = dims
      /\ cur' = a /\ verdict' = "fine"
  <2>1. Become(tiles, data)
    BY Zenon DEF NewArray
  <2> HIDE DEF data
  <2> QED
    BY <2>1 DEF NewArray, Become
<1>2. HasValues(Len(dims), tiles, data, V) /\ Sound(a)
  BY NewArrayIsSound
<1>3. /\ Len(dims) \in 1 .. 3 /\ Len(dims) \in Nat
      /\ dims \in Seq(Nat \ {0}) /\ DOMAIN dims = 1 .. Len(dims)
  <2>1. dims \in Seq(Nat \ {0}) /\ Len(dims) \in 1 .. 3
    BY TiledArraysAssumption
  <2> QED
    BY <2>1, LenProperties
<1> HIDE DEF data, V
<1>4. /\ DOMAIN Whole(a) = Held(a)
      /\ \A g \in Held(a) : Whole(a)[g] = V[g]
  BY <1>2, <1>3, WholeByGlobalIndex
<1>5. Rank(a) = Len(dims)
  <2>1. IsTile(tiles[0], Len(dims))
    BY <1>2, SitesNotEmpty DEF HasValues
  <2> QED
    BY <2>1 DEF Rank, IsTile
<1>6. Dims(a) = dims
  <2>1. DOMAIN tiles[0] = 1 .. Len(dims)
    BY <1>2, <1>3, SitesNotEmpty, TileIsFunction DEF HasValues
  <2>2. Dims(a) = [d \in 1 .. Len(dims) |-> Extent(tiles, d)]
    BY <2>1 DEF Dims
  <2> QED
    BY <1>1, <1>3, <2>2
<1>7. ASSUME NEW g \in Held(a) PROVE Whole(a)[g] # Junk
  <2>1. g \in Box(dims) /\ g \in [1 .. Len(dims) -> Nat]
    BY <1>2, <1>5, <1>6, HeldWithin
  <2>2. V[g] = Elements[1 + Flat(dims, g)]
    BY <2>1 DEF V
  <2> QED
    BY <1>4, <2>1, <2>2, ElementsAssumption
<1>8. Whole(cur) = << >>
  <2>1. Held(NoArray) = {}
    BY DEF Held, NoArray
  <2> QED
    BY <1>1, <2>1 DEF Whole
<1> HIDE DEF a
<1>9. OneArray!Create(Whole(cur), Whole(a), [op |-> "create"])
  BY <1>4, <1>7, <1>8 DEF OneArray!Create
<1>10. OneArray!Does(Whole(cur), Whole(cur'), request')
  BY <1>1, <1>9 DEF OneArray!Does
<1> QED
  BY <1>1, <1>10 DEF OneArray!WholeNext


(* Retiling keeps the elements some site still has.                         *)
LEMMA RetilingKeeps ==
    ASSUME NEW a, Sound(a), NEW desired, desired = [s \in Sites |-> desired[s]],
           \A s \in Sites : IsTile(desired[s], Rank(a)),
           NEW b,
           b = [tiles |-> desired, data |-> [s \in Sites |-> Retiled(a, s, desired[s])]]
    PROVE  /\ OneArray!Kept(Whole(a), Whole(b))
           /\ DOMAIN Whole(a) = Held(a) /\ DOMAIN Whole(b) = Held(b)
           /\ \A g : g \in Held(b) <=>
                g \in [1 .. Rank(a) -> Nat] /\ \E s \in Sites : Holds(desired[s], g)
<1> DEFINE data == [s \in Sites |-> Retiled(a, s, desired[s])]
           V == [g \in [1 .. Rank(a) -> Nat] |-> Found(a, g)]
<1>1. HasValues(Rank(a), desired, data, V)
  BY RetiledIsSound
<1>2. b = [tiles |-> desired, data |-> data] /\ Rank(a) \in 1 .. 3 /\ IsArray(a)
  BY DEF Sound
<1> HIDE DEF data, V
<1>3. /\ DOMAIN Whole(b) = Held(b)
      /\ \A g : g \in Held(b) <=>
            g \in [1 .. Rank(a) -> Nat] /\ \E s \in Sites : Holds(desired[s], g)
      /\ \A g \in Held(b) : Whole(b)[g] = V[g]
  <2> DEFINE e == [tiles |-> desired, data |-> data]
  <2>1. /\ DOMAIN Whole(e) = Held(e)
        /\ \A g : g \in Held(e) <=>
            g \in [1 .. Rank(a) -> Nat] /\ \E s \in Sites : Holds(desired[s], g)
        /\ \A g \in Held(e) : Whole(e)[g] = V[g]
    BY <1>1, <1>2, WholeByGlobalIndex
  <2>2. b = e
    BY <1>2
  <2> HIDE DEF e
  <2> QED
    BY <2>1, <2>2
<1>4. /\ DOMAIN Whole(a) = Held(a)
      /\ \A g \in Held(a) : Whole(a)[g] = Found(a, g)
      /\ \A g \in [1 .. Rank(a) -> Nat] \ Held(a) : Found(a, g) = Junk
  BY <1>2, WholeArrayFound
<1>5. ASSUME NEW g \in Held(b)
      PROVE  Whole(b)[g] = IF g \in Held(a) THEN Whole(a)[g] ELSE Junk
  <2>1. g \in [1 .. Rank(a) -> Nat] /\ Whole(b)[g] = V[g]
    BY <1>3
  <2>2. V[g] = Found(a, g)
    BY <2>1 DEF V
  <2> QED
    BY <1>4, <2>1, <2>2
<1>6. OneArray!Kept(Whole(a), Whole(b))
  BY <1>3, <1>4, <1>5 DEF OneArray!Kept
<1> QED
  BY <1>3, <1>4, <1>6

(* Tiles the system chooses lose nothing.                                   *)
LEMMA RetilesOneArray ==
    ASSUME TiledInv, NEW type, NEW n \in TileNumbers, NEW ks \in Overlaps,
           Len(ks) = Rank(cur), Retile(type, n, ks)
    PROVE  OneArray!WholeNext
<1> DEFINE dims == Dims(cur)
           throwing == Throwing(type, dims, n, ks)
           desired == [s \in Sites |-> DesiredTile(s, type, dims, n, ks)]
           b == [tiles |-> desired, data |-> [s \in Sites |-> Retiled(cur, s, desired[s])]]
           r == [op |-> "retile", type |-> type, n |-> n, ks |-> ks]
<1>1. Ask(r)
  BY DEF Retile
<1>2. Sound(cur) /\ request' = r
  BY <1>1, AskCounts
<1>3. n \in Nat \ {0} /\ ks \in Seq(Nat)
  BY TiledArraysAssumption
<1>4. IsDims(dims) /\ Len(dims) = Rank(cur)
  BY <1>2, DimsOfArray DEF Sound
<1>5. CASE throwing = {}
  <2>1. RetileTo(desired)
    BY <1>5, Zenon DEF Retile
  <2>2. \A s \in Sites : IsTile(DesiredTile(s, type, dims, n, ks), Rank(cur))
    <3> HIDE DEF dims
    <3>1. \A s \in Sites : s \notin throwing
      BY <1>5
    <3> QED
      BY <1>3, <1>4, <3>1, DesiredIsTile
  <2>3. /\ desired = [s \in Sites |-> desired[s]]
        /\ \A s \in Sites : IsTile(desired[s], Rank(cur))
        /\ \A s \in Sites : desired[s] = DesiredTile(s, type, dims, n, ks)
    BY <2>2
  <2> HIDE DEF desired
  <2>4. cur' = b /\ verdict' = "fine"
    BY <2>1 DEF RetileTo, Become
  <2>5. b = [tiles |-> desired, data |-> [s \in Sites |-> Retiled(cur, s, desired[s])]]
    OBVIOUS
  <2> HIDE DEF b, dims, r
  <2>6. /\ OneArray!Kept(Whole(cur), Whole(b))
        /\ DOMAIN Whole(cur) = Held(cur) /\ DOMAIN Whole(b) = Held(b)
        /\ \A g : g \in Held(b) <=>
             g \in [1 .. Rank(cur) -> Nat] /\ \E s \in Sites : Holds(desired[s], g)
    <3> DEFINE c == cur
    <3>1. Sound(c) /\ \A s \in Sites : IsTile(desired[s], Rank(c))
      BY <1>2, <2>3
    <3>2. desired = [s \in Sites |-> desired[s]]
      BY <2>3
    <3>3. b = [tiles |-> desired, data |-> [s \in Sites |-> Retiled(c, s, desired[s])]]
      BY <2>5
    <3> HIDE DEF c
    <3>4. /\ OneArray!Kept(Whole(c), Whole(b))
          /\ DOMAIN Whole(c) = Held(c) /\ DOMAIN Whole(b) = Held(b)
          /\ \A g : g \in Held(b) <=>
                g \in [1 .. Rank(c) -> Nat] /\ \E s \in Sites : Holds(desired[s], g)
      BY <3>1, <3>2, <3>3, RetilingKeeps
    <3> QED
      BY <3>4 DEF c
  <2>7. ASSUME n <= NumSites, NEW g \in Held(cur)
        PROVE  g \in Held(b)
    <3>1. g \in [1 .. Rank(cur) -> Nat] /\ \A d \in 1 .. Rank(cur) : g[d] < dims[d]
      BY <1>2, HeldWithin DEF dims
    <3>2. \E s \in Sites : Holds(DesiredTile(s, type, dims, n, ks), g)
      BY <1>3, <1>4, <1>5, <2>7, <3>1, DesiredTilesCover
    <3> QED
      BY <2>3, <2>6, <3>1, <3>2
  <2>8. OneArray!Retile(Whole(cur), Whole(b), r)
    BY <2>6, <2>7 DEF OneArray!Retile, r
  <2>9. OneArray!Does(Whole(cur), Whole(cur'), request')
    BY <1>2, <2>4, <2>8 DEF OneArray!Does
  <2> QED
    BY <2>4, <2>9 DEF OneArray!WholeNext
<1>6. CASE throwing # {}
  <2>1. Refuse(throwing)
    BY <1>6, Zenon DEF Retile
  <2>2. cur' = cur /\ verdict' # "fine"
    BY <2>1 DEF Refuse
  <2> QED
    BY <2>2 DEF OneArray!WholeNext
<1> QED
  BY <1>5, <1>6


(* The names of the dimensions, in the order of the dimensions.             *)
LEMMA NamesOfTwo ==
    ASSUME NEW x, NEW y, {x, y} = {"rows", "columns"}
    PROVE  \/ x = "rows" /\ y = "columns"
           \/ x = "columns" /\ y = "rows"
  BY SMT

LEMMA NamesOfThree ==
    ASSUME NEW x, NEW y, NEW z, {x, y, z} = {"pages", "rows", "columns"}
    PROVE  \/ x = "pages" /\ y = "rows" /\ z = "columns"
           \/ x = "pages" /\ y = "columns" /\ z = "rows"
           \/ x = "rows" /\ y = "pages" /\ z = "columns"
           \/ x = "rows" /\ y = "columns" /\ z = "pages"
           \/ x = "columns" /\ y = "pages" /\ z = "rows"
           \/ x = "columns" /\ y = "rows" /\ z = "pages"
  BY SMT

LEMMA ExchangesOfNames ==
    /\ \A x : Exchanges(<<x>>) = << >>
    /\ Exchanges(<<"rows", "columns">>) = << >>
    /\ Exchanges(<<"columns", "rows">>) = << <<1, 2>> >>
    /\ Exchanges(<<"pages", "rows", "columns">>) = << >>
    /\ Exchanges(<<"pages", "columns", "rows">>) = << <<2, 3>> >>
    /\ Exchanges(<<"rows", "columns", "pages">>) = << <<1, 2>>, <<1, 3>> >>
    /\ Exchanges(<<"rows", "pages", "columns">>) = << <<1, 2>> >>
    /\ Exchanges(<<"columns", "pages", "rows">>) = << <<1, 2>>, <<2, 3>> >>
    /\ Exchanges(<<"columns", "rows", "pages">>) = << <<1, 3>> >>
  BY SMT DEF Exchanges

LEMMA ExchangeAllOf ==
    ASSUME NEW s
    PROVE  /\ ExchangeAll(s, << >>) = s
           /\ \A x : ExchangeAll(s, <<x>>) = Exchange(s, x)
           /\ \A x, y : ExchangeAll(s, <<x, y>>) = Exchange(Exchange(s, x), y)
  BY SMT DEF ExchangeAll

LEMMA ExchangeTwo ==
    ASSUME NEW f, DOMAIN f = 1 .. 2
    PROVE  /\ Exchange(f, <<1, 2>>)[1] = f[2]
           /\ Exchange(f, <<1, 2>>)[2] = f[1]
  BY SMT DEF Exchange

LEMMA ExchangeThree ==
    ASSUME NEW f, DOMAIN f = 1 .. 3,
           NEW i \in 1 .. 3, NEW j \in 1 .. 3, NEW k \in 1 .. 3,
           i # j, i # k, j # k
    PROVE  /\ DOMAIN Exchange(f, <<i, j>>) = 1 .. 3
           /\ Exchange(f, <<i, j>>)[i] = f[j]
           /\ Exchange(f, <<i, j>>)[j] = f[i]
           /\ Exchange(f, <<i, j>>)[k] = f[k]
  BY SMT DEF Exchange


LEMMA DimensionOfOne ==
    ASSUME NEW named, DOMAIN named = 1 .. 1, Len(named) = 1
    PROVE  OneArray!Dimension(named, 1) = 1
<1>1. OneArray!Dimension(named, 1) =
        CHOOSE i \in 1 .. 1 : named[i].name = <<named[1].name>>[1]
  BY SMT DEF OneArray!Dimension
<1>2. 1 .. 1 = {1} /\ <<named[1].name>>[1] = named[1].name
  BY SMT
<1> QED
  BY <1>1, <1>2

LEMMA DimensionOfTwo ==
    ASSUME NEW named, DOMAIN named = 1 .. 2, Len(named) = 2,
           NEW d \in 1 .. 2, NEW i \in 1 .. 2,
           named[i].name = <<"rows", "columns">>[d],
           \A j \in 1 .. 2 : j # i => named[j].name # named[i].name
    PROVE  OneArray!Dimension(named, d) = i
<1>1. OneArray!Dimension(named, d) =
        CHOOSE j \in 1 .. 2 : named[j].name = <<"rows", "columns">>[d]
  BY SMT DEF OneArray!Dimension
<1> QED
  BY <1>1

LEMMA DimensionOfThree ==
    ASSUME NEW named, DOMAIN named = 1 .. 3, Len(named) = 3,
           NEW d \in 1 .. 3, NEW i \in 1 .. 3,
           named[i].name = <<"pages", "rows", "columns">>[d],
           \A j \in 1 .. 3 : j # i => named[j].name # named[i].name
    PROVE  OneArray!Dimension(named, d) = i
<1>1. OneArray!Dimension(named, d) =
        CHOOSE j \in 1 .. 3 : named[j].name = <<"pages", "rows", "columns">>[d]
  BY SMT DEF OneArray!Dimension
<1> QED
  BY <1>1

(* The spans a user lists, in the order of the dimensions.                  *)
Sorted(named) == ExchangeAll(named, Exchanges([i \in DOMAIN named |-> named[i].name]))

(* tile_extraction_2d: the exchange brings them into this order.            *)
LEMMA SortedTwo ==
    ASSUME NEW named, DOMAIN named = 1 .. 2, Len(named) = 2,
           {named[i].name : i \in 1 .. 2} = {"rows", "columns"}, NEW d \in 1 .. 2
    PROVE  Sorted(named)[d] = named[OneArray!Dimension(named, d)]
<1>1. {named[1].name, named[2].name} = {"rows", "columns"}
  <2>1. 1 .. 2 = {1, 2}
    BY SMT
  <2> QED
    BY <2>1
<1>2. [i \in DOMAIN named |-> named[i].name] = <<named[1].name, named[2].name>>
  BY SMT
<1>3. Sorted(named) = ExchangeAll(named, Exchanges(<<named[1].name, named[2].name>>))
  BY <1>2 DEF Sorted
<1>4. d = 1 \/ d = 2
  BY SMT
<1>5. 1 \in 1 .. 2 /\ 2 \in 1 .. 2 /\ \A j \in 1 .. 2 : j = 1 \/ j = 2
  BY SMT
<1>6. <<"rows", "columns">>[1] = "rows" /\ <<"rows", "columns">>[2] = "columns"
  OBVIOUS
<1>7. CASE named[1].name = "rows" /\ named[2].name = "columns"
  <2>1. Sorted(named) = named
    BY <1>3, <1>7, ExchangesOfNames, ExchangeAllOf
  <2>2. OneArray!Dimension(named, 1) = 1 /\ OneArray!Dimension(named, 2) = 2
    BY <1>5, <1>6, <1>7, DimensionOfTwo
  <2> QED
    BY <1>4, <2>1, <2>2
<1>8. CASE named[1].name = "columns" /\ named[2].name = "rows"
  <2>1. Sorted(named) = Exchange(named, <<1, 2>>)
    <3>1. Sorted(named) = ExchangeAll(named, Exchanges(<<"columns", "rows">>))
      BY <1>3, <1>8
    <3>2. Exchanges(<<"columns", "rows">>) = << <<1, 2>> >>
      BY ExchangesOfNames
    <3>3. ExchangeAll(named, << <<1, 2>> >>) = Exchange(named, <<1, 2>>)
      BY ExchangeAllOf
    <3> QED
      BY <3>1, <3>2, <3>3
  <2>2. OneArray!Dimension(named, 1) = 2 /\ OneArray!Dimension(named, 2) = 1
    BY <1>5, <1>6, <1>8, DimensionOfTwo
  <2> QED
    BY <1>4, <2>1, <2>2, ExchangeTwo
<1> QED
  BY <1>1, <1>7, <1>8, NamesOfTwo

LEMMA ThreeSteps ==
    ASSUME NEW named, DOMAIN named = 1 .. 3, Len(named) = 3
    PROVE  /\ 1 .. 3 = {1, 2, 3}
           /\ [i \in DOMAIN named |-> named[i].name] =
                <<named[1].name, named[2].name, named[3].name>>
           /\ <<"pages", "rows", "columns">>[1] = "pages"
           /\ <<"pages", "rows", "columns">>[2] = "rows"
           /\ <<"pages", "rows", "columns">>[3] = "columns"
  BY SMT

(* Where the dimensions are, from the names.                                *)
LEMMA DimensionsOfThree ==
    ASSUME NEW named, DOMAIN named = 1 .. 3, Len(named) = 3,
           NEW i \in 1 .. 3, NEW j \in 1 .. 3, NEW k \in 1 .. 3,
           named[i].name = "pages", named[j].name = "rows", named[k].name = "columns"
    PROVE  /\ OneArray!Dimension(named, 1) = i
           /\ OneArray!Dimension(named, 2) = j
           /\ OneArray!Dimension(named, 3) = k
<1>1. i # j /\ i # k /\ j # k /\ 1 \in 1 .. 3 /\ 2 \in 1 .. 3 /\ 3 \in 1 .. 3
  BY SMT
<1>2. \A l \in 1 .. 3 : l = i \/ l = j \/ l = k
  BY <1>1, SMT
<1>3. /\ <<"pages", "rows", "columns">>[1] = "pages"
      /\ <<"pages", "rows", "columns">>[2] = "rows"
      /\ <<"pages", "rows", "columns">>[3] = "columns"
  OBVIOUS
<1>4. /\ \A l \in 1 .. 3 : l # i => named[l].name # named[i].name
      /\ \A l \in 1 .. 3 : l # j => named[l].name # named[j].name
      /\ \A l \in 1 .. 3 : l # k => named[l].name # named[k].name
  BY <1>2
<1> QED
  BY <1>1, <1>3, <1>4, DimensionOfThree

(* tile_extraction_3d: so do the exchanges of three.                        *)
LEMMA SortedThree ==
    ASSUME NEW named, DOMAIN named = 1 .. 3, Len(named) = 3,
           {named[i].name : i \in 1 .. 3} = {"pages", "rows", "columns"},
           NEW d \in 1 .. 3
    PROVE  Sorted(named)[d] = named[OneArray!Dimension(named, d)]
<1> DEFINE x == named[1].name
           y == named[2].name
           z == named[3].name
           Swap(i, j) == Exchange(named, <<i, j>>)
<1>1. 1 .. 3 = {1, 2, 3} /\ [i \in DOMAIN named |-> named[i].name] = <<x, y, z>>
  BY ThreeSteps
<1>2. {x, y, z} = {"pages", "rows", "columns"}
  BY <1>1
<1>3. Sorted(named) = ExchangeAll(named, Exchanges(<<x, y, z>>))
  BY <1>1 DEF Sorted
<1>4. /\ d = 1 \/ d = 2 \/ d = 3
      /\ 1 \in 1 .. 3 /\ 2 \in 1 .. 3 /\ 3 \in 1 .. 3
  BY <1>1
<1>5. ASSUME NEW i \in 1 .. 3, NEW j \in 1 .. 3, NEW k \in 1 .. 3,
             named[i].name = "pages", named[j].name = "rows", named[k].name = "columns",
             Sorted(named)[1] = named[i], Sorted(named)[2] = named[j],
             Sorted(named)[3] = named[k]
      PROVE  Sorted(named)[d] = named[OneArray!Dimension(named, d)]
  BY <1>4, <1>5, DimensionsOfThree
<1>6. /\ DOMAIN Swap(1, 2) = 1 .. 3
      /\ Swap(1, 2)[1] = named[2] /\ Swap(1, 2)[2] = named[1] /\ Swap(1, 2)[3] = named[3]
  BY <1>4, ExchangeThree
<1>7. Swap(1, 3)[1] = named[3] /\ Swap(1, 3)[3] = named[1] /\ Swap(1, 3)[2] = named[2]
  BY <1>4, ExchangeThree
<1>8. Swap(2, 3)[2] = named[3] /\ Swap(2, 3)[3] = named[2] /\ Swap(2, 3)[1] = named[1]
  BY <1>4, ExchangeThree
<1> DEFINE Twice(j) == Exchange(Swap(1, 2), <<j, 3>>)
<1>9. Twice(1)[1] = named[3] /\ Twice(1)[3] = named[2] /\ Twice(1)[2] = named[1]
  <2> DEFINE f == Swap(1, 2)
  <2> HIDE DEF f
  <2>1. DOMAIN f = 1 .. 3
    BY <1>6 DEF f
  <2>2. /\ Exchange(f, <<1, 3>>)[1] = f[3] /\ Exchange(f, <<1, 3>>)[3] = f[1]
        /\ Exchange(f, <<1, 3>>)[2] = f[2]
    BY <1>4, <2>1, ExchangeThree
  <2> QED
    BY <1>6, <2>2 DEF f
<1>10. Twice(2)[1] = named[2] /\ Twice(2)[2] = named[3] /\ Twice(2)[3] = named[1]
  <2> DEFINE f == Swap(1, 2)
  <2> HIDE DEF f
  <2>1. DOMAIN f = 1 .. 3
    BY <1>6 DEF f
  <2>2. /\ Exchange(f, <<2, 3>>)[2] = f[3] /\ Exchange(f, <<2, 3>>)[3] = f[2]
        /\ Exchange(f, <<2, 3>>)[1] = f[1]
    BY <1>4, <2>1, ExchangeThree
  <2> QED
    BY <1>6, <2>2 DEF f
<1>11. CASE x = "pages" /\ y = "rows" /\ z = "columns"
  <2>1. Sorted(named) = ExchangeAll(named, Exchanges(<<"pages", "rows", "columns">>))
    BY <1>3, <1>11
  <2>2. Exchanges(<<"pages", "rows", "columns">>) = << >>
    BY ExchangesOfNames
  <2>3. ExchangeAll(named, << >>) = named
    BY ExchangeAllOf
  <2>4. Sorted(named) = named
    BY <2>1, <2>2, <2>3
  <2>5. named[1].name = "pages" /\ named[2].name = "rows" /\ named[3].name = "columns"
    BY <1>11
  <2> QED
    BY <1>4, <1>5, <2>4, <2>5
<1>12. CASE x = "pages" /\ y = "columns" /\ z = "rows"
  <2>1. Sorted(named) = ExchangeAll(named, Exchanges(<<"pages", "columns", "rows">>))
    BY <1>3, <1>12
  <2>2. Exchanges(<<"pages", "columns", "rows">>) = << <<2, 3>> >>
    BY ExchangesOfNames
  <2>3. ExchangeAll(named, << <<2, 3>> >>) = Swap(2, 3)
    BY ExchangeAllOf
  <2>4. Sorted(named) = Swap(2, 3)
    BY <2>1, <2>2, <2>3
  <2>5. named[1].name = "pages" /\ named[3].name = "rows" /\ named[2].name = "columns"
    BY <1>12
  <2> QED
    BY <1>4, <1>5, <1>8, <2>4, <2>5
<1>13. CASE x = "rows" /\ y = "columns" /\ z = "pages"
  <2>1. Sorted(named) = ExchangeAll(named, Exchanges(<<"rows", "columns", "pages">>))
    BY <1>3, <1>13
  <2>2. Exchanges(<<"rows", "columns", "pages">>) = << <<1, 2>>, <<1, 3>> >>
    BY ExchangesOfNames
  <2>3. ExchangeAll(named, << <<1, 2>>, <<1, 3>> >>) = Twice(1)
    <3> DEFINE v == <<1, 2>>
               w == <<1, 3>>
    <3> HIDE DEF v, w
    <3>1. ExchangeAll(named, <<v, w>>) = Exchange(Exchange(named, v), w)
      BY ExchangeAllOf
    <3> QED
      BY <3>1 DEF v, w
  <2>4. Sorted(named) = Twice(1)
    BY <2>1, <2>2, <2>3
  <2>5. named[3].name = "pages" /\ named[1].name = "rows" /\ named[2].name = "columns"
    BY <1>13
  <2> QED
    BY <1>4, <1>5, <1>9, <2>4, <2>5
<1>14. CASE x = "rows" /\ y = "pages" /\ z = "columns"
  <2>1. Sorted(named) = ExchangeAll(named, Exchanges(<<"rows", "pages", "columns">>))
    BY <1>3, <1>14
  <2>2. Exchanges(<<"rows", "pages", "columns">>) = << <<1, 2>> >>
    BY ExchangesOfNames
  <2>3. ExchangeAll(named, << <<1, 2>> >>) = Swap(1, 2)
    BY ExchangeAllOf
  <2>4. Sorted(named) = Swap(1, 2)
    BY <2>1, <2>2, <2>3
  <2>5. named[2].name = "pages" /\ named[1].name = "rows" /\ named[3].name = "columns"
    BY <1>14
  <2> QED
    BY <1>4, <1>5, <1>6, <2>4, <2>5
<1>15. CASE x = "columns" /\ y = "pages" /\ z = "rows"
  <2>1. Sorted(named) = ExchangeAll(named, Exchanges(<<"columns", "pages", "rows">>))
    BY <1>3, <1>15
  <2>2. Exchanges(<<"columns", "pages", "rows">>) = << <<1, 2>>, <<2, 3>> >>
    BY ExchangesOfNames
  <2>3. ExchangeAll(named, << <<1, 2>>, <<2, 3>> >>) = Twice(2)
    <3> DEFINE v == <<1, 2>>
               w == <<2, 3>>
    <3> HIDE DEF v, w
    <3>1. ExchangeAll(named, <<v, w>>) = Exchange(Exchange(named, v), w)
      BY ExchangeAllOf
    <3> QED
      BY <3>1 DEF v, w
  <2>4. Sorted(named) = Twice(2)
    BY <2>1, <2>2, <2>3
  <2>5. named[2].name = "pages" /\ named[3].name = "rows" /\ named[1].name = "columns"
    BY <1>15
  <2> QED
    BY <1>4, <1>5, <1>10, <2>4, <2>5
<1>16. CASE x = "columns" /\ y = "rows" /\ z = "pages"
  <2>1. Sorted(named) = ExchangeAll(named, Exchanges(<<"columns", "rows", "pages">>))
    BY <1>3, <1>16
  <2>2. Exchanges(<<"columns", "rows", "pages">>) = << <<1, 3>> >>
    BY ExchangesOfNames
  <2>3. ExchangeAll(named, << <<1, 3>> >>) = Swap(1, 3)
    BY ExchangeAllOf
  <2>4. Sorted(named) = Swap(1, 3)
    BY <2>1, <2>2, <2>3
  <2>5. named[3].name = "pages" /\ named[2].name = "rows" /\ named[1].name = "columns"
    BY <1>16
  <2> QED
    BY <1>4, <1>5, <1>7, <2>4, <2>5
<1> HIDE DEF x, y, z
<1> QED
  BY <1>2, <1>11, <1>12, <1>13, <1>14, <1>15, <1>16, NamesOfThree


(* A site holds what its list says, in whatever order its spans are named.  *)
LEMMA ListedIsHeld ==
    ASSUME NEW named \in UserTiles, NEW g
    PROVE  Holds(TileExtraction(named), g) <=> OneArray!Listed(named, g)
<1> DEFINE n == Len(named)
<1>1. /\ named \in Seq([name : {"pages", "rows", "columns"}, start : Nat, stop : Nat])
      /\ n \in 1 .. 3
      /\ n = 2 => {named[i].name : i \in 1 .. 2} = {"rows", "columns"}
      /\ n = 3 => {named[i].name : i \in 1 .. 3} = {"pages", "rows", "columns"}
  BY TiledArraysAssumption
<1>2. DOMAIN named = 1 .. n /\ (n = 1 \/ n = 2 \/ n = 3)
  BY <1>1, LenProperties, SMT
<1>3. ASSUME NEW d \in 1 .. n
      PROVE  Sorted(named)[d] = named[OneArray!Dimension(named, d)]
  <2>1. CASE n = 1
    <3>1. [i \in DOMAIN named |-> named[i].name] = <<named[1].name>>
      BY <1>2, <2>1, SMT
    <3>2. Sorted(named) = ExchangeAll(named, Exchanges(<<named[1].name>>))
      BY <3>1 DEF Sorted
    <3>3. Exchanges(<<named[1].name>>) = << >>
      BY ExchangesOfNames
    <3>4. Sorted(named) = named
      BY <3>2, <3>3, ExchangeAllOf
    <3>5. d = 1
      BY <2>1, SMT
    <3> QED
      BY <1>2, <2>1, <3>4, <3>5, DimensionOfOne
  <2>2. CASE n = 2
    BY <1>1, <1>2, <2>2, SortedTwo
  <2>3. CASE n = 3
    BY <1>1, <1>2, <2>3, SortedThree
  <2> QED
    BY <1>2, <2>1, <2>2, <2>3
<1>4. /\ DOMAIN TileExtraction(named) = 1 .. n
      /\ \A d \in 1 .. n : /\ TileExtraction(named)[d].start = Sorted(named)[d].start
                           /\ TileExtraction(named)[d].stop = Sorted(named)[d].stop
  <2>1. TileExtraction(named) =
            [d \in 1 .. n |-> Span(Sorted(named)[d].start, Sorted(named)[d].stop)]
    BY <1>2 DEF TileExtraction, Sorted
  <2> QED
    BY <2>1 DEF Span
<1>5. Holds(TileExtraction(named), g) <=>
        \A d \in 1 .. n : /\ Sorted(named)[d].start <= g[d]
                          /\ g[d] < Sorted(named)[d].stop
  BY <1>4 DEF Holds, InSpan
<1>6. OneArray!Listed(named, g) <=>
        \A d \in 1 .. n : /\ named[OneArray!Dimension(named, d)].start <= g[d]
                          /\ g[d] < named[OneArray!Dimension(named, d)].stop
  BY <1>2 DEF OneArray!Listed
<1> QED
  BY <1>3, <1>5, <1>6

(* The tiles a user lists are the ones the user gets.                       *)
LEMMA RetilesOneArrayAsListed ==
    ASSUME TiledInv, NEW named \in [Sites -> {u \in UserTiles : Len(u) = Rank(cur)}],
           RetileUser(named)
    PROVE  OneArray!WholeNext
<1> DEFINE desired == [s \in Sites |-> TileExtraction(named[s])]
           r == [op |-> "user", tiles |-> {named[s] : s \in Sites}]
           b == [tiles |-> desired, data |-> [s \in Sites |-> Retiled(cur, s, desired[s])]]
<1>1. Ask(r) /\ RetileTo(desired)
  BY Zenon DEF RetileUser
<1>2. Sound(cur) /\ request' = r
  <2> HIDE DEF r
  <2> QED
    BY <1>1, AskCounts
<1>3. \A s \in Sites : named[s] \in UserTiles /\ Len(named[s]) = Rank(cur)
  OBVIOUS
<1>4. \A s \in Sites : IsTile(TileExtraction(named[s]), Rank(cur))
  BY <1>3, ExtractionIsTile
<1>5. /\ desired = [s \in Sites |-> desired[s]]
      /\ \A s \in Sites : IsTile(desired[s], Rank(cur))
      /\ \A s \in Sites : desired[s] = TileExtraction(named[s])
  BY <1>4
<1> HIDE DEF desired
<1>6. cur' = b /\ verdict' = "fine"
  BY <1>1 DEF RetileTo, Become
<1>7. b = [tiles |-> desired, data |-> [s \in Sites |-> Retiled(cur, s, desired[s])]]
  OBVIOUS
<1>8. r.op = "user" /\ \A u : u \in r.tiles <=> \E s \in Sites : u = named[s]
  OBVIOUS
<1> HIDE DEF b, r
<1>9. /\ OneArray!Kept(Whole(cur), Whole(b))
      /\ DOMAIN Whole(cur) = Held(cur) /\ DOMAIN Whole(b) = Held(b)
      /\ \A g : g \in Held(b) <=>
           g \in [1 .. Rank(cur) -> Nat] /\ \E s \in Sites : Holds(desired[s], g)
  <2> DEFINE c == cur
  <2>1. Sound(c) /\ \A s \in Sites : IsTile(desired[s], Rank(c))
    BY <1>2, <1>5
  <2>2. desired = [s \in Sites |-> desired[s]]
    BY <1>5
  <2>3. b = [tiles |-> desired, data |-> [s \in Sites |-> Retiled(c, s, desired[s])]]
    BY <1>7
  <2> HIDE DEF c
  <2>4. /\ OneArray!Kept(Whole(c), Whole(b))
        /\ DOMAIN Whole(c) = Held(c) /\ DOMAIN Whole(b) = Held(b)
        /\ \A g : g \in Held(b) <=>
              g \in [1 .. Rank(c) -> Nat] /\ \E s \in Sites : Holds(desired[s], g)
    BY <2>1, <2>2, <2>3, RetilingKeeps
  <2> QED
    BY <2>4 DEF c
<1>10. \A s \in Sites : \A g : Holds(desired[s], g) <=> OneArray!Listed(named[s], g)
  BY <1>3, <1>5, ListedIsHeld
<1>11. ASSUME NEW g \in Held(b)
       PROVE  \E u \in r.tiles : OneArray!Listed(u, g)
  <2>1. PICK s \in Sites : Holds(desired[s], g)
    BY <1>9
  <2>2. named[s] \in r.tiles /\ OneArray!Listed(named[s], g)
    BY <1>8, <1>10, <2>1
  <2> QED
    BY <2>2
<1>12. ASSUME NEW g \in Held(cur), NEW u \in r.tiles, OneArray!Listed(u, g)
       PROVE  g \in Held(b)
  <2>1. g \in [1 .. Rank(cur) -> Nat]
    BY <1>2, HeldWithin
  <2>2. PICK s \in Sites : u = named[s]
    BY <1>8
  <2>3. Holds(desired[s], g)
    BY <1>10, <1>12, <2>2
  <2> QED
    BY <1>9, <2>1, <2>3
<1>13. OneArray!RetileUser(Whole(cur), Whole(b), r)
  BY <1>8, <1>9, <1>11, <1>12 DEF OneArray!RetileUser
<1>14. OneArray!Does(Whole(cur), Whole(cur'), request')
  BY <1>2, <1>6, <1>13 DEF OneArray!Does
<1> QED
  BY <1>6, <1>14 DEF OneArray!WholeNext


(* Where the element with index g of the array goes when it is transposed.  *)
Forth(n, axes, g) == [i \in 1 .. n |-> g[axes[i]]]

LEMMA ForthAndBack ==
    ASSUME NEW n \in 1 .. 3, NEW axes \in Axes(n), NEW g \in [1 .. n -> Nat]
    PROVE  /\ Forth(n, axes, g) \in [1 .. n -> Nat]
           /\ Back(n, axes, g) \in [1 .. n -> Nat]
           /\ Back(n, axes, Forth(n, axes, g)) = g
           /\ Forth(n, axes, Back(n, axes, g)) = g
<1> DEFINE v == [d \in 1 .. n |-> CHOOSE i \in 1 .. n : axes[i] = d]
           there == Forth(n, axes, g)
           here == Back(n, axes, g)
<1>1. /\ axes \in [1 .. n -> 1 .. n]
      /\ \A i, j \in 1 .. n : axes[i] = axes[j] => i = j
  BY DEF Axes
<1>2. v \in [1 .. n -> 1 .. n] /\ \A d \in 1 .. n : axes[v[d]] = d
  BY AxesOnto
<1>3. here = [d \in 1 .. n |-> g[v[d]]] /\ there = [i \in 1 .. n |-> g[axes[i]]]
  BY DEF Back, Forth
<1>4. /\ Back(n, axes, there) = [d \in 1 .. n |-> there[v[d]]]
      /\ Forth(n, axes, here) = [i \in 1 .. n |-> here[axes[i]]]
  BY DEF Back, Forth
<1> HIDE DEF v, here, there
<1>5. there \in [1 .. n -> Nat] /\ here \in [1 .. n -> Nat]
  BY <1>1, <1>2, <1>3
<1>6. \A i \in 1 .. n : axes[i] \in 1 .. n /\ v[i] \in 1 .. n /\ v[axes[i]] = i
  BY <1>1, <1>2
<1>7. \A d \in 1 .. n : there[v[d]] = g[d] /\ here[axes[d]] = g[d]
  BY <1>2, <1>3, <1>6
<1>8. g = [d \in 1 .. n |-> g[d]]
  OBVIOUS
<1> QED
  BY <1>4, <1>5, <1>7, <1>8 DEF here, there

(* The cardinality WholeArray speaks of.                                    *)
LEMMA SameCardinality ==
    ASSUME NEW S
    PROVE  OneArray!Cardinality(S) = Cardinality(S)
  BY Zenon DEF OneArray!Cardinality, Cardinality

LEMMA TransposedHolds ==
    ASSUME NEW n \in 1 .. 3, NEW axes \in Axes(n), NEW tile, IsTile(tile, n),
           NEW g \in [1 .. n -> Nat]
    PROVE  Holds(Transposed(tile, axes), Forth(n, axes, g)) <=> Holds(tile, g)
<1>1. DOMAIN tile = 1 .. n
  BY TileIsFunction, SMT
<1>2. axes \in [1 .. n -> 1 .. n]
  BY DEF Axes
<1>3. \A d \in 1 .. n : \E i \in 1 .. n : axes[i] = d
  BY AxesOnto
<1>4. Holds(tile, g) <=> \A d \in 1 .. n : InSpan(g[d], tile[d])
  BY <1>1 DEF Holds
<1>5. Holds(Transposed(tile, axes), Forth(n, axes, g)) <=>
        \A i \in 1 .. n : InSpan(g[axes[i]], tile[axes[i]])
  <2>1. /\ DOMAIN Transposed(tile, axes) = 1 .. n
        /\ \A i \in 1 .. n : Transposed(tile, axes)[i] = tile[axes[i]]
    BY <1>1 DEF Transposed
  <2>2. \A i \in 1 .. n : Forth(n, axes, g)[i] = g[axes[i]]
    BY DEF Forth
  <2> QED
    BY <2>1, <2>2 DEF Holds
<1> QED
  BY <1>2, <1>3, <1>4, <1>5

(* Every element goes somewhere else, and no two to the same place.         *)
LEMMA TransposesOneArray ==
    ASSUME TiledInv, NEW axes \in Axes(Rank(cur)), Transpose(axes)
    PROVE  OneArray!WholeNext
<1> DEFINE n == Rank(cur)
           tiles == [s \in Sites |-> Transposed(cur.tiles[s], axes)]
           data == [s \in Sites |->
                        TransposedData(cur.data[s], cur.tiles[s], axes)]
           b == [tiles |-> tiles, data |-> data]
           V == [g \in [1 .. n -> Nat] |-> Found(cur, Back(n, axes, g))]
           r == [op |-> "transpose", axes |-> axes]
           to(g) == Forth(n, axes, g)
           f == [g \in Held(cur) |-> to(g)]
<1>1. Ask(r) /\ Become(tiles, data)
  BY Zenon DEF Transpose
<1>2. Sound(cur) /\ request' = r
  <2> HIDE DEF r
  <2> QED
    BY <1>1, AskCounts
<1>3. cur' = b /\ verdict' = "fine"
  BY <1>1 DEF Become
<1>4. HasValues(n, tiles, data, V)
  BY <1>2, TransposedIsSound
<1>5. n \in 1 .. 3 /\ IsArray(cur) /\ axes \in Axes(n)
  BY <1>2 DEF Sound
<1>6. \A s \in Sites : tiles[s] = Transposed(cur.tiles[s], axes)
                       /\ IsTile(cur.tiles[s], n)
  BY <1>5, TilesOfArray
<1>7. r.op = "transpose" /\ r.axes = axes
  OBVIOUS
<1> HIDE DEF tiles, data, V, n, r
<1>8. /\ DOMAIN Whole(b) = Held(b)
      /\ \A g : g \in Held(b) <=>
            g \in [1 .. n -> Nat] /\ \E s \in Sites : Holds(tiles[s], g)
      /\ \A g \in Held(b) : Whole(b)[g] = V[g]
  BY <1>4, <1>5, WholeByGlobalIndex
<1>9. /\ DOMAIN Whole(cur) = Held(cur)
      /\ \A g \in Held(cur) : Whole(cur)[g] = Found(cur, g)
      /\ \A g : g \in Held(cur) <=>
            g \in [1 .. n -> Nat] /\ \E s \in Sites : Holds(cur.tiles[s], g)
  BY <1>5, WholeArrayFound, HeldBySomeone DEF n
<1> HIDE DEF b
<1>10. ASSUME NEW g \in Held(cur)
       PROVE  /\ to(g) \in Held(b)
              /\ Whole(b)[to(g)] = Whole(cur)[g]
              /\ Back(n, axes, to(g)) = g
              /\ [i \in DOMAIN g |-> g[axes[i]]] = to(g)
  <2>1. g \in [1 .. n -> Nat]
    BY <1>9
  <2>2. to(g) \in [1 .. n -> Nat] /\ Back(n, axes, to(g)) = g
    BY <1>5, <2>1, ForthAndBack
  <2>3. PICK s \in Sites : Holds(cur.tiles[s], g)
    BY <1>9
  <2>4. Holds(tiles[s], to(g))
    <3>1. Holds(Transposed(cur.tiles[s], axes), Forth(n, axes, g))
      BY <1>5, <1>6, <2>1, <2>3, TransposedHolds
    <3> QED
      BY <1>6, <3>1
  <2>5. to(g) \in Held(b)
    BY <1>8, <2>2, <2>4
  <2>6. V[to(g)] = Found(cur, g)
    BY <2>2 DEF V
  <2>7. [i \in DOMAIN g |-> g[axes[i]]] = to(g)
    BY <2>1 DEF Forth
  <2> QED
    BY <1>8, <1>9, <2>2, <2>5, <2>6, <2>7
<1>11. ASSUME NEW h \in Held(b)
       PROVE  \E g \in Held(cur) : to(g) = h
  <2> DEFINE g == Back(n, axes, h)
  <2>1. h \in [1 .. n -> Nat]
    BY <1>8
  <2>2. g \in [1 .. n -> Nat] /\ to(g) = h
    BY <1>5, <2>1, ForthAndBack
  <2>3. PICK s \in Sites : Holds(tiles[s], h)
    BY <1>8
  <2> HIDE DEF g
  <2>4. Holds(cur.tiles[s], g)
    BY <1>5, <1>6, <2>2, <2>3, TransposedHolds
  <2> QED
    BY <1>9, <2>2, <2>4
<1>12. Cardinality(Held(b)) = Cardinality(Held(cur))
  <2>1. f \in [Held(cur) -> Held(b)]
    BY <1>10
  <2>2. \A g, h \in Held(cur) : f[g] = f[h] => g = h
    BY <1>10
  <2>3. \A h \in Held(b) : \E g \in Held(cur) : f[g] = h
    BY <1>11
  <2> HIDE DEF f
  <2>4. f \in Bijection(Held(cur), Held(b))
    BY <2>1, <2>2, <2>3 DEF Bijection, Injection, Surjection, IsInjective
  <2>5. ExistsBijection(Held(cur), Held(b))
    BY <2>4 DEF ExistsBijection
  <2>6. IsFiniteSet(Held(cur))
    BY <1>2, HeldIsFinite
  <2> QED
    BY <2>5, <2>6, FS_Bijection
<1>13. OneArray!Transpose(Whole(cur), Whole(b), r)
  <2>1. \A g \in DOMAIN Whole(cur) :
            LET h == [i \in DOMAIN g |-> g[r.axes[i]]]
            IN  h \in DOMAIN Whole(b) /\ Whole(b)[h] = Whole(cur)[g]
    <3> SUFFICES ASSUME NEW g \in Held(cur)
                 PROVE  LET h == [i \in DOMAIN g |-> g[r.axes[i]]]
                        IN  h \in Held(b) /\ Whole(b)[h] = Whole(cur)[g]
      BY <1>8, <1>9, Zenon
    <3>1. [i \in DOMAIN g |-> g[r.axes[i]]] = to(g)
      BY <1>7, <1>10
    <3> QED
      BY <1>10, <3>1
  <2>2. OneArray!Cardinality(DOMAIN Whole(b)) = OneArray!Cardinality(DOMAIN Whole(cur))
    BY <1>8, <1>9, <1>12, SameCardinality
  <2> QED
    BY <1>7, <2>1, <2>2, Zenon DEF OneArray!Transpose
<1>14. OneArray!Does(Whole(cur), Whole(cur'), request')
  BY <1>2, <1>3, <1>13 DEF OneArray!Does
<1> QED
  BY <1>3, <1>14 DEF OneArray!WholeNext


LEMMA OneIndex ==
    ASSUME NEW i \in Nat
    PROVE  <<i>> \in [1 .. 1 -> Nat] /\ <<i>>[1] = i
  BY SMT

LEMMA TwoIndices ==
    ASSUME NEW i \in Nat, NEW j \in Nat
    PROVE  /\ <<i, j>> \in [1 .. 2 -> Nat] /\ <<i, j>>[1] = i /\ <<i, j>>[2] = j
           /\ \A d \in 1 .. 2 : d = 1 \/ d = 2
  BY SMT

(* As many sites as tiles: a matrix of this size is held.                   *)
LEMMA SquareIsHeld ==
    ASSUME NEW size \in Nat \ {0}, NEW type, NEW n \in Nat \ {0}, n <= NumSites,
           Tileable(type, <<size, size>>, n),
           NEW i \in Nat, NEW j \in Nat, i < size, j < size
    PROVE  \E s \in Sites : Holds(TileCalculation(s, type, <<size, size>>, n), <<i, j>>)
<1> DEFINE dims == <<size, size>>
           g == <<i, j>>
<1>1. dims \in Seq(Nat \ {0}) /\ Len(dims) = 2 /\ dims[1] = size /\ dims[2] = size
  OBVIOUS
<1>2. IsDims(dims)
  BY <1>1, SMT DEF IsDims
<1>3. g \in [1 .. 2 -> Nat] /\ \A d \in 1 .. 2 : g[d] < dims[d]
  BY <1>1, TwoIndices
<1> HIDE DEF dims, g
<1>4. PICK s \in Nat : s < n /\ Holds(TileCalculation(s, type, dims, n), g)
  <2>1. g \in [1 .. Len(dims) -> Nat] /\ \A d \in 1 .. Len(dims) : g[d] < dims[d]
    BY <1>1, <1>3
  <2>2. Tileable(type, dims, n)
    BY DEF dims
  <2> QED
    BY <1>2, <2>1, <2>2, TilesMakeUpArray
<1>5. s \in Sites
  BY <1>4, SitesNotEmpty, SMT DEF Sites
<1> QED
  BY <1>4, <1>5 DEF dims, g

(* What is on the diagonal, as WholeArray says it.                          *)
LEMMA DiagValueOfWhole ==
    ASSUME NEW a, Sound(a), Rank(a) = 1, NEW k \in Int, NEW g \in [1 .. 2 -> Nat],
           NEW below, below = IF k < 0 THEN -k ELSE 0
    PROVE  DiagValue(a, k, g) =
            IF g[2] - g[1] # k THEN 0
            ELSE IF <<g[1] - below>> \in Held(a) THEN Whole(a)[<<g[1] - below>>]
            ELSE Junk
<1>1. IsArray(a)
  BY DEF Sound
<1>2. PICK i, j \in Nat : i = g[1] /\ j = g[2]
  BY SMT
<1>3. CASE j - i # k
  BY <1>2, <1>3 DEF DiagValue
<1>4. CASE j - i = k
  <2>1. (IF k < 0 THEN j ELSE i) = i - below /\ i - below \in Nat
    BY <1>2, <1>4, SMT
  <2> DEFINE h == <<i - below>>
  <2>2. h \in [1 .. Rank(a) -> Nat]
    BY <2>1, OneIndex
  <2>3. DiagValue(a, k, g) = Found(a, h)
    BY <1>2, <1>4, <2>1 DEF DiagValue
  <2> HIDE DEF h
  <2>4. Found(a, h) = IF h \in Held(a) THEN Whole(a)[h] ELSE Junk
    BY <1>1, <2>2, WholeArrayFound
  <2> QED
    BY <1>2, <1>4, <2>3, <2>4 DEF h
<1> QED
  BY <1>3, <1>4


(* The vector is on the diagonal, all of it if there are sites for all      *)
(* tiles.                                                                   *)
LEMMA DiagOfOneArray ==
    ASSUME TiledInv, NEW type \in Types(2), NEW n \in TileNumbers, NEW k \in Diagonals,
           Diag(type, n, k)
    PROVE  OneArray!WholeNext
<1> DEFINE x == Extent(cur.tiles, 1)
           size == x + (IF k < 0 THEN -k ELSE k)
           dims == <<size, size>>
           desired == [s \in Sites |-> TileCalculation(s, type, dims, n)]
           data == [s \in Sites |-> DiagTile(cur, s, type, desired[s], k)]
           throwing == {s \in Sites : s >= n \/ ~Tileable(type, dims, n)}
           r == [op |-> "diag", type |-> type, n |-> n, k |-> k]
           b == [tiles |-> desired, data |-> data]
           V == [g \in [1 .. 2 -> Nat] |-> DiagValue(cur, k, g)]
           below == IF k < 0 THEN -k ELSE 0
           above == IF k > 0 THEN k ELSE 0
<1>1. Ask(r) /\ Rank(cur) = 1
  BY DEF Diag
<1>2. Sound(cur) /\ request' = r /\ IsArray(cur)
  BY <1>1, AskCounts DEF Sound
<1>3. n \in Nat \ {0} /\ k \in Int /\ type \in {"row", "column", "sym"}
  BY TiledArraysAssumption, SMT DEF Types
<1>4. x \in Nat \ {0} /\ size \in Nat \ {0}
  <2>1. 1 \in 1 .. Rank(cur)
    BY <1>1, SMT
  <2>2. x \in Nat \ {0}
    BY <1>2, <2>1, ExtentOfArray
  <2> HIDE DEF x
  <2>3. x + (IF k < 0 THEN -k ELSE k) \in Nat \ {0}
    BY <1>3, <2>2, SMT
  <2> QED
    BY <2>2, <2>3
<1>5. CASE throwing = {}
  <2>1. cur' = b /\ verdict' = "fine"
    <3>1. Become(desired, data)
      BY <1>5, Zenon DEF Diag
    <3> HIDE DEF desired, data
    <3> QED
      BY <3>1 DEF Become
  <2>2. Tileable(type, dims, n)
    BY <1>5, SitesNotEmpty
  <2>3. HasValues(2, desired, data, V)
    <3> HIDE DEF size
    <3> QED
      BY <1>1, <1>2, <1>3, <1>4, <2>2, DiagIsSound, Zenon
  <2>4. /\ \A s \in Sites : desired[s] = TileCalculation(s, type, dims, n)
        /\ r.op = "diag" /\ r.n = n /\ r.k = k
    OBVIOUS
  <2>5. below \in Nat /\ above \in Nat /\ x + below <= size /\ x + above <= size
    <3> HIDE DEF x
    <3> QED
      BY <1>3, <1>4, SMT
  <2> HIDE DEF desired, data, r, x, size
  <2>6. /\ DOMAIN Whole(b) = Held(b)
        /\ \A g : g \in Held(b) <=>
              g \in [1 .. 2 -> Nat] /\ \E s \in Sites : Holds(desired[s], g)
        /\ \A g \in Held(b) : Whole(b)[g] = V[g]
    <3>1. 2 \in 1 .. 3
      BY SMT
    <3> HIDE DEF V
    <3> QED
      BY <2>3, <3>1, WholeByGlobalIndex
  <2>7. DOMAIN Whole(cur) = Held(cur)
    BY <1>2, WholeArrayFound
  <2> HIDE DEF b, below, above
  <2>8. ASSUME NEW g \in Held(b)
        PROVE  Whole(b)[g] =
                IF g[2] - g[1] # k THEN 0
                ELSE IF <<g[1] - below>> \in Held(cur) THEN Whole(cur)[<<g[1] - below>>]
                ELSE Junk
    <3>1. g \in [1 .. 2 -> Nat]
      BY <2>6
    <3>2. Whole(b)[g] = DiagValue(cur, k, g)
      BY <2>6, <3>1
    <3>3. below = IF k < 0 THEN -k ELSE 0
      BY DEF below
    <3> QED
      BY <1>1, <1>2, <1>3, <3>1, <3>2, <3>3, DiagValueOfWhole
  <2>9. ASSUME n <= NumSites, NEW g \in Held(cur)
        PROVE  <<g[1] + below, g[1] + above>> \in Held(b)
    <3>1. PICK i \in Nat : i = g[1] /\ i < x
      <4>1. g \in [1 .. 1 -> Nat] /\ g[1] < Dims(cur)[1] /\ 1 \in 1 .. 1
        <5>1. 1 \in 1 .. 1
          BY SMT
        <5>2. /\ g \in [1 .. Rank(cur) -> Nat]
              /\ \A d \in 1 .. Rank(cur) : g[d] < Dims(cur)[d]
          BY <1>2, HeldWithin
        <5> QED
          BY <1>1, <5>1, <5>2
      <4>2. Dims(cur)[1] = x
        <5>1. IsTile(cur.tiles[0], 1)
          BY <1>1, <1>2, SitesNotEmpty, TilesOfArray
        <5>2. DOMAIN cur.tiles[0] = 1 .. 1
          BY <5>1, TileIsFunction, SMT
        <5> QED
          BY <4>1, <5>2 DEF Dims, x
      <4> QED
        BY <4>1, <4>2
    <3>2. /\ i + below \in Nat /\ i + above \in Nat
          /\ i + below < size /\ i + above < size
      BY <1>4, <2>5, <3>1, SMT
    <3>3. PICK s \in Sites :
            Holds(TileCalculation(s, type, dims, n), <<i + below, i + above>>)
      BY <1>3, <1>4, <2>2, <2>9, <3>2, SquareIsHeld
    <3>4. <<i + below, i + above>> \in [1 .. 2 -> Nat]
      BY <3>2, TwoIndices
    <3> QED
      BY <2>4, <2>6, <3>1, <3>3, <3>4
  <2>10. OneArray!Diag(Whole(cur), Whole(b), r)
    BY <2>4, <2>6, <2>7, <2>8, <2>9 DEF OneArray!Diag, below, above
  <2>11. OneArray!Does(Whole(cur), Whole(cur'), request')
    BY <1>2, <2>1, <2>10 DEF OneArray!Does
  <2> QED
    BY <2>1, <2>11 DEF OneArray!WholeNext
<1>6. CASE throwing # {}
  <2>1. Refuse(throwing)
    BY <1>6, Zenon DEF Diag
  <2>2. cur' = cur /\ verdict' # "fine"
    BY <2>1 DEF Refuse
  <2> QED
    BY <2>2 DEF OneArray!WholeNext
<1> QED
  BY <1>5, <1>6

-----------------------------------------------------------------------------
(* The sites of TiledArrays act as one array.                               *)
LEMMA OneArrayInitially == TiledInit => OneArray!WholeInit
<1> SUFFICES ASSUME TiledInit PROVE OneArray!WholeInit
  OBVIOUS
<1>1. cur = NoArray /\ verdict = "fine"
  BY DEF TiledInit
<1>2. Held(NoArray) = {}
  BY DEF Held, NoArray
<1>3. Whole(cur) = << >>
  BY <1>1, <1>2 DEF Whole
<1> QED
  BY <1>1, <1>3 DEF OneArray!WholeInit

LEMMA OneArrayStep ==
    TiledInv /\ [TiledNext]_tiledVars =>
        [OneArray!WholeNext]_<<Whole(cur), request, verdict>>
<1> SUFFICES ASSUME TiledInv, [TiledNext]_tiledVars
             PROVE  \/ OneArray!WholeNext
                    \/ cur' = cur /\ request' = request /\ verdict' = verdict
  OBVIOUS
<1>1. CASE NewArrayAny
  BY <1>1, CreatesOneArray DEF NewArrayAny
<1>2. CASE RetileAny
  <2>1. PICK type \in Types(Rank(cur)), n \in TileNumbers :
            \E ks \in {k \in Overlaps : Len(k) = Rank(cur)} : Retile(type, n, ks)
    BY <1>2 DEF RetileAny
  <2>2. PICK ks \in {k \in Overlaps : Len(k) = Rank(cur)} : Retile(type, n, ks)
    BY <2>1
  <2> QED
    BY <2>2, RetilesOneArray
<1>3. CASE RetileAsListed
  BY <1>3, RetilesOneArrayAsListed DEF RetileAsListed
<1>4. CASE TransposeAny
  BY <1>4, TransposesOneArray DEF TransposeAny
<1>5. CASE DiagAny
  BY <1>5, DiagOfOneArray DEF DiagAny
<1>6. CASE Keep
  BY <1>6 DEF Keep
<1>7. CASE UNCHANGED tiledVars
  BY <1>7 DEF tiledVars
<1> QED
  BY <1>1, <1>2, <1>3, <1>4, <1>5, <1>6, <1>7 DEF TiledNext

(* The sites together implement one array: retile_d, transpose_d, diag_d    *)
(* and the creation of an array have the effect on the tiles of all sites   *)
(* that WholeArray says they have on an array nobody has cut up.            *)
THEOREM SitesActAsOneArray == TiledSpec => ActsAsOneArray
<1>1. TiledInv /\ [TiledNext]_tiledVars =>
        [OneArray!WholeNext]_<<Whole(cur), request, verdict>>
  BY OneArrayStep
<1> QED
  BY <1>1, OneArrayInitially, TiledInvAlways, PTL
     DEF TiledSpec, ActsAsOneArray, OneArray!WholeSpec
=============================================================================
