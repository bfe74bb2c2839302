-------------------------- MODULE TiledAnswersProofs --------------------------
(***************************************************************************)
(* Proofs about TiledAnswers: what the sites answer together is what one   *)
(* would answer that has the whole array, for any number of sites, any     *)
(* arrays and any of their tilings.                                        *)
(*                                                                         *)
(* First sums, which the model folds over functions: what they are, and    *)
(* that they can be split and reordered.  Then, from the invariant of      *)
(* TiledArraysProofs and one about what arrays hold, the answers one by    *)
(* one: the first of the best elements, products, gathered arrays, lines.  *)
(***************************************************************************)
EXTENDS TiledArraysProofs

-----------------------------------------------------------------------------
(* Finite sets: a collection of them has a smallest member, and one that     *)
(* has the empty set, and any set with one element more, has them all.       *)
LEMMA SmallestSet ==
    ASSUME NEW F, F # {}, \A T \in F : IsFiniteSet(T)
    PROVE  \E T \in F : \A U \in F : Cardinality(T) <= Cardinality(U)
<1> DEFINE N == {Cardinality(T) : T \in F}
<1>1. N \subseteq Nat /\ N # {}
  BY FS_CardinalityType
<1>2. PICK n \in N : \A m \in N : n <= m
  <2> HIDE DEF N
  <2> QED
    BY <1>1, LeastElement
<1> QED
  BY <1>2

(* Induction over a finite set, for a collection instead of a predicate.    *)
LEMMA GrowsToAll ==
    ASSUME NEW S, IsFiniteSet(S), NEW F, {} \in F,
           \A T \in SUBSET S : \A x \in T : T \ {x} \in F => T \in F
    PROVE  \A T \in SUBSET S : T \in F
<1> SUFFICES ASSUME (SUBSET S) \ F # {} PROVE FALSE
  OBVIOUS
<1>1. \A T \in (SUBSET S) \ F : IsFiniteSet(T)
  BY FS_Subset
<1>2. PICK T \in (SUBSET S) \ F : \A U \in (SUBSET S) \ F : Cardinality(T) <= Cardinality(U)
  <2> DEFINE G == (SUBSET S) \ F
  <2>1. G # {} /\ \A T \in G : IsFiniteSet(T)
    BY <1>1
  <2> HIDE DEF G
  <2>2. \E T \in G : \A U \in G : Cardinality(T) <= Cardinality(U)
    BY <2>1, SmallestSet
  <2> QED
    BY <2>2 DEF G
<1>3. PICK x : x \in T
  OBVIOUS
<1>4. T \ {x} \in (SUBSET S) \ F
  BY <1>3
<1>5. /\ Cardinality(T) \in Nat /\ Cardinality(T \ {x}) = Cardinality(T) - 1
  BY <1>1, <1>3, FS_RemoveElement, FS_CardinalityType
<1>6. Cardinality(T) <= Cardinality(T \ {x})
  BY <1>2, <1>4
<1> QED
  BY <1>5, <1>6, SMT

(* The same for the numbers up to a bound.                                  *)
LEMMA ReachesAll ==
    ASSUME NEW n \in Nat, NEW F, 0 \in F,
           \A i \in 0 .. (n - 1) : i \in F => i + 1 \in F
    PROVE  \A i \in 0 .. n : i \in F
<1> DEFINE T == {i \in 0 .. n : i \notin F}
<1> SUFFICES ASSUME T # {} PROVE FALSE
  OBVIOUS
<1>1. PICK i \in T : \A j \in T : i <= j
  <2>1. T \subseteq Nat
    BY SMT
  <2> HIDE DEF T
  <2> QED
    BY <2>1, LeastElement
<1>2. i \in 0 .. n /\ i \notin F /\ i # 0
  OBVIOUS
<1>3. i - 1 \in 0 .. (n - 1) /\ i - 1 \in 0 .. n /\ ~(i <= i - 1) /\ (i - 1) + 1 = i
  BY <1>2, SMT
<1>4. i - 1 \notin F
  BY <1>2, <1>3
<1>5. i - 1 \in T
  BY <1>3, <1>4
<1> QED
  BY <1>1, <1>3, <1>5

-----------------------------------------------------------------------------
(* Sums of functions with values among the integers.                        *)

(* The function SumFunctionOnSet(f, S) is the last value of.                *)
IsSum(f, S, sum) ==
    sum = [s \in SUBSET S |->
            IF s = {} THEN 0
            ELSE f[CHOOSE x \in s : TRUE] + sum[s \ {CHOOSE x \in s : TRUE}]]

(* Two functions that sum up, over different sets, give the same for a      *)
(* set they both know.                                                      *)
LEMMA SumIsUnique ==
    ASSUME NEW f, NEW g, NEW S, NEW T, NEW h, NEW k, IsSum(f, S, h), IsSum(g, T, k),
           NEW U, IsFiniteSet(U), U \subseteq S, U \subseteq T,
           \A x \in U : f[x] = g[x]
    PROVE  h[U] = k[U]
<1> DEFINE F == {V \in SUBSET U : h[V] = k[V]}
<1>1. \A V \in SUBSET S : h[V] =
            IF V = {} THEN 0
            ELSE f[CHOOSE x \in V : TRUE] + h[V \ {CHOOSE x \in V : TRUE}]
  BY Zenon DEF IsSum
<1>2. \A V \in SUBSET T : k[V] =
            IF V = {} THEN 0
            ELSE g[CHOOSE x \in V : TRUE] + k[V \ {CHOOSE x \in V : TRUE}]
  BY Zenon DEF IsSum
<1>3. SUFFICES ASSUME (SUBSET U) \ F # {} PROVE FALSE
  OBVIOUS
<1>4. PICK V \in (SUBSET U) \ F : \A W \in (SUBSET U) \ F : Cardinality(V) <= Cardinality(W)
  <2> DEFINE G == (SUBSET U) \ F
  <2>1. G # {} /\ \A W \in G : IsFiniteSet(W)
    BY <1>3, FS_Subset
  <2> HIDE DEF G
  <2>2. \E W \in G : \A X \in G : Cardinality(W) <= Cardinality(X)
    BY <2>1, SmallestSet
  <2> QED
    BY <2>2 DEF G
<1>5. V \in SUBSET S /\ V \in SUBSET T /\ h[V] # k[V]
  OBVIOUS
<1> DEFINE x == CHOOSE y \in V : TRUE
<1>6. V # {}
  BY <1>1, <1>2, <1>5
<1>7. x \in V
  BY <1>6
<1> HIDE DEF x
<1>8. V \ {x} \in SUBSET U /\ Cardinality(V) \in Nat /\ Cardinality(V \ {x}) = Cardinality(V) - 1
  BY <1>7, FS_Subset, FS_RemoveElement, FS_CardinalityType
<1>9. h[V \ {x}] = k[V \ {x}]
  <2>1. ~(Cardinality(V) <= Cardinality(V \ {x}))
    BY <1>8, SMT
  <2> QED
    BY <1>4, <1>8, <2>1
<1>10. h[V] = f[x] + h[V \ {x}]
  BY <1>1, <1>5, <1>6, Zenon DEF x
<1>11. k[V] = g[x] + k[V \ {x}]
  BY <1>2, <1>5, <1>6, Zenon DEF x
<1>12. f[x] = g[x]
  BY <1>7
<1> QED
  BY <1>5, <1>9, <1>10, <1>11, <1>12

(* There is a function that sums up over a finite set: its values for       *)
(* sets of at most k elements determine those for k + 1.                    *)
LEMMA SumExists ==
    ASSUME NEW f, NEW S, IsFiniteSet(S)
    PROVE  \E h : IsSum(f, S, h)
<1> DEFINE p(s) == CHOOSE x \in s : TRUE
           Small(k) == {s \in SUBSET S : Cardinality(s) <= k}
           Step(h, s) == IF s = {} THEN 0 ELSE f[p(s)] + h[s \ {p(s)}]
           F == {k \in Nat : \E h : h = [s \in Small(k) |-> Step(h, s)]}
           n == Cardinality(S)
<1>1. \A s \in SUBSET S : IsFiniteSet(s) /\ Cardinality(s) \in Nat /\ Cardinality(s) <= n
  BY FS_Subset, FS_CardinalityType
<1>2. n \in Nat
  BY FS_CardinalityType
<1>3. \A s \in SUBSET S : s # {} =>
            /\ p(s) \in s
            /\ s \ {p(s)} \in SUBSET S
            /\ Cardinality(s \ {p(s)}) = Cardinality(s) - 1
  <2> SUFFICES ASSUME NEW s \in SUBSET S, s # {}
               PROVE  /\ p(s) \in s
                      /\ s \ {p(s)} \in SUBSET S
                      /\ Cardinality(s \ {p(s)}) = Cardinality(s) - 1
    OBVIOUS
  <2>1. p(s) \in s
    OBVIOUS
  <2> HIDE DEF p
  <2> QED
    BY <1>1, <2>1, FS_RemoveElement
<1> HIDE DEF p
<1>4. 0 \in F
  <2> DEFINE h == [s \in Small(0) |-> 0]
  <2>1. \A s \in Small(0) : s = {}
    <3> SUFFICES ASSUME NEW s \in Small(0) PROVE s = {}
      OBVIOUS
    <3>1. Cardinality(s) = 0 /\ IsFiniteSet(s)
      BY <1>1, SMT
    <3> QED
      BY <3>1, FS_EmptySet
  <2>2. h = [s \in Small(0) |-> Step(h, s)]
    BY <2>1
  <2> QED
    BY <2>2
<1>5. ASSUME NEW k \in 0 .. (n - 1), k \in F PROVE k + 1 \in F
  <2>1. PICK h : h = [s \in Small(k) |-> Step(h, s)]
    BY <1>5
  <2> DEFINE g == [s \in Small(k + 1) |-> Step(h, s)]
  <2>2. \A s \in Small(k) : g[s] = h[s]
    <3> SUFFICES ASSUME NEW s \in Small(k) PROVE g[s] = h[s]
      OBVIOUS
    <3>1. s \in Small(k + 1)
      BY <1>1, SMT
    <3>2. h[s] = Step(h, s)
      BY <2>1, Zenon
    <3> HIDE DEF Small, Step
    <3> QED
      BY <3>1, <3>2
  <2>3. ASSUME NEW s \in Small(k + 1) PROVE Step(h, s) = Step(g, s)
    <3>1. CASE s = {}
      BY <3>1
    <3>2. CASE s # {}
      <4>1. s \ {p(s)} \in Small(k)
        BY <1>1, <1>3, <3>2, SMT
      <4>2. g[s \ {p(s)}] = h[s \ {p(s)}]
        BY <2>2, <4>1, Zenon
      <4> HIDE DEF g
      <4> QED
        BY <3>2, <4>2, Zenon
    <3> QED
      BY <3>1, <3>2
  <2>4. g = [s \in Small(k + 1) |-> Step(g, s)]
    <3> HIDE DEF Small, Step
    <3>1. [s \in Small(k + 1) |-> Step(h, s)] = [s \in Small(k + 1) |-> Step(g, s)]
      <4> HIDE DEF g
      <4> QED
        BY <2>3
    <3> QED
      BY <3>1
  <2>5. \E e : e = [s \in Small(k + 1) |-> Step(e, s)]
    <3> HIDE DEF g, Small, Step
    <3> QED
      BY <2>4
  <2>6. k + 1 \in Nat
    BY SMT
  <2> HIDE DEF Small, Step
  <2> QED
    BY <2>5, <2>6
<1>6. n \in F
  <2> HIDE DEF F, n
  <2>1. \A k \in 0 .. n : k \in F
    BY <1>2, <1>4, <1>5, ReachesAll
  <2> QED
    BY <1>2, <2>1, SMT
<1>7. PICK h : h = [s \in Small(n) |-> Step(h, s)]
  BY <1>6
<1>8. Small(n) = SUBSET S
  BY <1>1
<1>9. h = [s \in SUBSET S |-> Step(h, s)]
  BY <1>7, <1>8
<1> QED
  BY <1>9, Zenon DEF IsSum, p

(* What SumFunctionOnSet computes, without the function that computes it.   *)
LEMMA SumUnfolds ==
    ASSUME NEW f, NEW S, IsFiniteSet(S)
    PROVE  SumFunctionOnSet(f, S) =
            IF S = {} THEN 0
            ELSE f[CHOOSE x \in S : TRUE]
                    + SumFunctionOnSet(f, S \ {CHOOSE x \in S : TRUE})
<1> DEFINE Sum(T) == CHOOSE h : IsSum(f, T, h)
           p == CHOOSE x \in S : TRUE
<1>1. \A T : SumFunctionOnSet(f, T) = Sum(T)[T]
  BY Zenon DEF SumFunctionOnSet, FoldFunctionOnSet, MapThenFoldSet, IsSum
<1>2. IsSum(f, S, Sum(S))
  BY SumExists
<1>3. Sum(S)[S] = IF S = {} THEN 0 ELSE f[p] + Sum(S)[S \ {p}]
  <2> HIDE DEF Sum
  <2> QED
    BY <1>2, Zenon DEF IsSum
<1>4. ASSUME S # {} PROVE Sum(S)[S \ {p}] = Sum(S \ {p})[S \ {p}]
  <2> DEFINE T == S \ {p}
  <2>1. IsFiniteSet(T) /\ T \subseteq S
    BY FS_Subset
  <2> HIDE DEF T
  <2>2. IsSum(f, T, Sum(T))
    BY <2>1, SumExists
  <2> HIDE DEF Sum
  <2>3. Sum(S)[T] = Sum(T)[T]
    BY <1>2, <2>1, <2>2, SumIsUnique
  <2> QED
    BY <2>3 DEF T
<1> HIDE DEF Sum
<1> QED
  BY <1>1, <1>3, <1>4

(* The sum over no elements.                                                *)
LEMMA SumOfNothing ==
    ASSUME NEW f
    PROVE  SumFunctionOnSet(f, {}) = 0
  BY FS_EmptySet, SumUnfolds

(* It depends on the values at the elements only.                           *)
LEMMA SumOfSame ==
    ASSUME NEW f, NEW g, NEW S, IsFiniteSet(S), \A x \in S : f[x] = g[x]
    PROVE  SumFunctionOnSet(f, S) = SumFunctionOnSet(g, S)
<1> DEFINE Sum(e) == CHOOSE h : IsSum(e, S, h)
<1>1. \A e : SumFunctionOnSet(e, S) = Sum(e)[S]
  BY Zenon DEF SumFunctionOnSet, FoldFunctionOnSet, MapThenFoldSet, IsSum
<1>2. \A e : IsSum(e, S, Sum(e))
  BY SumExists
<1> HIDE DEF Sum
<1>3. Sum(f)[S] = Sum(g)[S]
  BY <1>2, SumIsUnique
<1> QED
  BY <1>1, <1>3

(* The sum of integers is one.                                              *)
LEMMA SumIsInteger ==
    ASSUME NEW f, NEW S, IsFiniteSet(S), \A x \in S : f[x] \in Int
    PROVE  SumFunctionOnSet(f, S) \in Int
<1> DEFINE F == {T \in SUBSET S : SumFunctionOnSet(f, T) \in Int}
<1>1. SUFFICES ASSUME (SUBSET S) \ F # {} PROVE FALSE
  OBVIOUS
<1>2. PICK T \in (SUBSET S) \ F : \A U \in (SUBSET S) \ F : Cardinality(T) <= Cardinality(U)
  <2> DEFINE G == (SUBSET S) \ F
  <2>1. G # {} /\ \A W \in G : IsFiniteSet(W)
    BY <1>1, FS_Subset
  <2> HIDE DEF G
  <2>2. \E W \in G : \A X \in G : Cardinality(W) <= Cardinality(X)
    BY <2>1, SmallestSet
  <2> QED
    BY <2>2 DEF G
<1>3. T \in SUBSET S /\ SumFunctionOnSet(f, T) \notin Int /\ IsFiniteSet(T)
  BY FS_Subset
<1> DEFINE p == CHOOSE x \in T : TRUE
<1>4. SumFunctionOnSet(f, T) =
        IF T = {} THEN 0 ELSE f[p] + SumFunctionOnSet(f, T \ {p})
  BY <1>3, SumUnfolds
<1>5. T # {}
  BY <1>3, <1>4
<1>6. p \in T /\ f[p] \in Int
  BY <1>5
<1> HIDE DEF p
<1>7. T \ {p} \in SUBSET S /\ Cardinality(T) \in Nat /\ Cardinality(T \ {p}) = Cardinality(T) - 1
  BY <1>3, <1>6, FS_RemoveElement, FS_CardinalityType
<1>8. T \ {p} \in F
  <2>1. ~(Cardinality(T) <= Cardinality(T \ {p}))
    BY <1>7, SMT
  <2> QED
    BY <1>2, <1>7, <2>1
<1>9. SumFunctionOnSet(f, T \ {p}) \in Int
  BY <1>8
<1> QED
  BY <1>3, <1>4, <1>5, <1>6, <1>9, SMT

(* The element that is taken away first does not matter.                    *)
LEMMA SumWithout ==
    ASSUME NEW f, NEW S, IsFiniteSet(S), \A x \in S : f[x] \in Int, NEW x \in S
    PROVE  SumFunctionOnSet(f, S) = f[x] + SumFunctionOnSet(f, S \ {x})
<1> DEFINE Sum(T) == SumFunctionOnSet(f, T)
           F == {T \in SUBSET S : \A y \in T : Sum(T) = f[y] + Sum(T \ {y})}
<1>1. SUFFICES ASSUME (SUBSET S) \ F # {} PROVE FALSE
  OBVIOUS
<1>2. PICK T \in (SUBSET S) \ F : \A U \in (SUBSET S) \ F : Cardinality(T) <= Cardinality(U)
  <2> DEFINE G == (SUBSET S) \ F
  <2>1. G # {} /\ \A W \in G : IsFiniteSet(W)
    BY <1>1, FS_Subset
  <2> HIDE DEF G
  <2>2. \E W \in G : \A X \in G : Cardinality(W) <= Cardinality(X)
    BY <2>1, SmallestSet
  <2> QED
    BY <2>2 DEF G
<1>3. T \in SUBSET S /\ IsFiniteSet(T)
  BY FS_Subset
<1>4. PICK y \in T : Sum(T) # f[y] + Sum(T \ {y})
  BY <1>3
<1> DEFINE p == CHOOSE z \in T : TRUE
<1>5. p \in T /\ Sum(T) = f[p] + Sum(T \ {p})
  BY <1>3, SumUnfolds
<1> HIDE DEF p
<1>6. p # y
  BY <1>4, <1>5
<1>7. /\ Cardinality(T) \in Nat
      /\ Cardinality(T \ {p}) = Cardinality(T) - 1
      /\ Cardinality(T \ {y}) = Cardinality(T) - 1
  BY <1>3, <1>5, FS_RemoveElement, FS_CardinalityType
<1>8. T \ {p} \in F /\ T \ {y} \in F
  <2>1. ~(Cardinality(T) <= Cardinality(T \ {p})) /\ ~(Cardinality(T) <= Cardinality(T \ {y}))
    BY <1>7, SMT
  <2>2. T \ {p} \in SUBSET S /\ T \ {y} \in SUBSET S
    BY <1>3
  <2> HIDE DEF F
  <2> QED
    BY <1>2, <2>1, <2>2
<1> DEFINE rest == (T \ {p}) \ {y}
<1>9. Sum(T \ {p}) = f[y] + Sum(rest)
  BY <1>5, <1>6, <1>8
<1>10. Sum(T \ {y}) = f[p] + Sum(rest)
  <2>1. rest = (T \ {y}) \ {p}
    OBVIOUS
  <2>2. p \in T \ {y}
    BY <1>5, <1>6
  <2>3. Sum(T \ {y}) = f[p] + Sum((T \ {y}) \ {p})
    BY <1>8, <2>2
  <2> QED
    BY <2>1, <2>3
<1>11. Sum(rest) \in Int /\ f[p] \in Int /\ f[y] \in Int
  <2>1. rest \in SUBSET S
    BY <1>3
  <2>2. IsFiniteSet(rest) /\ \A z \in rest : f[z] \in Int
    BY <2>1, FS_Subset
  <2> QED
    BY <1>3, <1>5, <2>2, SumIsInteger
<1> HIDE DEF Sum, rest
<1>12. Sum(T) = f[p] + (f[y] + Sum(rest))
  BY <1>5, <1>9
<1>13. f[p] + (f[y] + Sum(rest)) = f[y] + (f[p] + Sum(rest))
  BY <1>11, SMT
<1> QED
  BY <1>4, <1>10, <1>12, <1>13

(* The sum over two disjoint sets.                                          *)
LEMMA SumOfUnion ==
    ASSUME NEW f, NEW A, NEW B, IsFiniteSet(A), IsFiniteSet(B), A \cap B = {},
           \A x \in A \cup B : f[x] \in Int
    PROVE  SumFunctionOnSet(f, A \cup B) = SumFunctionOnSet(f, A) + SumFunctionOnSet(f, B)
<1> DEFINE Sum(T) == SumFunctionOnSet(f, T)
           F == {T \in SUBSET A : Sum(T \cup B) = Sum(T) + Sum(B)}
<1>1. {} \in F
  <2>1. {} \cup B = B /\ Sum({}) = 0 /\ Sum(B) \in Int
    BY SumOfNothing, SumIsInteger
  <2> HIDE DEF Sum
  <2> QED
    BY <2>1, SMT
<1>2. ASSUME NEW T \in SUBSET A, NEW x \in T, T \ {x} \in F PROVE T \in F
  <2>1. IsFiniteSet(T) /\ IsFiniteSet(T \cup B) /\ IsFiniteSet(T \ {x})
    BY FS_Subset, FS_Union, FS_RemoveElement
  <2>2. (T \cup B) \ {x} = (T \ {x}) \cup B
    OBVIOUS
  <2>3. Sum(T \cup B) = f[x] + Sum((T \ {x}) \cup B)
    <3>1. \A y \in T \cup B : f[y] \in Int
      OBVIOUS
    <3>2. x \in T \cup B
      OBVIOUS
    <3>3. Sum(T \cup B) = f[x] + Sum((T \cup B) \ {x})
      BY <2>1, <3>1, <3>2, SumWithout
    <3> QED
      BY <2>2, <3>3
  <2>4. Sum(T) = f[x] + Sum(T \ {x})
    <3>1. \A y \in T : f[y] \in Int
      OBVIOUS
    <3> QED
      BY <2>1, <3>1, SumWithout
  <2>5. Sum((T \ {x}) \cup B) = Sum(T \ {x}) + Sum(B)
    BY <1>2
  <2>6. Sum(T \ {x}) \in Int /\ Sum(B) \in Int /\ f[x] \in Int
    <3>1. \A y \in T \ {x} : f[y] \in Int
      OBVIOUS
    <3> QED
      BY <2>1, <3>1, SumIsInteger
  <2> HIDE DEF Sum
  <2>7. Sum(T \cup B) = Sum(T) + Sum(B)
    BY <2>3, <2>4, <2>5, <2>6, SMT
  <2> QED
    BY <2>7
<1>3. A \in F
  <2> HIDE DEF F
  <2>1. \A T \in SUBSET A : T \in F
    BY <1>1, <1>2, GrowsToAll
  <2> QED
    BY <2>1
<1> QED
  BY <1>3

(* The sum over the union of sets that share no element is the sum of the   *)
(* sums over the sets.                                                      *)
LEMMA SumOfSums ==
    ASSUME NEW W, IsFiniteSet(W), NEW P, \A w \in W : IsFiniteSet(P[w]),
           \A v, w \in W : v # w => P[v] \cap P[w] = {},
           NEW D, D = UNION {P[w] : w \in W},
           NEW f, \A x \in D : f[x] \in Int,
           NEW h, \A w \in W : h[w] = SumFunctionOnSet(f, P[w])
    PROVE  SumFunctionOnSet(h, W) = SumFunctionOnSet(f, D)
<1> DEFINE All(V) == UNION {P[w] : w \in V}
           F == {V \in SUBSET W : /\ IsFiniteSet(All(V))
                                  /\ SumFunctionOnSet(h, V) = SumFunctionOnSet(f, All(V))}
<1>1. {} \in F
  <2>1. All({}) = {}
    OBVIOUS
  <2> HIDE DEF All
  <2> QED
    BY <2>1, FS_EmptySet, SumOfNothing
<1>2. ASSUME NEW V \in SUBSET W, NEW w \in V, V \ {w} \in F PROVE V \in F
  <2> DEFINE A == All(V \ {w})
  <2>1. IsFiniteSet(V) /\ IsFiniteSet(P[w]) /\ IsFiniteSet(A)
    BY <1>2, FS_Subset
  <2>2. All(V) = A \cup P[w] /\ A \cap P[w] = {} /\ A \cup P[w] \subseteq D
    OBVIOUS
  <2>3. SumFunctionOnSet(h, V \ {w}) = SumFunctionOnSet(f, A)
    BY <1>2
  <2> HIDE DEF All, A
  <2>4. \A v \in V : h[v] \in Int
    <3> SUFFICES ASSUME NEW v \in V PROVE h[v] \in Int
      OBVIOUS
    <3>1. IsFiniteSet(P[v]) /\ \A x \in P[v] : f[x] \in Int
      OBVIOUS
    <3>2. SumFunctionOnSet(f, P[v]) \in Int
      BY <3>1, SumIsInteger
    <3> QED
      BY <3>2
  <2>5. SumFunctionOnSet(h, V) = h[w] + SumFunctionOnSet(h, V \ {w})
    BY <2>1, <2>4, SumWithout
  <2>6. SumFunctionOnSet(f, All(V)) = SumFunctionOnSet(f, A) + SumFunctionOnSet(f, P[w])
    <3>1. \A x \in A \cup P[w] : f[x] \in Int
      BY <2>2
    <3>2. SumFunctionOnSet(f, A \cup P[w]) = SumFunctionOnSet(f, A) + SumFunctionOnSet(f, P[w])
      BY <2>1, <2>2, <3>1, SumOfUnion
    <3> QED
      BY <2>2, <3>2
  <2>7. h[w] = SumFunctionOnSet(f, P[w]) /\ h[w] \in Int
    BY <2>4
  <2>8. SumFunctionOnSet(f, A) \in Int
    <3>1. \A x \in A : f[x] \in Int
      BY <2>2
    <3> QED
      BY <2>1, <3>1, SumIsInteger
  <2>9. SumFunctionOnSet(h, V) = SumFunctionOnSet(f, All(V))
    BY <2>3, <2>5, <2>6, <2>7, <2>8, SMT
  <2>10. IsFiniteSet(All(V))
    <3>1. IsFiniteSet(A \cup P[w])
      BY <2>1, FS_Union
    <3> QED
      BY <2>2, <3>1
  <2> QED
    BY <2>9, <2>10
<1>3. W \in F
  <2> HIDE DEF F
  <2>1. \A V \in SUBSET W : V \in F
    BY <1>1, <1>2, GrowsToAll
  <2> QED
    BY <2>1
<1> QED
  BY <1>3

(* The summands may be numbered from 0.                                     *)
LEMMA SumIsShifted ==
    ASSUME NEW n \in Nat, NEW lo \in Int, NEW f, NEW h,
           \A i \in 0 .. (n - 1) : h[i] = f[lo + i] /\ f[lo + i] \in Int
    PROVE  SumFunctionOnSet(h, 0 .. (n - 1)) = SumFunctionOnSet(f, lo .. (lo + n - 1))
<1> DEFINE Same(k) == SumFunctionOnSet(h, 0 .. (k - 1)) =
                        SumFunctionOnSet(f, lo .. (lo + k - 1))
           F == {k \in 0 .. n : Same(k)}
<1>1. 0 \in F
  <2>1. 0 .. (0 - 1) = {} /\ lo .. (lo + 0 - 1) = {}
    BY SMT
  <2>2. Same(0)
    BY <2>1, SumOfNothing
  <2> HIDE DEF Same
  <2> QED
    BY <2>2, SMT
<1>2. ASSUME NEW k \in 0 .. (n - 1), k \in F PROVE k + 1 \in F
  <2> DEFINE A == 0 .. (k + 1 - 1)
             B == lo .. (lo + (k + 1) - 1)
  <2>1. /\ k \in A /\ A \ {k} = 0 .. (k - 1)
        /\ lo + k \in B /\ B \ {lo + k} = lo .. (lo + k - 1)
    BY SMT
  <2>2. IsFiniteSet(A) /\ IsFiniteSet(B)
    BY FS_Interval, SMT
  <2>3. \A i \in A : h[i] \in Int
    <3>1. \A i \in A : i \in 0 .. (n - 1)
      BY SMT
    <3> QED
      BY <3>1
  <2>4. \A j \in B : f[j] \in Int
    <3> SUFFICES ASSUME NEW j \in B PROVE f[j] \in Int
      OBVIOUS
    <3>1. j - lo \in 0 .. (n - 1) /\ lo + (j - lo) = j
      BY SMT
    <3> QED
      BY <3>1
  <2>5. h[k] = f[lo + k]
    OBVIOUS
  <2>6. SumFunctionOnSet(h, 0 .. (k - 1)) = SumFunctionOnSet(f, lo .. (lo + k - 1))
    BY <1>2
  <2> HIDE DEF A, B
  <2>7. SumFunctionOnSet(h, A) = h[k] + SumFunctionOnSet(h, A \ {k})
    BY <2>1, <2>2, <2>3, SumWithout
  <2>8. SumFunctionOnSet(f, B) = f[lo + k] + SumFunctionOnSet(f, B \ {lo + k})
    BY <2>1, <2>2, <2>4, SumWithout
  <2>9. SumFunctionOnSet(h, A) = SumFunctionOnSet(f, B)
    BY <2>1, <2>5, <2>6, <2>7, <2>8
  <2>10. Same(k + 1)
    BY <2>9 DEF A, B
  <2>11. k + 1 \in 0 .. n
    BY SMT
  <2> HIDE DEF Same
  <2> QED
    BY <2>10, <2>11
<1>3. n \in F
  <2> HIDE DEF F
  <2>1. \A i \in 0 .. n : i \in F
    BY <1>1, <1>2, ReachesAll
  <2> QED
    BY <2>1, SMT
<1> QED
  BY <1>3

-----------------------------------------------------------------------------
(* What an array holds: numbers, or what was in the memory before.           *)
Numeric(a) ==
    \A s \in Sites : \A c \in LocalIndices(a.tiles[s]) : a.data[s][c] \in Int \cup {Junk}

(* This is so for both operands.                                            *)
NumbersInv ==
    /\ cur # NoArray => Numeric(cur)
    /\ kept # NoArray => Numeric(kept)

(* Tiles that are filled from numbers hold numbers,                         *)
LEMMA NumericByValues ==
    ASSUME NEW n \in 1 .. 3, NEW tiles, NEW data, NEW V, HasValues(n, tiles, data, V),
           \A s \in Sites : \A g \in [1 .. n -> Nat] :
                Holds(tiles[s], g) => V[g] \in Int \cup {Junk}
    PROVE  Numeric([tiles |-> tiles, data |-> data])
<1>1. n \in Nat
  BY SMT
<1>2. ASSUME NEW s \in Sites, NEW c \in LocalIndices(tiles[s])
      PROVE  data[s][c] \in Int \cup {Junk}
  <2>1. IsTile(tiles[s], n) /\ data[s][c] = V[ToGlobal(tiles[s], c)]
    BY DEF HasValues
  <2>2. ToGlobal(tiles[s], c) \in [1 .. n -> Nat] /\ Holds(tiles[s], ToGlobal(tiles[s], c))
    BY <1>1, <2>1, GlobalOfLocal
  <2> QED
    BY <2>1, <2>2
<1> QED
  BY <1>2 DEF Numeric

(* what a site finds in others is a number,                                 *)
LEMMA FoundIsNumber ==
    ASSUME NEW a, Sound(a), Numeric(a), NEW g \in [1 .. Rank(a) -> Nat]
    PROVE  Found(a, g) \in Int \cup {Junk}
<1>1. CASE \E w \in Sites : Holds(a.tiles[w], g)
  <2>1. PICK w \in Sites : Holds(a.tiles[w], g)
    BY <1>1
  <2>2. IsTile(a.tiles[w], Rank(a)) /\ Rank(a) \in Nat
    BY TilesOfArray DEF Sound
  <2>3. ToLocal(a.tiles[w], g) \in LocalIndices(a.tiles[w])
    BY <2>1, <2>2, LocalOfGlobal
  <2>4. Found(a, g) = a.data[w][ToLocal(a.tiles[w], g)]
    BY <2>1, AnyHolderWillDo DEF At
  <2> QED
    BY <2>3, <2>4 DEF Numeric
<1>2. CASE ~(\E w \in Sites : Holds(a.tiles[w], g))
  BY <1>2 DEF Found
<1> QED
  BY <1>1, <1>2

(* and so is what it has when it asks for a tile.                           *)
LEMMA RetiledIsNumeric ==
    ASSUME NEW a, Sound(a), Numeric(a), NEW desired, desired = [s \in Sites |-> desired[s]],
           \A s \in Sites : IsTile(desired[s], Rank(a))
    PROVE  Numeric([tiles |-> desired,
                    data |-> [s \in Sites |-> Retiled(a, s, desired[s])]])
<1> DEFINE data == [s \in Sites |-> Retiled(a, s, desired[s])]
           V == [g \in [1 .. Rank(a) -> Nat] |-> Found(a, g)]
<1>1. HasValues(Rank(a), desired, data, V)
  BY RetiledIsSound
<1>2. \A g \in [1 .. Rank(a) -> Nat] : V[g] \in Int \cup {Junk}
  BY FoundIsNumber
<1>3. Rank(a) \in 1 .. 3
  BY DEF Sound
<1> HIDE DEF data, V
<1>4. Numeric([tiles |-> desired, data |-> data])
  BY <1>1, <1>2, <1>3, NumericByValues
<1> QED
  BY <1>4 DEF data

(* Every operation leaves numbers, and an operand that was put aside.        *)
LEMMA RetileGivesNumbers ==
    ASSUME TiledInv, NumbersInv, NEW type, NEW n \in TileNumbers, NEW ks \in Overlaps,
           Len(ks) = Rank(cur), Retile(type, n, ks)
    PROVE  kept' = kept /\ (cur' = cur \/ Numeric(cur'))
<1> DEFINE dims == Dims(cur)
           throwing == Throwing(type, dims, n, ks)
           r == [op |-> "retile", type |-> type, n |-> n, ks |-> ks]
<1>1. Ask(r)
  BY DEF Retile
<1>2. Sound(cur) /\ Numeric(cur) /\ kept' = kept
  <2> HIDE DEF r
  <2> QED
    BY <1>1, AskCounts DEF NumbersInv, Ask
<1>3. n \in Nat \ {0} /\ ks \in Seq(Nat)
  BY TiledArraysAssumption
<1>4. IsDims(dims) /\ Len(dims) = Rank(cur)
  BY <1>2, DimsOfArray DEF Sound
<1>5. CASE throwing = {}
  <2> DEFINE desired == [s \in Sites |-> DesiredTile(s, type, dims, n, ks)]
  <2>1. RetileTo(desired)
    BY <1>5, Zenon DEF Retile
  <2>2. \A s \in Sites : IsTile(DesiredTile(s, type, dims, n, ks), Rank(cur))
    <3> HIDE DEF dims
    <3>1. \A s \in Sites : s \notin throwing
      BY <1>5
    <3> QED
      BY <1>3, <1>4, <3>1, DesiredIsTile
  <2>3. /\ desired = [s \in Sites |-> desired[s]]
        /\ \A s \in Sites : IsTile(desired[s], Rank(cur))
    BY <2>2
  <2> HIDE DEF desired
  <2>4. Numeric([tiles |-> desired,
                 data |-> [s \in Sites |-> Retiled(cur, s, desired[s])]])
    BY <1>2, <2>3, RetiledIsNumeric
  <2> QED
    BY <1>2, <2>1, <2>4 DEF RetileTo, Become
<1>6. CASE throwing # {}
  <2>1. Refuse(throwing)
    BY <1>6, Zenon DEF Retile
  <2> QED
    BY <1>2, <2>1 DEF Refuse
<1> QED
  BY <1>5, <1>6

LEMMA RetileUserGivesNumbers ==
    ASSUME TiledInv, NumbersInv,
           NEW named \in [Sites -> {u \in UserTiles : Len(u) = Rank(cur)}],
           RetileUser(named)
    PROVE  kept' = kept /\ Numeric(cur')
<1> DEFINE desired == [s \in Sites |-> TileExtraction(named[s])]
           r == [op |-> "user", tiles |-> {named[s] : s \in Sites}]
<1>1. Ask(r) /\ RetileTo(desired)
  BY Zenon DEF RetileUser
<1>2. Sound(cur) /\ Numeric(cur) /\ kept' = kept
  <2> HIDE DEF r
  <2> QED
    BY <1>1, AskCounts DEF NumbersInv, Ask
<1>3. \A s \in Sites : IsTile(TileExtraction(named[s]), Rank(cur))
  <2> SUFFICES ASSUME NEW s \in Sites
               PROVE  IsTile(TileExtraction(named[s]), Rank(cur))
    OBVIOUS
  <2>1. named[s] \in UserTiles /\ Len(named[s]) = Rank(cur)
    OBVIOUS
  <2> QED
    BY <2>1, ExtractionIsTile
<1>4. /\ desired = [s \in Sites |-> desired[s]]
      /\ \A s \in Sites : IsTile(desired[s], Rank(cur))
  BY <1>3
<1> HIDE DEF desired
<1>5. Numeric([tiles |-> desired, data |-> [s \in Sites |-> Retiled(cur, s, desired[s])]])
  BY <1>2, <1>4, RetiledIsNumeric
<1> QED
  BY <1>1, <1>2, <1>5 DEF RetileTo, Become

LEMMA TransposeGivesNumbers ==
    ASSUME TiledInv, NumbersInv, NEW axes \in Axes(Rank(cur)), Transpose(axes)
    PROVE  kept' = kept /\ Numeric(cur')
<1> DEFINE n == Rank(cur)
           tiles == [s \in Sites |-> Transposed(cur.tiles[s], axes)]
           data == [s \in Sites |->
                        TransposedData(cur.data[s], cur.tiles[s], axes)]
           V == [g \in [1 .. n -> Nat] |-> Found(cur, Back(n, axes, g))]
           r == [op |-> "transpose", axes |-> axes]
<1>1. Ask(r) /\ Become(tiles, data)
  BY Zenon DEF Transpose
<1>2. Sound(cur) /\ Numeric(cur) /\ kept' = kept
  <2> HIDE DEF r
  <2> QED
    BY <1>1, AskCounts DEF NumbersInv, Ask
<1>3. HasValues(n, tiles, data, V)
  BY <1>2, TransposedIsSound
<1>4. n \in 1 .. 3
  BY <1>2 DEF Sound
<1>5. \A g \in [1 .. n -> Nat] : V[g] \in Int \cup {Junk}
  <2> SUFFICES ASSUME NEW g \in [1 .. n -> Nat] PROVE V[g] \in Int \cup {Junk}
    OBVIOUS
  <2>1. Back(n, axes, g) \in [1 .. n -> Nat]
    BY <1>4, ForthAndBack
  <2>2. Found(cur, Back(n, axes, g)) \in Int \cup {Junk}
    BY <1>2, <2>1, FoundIsNumber
  <2> QED
    BY <2>2
<1> HIDE DEF tiles, data, V
<1>6. Numeric([tiles |-> tiles, data |-> data])
  BY <1>3, <1>4, <1>5, NumericByValues
<1> QED
  BY <1>1, <1>2, <1>6 DEF Become

LEMMA DiagGivesNumbers ==
    ASSUME TiledInv, NumbersInv,
           NEW type \in Types(2), NEW n \in TileNumbers, NEW k \in Diagonals,
           Diag(type, n, k)
    PROVE  kept' = kept /\ (cur' = cur \/ Numeric(cur'))
<1> DEFINE size == Extent(cur.tiles, 1) + (IF k < 0 THEN -k ELSE k)
           dims == <<size, size>>
           desired == [s \in Sites |-> TileCalculation(s, type, dims, n)]
           data == [s \in Sites |-> DiagTile(cur, s, type, desired[s], k)]
           V == [g \in [1 .. 2 -> Nat] |-> DiagValue(cur, k, g)]
           throwing == {s \in Sites : s >= n \/ ~Tileable(type, dims, n)}
           r == [op |-> "diag", type |-> type, n |-> n, k |-> k]
<1>1. Ask(r) /\ Rank(cur) = 1
  BY DEF Diag
<1>2. Sound(cur) /\ Numeric(cur) /\ kept' = kept
  <2> HIDE DEF r
  <2> QED
    BY <1>1, AskCounts DEF NumbersInv, Ask
<1>3. n \in Nat \ {0} /\ k \in Int /\ type \in {"row", "column", "sym"}
  BY TiledArraysAssumption, SMT DEF Types
<1>4. size \in Nat \ {0}
  <2> DEFINE x == Extent(cur.tiles, 1)
  <2>1. 1 \in 1 .. Rank(cur)
    BY <1>1, SMT
  <2>2. x \in Nat \ {0}
    BY <1>2, <2>1, ExtentOfArray DEF Sound
  <2> HIDE DEF x
  <2>3. x + (IF k < 0 THEN -k ELSE k) \in Nat \ {0}
    BY <1>3, <2>2, SMT
  <2> QED
    BY <2>3 DEF x
<1>5. CASE throwing = {}
  <2>1. Become(desired, data)
    BY <1>5, Zenon DEF Diag
  <2>2. Tileable(type, dims, n)
    BY <1>5, SitesNotEmpty
  <2>3. HasValues(2, desired, data, V)
    <3> HIDE DEF size
    <3> QED
      BY <1>1, <1>2, <1>3, <1>4, <2>2, DiagIsSound, Zenon
  <2>4. \A g \in [1 .. 2 -> Nat] : V[g] \in Int \cup {Junk}
    <3> SUFFICES ASSUME NEW g \in [1 .. 2 -> Nat] PROVE V[g] \in Int \cup {Junk}
      OBVIOUS
    <3> DEFINE i == IF k < 0 THEN g[2] ELSE g[1]
    <3>1. i \in Nat
      BY SMT
    <3> HIDE DEF i
    <3>2. <<i>> \in [1 .. Rank(cur) -> Nat]
      BY <1>1, <3>1, OneIndex
    <3>3. Found(cur, <<i>>) \in Int \cup {Junk}
      BY <1>2, <3>2, FoundIsNumber
    <3>4. V[g] = IF g[2] - g[1] = k THEN Found(cur, <<i>>) ELSE 0
      BY DEF DiagValue, i
    <3> HIDE DEF V
    <3> QED
      BY <3>3, <3>4
  <2> HIDE DEF desired, data, V
  <2>5. 2 \in 1 .. 3
    BY SMT
  <2>6. Numeric([tiles |-> desired, data |-> data])
    BY <2>3, <2>4, <2>5, NumericByValues
  <2> QED
    BY <1>2, <2>1, <2>6 DEF Become
<1>6. CASE throwing # {}
  <2>1. Refuse(throwing)
    BY <1>6, Zenon DEF Diag
  <2> QED
    BY <1>2, <2>1 DEF Refuse
<1> QED
  BY <1>5, <1>6

LEMMA NewArrayGivesNumbers ==
    ASSUME TiledInv, NEW dims \in Shapes, NEW tiles \in Tilings(dims),
           NewArray(dims, tiles)
    PROVE  kept' = kept /\ Numeric(cur')
<1> DEFINE n == Len(dims)
           data == [s \in Sites |->
                        [c \in LocalIndices(tiles[s]) |->
                            Elements[1 + Flat(dims, ToGlobal(tiles[s], c))]]]
           V == [g \in [1 .. n -> Nat] |-> Elements[1 + Flat(dims, g)]]
           a == [tiles |-> tiles, data |-> data]
<1>1. Become(tiles, data) /\ kept' = kept /\ [d \in DOMAIN dims |-> Extent(tiles, d)] = dims
  BY Zenon DEF NewArray
<1>2. HasValues(n, tiles, data, V) /\ Sound(a)
  BY NewArrayIsSound
<1>3. n \in 1 .. 3 /\ DOMAIN dims = 1 .. n
  BY TiledArraysAssumption, LenProperties
<1> HIDE DEF data, V, n
<1>4. Dims(a) = dims
  <2>1. Rank(a) = n
    BY <1>2, SitesNotEmpty DEF HasValues, Rank, IsTile
  <2>2. DOMAIN a.tiles[0] = 1 .. n
    <3>1. IsTile(a.tiles[0], n) /\ n \in Nat
      BY <1>2, <2>1, TilesOfArray, SitesNotEmpty DEF Sound
    <3> QED
      BY <3>1, TileIsFunction
  <2>3. Dims(a) = [d \in 1 .. n |-> Extent(tiles, d)]
    BY <2>2 DEF Dims
  <2> QED
    BY <1>1, <1>3, <2>3
<1>5. ASSUME NEW s \in Sites, NEW g \in [1 .. n -> Nat], Holds(tiles[s], g)
      PROVE  V[g] \in Int \cup {Junk}
  <2>1. Rank(a) = n
    BY <1>2, SitesNotEmpty DEF HasValues, Rank, IsTile
  <2>2. g \in Held(a)
    BY <1>2, <1>5, <2>1, HeldBySomeone DEF Sound
  <2>3. g \in Box(dims)
    BY <1>2, <1>4, <2>2, HeldWithin
  <2>4. Elements[1 + Flat(dims, g)] \in Int
    BY <2>3, ElementsAssumption
  <2> QED
    BY <2>4 DEF V
<1>6. Numeric(a)
  BY <1>2, <1>3, <1>5, NumericByValues
<1> QED
  BY <1>1, <1>6 DEF Become

(* The invariant, with the one of TiledArraysProofs.                        *)
LEMMA NumbersInvInitially == TiledInit => NumbersInv
  BY DEF TiledInit, NumbersInv

LEMMA NumbersInvStep == TiledInv /\ NumbersInv /\ [TiledNext]_tiledVars => NumbersInv'
<1> SUFFICES ASSUME TiledInv, NumbersInv, [TiledNext]_tiledVars PROVE NumbersInv'
  OBVIOUS
<1>1. SUFFICES \/ kept' = kept /\ (cur' = cur \/ Numeric(cur'))
               \/ kept' = cur /\ cur' = cur
  BY DEF NumbersInv, Numeric, NoArray
<1>2. CASE NewArrayAny
  BY <1>2, NewArrayGivesNumbers DEF NewArrayAny
<1>3. CASE RetileAny
  <2>1. PICK type \in Types(Rank(cur)), n \in TileNumbers :
            \E ks \in {k \in Overlaps : Len(k) = Rank(cur)} : Retile(type, n, ks)
    BY <1>3 DEF RetileAny
  <2>2. PICK ks \in {k \in Overlaps : Len(k) = Rank(cur)} : Retile(type, n, ks)
    BY <2>1
  <2> QED
    BY <2>2, RetileGivesNumbers
<1>4. CASE RetileAsListed
  BY <1>4, RetileUserGivesNumbers DEF RetileAsListed
<1>5. CASE TransposeAny
  BY <1>5, TransposeGivesNumbers DEF TransposeAny
<1>6. CASE DiagAny
  BY <1>6, DiagGivesNumbers DEF DiagAny
<1>7. CASE Keep
  BY <1>7 DEF Keep
<1>8. CASE UNCHANGED tiledVars
  BY <1>8 DEF tiledVars
<1> QED
  BY <1>2, <1>3, <1>4, <1>5, <1>6, <1>7, <1>8 DEF TiledNext

LEMMA NumbersInvAlways == TiledSpec => [](TiledInv /\ NumbersInv)
  BY TiledInvAlways, NumbersInvInitially, NumbersInvStep, PTL DEF TiledSpec

-----------------------------------------------------------------------------
(* The elements of an array and those of its tiles.                         *)
LEMMA ElementOfTile ==
    ASSUME NEW a, Sound(a), NEW s \in Sites, NEW g \in [1 .. Rank(a) -> Nat],
           Holds(a.tiles[s], g)
    PROVE  /\ g \in Box(Dims(a))
           /\ ToLocal(a.tiles[s], g) \in LocalIndices(a.tiles[s])
           /\ a.data[s][ToLocal(a.tiles[s], g)] = Element(a, g)
<1>1. IsTile(a.tiles[s], Rank(a)) /\ Rank(a) \in Nat /\ IsArray(a)
  BY TilesOfArray DEF Sound
<1>2. g \in Held(a)
  BY <1>1, HeldBySomeone
<1>3. g \in Box(Dims(a))
  BY <1>2, HeldWithin
<1>4. ToLocal(a.tiles[s], g) \in LocalIndices(a.tiles[s])
  BY <1>1, LocalOfGlobal
<1>5. Element(a, g) = Found(a, g)
  BY DEF Element, Found
<1>6. Found(a, g) = a.data[s][ToLocal(a.tiles[s], g)]
  BY AnyHolderWillDo DEF At
<1> QED
  BY <1>3, <1>4, <1>5, <1>6

(* Every place of a tile is one of an element.                              *)
LEMMA TileOfElements ==
    ASSUME NEW a, Sound(a), NEW s \in Sites, NEW c \in LocalIndices(a.tiles[s])
    PROVE  /\ ToGlobal(a.tiles[s], c) \in Box(Dims(a))
           /\ a.data[s][c] = Element(a, ToGlobal(a.tiles[s], c))
<1>1. IsTile(a.tiles[s], Rank(a)) /\ Rank(a) \in Nat
  BY TilesOfArray DEF Sound
<1>2. /\ ToGlobal(a.tiles[s], c) \in [1 .. Rank(a) -> Nat]
      /\ Holds(a.tiles[s], ToGlobal(a.tiles[s], c))
      /\ ToLocal(a.tiles[s], ToGlobal(a.tiles[s], c)) = c
  BY <1>1, GlobalOfLocal
<1> QED
  BY <1>2, ElementOfTile

(* Every index of a complete array is one of a number that some site has.   *)
LEMMA CompleteElement ==
    ASSUME NEW a, Sound(a), Numeric(a), Complete(a), NEW g \in Box(Dims(a))
    PROVE  /\ g \in [1 .. Rank(a) -> Nat]
           /\ \A d \in 1 .. Rank(a) : g[d] < Dims(a)[d]
           /\ Element(a, g) \in Int
           /\ \E s \in Sites : Holds(a.tiles[s], g)
<1>1. IsArray(a) /\ IsDims(Dims(a)) /\ Len(Dims(a)) = Rank(a)
  BY DimsOfArray DEF Sound
<1>2. /\ g \in [1 .. Rank(a) -> Nat]
      /\ \A d \in 1 .. Rank(a) : g[d] < Dims(a)[d]
  BY <1>1, BoxIndex
<1>3. PICK s \in Sites : Holds(a.tiles[s], g)
  BY <1>1, HeldBySomeone DEF Complete
<1>4. /\ ToLocal(a.tiles[s], g) \in LocalIndices(a.tiles[s])
      /\ a.data[s][ToLocal(a.tiles[s], g)] = Element(a, g)
  BY <1>2, <1>3, ElementOfTile
<1>5. Element(a, g) # Junk
  BY DEF Complete
<1> QED
  BY <1>2, <1>3, <1>4, <1>5 DEF Numeric

(* The spans of the tiles lie within the array.                              *)
LEMMA SpanWithin ==
    ASSUME NEW a, Sound(a), NEW s \in Sites, NEW d \in 1 .. Rank(a)
    PROVE  /\ a.tiles[s][d].start \in Nat /\ a.tiles[s][d].stop \in Nat
           /\ a.tiles[s][d].start < a.tiles[s][d].stop
           /\ Size(a.tiles[s][d]) = a.tiles[s][d].stop - a.tiles[s][d].start
           /\ Dims(a)[d] \in Nat \ {0}
           /\ a.tiles[s][d].stop <= Dims(a)[d]
<1>1. IsTile(a.tiles[s], Rank(a)) /\ Rank(a) \in Nat /\ IsArray(a)
  BY TilesOfArray DEF Sound
<1>2. DOMAIN a.tiles[0] = 1 .. Rank(a)
  BY <1>1, SitesNotEmpty, TilesOfArray, TileIsFunction
<1>3. Dims(a)[d] = Extent(a.tiles, d)
  BY <1>2 DEF Dims
<1> QED
  BY <1>1, <1>3, TileIsFunction, ExtentOfArray

(* A tile as long as the array begins at 0.                                 *)
LEMMA WholeDimensionSpan ==
    ASSUME NEW a, Sound(a), NEW s \in Sites, NEW d \in 1 .. Rank(a),
           Size(a.tiles[s][d]) = Dims(a)[d]
    PROVE  a.tiles[s][d].start = 0 /\ a.tiles[s][d].stop = Dims(a)[d]
<1> DEFINE x == a.tiles[s][d].start
           y == a.tiles[s][d].stop
           z == Dims(a)[d]
<1>1. x \in Nat /\ y \in Nat /\ z \in Nat /\ y <= z /\ z = y - x
  BY SpanWithin
<1> HIDE DEF x, y, z
<1>2. x = 0 /\ y = z
  BY <1>1, SMT
<1> QED
  BY <1>2 DEF x, y, z

-----------------------------------------------------------------------------
(* What a function gives for finitely many arguments.                       *)
Image(f, X) == {f[x] : x \in X}

(* They are finitely many, too.                                             *)
LEMMA FiniteImage ==
    ASSUME NEW X, IsFiniteSet(X), NEW p
    PROVE  IsFiniteSet(Image(p, X))
<1> DEFINE Y == Image(p, X)
           f == [x \in X |-> p[x]]
<1>1. f \in Surjection(X, Y)
  BY DEF Surjection, Image
<1> HIDE DEF f, Y
<1>2. IsFiniteSet(Y)
  BY <1>1, FS_Surjection
<1> QED
  BY <1>2 DEF Y

-----------------------------------------------------------------------------
(* The first of the best candidates.                                        *)
IsCandidates(S) == IsFiniteSet(S) /\ S # {} /\ S \subseteq [value : Int, index : Nat]

(* What First looks for: x is as good as y, and not behind it if they are   *)
(* equal.                                                                   *)
NotAfter(op, x, y) ==
    /\ y.value = x.value => x.index <= y.index
    /\ op = "argmax" => x.value >= y.value
    /\ op = "argmin" => x.value <= y.value

(* It is a total order.                                                     *)
LEMMA NotAfterIsOrder ==
    ASSUME NEW op \in {"argmax", "argmin"},
           NEW x \in [value : Int, index : Nat], NEW y \in [value : Int, index : Nat],
           NEW z \in [value : Int, index : Nat]
    PROVE  /\ NotAfter(op, x, x)
           /\ NotAfter(op, x, y) \/ NotAfter(op, y, x)
           /\ NotAfter(op, x, y) /\ NotAfter(op, y, x) => x = y
           /\ NotAfter(op, x, y) /\ NotAfter(op, y, z) => NotAfter(op, x, z)
           /\ Precedes(op, x, y) => NotAfter(op, x, y)
           /\ ~Precedes(op, x, y) => NotAfter(op, y, x)
<1> DEFINE xv == x.value
           xi == x.index
           yv == y.value
           yi == y.index
           zv == z.value
           zi == z.index
<1>1. xv \in Int /\ yv \in Int /\ zv \in Int /\ xi \in Nat /\ yi \in Nat /\ zi \in Nat
  OBVIOUS
<1>2. x = [value |-> xv, index |-> xi] /\ y = [value |-> yv, index |-> yi]
  OBVIOUS
<1>3. \A u, v : NotAfter(op, u, v) <=>
        /\ v.value = u.value => u.index <= v.index
        /\ op = "argmax" => u.value >= v.value
        /\ op = "argmin" => u.value <= v.value
  BY DEF NotAfter
<1>4. Precedes(op, x, y) <=>
        IF xv = yv THEN xi < yi ELSE IF op = "argmax" THEN xv > yv ELSE xv < yv
  BY Zenon DEF Precedes
<1> HIDE DEF xv, xi, yv, yi, zv, zi
<1>5. NotAfter(op, x, x)
  BY <1>1, <1>3, SMT DEF xv, xi
<1>6. NotAfter(op, x, y) <=> /\ yv = xv => xi <= yi
                             /\ op = "argmax" => xv >= yv
                             /\ op = "argmin" => xv <= yv
  BY <1>3 DEF xv, xi, yv, yi
<1>7. NotAfter(op, y, x) <=> /\ yv = xv => yi <= xi
                             /\ op = "argmax" => yv >= xv
                             /\ op = "argmin" => yv <= xv
  BY <1>3 DEF xv, xi, yv, yi
<1>8. NotAfter(op, y, z) <=> /\ yv = zv => yi <= zi
                             /\ op = "argmax" => yv >= zv
                             /\ op = "argmin" => yv <= zv
  BY <1>3 DEF zv, zi, yv, yi
<1>9. NotAfter(op, x, z) <=> /\ xv = zv => xi <= zi
                             /\ op = "argmax" => xv >= zv
                             /\ op = "argmin" => xv <= zv
  BY <1>3 DEF zv, zi, xv, xi
<1>10. op = "argmax" \/ op = "argmin"
  OBVIOUS
<1>11. "argmax" # "argmin"
  OBVIOUS
<1>12. NotAfter(op, x, y) \/ NotAfter(op, y, x)
  BY <1>1, <1>6, <1>7, <1>10, <1>11, SMT
<1>13. NotAfter(op, x, y) /\ NotAfter(op, y, x) => xv = yv /\ xi = yi
  BY <1>1, <1>6, <1>7, <1>10, SMT
<1>14. NotAfter(op, x, y) /\ NotAfter(op, y, z) => NotAfter(op, x, z)
  BY <1>1, <1>6, <1>8, <1>9, <1>10, <1>11, SMT
<1>15. Precedes(op, x, y) => NotAfter(op, x, y)
  BY <1>1, <1>4, <1>6, <1>10, <1>11, SMT
<1>16. ~Precedes(op, x, y) => NotAfter(op, y, x)
  BY <1>1, <1>4, <1>7, <1>10, <1>11, SMT
<1> QED
  BY <1>2, <1>5, <1>12, <1>13, <1>14, <1>15, <1>16

(* So there is a first candidate,                                           *)
LEMMA FirstExists ==
    ASSUME NEW op \in {"argmax", "argmin"}, NEW S, IsCandidates(S)
    PROVE  \E x \in S : \A y \in S : NotAfter(op, x, y)
<1> DEFINE F == {T \in SUBSET S : T = {} \/ \E x \in T : \A y \in T : NotAfter(op, x, y)}
<1>1. {} \in F
  OBVIOUS
<1>2. ASSUME NEW T \in SUBSET S, NEW x \in T, T \ {x} \in F PROVE T \in F
  <2>1. \A y \in T : y \in [value : Int, index : Nat]
    BY DEF IsCandidates
  <2>2. CASE T \ {x} = {}
    <3>1. \A y \in T : NotAfter(op, x, y)
      BY <2>1, <2>2, NotAfterIsOrder
    <3> QED
      BY <3>1
  <2>3. CASE \E z \in T \ {x} : \A y \in T \ {x} : NotAfter(op, z, y)
    <3>1. PICK z \in T \ {x} : \A y \in T \ {x} : NotAfter(op, z, y)
      BY <2>3
    <3>2. CASE NotAfter(op, z, x)
      BY <3>1, <3>2
    <3>3. CASE NotAfter(op, x, z)
      <4>1. \A y \in T \ {x} : NotAfter(op, x, y)
        BY <2>1, <3>1, <3>3, NotAfterIsOrder
      <4>2. NotAfter(op, x, x)
        BY <2>1, NotAfterIsOrder
      <4> QED
        BY <4>1, <4>2
    <3> QED
      BY <2>1, <3>2, <3>3, NotAfterIsOrder
  <2> QED
    BY <1>2, <2>2, <2>3
<1>3. S \in F
  <2> HIDE DEF F
  <2>1. IsFiniteSet(S)
    BY DEF IsCandidates
  <2>2. \A T \in SUBSET S : T \in F
    BY <1>1, <1>2, <2>1, GrowsToAll
  <2> QED
    BY <2>2
<1> QED
  BY <1>3 DEF IsCandidates

(* First gives it,                                                          *)
LEMMA FirstIsBest ==
    ASSUME NEW op \in {"argmax", "argmin"}, NEW S, IsCandidates(S)
    PROVE  /\ First(op, S) \in S
           /\ \A y \in S : NotAfter(op, First(op, S), y)
<1>1. \E x \in S : \A y \in S :
        /\ y.value = x.value => x.index <= y.index
        /\ op = "argmax" => x.value >= y.value
        /\ op = "argmin" => x.value <= y.value
  BY FirstExists, Zenon DEF NotAfter
<1>2. /\ First(op, S) \in S
      /\ \A y \in S :
            /\ y.value = First(op, S).value => First(op, S).index <= y.index
            /\ op = "argmax" => First(op, S).value >= y.value
            /\ op = "argmin" => First(op, S).value <= y.value
  BY <1>1, Zenon DEF First
<1> QED
  BY <1>2, Zenon DEF NotAfter

(* and nothing else.                                                        *)
LEMMA FirstIsUnique ==
    ASSUME NEW op \in {"argmax", "argmin"}, NEW S, IsCandidates(S),
           NEW x \in S, \A y \in S : NotAfter(op, x, y)
    PROVE  First(op, S) = x
<1>1. First(op, S) \in S /\ NotAfter(op, First(op, S), x)
  BY FirstIsBest
<1>2. NotAfter(op, x, First(op, S))
  BY <1>1
<1>3. x \in [value : Int, index : Nat] /\ First(op, S) \in [value : Int, index : Nat]
  BY <1>1 DEF IsCandidates
<1> QED
  BY <1>1, <1>2, <1>3, NotAfterIsOrder

(* The first of what the parts of a set answer is the first of all of it.   *)
LEMMA FirstOfParts ==
    ASSUME NEW op \in {"argmax", "argmin"}, NEW S, IsCandidates(S),
           NEW W, NEW part, NEW best,
           \A w \in W : /\ IsCandidates(part[w])
                        /\ part[w] \subseteq S
                        /\ best[w] = First(op, part[w]),
           \A x \in S : \E w \in W : x \in part[w]
    PROVE  First(op, Image(best, W)) = First(op, S)
<1> DEFINE B == Image(best, W)
           b == First(op, S)
<1>1. \A w \in W : best[w] \in part[w] /\ best[w] \in S
  BY FirstIsBest
<1>2. b \in S /\ \A y \in S : NotAfter(op, b, y)
  BY FirstIsBest
<1>3. PICK w \in W : b \in part[w]
  BY <1>2
<1>4. best[w] = b
  <2>1. IsCandidates(part[w]) /\ \A y \in part[w] : NotAfter(op, b, y)
    BY <1>2
  <2> HIDE DEF b
  <2>2. First(op, part[w]) = b
    BY <1>3, <2>1, FirstIsUnique
  <2> QED
    BY <2>2
<1>5. B \subseteq S /\ b \in B
  <2> HIDE DEF b
  <2> QED
    BY <1>1, <1>4 DEF Image
<1> HIDE DEF B, b
<1>6. IsCandidates(B)
  BY <1>5, FS_Subset DEF IsCandidates
<1>7. First(op, B) = b
  BY <1>2, <1>5, <1>6, FirstIsUnique
<1> QED
  BY <1>7 DEF B, b

(* Combined in any order, the answers of the sites give the first of them.   *)
LEMMA OrderIsOnto ==
    ASSUME NEW order \in Orders
    PROVE  /\ \A i \in 1 .. NumSites : order[i] \in Sites
           /\ \A s \in Sites : \E i \in 1 .. NumSites : order[i] = s
<1>1. order \in [1 .. NumSites -> Sites]
  BY DEF Orders
<1>2. NumSites \in Nat /\ NumSites > 0
  BY TiledArraysAssumption, SMT
<1>3. /\ IsFiniteSet(1 .. NumSites) /\ Cardinality(1 .. NumSites) = NumSites
      /\ IsFiniteSet(Sites) /\ Cardinality(Sites) = NumSites
  <2>1. /\ IsFiniteSet(1 .. NumSites)
        /\ Cardinality(1 .. NumSites) = IF 1 > NumSites THEN 0 ELSE NumSites - 1 + 1
    BY <1>2, FS_Interval
  <2>2. /\ IsFiniteSet(0 .. (NumSites - 1))
        /\ Cardinality(0 .. (NumSites - 1)) =
            IF 0 > NumSites - 1 THEN 0 ELSE NumSites - 1 - 0 + 1
    <3>1. NumSites - 1 \in Int /\ 0 \in Int
      BY <1>2, SMT
    <3> QED
      BY <3>1, FS_Interval
  <2> QED
    BY <1>2, <2>1, <2>2, SMT DEF Sites
<1>4. order \in Injection(1 .. NumSites, Sites)
  BY <1>1 DEF Orders, Injection, IsInjective
<1>5. order \in Surjection(1 .. NumSites, Sites)
  BY <1>3, <1>4, FS_Injection
<1> QED
  BY <1>1, <1>5 DEF Surjection

(* The reduction over the first i sites of the order has the first of       *)
(* their answers.                                                           *)
LEMMA AllReduceIsFirst ==
    ASSUME NEW op \in {"argmax", "argmin"}, NEW order \in Orders, NEW best,
           \A s \in Sites : best[s] \in [value : Int, index : Nat]
    PROVE  AllReduce(op, best, order) = First(op, Image(best, Sites))
<1> DEFINE N == NumSites
           B(i) == {best[order[j]] : j \in 1 .. i}
           Step(h, i) == IF i > 1 /\ Precedes(op, h[i - 1], best[order[i]])
                         THEN h[i - 1] ELSE best[order[i]]
           first == [i \in 1 .. N |-> First(op, B(i))]
           reduced == CHOOSE h : h = [i \in 1 .. N |-> Step(h, i)]
<1>1. N \in Nat \ {0} /\ \A i \in 1 .. N : order[i] \in Sites
  BY TiledArraysAssumption, OrderIsOnto
<1>2. \A i \in 1 .. N : best[order[i]] \in [value : Int, index : Nat]
  BY <1>1
<1>3. ASSUME NEW i \in 1 .. N PROVE IsCandidates(B(i))
  <2>1. B(i) \subseteq [value : Int, index : Nat]
    <3>1. \A j \in 1 .. i : j \in 1 .. N
      BY <1>1, SMT
    <3> QED
      BY <1>2, <3>1
  <2>2. B(i) # {}
    <3>1. 1 \in 1 .. i
      BY <1>1, SMT
    <3> QED
      BY <3>1
  <2>3. IsFiniteSet(B(i))
    <3> DEFINE f == [j \in 1 .. i |-> best[order[j]]]
    <3>1. f \in Surjection(1 .. i, B(i))
      BY DEF Surjection
    <3>2. IsFiniteSet(1 .. i)
      BY <1>1, FS_Interval, SMT
    <3> HIDE DEF f, B
    <3> QED
      BY <3>1, <3>2, FS_Surjection
  <2> QED
    BY <2>1, <2>2, <2>3 DEF IsCandidates
<1>4. ASSUME NEW i \in 1 .. N
      PROVE  First(op, B(i)) =
                IF i > 1 /\ Precedes(op, First(op, B(i - 1)), best[order[i]])
                THEN First(op, B(i - 1)) ELSE best[order[i]]
  <2> DEFINE current == best[order[i]]
             before == First(op, B(i - 1))
             res == IF i > 1 /\ Precedes(op, before, current) THEN before ELSE current
  <2>1. current \in B(i) /\ current \in [value : Int, index : Nat]
    <3>1. i \in 1 .. i
      BY SMT
    <3> QED
      BY <1>2, <3>1
  <2>2. CASE i = 1
    <3>1. \A y \in B(i) : y = current
      <4>1. \A j \in 1 .. i : j = i
        BY <2>2, SMT
      <4> QED
        BY <4>1
    <3>2. res = current
      BY <2>2, SMT
    <3> HIDE DEF B, current, res
    <3>3. \A y \in B(i) : NotAfter(op, current, y)
      BY <2>1, <3>1, NotAfterIsOrder
    <3>4. First(op, B(i)) = current
      BY <1>3, <2>1, <3>3, FirstIsUnique
    <3> QED
      BY <3>2, <3>4 DEF res, before, current
  <2>3. CASE i # 1
    <3>1. i - 1 \in 1 .. N /\ i > 1
      BY <1>1, <2>3, SMT
    <3>2. before \in B(i - 1) /\ \A y \in B(i - 1) : NotAfter(op, before, y)
      <4> HIDE DEF B
      <4> QED
        BY <1>3, <3>1, FirstIsBest
    <3>3. \A y \in B(i) : y = current \/ y \in B(i - 1)
      <4>1. \A j \in 1 .. i : j = i \/ j \in 1 .. (i - 1)
        BY <1>1, SMT
      <4> QED
        BY <4>1
    <3>4. B(i - 1) \subseteq B(i)
      <4>1. \A j \in 1 .. (i - 1) : j \in 1 .. i
        BY <1>1, SMT
      <4> QED
        BY <4>1
    <3>5. \A y \in B(i) : y \in [value : Int, index : Nat]
      <4> HIDE DEF B
      <4> QED
        BY <1>3 DEF IsCandidates
    <3> HIDE DEF B, current, before
    <3>6. before \in B(i)
      BY <3>2, <3>4
    <3>7. CASE Precedes(op, before, current)
      <4>1. NotAfter(op, before, current)
        BY <2>1, <3>5, <3>6, <3>7, NotAfterIsOrder
      <4>2. \A y \in B(i) : NotAfter(op, before, y)
        BY <3>2, <3>3, <4>1
      <4>3. First(op, B(i)) = before
        BY <1>3, <3>6, <4>2, FirstIsUnique
      <4> QED
        BY <3>1, <3>7, <4>3 DEF before, current
    <3>8. CASE ~Precedes(op, before, current)
      <4>1. NotAfter(op, current, before)
        BY <2>1, <3>5, <3>6, <3>8, NotAfterIsOrder
      <4>2. \A y \in B(i) : NotAfter(op, current, y)
        <5> SUFFICES ASSUME NEW y \in B(i) PROVE NotAfter(op, current, y)
          OBVIOUS
        <5>1. CASE y = current
          BY <2>1, <5>1, NotAfterIsOrder
        <5>2. CASE y \in B(i - 1)
          BY <2>1, <3>2, <3>5, <3>6, <4>1, <5>2, NotAfterIsOrder
        <5> QED
          BY <3>3, <5>1, <5>2
      <4>3. First(op, B(i)) = current
        BY <1>3, <2>1, <4>2, FirstIsUnique
      <4> QED
        BY <3>8, <4>3 DEF before, current
    <3> QED
      BY <3>7, <3>8
  <2> QED
    BY <2>2, <2>3
<1>5. first = [i \in 1 .. N |-> Step(first, i)]
  <2>1. ASSUME NEW i \in 1 .. N PROVE First(op, B(i)) = Step(first, i)
    <3>1. CASE i > 1
      <4>1. i - 1 \in 1 .. N
        BY <1>1, <3>1, SMT
      <4>2. first[i - 1] = First(op, B(i - 1))
        BY <4>1
      <4> HIDE DEF first, B
      <4> QED
        BY <1>4, <4>2
    <3>2. CASE ~(i > 1)
      <4> HIDE DEF first, B
      <4> QED
        BY <1>4, <3>2
    <3> QED
      BY <3>1, <3>2
  <2>2. [i \in 1 .. N |-> First(op, B(i))] = [i \in 1 .. N |-> Step(first, i)]
    <3> HIDE DEF first, B, Step
    <3> QED
      BY <2>1
  <2> QED
    BY <2>2
<1>6. reduced = [i \in 1 .. N |-> Step(reduced, i)]
  <2> HIDE DEF first, Step
  <2> QED
    BY <1>5
<1>7. AllReduce(op, best, order) = reduced[N]
  BY Zenon DEF AllReduce
<1> HIDE DEF reduced
<1>8. \A i \in 1 .. N : reduced[i] = Step(reduced, i)
  <2> HIDE DEF Step
  <2> QED
    BY <1>6, Zenon
<1>9. reduced[N] = First(op, B(N))
  <2> DEFINE F == {i \in 0 .. N : i > 0 => reduced[i] = First(op, B(i))}
  <2>1. 0 \in F
    BY <1>1, SMT
  <2>2. ASSUME NEW i \in 0 .. (N - 1), i \in F PROVE i + 1 \in F
    <3>1. i + 1 \in 1 .. N /\ i + 1 \in 0 .. N /\ i + 1 - 1 = i /\ (i + 1 > 1 <=> i > 0)
      BY <1>1, SMT
    <3>2. reduced[i + 1] = IF i > 0 /\ Precedes(op, reduced[i], best[order[i + 1]])
                           THEN reduced[i] ELSE best[order[i + 1]]
      BY <1>8, <3>1
    <3>3. First(op, B(i + 1)) =
            IF i > 0 /\ Precedes(op, First(op, B(i)), best[order[i + 1]])
            THEN First(op, B(i)) ELSE best[order[i + 1]]
      <4> HIDE DEF B
      <4> QED
        BY <1>4, <3>1
    <3>4. i > 0 => reduced[i] = First(op, B(i))
      BY <2>2
    <3>5. reduced[i + 1] = First(op, B(i + 1))
      <4> HIDE DEF B
      <4> QED
        BY <3>2, <3>3, <3>4
    <3> QED
      BY <3>1, <3>5
  <2> HIDE DEF F
  <2>3. \A i \in 0 .. N : i \in F
    BY <1>1, <2>1, <2>2, ReachesAll
  <2>4. N \in 0 .. N /\ N > 0
    BY <1>1, SMT
  <2>5. N \in F
    BY <2>3, <2>4
  <2> QED
    BY <2>4, <2>5 DEF F
<1>10. B(N) = Image(best, Sites)
  BY OrderIsOnto DEF Image
<1> QED
  BY <1>7, <1>9, <1>10

-----------------------------------------------------------------------------
(* Indices are finitely many.                                               *)
LEMMA BoxIsFinite ==
    ASSUME NEW dims, IsDims(dims)
    PROVE  /\ IsFiniteSet(Box(dims))
           /\ \A g \in Box(dims) : Flat(dims, g) \in Nat
<1> DEFINE X == Box(dims)
           f == [g \in X |-> Flat(dims, g)]
<1>1. PICK m \in Nat : /\ \A g \in X : Flat(dims, g) \in 0 .. m
                       /\ \A g, h \in X : Flat(dims, g) = Flat(dims, h) => g = h
  BY FlatIsInjective
<1>2. f \in Injection(X, 0 .. m)
  <2> HIDE DEF X
  <2>1. f \in [X -> 0 .. m] /\ \A g, h \in X : f[g] = f[h] => g = h
    BY <1>1
  <2> HIDE DEF f
  <2> QED
    BY <2>1 DEF Injection, IsInjective
<1>3. IsFiniteSet(0 .. m)
  BY FS_Interval, SMT
<1>4. IsFiniteSet(X)
  <2> HIDE DEF X, f
  <2> QED
    BY <1>2, <1>3, FS_Injection
<1>5. \A g \in X : Flat(dims, g) \in Nat
  <2> HIDE DEF X
  <2> QED
    BY <1>1, SMT
<1> QED
  BY <1>4, <1>5

(* The indices of a tile are those of an array of its sizes.                *)
LEMMA LocalIsBox ==
    ASSUME NEW n \in 1 .. 3, NEW tile, IsTile(tile, n)
    PROVE  /\ IsDims(Sizes(tile)) /\ Len(Sizes(tile)) = n
           /\ \A d \in 1 .. n : Sizes(tile)[d] = Size(tile[d])
           /\ LocalIndices(tile) = Box(Sizes(tile))
           /\ IsFiniteSet(LocalIndices(tile))
<1>1. n \in Nat
  BY SMT
<1>2. /\ DOMAIN tile = 1 .. n
      /\ \A d \in 1 .. n : Size(tile[d]) \in Nat \ {0}
  <2>1. DOMAIN tile = 1 .. n /\ \A d \in 1 .. n : Size(tile[d]) \in Nat /\ Size(tile[d]) > 0
    BY <1>1, TileIsFunction
  <2> QED
    BY <2>1, SMT
<1>3. Sizes(tile) = [d \in 1 .. n |-> Size(tile[d])]
  BY <1>2 DEF Sizes
<1>4. Sizes(tile) \in [1 .. n -> Nat \ {0}]
  BY <1>2, <1>3
<1>5. Sizes(tile) \in Seq(Nat \ {0}) /\ Len(Sizes(tile)) = n
  BY <1>1, <1>4, FunctionIsSequence
<1>6. IsDims(Sizes(tile))
  BY <1>5 DEF IsDims
<1>7. \A d \in 1 .. n : Sizes(tile)[d] = Size(tile[d])
  BY <1>3
<1>8. ASSUME NEW c
      PROVE  c \in LocalIndices(tile) <=> c \in Box(Sizes(tile))
  <2>1. c \in LocalIndices(tile) <=>
            c \in [1 .. n -> Nat] /\ \A d \in 1 .. n : c[d] < Size(tile[d])
    BY <1>1, LocalIndex
  <2>2. c \in Box(Sizes(tile)) <=>
            c \in [1 .. n -> Nat] /\ \A d \in 1 .. n : c[d] < Sizes(tile)[d]
    BY <1>5, <1>6, BoxIndex
  <2> QED
    BY <1>7, <2>1, <2>2
<1>9. LocalIndices(tile) = Box(Sizes(tile))
  BY <1>8
<1>10. IsFiniteSet(LocalIndices(tile))
  BY <1>6, <1>9, BoxIsFinite
<1> QED
  BY <1>5, <1>6, <1>7, <1>9, <1>10

(* Two ways to number the same elements, in the same order.                 *)
LEMMA FirstOfSame ==
    ASSUME NEW op \in {"argmax", "argmin"}, NEW X, IsFiniteSet(X), X # {},
           NEW p, NEW q,
           \A x \in X : /\ p[x] \in [value : Int, index : Nat]
                        /\ q[x] \in [value : Int, index : Nat]
                        /\ p[x].value = q[x].value,
           \A x, y \in X : p[x].index <= p[y].index => q[x].index <= q[y].index
    PROVE  /\ IsCandidates(Image(p, X))
           /\ IsCandidates(Image(q, X))
           /\ \E x \in X : First(op, Image(p, X)) = p[x] /\ First(op, Image(q, X)) = q[x]
<1> DEFINE P == {p[x] : x \in X}
           Q == {q[x] : x \in X}
<1>1. IsCandidates(P)
  <2>1. IsFiniteSet(P)
    BY FiniteImage DEF Image
  <2>2. P # {} /\ P \subseteq [value : Int, index : Nat]
    OBVIOUS
  <2> HIDE DEF P
  <2> QED
    BY <2>1, <2>2 DEF IsCandidates
<1>2. IsCandidates(Q)
  <2>1. IsFiniteSet(Q)
    BY FiniteImage DEF Image
  <2>2. Q # {} /\ Q \subseteq [value : Int, index : Nat]
    OBVIOUS
  <2> HIDE DEF Q
  <2> QED
    BY <2>1, <2>2 DEF IsCandidates
<1>3. First(op, P) \in P /\ \A y \in P : NotAfter(op, First(op, P), y)
  <2> HIDE DEF P
  <2> QED
    BY <1>1, FirstIsBest
<1>4. PICK x \in X : First(op, P) = p[x]
  BY <1>3
<1>5. ASSUME NEW y \in X PROVE NotAfter(op, q[x], q[y])
  <2>1. NotAfter(op, p[x], p[y])
    BY <1>3, <1>4
  <2>2. /\ p[x].value = q[x].value /\ p[y].value = q[y].value
        /\ p[x].index <= p[y].index => q[x].index <= q[y].index
    OBVIOUS
  <2> QED
    BY <2>1, <2>2, Zenon DEF NotAfter
<1>6. q[x] \in Q /\ \A y \in Q : NotAfter(op, q[x], y)
  BY <1>5
<1>7. First(op, Q) = q[x]
  <2> HIDE DEF Q
  <2> QED
    BY <1>2, <1>6, FirstIsUnique
<1> QED
  BY <1>1, <1>2, <1>4, <1>7 DEF Image

(* Places in row-major order are ordered by rows, then by columns.          *)
LEMMA RowMajor ==
    ASSUME NEW w \in Nat \ {0}, NEW i \in Nat, NEW k \in Nat,
           NEW j \in Nat, NEW l \in Nat, j < w, l < w
    PROVE  i * w + j <= k * w + l <=> i < k \/ (i = k /\ j <= l)
<1>1. w * i \in Nat /\ w * k \in Nat
  BY SMT
<1>2. i * w = w * i /\ k * w = w * k
  BY SMT
<1>3. i < k => w * i + w <= w * k
  <2>1. i < k => w * (i + 1) <= w * k
    BY TimesMonotone, SMT
  <2>2. w * (i + 1) = w * i + w
    BY SMT
  <2> QED
    BY <2>1, <2>2
<1>4. k < i => w * k + w <= w * i
  <2>1. k < i => w * (k + 1) <= w * i
    BY TimesMonotone, SMT
  <2>2. w * (k + 1) = w * k + w
    BY SMT
  <2> QED
    BY <2>1, <2>2
<1> DEFINE wi == w * i
           wk == w * k
<1>5. i = k => wi = wk
  OBVIOUS
<1> HIDE DEF wi, wk
<1>6. wi + j <= wk + l <=> i < k \/ (i = k /\ j <= l)
  BY <1>1, <1>3, <1>4, <1>5, SMT DEF wi, wk
<1> QED
  BY <1>2, <1>6 DEF wi, wk

(* The place of an element in the flattened tile, and in the flattened array.*)
LEMMA PlaceInTile ==
    ASSUME NEW a, Sound(a), Rank(a) = 2, NEW s \in Sites,
           NEW c \in LocalIndices(a.tiles[s])
    PROVE  LET tile == a.tiles[s]
               w == Size(tile[2])
               dims == Dims(a)
           IN  /\ w \in Nat \ {0} /\ dims[2] \in Nat \ {0}
               /\ tile[1].start \in Nat /\ tile[2].start \in Nat
               /\ c[1] \in Nat /\ c[2] \in Nat /\ c[2] < w
               /\ c[2] + tile[2].start < dims[2]
               /\ Flat(Sizes(tile), c) = c[1] * w + c[2]
               /\ Flat(dims, ToGlobal(tile, c)) =
                    (c[1] + tile[1].start) * dims[2] + (c[2] + tile[2].start)
<1> DEFINE tile == a.tiles[s]
           w == Size(tile[2])
           dims == Dims(a)
           g == ToGlobal(tile, c)
<1>1. /\ IsTile(tile, 2) /\ IsDims(dims) /\ Len(dims) = 2 /\ 2 \in Nat /\ 2 \in 1 .. 3
      /\ 1 \in 1 .. Rank(a) /\ 2 \in 1 .. Rank(a) /\ 1 \in 1 .. 2 /\ 2 \in 1 .. 2
  <2>1. 2 \in Nat /\ 2 \in 1 .. 3 /\ 1 \in 1 .. 2 /\ 2 \in 1 .. 2
    BY SMT
  <2>2. IsArray(a) /\ IsTile(tile, Rank(a)) /\ IsDims(dims) /\ Len(dims) = Rank(a)
    BY TilesOfArray, DimsOfArray DEF Sound
  <2> QED
    BY <2>1, <2>2
<1>2. c \in [1 .. 2 -> Nat] /\ \A d \in 1 .. 2 : c[d] < Size(tile[d])
  BY <1>1, LocalIndex
<1>3. /\ g \in [1 .. 2 -> Nat]
      /\ \A d \in 1 .. 2 : g[d] = c[d] + tile[d].start
  BY <1>1, GlobalOfLocal
<1>4. /\ tile[1].start \in Nat /\ tile[2].start \in Nat /\ tile[2].stop \in Nat
      /\ w = tile[2].stop - tile[2].start
      /\ dims[2] \in Nat \ {0} /\ tile[2].stop <= dims[2]
      /\ tile[2].start < tile[2].stop
  BY <1>1, SpanWithin
<1>5. /\ Len(Sizes(tile)) = 2 /\ Sizes(tile)[2] = w
  BY <1>1, LocalIsBox
<1> HIDE DEF tile, dims, g
<1>6. Flat(Sizes(tile), c) = c[1] * w + c[2]
  <2> HIDE DEF w
  <2> QED
    BY <1>5, SMT DEF Flat
<1>7. Flat(dims, g) = (c[1] + tile[1].start) * dims[2] + (c[2] + tile[2].start)
  <2>1. Flat(dims, g) = g[1] * dims[2] + g[2]
    BY <1>1, SMT DEF Flat
  <2> QED
    BY <1>1, <1>3, <2>1
<1> HIDE DEF w
<1>8. c[1] \in Nat /\ c[2] \in Nat /\ c[2] < w
  BY <1>1, <1>2 DEF w
<1>9. w \in Nat \ {0} /\ c[2] + tile[2].start < dims[2]
  BY <1>4, <1>8, SMT
<1> QED
  BY <1>4, <1>6, <1>7, <1>8, <1>9 DEF tile, w, dims, g

(* The same for a vector.                                                   *)
LEMMA PlaceInVector ==
    ASSUME NEW a, Sound(a), Rank(a) = 1, NEW s \in Sites,
           NEW c \in LocalIndices(a.tiles[s])
    PROVE  /\ a.tiles[s][1].start \in Nat /\ c[1] \in Nat
           /\ Len(Dims(a)) = 1
           /\ Flat(Sizes(a.tiles[s]), c) = c[1]
           /\ Flat(Dims(a), ToGlobal(a.tiles[s], c)) = c[1] + a.tiles[s][1].start
<1> DEFINE tile == a.tiles[s]
           dims == Dims(a)
           g == ToGlobal(tile, c)
<1>1. /\ IsTile(tile, 1) /\ IsDims(dims) /\ Len(dims) = 1 /\ 1 \in Nat /\ 1 \in 1 .. 3
      /\ 1 \in 1 .. Rank(a) /\ 1 \in 1 .. 1
  BY TilesOfArray, DimsOfArray, SMT DEF Sound
<1>2. c \in [1 .. 1 -> Nat]
  BY <1>1, LocalIndex
<1>3. g[1] = c[1] + tile[1].start
  BY <1>1, GlobalOfLocal
<1>4. tile[1].start \in Nat /\ Len(Sizes(tile)) = 1
  BY <1>1, SpanWithin, LocalIsBox
<1> HIDE DEF tile, dims, g
<1>5. Flat(Sizes(tile), c) = c[1] /\ Flat(dims, g) = g[1]
  BY <1>1, <1>4, SMT DEF Flat
<1> QED
  BY <1>1, <1>2, <1>3, <1>4, <1>5 DEF tile, dims, g

(* get_global_flatten_index turns the one place into the other.             *)
LEMMA GlobalPlace ==
    ASSUME NEW a, Sound(a), Rank(a) \in 1 .. 2, NEW s \in Sites,
           NEW c \in LocalIndices(a.tiles[s])
    PROVE  GlobalFlatIndex(a.tiles[s], Dims(a), Flat(Sizes(a.tiles[s]), c)) =
            Flat(Dims(a), ToGlobal(a.tiles[s], c))
<1> DEFINE tile == a.tiles[s]
           dims == Dims(a)
           index == Flat(Sizes(tile), c)
<1>1. CASE Rank(a) = 1
  <2>1. /\ Len(dims) = 1 /\ index = c[1]
        /\ Flat(dims, ToGlobal(tile, c)) = c[1] + tile[1].start
    BY <1>1, PlaceInVector
  <2> HIDE DEF tile, dims, index
  <2>2. GlobalFlatIndex(tile, dims, index) = index + tile[1].start
    BY <2>1, Zenon DEF GlobalFlatIndex
  <2> QED
    BY <2>1, <2>2 DEF tile, dims, index
<1>2. CASE Rank(a) = 2
  <2> DEFINE w == Size(tile[2])
             i == c[1]
             j == c[2]
             row == tile[1].start
             column == tile[2].start
             W == dims[2]
  <2>1. /\ w \in Nat \ {0} /\ W \in Nat \ {0} /\ row \in Nat /\ column \in Nat
        /\ i \in Nat /\ j \in Nat /\ j < w
        /\ index = i * w + j
        /\ Flat(dims, ToGlobal(tile, c)) = (i + row) * W + (j + column)
    BY <1>2, PlaceInTile
  <2>2. Len(dims) = 2
    BY <1>2, DimsOfArray, SMT DEF Sound
  <2> HIDE DEF i, j, row, column
  <2>3. GlobalFlatIndex(tile, dims, index) =
            (index - (index \div w) * w) + column + W * ((index \div w) + row)
    BY <2>2, SMT DEF GlobalFlatIndex, row, column
  <2> HIDE DEF tile, dims, index, w, W
  <2>4. index \div w = i
    <3>1. j \in 0 .. (w - 1)
      BY <2>1, SMT
    <3>2. (i * w + j) \div w = i
      BY <2>1, <3>1, TwoDigits
    <3> QED
      BY <2>1, <3>2
  <2>5. index - i * w = j
    <3> DEFINE iw == i * w
    <3>1. iw \in Nat
      BY <2>1, SMT
    <3>2. index = iw + j
      BY <2>1
    <3> HIDE DEF iw
    <3>3. index - iw = j
      BY <2>1, <3>1, <3>2, SMT
    <3> QED
      BY <3>3 DEF iw
  <2>6. GlobalFlatIndex(tile, dims, index) = j + column + W * (i + row)
    BY <2>3, <2>4, <2>5
  <2>7. j + column + W * (i + row) = (i + row) * W + (j + column)
    <3> DEFINE x == i + row
    <3>1. x \in Nat
      BY <2>1, SMT
    <3> HIDE DEF x
    <3>2. W * x = x * W /\ x * W \in Nat
      BY <2>1, <3>1, SMT
    <3> DEFINE y == x * W
    <3> HIDE DEF y
    <3>3. j + column + y = y + (j + column)
      BY <2>1, <3>2, SMT DEF y
    <3> QED
      BY <3>2, <3>3 DEF x, y
  <2> QED
    BY <2>1, <2>6, <2>7 DEF tile, dims, index
<1>3. Rank(a) = 1 \/ Rank(a) = 2
  BY SMT
<1> QED
  BY <1>1, <1>2, <1>3

(* It keeps the order of the elements of a tile.                            *)
LEMMA SameOrder ==
    ASSUME NEW a, Sound(a), Rank(a) \in 1 .. 2, NEW s \in Sites,
           NEW c \in LocalIndices(a.tiles[s]), NEW e \in LocalIndices(a.tiles[s]),
           Flat(Sizes(a.tiles[s]), c) <= Flat(Sizes(a.tiles[s]), e)
    PROVE  Flat(Dims(a), ToGlobal(a.tiles[s], c)) <= Flat(Dims(a), ToGlobal(a.tiles[s], e))
<1>1. CASE Rank(a) = 1
  <2> DEFINE row == a.tiles[s][1].start
  <2>1. /\ row \in Nat /\ c[1] \in Nat /\ e[1] \in Nat
        /\ Flat(Sizes(a.tiles[s]), c) = c[1]
        /\ Flat(Sizes(a.tiles[s]), e) = e[1]
        /\ Flat(Dims(a), ToGlobal(a.tiles[s], c)) = c[1] + row
        /\ Flat(Dims(a), ToGlobal(a.tiles[s], e)) = e[1] + row
    BY <1>1, PlaceInVector
  <2> HIDE DEF row
  <2>2. c[1] + row <= e[1] + row
    BY <2>1, SMT
  <2> QED
    BY <2>1, <2>2
<1>2. CASE Rank(a) = 2
  <2> DEFINE w == Size(a.tiles[s][2])
             W == Dims(a)[2]
             row == a.tiles[s][1].start
             column == a.tiles[s][2].start
  <2>1. /\ w \in Nat \ {0} /\ W \in Nat \ {0} /\ row \in Nat /\ column \in Nat
        /\ c[1] \in Nat /\ c[2] \in Nat /\ c[2] < w /\ c[2] + column < W
        /\ Flat(Sizes(a.tiles[s]), c) = c[1] * w + c[2]
        /\ Flat(Dims(a), ToGlobal(a.tiles[s], c)) = (c[1] + row) * W + (c[2] + column)
    BY <1>2, PlaceInTile
  <2>2. /\ e[1] \in Nat /\ e[2] \in Nat /\ e[2] < w /\ e[2] + column < W
        /\ Flat(Sizes(a.tiles[s]), e) = e[1] * w + e[2]
        /\ Flat(Dims(a), ToGlobal(a.tiles[s], e)) = (e[1] + row) * W + (e[2] + column)
    BY <1>2, PlaceInTile
  <2> HIDE DEF w, W, row, column
  <2>3. c[1] < e[1] \/ (c[1] = e[1] /\ c[2] <= e[2])
    <3>1. c[1] * w + c[2] <= e[1] * w + e[2]
      BY <2>1, <2>2
    <3> QED
      BY <2>1, <2>2, <3>1, RowMajor
  <2>4. /\ c[1] + row \in Nat /\ e[1] + row \in Nat
        /\ c[2] + column \in Nat /\ e[2] + column \in Nat
        /\ \/ c[1] + row < e[1] + row
           \/ c[1] + row = e[1] + row /\ c[2] + column <= e[2] + column
    BY <2>1, <2>2, <2>3, SMT
  <2>5. (c[1] + row) * W + (c[2] + column) <= (e[1] + row) * W + (e[2] + column)
    BY <2>1, <2>2, <2>4, RowMajor
  <2> QED
    BY <2>1, <2>2, <2>5
<1>3. Rank(a) = 1 \/ Rank(a) = 2
  BY SMT
<1> QED
  BY <1>1, <1>2, <1>3

-----------------------------------------------------------------------------
(* argmax_d and argmin_d of a flattened array.                              *)
Candidate(a, g) == [value |-> Element(a, g), index |-> Flat(Dims(a), g)]

(* An element and its place are a candidate.                                *)
LEMMA CandidateType ==
    ASSUME NEW a, Sound(a), Numeric(a), Complete(a), NEW g \in Box(Dims(a))
    PROVE  Candidate(a, g) \in [value : Int, index : Nat]
<1>1. Element(a, g) \in Int
  BY CompleteElement
<1>2. Flat(Dims(a), g) \in Nat
  BY DimsOfArray, BoxIsFinite DEF Sound
<1> QED
  BY <1>1, <1>2 DEF Candidate

(* The candidates of a site.                                                *)
CandidatesOf(a, s) ==
    {Candidate(a, ToGlobal(a.tiles[s], c)) : c \in LocalIndices(a.tiles[s])}

(* What a site answers is the first of its candidates, by their places in   *)
(* the whole array.                                                         *)
LEMMA LocalFirstIsFirst ==
    ASSUME NEW op \in {"argmax", "argmin"}, NEW a, Sound(a), Numeric(a), Complete(a),
           Rank(a) \in 1 .. 2, NEW s \in Sites
    PROVE  /\ IsCandidates(CandidatesOf(a, s))
           /\ LocalFirst(op, a, s) = First(op, CandidatesOf(a, s))
<1> DEFINE tile == a.tiles[s]
           X == LocalIndices(tile)
           p == [c \in X |-> [value |-> a.data[s][c], index |-> Flat(Sizes(tile), c)]]
           q == [c \in X |-> Candidate(a, ToGlobal(tile, c))]
           P == {[value |-> a.data[s][c], index |-> Flat(Sizes(tile), c)] : c \in X}
           Q == CandidatesOf(a, s)
<1>1. IsTile(tile, Rank(a)) /\ Rank(a) \in 1 .. 3 /\ DOMAIN a.data[s] = X
  BY TilesOfArray DEF Sound, IsArray
<1>2. IsFiniteSet(X) /\ X = Box(Sizes(tile)) /\ IsDims(Sizes(tile))
  BY <1>1, LocalIsBox
<1>3. X # {}
  <2> DEFINE c == [d \in 1 .. Rank(a) |-> 0]
  <2>1. Rank(a) \in Nat /\ c \in [1 .. Rank(a) -> Nat]
    BY <1>1, SMT
  <2>2. \A d \in 1 .. Rank(a) : c[d] < Size(tile[d])
    BY <1>1, <2>1, TileIsFunction
  <2> HIDE DEF c
  <2>3. c \in X
    BY <1>1, <2>1, <2>2, LocalIndex
  <2> QED
    BY <2>3
<1>4. ASSUME NEW c \in X
      PROVE  /\ p[c] \in [value : Int, index : Nat]
             /\ q[c] \in [value : Int, index : Nat]
             /\ p[c].value = q[c].value
             /\ p[c].index = Flat(Sizes(tile), c)
             /\ q[c].index = Flat(Dims(a), ToGlobal(tile, c))
  <2>1. /\ ToGlobal(tile, c) \in Box(Dims(a))
        /\ a.data[s][c] = Element(a, ToGlobal(tile, c))
    BY TileOfElements
  <2>2. Candidate(a, ToGlobal(tile, c)) \in [value : Int, index : Nat]
    BY <2>1, CandidateType
  <2>3. Flat(Sizes(tile), c) \in Nat
    BY <1>2, BoxIsFinite
  <2>4. Element(a, ToGlobal(tile, c)) \in Int
    BY <2>1, CompleteElement
  <2> HIDE DEF tile, X
  <2>5. p[c] = [value |-> a.data[s][c], index |-> Flat(Sizes(tile), c)]
    OBVIOUS
  <2>6. q[c] = Candidate(a, ToGlobal(tile, c))
    OBVIOUS
  <2> HIDE DEF p, q
  <2>7. p[c].value = q[c].value /\ p[c].index = Flat(Sizes(tile), c)
        /\ q[c].index = Flat(Dims(a), ToGlobal(tile, c))
    BY <2>1, <2>5, <2>6 DEF Candidate
  <2>8. p[c] \in [value : Int, index : Nat]
    BY <2>1, <2>3, <2>4, <2>5
  <2> QED
    BY <2>2, <2>6, <2>7, <2>8
<1>5. ASSUME NEW c \in X, NEW e \in X, p[c].index <= p[e].index
      PROVE  q[c].index <= q[e].index
  <2>1. Flat(Sizes(tile), c) <= Flat(Sizes(tile), e)
    BY <1>4, <1>5
  <2>2. Flat(Dims(a), ToGlobal(tile, c)) <= Flat(Dims(a), ToGlobal(tile, e))
    BY <2>1, SameOrder
  <2> HIDE DEF p, q
  <2> QED
    BY <1>4, <2>2
<1>6. Image(p, X) = P /\ Image(q, X) = Q
  <2>1. Q = {Candidate(a, ToGlobal(tile, c)) : c \in X}
    BY DEF CandidatesOf
  <2> HIDE DEF X, tile, Q
  <2> QED
    BY <2>1 DEF Image
<1>7. /\ IsCandidates(Q)
      /\ \E c \in X : First(op, P) = p[c] /\ First(op, Q) = q[c]
  <2> HIDE DEF p, q, X, P, Q
  <2>1. /\ \A x \in X : /\ p[x] \in [value : Int, index : Nat]
                        /\ q[x] \in [value : Int, index : Nat]
                        /\ p[x].value = q[x].value
        /\ \A x, y \in X : p[x].index <= p[y].index => q[x].index <= q[y].index
    BY <1>4, <1>5
  <2>2. /\ IsCandidates(Image(q, X))
        /\ \E x \in X : First(op, Image(p, X)) = p[x] /\ First(op, Image(q, X)) = q[x]
    BY <1>2, <1>3, <2>1, FirstOfSame
  <2> QED
    BY <1>6, <2>2
<1>8. PICK c \in X : First(op, P) = p[c] /\ First(op, Q) = q[c]
  BY <1>7
<1>9. LocalFirst(op, a, s) =
        [First(op, P) EXCEPT !.index = GlobalFlatIndex(tile, Dims(a), @)]
  BY <1>1, Zenon DEF LocalFirst
<1>10. GlobalFlatIndex(tile, Dims(a), Flat(Sizes(tile), c)) = q[c].index
  <2>1. GlobalFlatIndex(tile, Dims(a), Flat(Sizes(tile), c)) = Flat(Dims(a), ToGlobal(tile, c))
    BY GlobalPlace
  <2> HIDE DEF p, q
  <2> QED
    BY <1>4, <2>1
<1>11. [p[c] EXCEPT !.index = GlobalFlatIndex(tile, Dims(a), @)] = q[c]
  <2>1. /\ p[c] = [value |-> a.data[s][c], index |-> Flat(Sizes(tile), c)]
        /\ q[c] = [value |-> p[c].value, index |-> q[c].index]
    <3>1. q[c] \in [value : Int, index : Nat] /\ p[c].value = q[c].value
      BY <1>4
    <3>2. p[c] = [value |-> a.data[s][c], index |-> Flat(Sizes(tile), c)]
      OBVIOUS
    <3> HIDE DEF p, q
    <3> QED
      BY <3>1, <3>2
  <2> HIDE DEF p, q, X, tile
  <2> QED
    BY <1>10, <2>1
<1>12. LocalFirst(op, a, s) = First(op, Q)
  <2> HIDE DEF p, q, P, Q
  <2> QED
    BY <1>8, <1>9, <1>11
<1> QED
  BY <1>7, <1>12

(* Combined, the answers are the first of all candidates.                   *)
LEMMA FlatAnswersAgree ==
    ASSUME NEW op \in {"argmax", "argmin"}, NEW a, Sound(a), Numeric(a), Complete(a),
           Rank(a) \in 1 .. 2, NEW order \in Orders
    PROVE  ArgFlat(op, a, order) = WholeFirst(op, a, Box(Dims(a))).index
<1> DEFINE S == {Candidate(a, g) : g \in Box(Dims(a))}
           part == [s \in Sites |-> CandidatesOf(a, s)]
           best == [s \in Sites |-> LocalFirst(op, a, s)]
<1>1. \A s \in Sites : /\ IsCandidates(part[s])
                       /\ best[s] = First(op, part[s])
                       /\ best[s] \in part[s]
  <2> SUFFICES ASSUME NEW s \in Sites
               PROVE  /\ IsCandidates(part[s])
                      /\ best[s] = First(op, part[s])
                      /\ best[s] \in part[s]
    OBVIOUS
  <2>1. IsCandidates(CandidatesOf(a, s)) /\ LocalFirst(op, a, s) = First(op, CandidatesOf(a, s))
    BY LocalFirstIsFirst
  <2>2. First(op, CandidatesOf(a, s)) \in CandidatesOf(a, s)
    BY <2>1, FirstIsBest
  <2> QED
    BY <2>1, <2>2
<1>2. \A s \in Sites : part[s] \subseteq S
  BY TileOfElements DEF CandidatesOf
<1>3. \A x \in S : \E s \in Sites : x \in part[s]
  <2> SUFFICES ASSUME NEW g \in Box(Dims(a))
               PROVE  \E s \in Sites : Candidate(a, g) \in part[s]
    OBVIOUS
  <2>1. /\ g \in [1 .. Rank(a) -> Nat]
        /\ \E s \in Sites : Holds(a.tiles[s], g)
    BY CompleteElement
  <2>2. PICK s \in Sites : Holds(a.tiles[s], g)
    BY <2>1
  <2>3. IsTile(a.tiles[s], Rank(a)) /\ Rank(a) \in Nat
    BY TilesOfArray DEF Sound
  <2>4. PICK c \in LocalIndices(a.tiles[s]) : ToGlobal(a.tiles[s], c) = g
    BY <2>1, <2>2, <2>3, LocalOfGlobal
  <2>5. Candidate(a, g) \in part[s]
    BY <2>4 DEF CandidatesOf
  <2> QED
    BY <2>5
<1>4. IsCandidates(S)
  <2> DEFINE X == Box(Dims(a))
             p == [g \in X |-> Candidate(a, g)]
  <2>1. IsFiniteSet(X)
    BY DimsOfArray, BoxIsFinite DEF Sound
  <2>2. S = Image(p, X)
    <3>1. S = {Candidate(a, g) : g \in X}
      OBVIOUS
    <3> HIDE DEF S, X
    <3> QED
      BY <3>1 DEF Image
  <2>3. IsFiniteSet(S)
    <3> HIDE DEF S, X, p
    <3> QED
      BY <2>1, <2>2, FiniteImage
  <2>4. S \subseteq [value : Int, index : Nat]
    BY CandidateType
  <2>5. S # {}
    <3>1. part[0] # {}
      BY <1>1, SitesNotEmpty DEF IsCandidates
    <3> HIDE DEF part, S
    <3> QED
      BY <1>2, <3>1, SitesNotEmpty
  <2> HIDE DEF S
  <2> QED
    BY <2>3, <2>4, <2>5 DEF IsCandidates
<1>5. WholeFirst(op, a, Box(Dims(a))) = First(op, S)
  BY Zenon DEF WholeFirst, Candidate
<1>6. ArgFlat(op, a, order) = AllReduce(op, best, order).index
  BY DEF ArgFlat
<1> HIDE DEF S, part, best
<1>7. \A s \in Sites : best[s] \in [value : Int, index : Nat]
  BY <1>1, <1>2, <1>4 DEF IsCandidates
<1>8. AllReduce(op, best, order) = First(op, Image(best, Sites))
  BY <1>7, AllReduceIsFirst
<1>9. First(op, Image(best, Sites)) = First(op, S)
  BY <1>1, <1>2, <1>3, <1>4, FirstOfParts
<1> QED
  BY <1>5, <1>6, <1>8, <1>9

-----------------------------------------------------------------------------
(* argmax_d and argmin_d along an axis of a matrix.                         *)
LEMMA OtherAxis ==
    ASSUME NEW axis \in 1 .. 2
    PROVE  /\ 3 - axis \in 1 .. 2 /\ 3 - axis # axis /\ 3 - (3 - axis) = axis
           /\ \A d \in 1 .. 2 : d = axis \/ d = 3 - axis
  BY SMT

(* An element of a line, with its index in the line.                        *)
LineCandidate(a, axis, g) == [value |-> Element(a, g), index |-> g[axis]]

(* The elements of a line.                                                  *)
LineElements(a, axis, line) == {g \in Box(Dims(a)) : g[3 - axis] = line}

(* The candidates of a line.                                                *)
LineCandidates(a, axis, line) ==
    {LineCandidate(a, axis, g) : g \in LineElements(a, axis, line)}

(* The elements of the line that a site has.                                *)
LineOfTile(a, s, axis, line) ==
    {c \in LocalIndices(a.tiles[s]) : c[3 - axis] = line - a.tiles[s][3 - axis].start}

(* Those that a site has.                                                   *)
CandidatesOfLine(a, s, axis, line) ==
    {LineCandidate(a, axis, ToGlobal(a.tiles[s], c)) : c \in LineOfTile(a, s, axis, line)}

(* A site that has a line has some of its elements.                         *)
LEMMA LineOfTileFacts ==
    ASSUME NEW a, Sound(a), Rank(a) = 2, NEW axis \in 1 .. 2, NEW s \in Sites,
           NEW line, InSpan(line, a.tiles[s][3 - axis]), line \in Nat
    PROVE  /\ LineOfTile(a, s, axis, line) # {}
           /\ IsFiniteSet(LineOfTile(a, s, axis, line))
           /\ \A c \in LineOfTile(a, s, axis, line) :
                /\ c[axis] \in Nat
                /\ ToGlobal(a.tiles[s], c) \in LineElements(a, axis, line)
                /\ ToGlobal(a.tiles[s], c)[axis] = c[axis] + a.tiles[s][axis].start
                /\ a.data[s][c] = Element(a, ToGlobal(a.tiles[s], c))
           /\ \A g \in LineElements(a, axis, line) :
                InSpan(g[axis], a.tiles[s][axis]) =>
                    \E c \in LineOfTile(a, s, axis, line) : ToGlobal(a.tiles[s], c) = g
<1> DEFINE tile == a.tiles[s]
           X == LineOfTile(a, s, axis, line)
           i == line - tile[3 - axis].start
<1>1. /\ IsTile(tile, 2) /\ 2 \in Nat /\ 2 \in 1 .. 3 /\ axis \in 1 .. Rank(a)
      /\ 3 - axis \in 1 .. Rank(a)
  <2>1. 2 \in Nat /\ 2 \in 1 .. 3
    BY SMT
  <2>2. IsTile(tile, Rank(a))
    BY TilesOfArray DEF Sound
  <2> QED
    BY <2>1, <2>2, OtherAxis
<1>2. \A d \in 1 .. 2 : /\ tile[d].start \in Nat /\ tile[d].stop \in Nat
                        /\ Size(tile[d]) \in Nat /\ Size(tile[d]) > 0
                        /\ Size(tile[d]) = tile[d].stop - tile[d].start
  BY <1>1, TileIsFunction
<1>3. i \in Nat /\ i < Size(tile[3 - axis])
  <2> DEFINE x == tile[3 - axis].start
             y == tile[3 - axis].stop
  <2>1. x \in Nat /\ y \in Nat /\ Size(tile[3 - axis]) = y - x
    BY <1>2, OtherAxis
  <2>2. x <= line /\ line < y
    BY DEF InSpan
  <2> HIDE DEF x, y
  <2>3. line - x \in Nat /\ line - x < y - x
    BY <2>1, <2>2, SMT
  <2> QED
    BY <2>1, <2>3 DEF x
<1>4. X # {}
  <2> DEFINE c == [d \in 1 .. 2 |-> IF d = axis THEN 0 ELSE i]
  <2> HIDE DEF i
  <2>1. c \in [1 .. 2 -> Nat]
    BY <1>3
  <2>2. c[axis] = 0 /\ c[3 - axis] = i
    BY OtherAxis
  <2>3. \A d \in 1 .. 2 : c[d] < Size(tile[d])
    BY <1>2, <1>3, <2>2, OtherAxis
  <2> HIDE DEF c, tile
  <2>4. c \in LocalIndices(tile)
    BY <1>1, <2>1, <2>3, LocalIndex
  <2> QED
    BY <2>2, <2>4 DEF LineOfTile, i, tile
<1>5. IsFiniteSet(X)
  <2>1. X \subseteq LocalIndices(tile)
    BY DEF LineOfTile
  <2>2. IsFiniteSet(LocalIndices(tile))
    BY <1>1, LocalIsBox
  <2> QED
    BY <2>1, <2>2, FS_Subset
<1>6. ASSUME NEW c \in X
      PROVE  /\ c[axis] \in Nat
             /\ ToGlobal(tile, c) \in LineElements(a, axis, line)
             /\ ToGlobal(tile, c)[axis] = c[axis] + tile[axis].start
             /\ a.data[s][c] = Element(a, ToGlobal(tile, c))
  <2>1. c \in LocalIndices(tile) /\ c[3 - axis] = i
    BY DEF LineOfTile
  <2>2. ToGlobal(tile, c) \in Box(Dims(a)) /\ a.data[s][c] = Element(a, ToGlobal(tile, c))
    BY <2>1, TileOfElements
  <2>3. c \in [1 .. 2 -> Nat]
    BY <1>1, <2>1, LocalIndex
  <2>4. \A d \in 1 .. 2 : ToGlobal(tile, c)[d] = c[d] + tile[d].start
    BY <1>1, <2>1, GlobalOfLocal
  <2>5. ToGlobal(tile, c)[3 - axis] = line
    <3> DEFINE x == tile[3 - axis].start
    <3>1. x \in Nat
      BY <1>2, OtherAxis
    <3>2. ToGlobal(tile, c)[3 - axis] = i + x
      BY <2>1, <2>4, OtherAxis
    <3>3. i = line - x
      OBVIOUS
    <3> HIDE DEF x, i
    <3>4. i + x = line
      BY <3>1, <3>3, SMT
    <3> QED
      BY <3>2, <3>4
  <2>6. ToGlobal(tile, c) \in LineElements(a, axis, line)
    BY <2>2, <2>5 DEF LineElements
  <2> QED
    BY <2>2, <2>3, <2>4, <2>6
<1>7. ASSUME NEW g \in LineElements(a, axis, line), InSpan(g[axis], tile[axis])
      PROVE  \E c \in X : ToGlobal(tile, c) = g
  <2>1. g \in Box(Dims(a)) /\ g[3 - axis] = line
    BY DEF LineElements
  <2>2. IsDims(Dims(a)) /\ Len(Dims(a)) = 2
    BY DimsOfArray DEF Sound
  <2>3. g \in [1 .. 2 -> Nat]
    BY <2>1, <2>2, BoxIndex
  <2>4. \A d \in 1 .. 2 : InSpan(g[d], tile[d])
    BY <1>7, <2>1, OtherAxis
  <2>5. DOMAIN tile = 1 .. 2
    BY <1>1, TileIsFunction
  <2>6. Holds(tile, g)
    BY <2>4, <2>5 DEF Holds
  <2> DEFINE c == ToLocal(tile, g)
  <2>7. c \in LocalIndices(tile) /\ ToGlobal(tile, c) = g
    BY <1>1, <2>3, <2>6, LocalOfGlobal
  <2>8. c[3 - axis] = i
    BY <2>1, <2>5, OtherAxis DEF ToLocal
  <2>9. c \in X
    <3> HIDE DEF c
    <3> QED
      BY <2>7, <2>8 DEF LineOfTile
  <2> QED
    BY <2>7, <2>9
<1> QED
  BY <1>4, <1>5, <1>6, <1>7

(* What it answers for the line is the first of its candidates.             *)
LEMMA LineFirstIsFirst ==
    ASSUME NEW op \in {"argmax", "argmin"}, NEW a, Sound(a), Numeric(a), Complete(a),
           Rank(a) = 2, NEW axis \in 1 .. 2, NEW s \in Sites,
           NEW line \in Nat, InSpan(line, a.tiles[s][3 - axis])
    PROVE  /\ IsCandidates(CandidatesOfLine(a, s, axis, line))
           /\ CandidatesOfLine(a, s, axis, line) \subseteq LineCandidates(a, axis, line)
           /\ LET best == LineFirst(op, a, s, axis, line - a.tiles[s][3 - axis].start)
                  start == a.tiles[s][axis].start
              IN  /\ best.index \in Nat
                  /\ [best EXCEPT !.index = @ + start] =
                        First(op, CandidatesOfLine(a, s, axis, line))
<1> DEFINE tile == a.tiles[s]
           start == tile[axis].start
           X == LineOfTile(a, s, axis, line)
           p == [c \in X |-> [value |-> a.data[s][c], index |-> c[axis]]]
           q == [c \in X |-> LineCandidate(a, axis, ToGlobal(tile, c))]
           P == {[value |-> a.data[s][c], index |-> c[axis]] : c \in X}
           Q == CandidatesOfLine(a, s, axis, line)
           best == LineFirst(op, a, s, axis, line - tile[3 - axis].start)
<1>1. /\ X # {} /\ IsFiniteSet(X)
      /\ \A c \in X : /\ c[axis] \in Nat
                      /\ ToGlobal(tile, c) \in LineElements(a, axis, line)
                      /\ ToGlobal(tile, c)[axis] = c[axis] + start
                      /\ a.data[s][c] = Element(a, ToGlobal(tile, c))
  BY LineOfTileFacts
<1>2. start \in Nat /\ DOMAIN a.data[s] = LocalIndices(tile)
  <2>1. axis \in 1 .. Rank(a)
    OBVIOUS
  <2> QED
    BY <2>1, SpanWithin DEF Sound, IsArray
<1>3. \A g \in LineElements(a, axis, line) : Element(a, g) \in Int
  BY CompleteElement DEF LineElements
<1> HIDE DEF X
<1>4. ASSUME NEW c \in X
      PROVE  /\ p[c] = [value |-> a.data[s][c], index |-> c[axis]]
             /\ q[c] = [value |-> a.data[s][c], index |-> c[axis] + start]
             /\ p[c] \in [value : Int, index : Nat]
             /\ q[c] \in [value : Int, index : Nat]
             /\ p[c].value = q[c].value
             /\ p[c].index = c[axis] /\ q[c].index = c[axis] + start
  <2>1. p[c] = [value |-> a.data[s][c], index |-> c[axis]]
    OBVIOUS
  <2>2. q[c] = [value |-> a.data[s][c], index |-> c[axis] + start]
    BY <1>1 DEF LineCandidate
  <2>3. a.data[s][c] \in Int /\ c[axis] \in Nat
    BY <1>1, <1>3
  <2> HIDE DEF p, q, start
  <2>4. c[axis] + start \in Nat
    BY <1>2, <2>3, SMT
  <2>5. /\ p[c].value = q[c].value
        /\ p[c].index = c[axis] /\ q[c].index = c[axis] + start
    BY <2>1, <2>2
  <2>6. p[c] \in [value : Int, index : Nat] /\ q[c] \in [value : Int, index : Nat]
    BY <2>1, <2>2, <2>3, <2>4
  <2> QED
    BY <2>1, <2>2, <2>5, <2>6
<1>5. ASSUME NEW c \in X, NEW e \in X, p[c].index <= p[e].index
      PROVE  q[c].index <= q[e].index
  <2> DEFINE x == c[axis]
             y == e[axis]
  <2>1. q[c].index = x + start /\ q[e].index = y + start
    BY <1>4
  <2>2. p[c].index = x /\ p[e].index = y
    BY <1>4
  <2> HIDE DEF p, q, start
  <2>3. x \in Nat /\ y \in Nat /\ x <= y
    BY <1>1, <1>5, <2>2
  <2> HIDE DEF x, y
  <2>4. x + start <= y + start
    BY <1>2, <2>3, SMT
  <2> QED
    BY <2>1, <2>4
<1>6. Image(p, X) = P /\ Image(q, X) = Q
  <2>1. Q = {LineCandidate(a, axis, ToGlobal(tile, c)) : c \in X}
    BY DEF CandidatesOfLine, X
  <2> HIDE DEF tile, Q
  <2> QED
    BY <2>1 DEF Image
<1>7. /\ IsCandidates(Q)
      /\ \E c \in X : First(op, P) = p[c] /\ First(op, Q) = q[c]
  <2> HIDE DEF p, q, P, Q
  <2>1. /\ \A x \in X : /\ p[x] \in [value : Int, index : Nat]
                        /\ q[x] \in [value : Int, index : Nat]
                        /\ p[x].value = q[x].value
        /\ \A x, y \in X : p[x].index <= p[y].index => q[x].index <= q[y].index
    BY <1>4, <1>5
  <2>2. /\ IsCandidates(Image(q, X))
        /\ \E x \in X : First(op, Image(p, X)) = p[x] /\ First(op, Image(q, X)) = q[x]
    <3>1. X # {}
      BY <1>1
    <3>2. IsFiniteSet(X)
      BY <1>1
    <3> HIDE DEF tile, start, best
    <3> QED
      BY <2>1, <3>1, <3>2, FirstOfSame, SMTT(60)
  <2> QED
    BY <1>6, <2>2
<1>8. PICK c \in X : First(op, P) = p[c] /\ First(op, Q) = q[c]
  BY <1>7
<1>9. best = First(op, P)
  <2>1. X = {e \in LocalIndices(tile) : e[3 - axis] = line - tile[3 - axis].start}
    BY DEF X, LineOfTile
  <2> HIDE DEF tile
  <2>2. best = First(op, {[value |-> a.data[s][e], index |-> e[axis]] :
                        e \in {e \in DOMAIN a.data[s] :
                                    e[3 - axis] = line - tile[3 - axis].start}})
    BY Zenon DEF LineFirst
  <2> QED
    BY <1>2, <2>1, <2>2
<1>10. Q \subseteq LineCandidates(a, axis, line)
  <2> HIDE DEF tile
  <2> QED
    BY <1>1 DEF CandidatesOfLine, LineCandidates, X, tile
<1> HIDE DEF p, q, P, best, start
<1>11. best = [value |-> a.data[s][c], index |-> c[axis]] /\ c[axis] \in Nat
  BY <1>1, <1>4, <1>8, <1>9
<1>12. First(op, Q) = [value |-> a.data[s][c], index |-> c[axis] + start]
  BY <1>4, <1>8
<1>13. best.index \in Nat /\ [best EXCEPT !.index = @ + start] = First(op, Q)
  <2> HIDE DEF Q
  <2> QED
    BY <1>11, <1>12
<1> QED
  BY <1>7, <1>10, <1>13 DEF best, start

(* Tiles that hold whole lines.                                             *)
LEMMA WholeLinesAgree ==
    ASSUME NEW op \in {"argmax", "argmin"}, NEW a, Sound(a), Numeric(a), Complete(a),
           Rank(a) = 2, NEW axis \in 1 .. 2, DimTiled(a, axis), NEW s \in Sites,
           NEW line \in Nat, InSpan(line, a.tiles[s][3 - axis])
    PROVE  ArgLine(op, a, s, axis, line) = First(op, LineCandidates(a, axis, line)).index
<1> DEFINE tile == a.tiles[s]
           Q == CandidatesOfLine(a, s, axis, line)
           best == LineFirst(op, a, s, axis, line - tile[3 - axis].start)
           start == tile[axis].start
<1>1. axis \in 1 .. Rank(a) /\ start = 0 /\ tile[axis].stop = Dims(a)[axis]
  BY WholeDimensionSpan DEF DimTiled
<1>2. best.index \in Nat /\ [best EXCEPT !.index = @ + start] = First(op, Q)
  BY LineFirstIsFirst
<1>3. \A g \in LineElements(a, axis, line) :
        \E c \in LineOfTile(a, s, axis, line) : ToGlobal(tile, c) = g
  <2> SUFFICES ASSUME NEW g \in LineElements(a, axis, line)
               PROVE  \E c \in LineOfTile(a, s, axis, line) : ToGlobal(tile, c) = g
    OBVIOUS
  <2>1. g[axis] \in Nat /\ g[axis] < Dims(a)[axis]
    BY <1>1, CompleteElement DEF LineElements
  <2> DEFINE x == g[axis]
  <2>2. x \in Nat /\ x < tile[axis].stop
    BY <1>1, <2>1
  <2> HIDE DEF x
  <2>3. 0 <= x
    BY <2>2, SMT
  <2>4. InSpan(g[axis], tile[axis])
    BY <1>1, <2>2, <2>3 DEF x, InSpan
  <2> QED
    BY <2>4, LineOfTileFacts
<1>4. LineCandidates(a, axis, line) \subseteq Q
  <2> HIDE DEF tile
  <2> QED
    BY <1>3 DEF LineCandidates, CandidatesOfLine, tile
<1>5. Q \subseteq LineCandidates(a, axis, line)
  BY LineFirstIsFirst
<1>6. ArgLine(op, a, s, axis, line) = best.index
  BY Zenon DEF ArgLine
<1> HIDE DEF best, Q, tile, start
<1>7. [best EXCEPT !.index = @ + start].index = best.index
  <2> DEFINE x == best.index
  <2>1. First(op, Q).index = x + start
    <3>1. IsCandidates(Q)
      BY LineFirstIsFirst DEF Q
    <3>2. First(op, Q) \in [value : Int, index : Nat]
      BY <3>1, FirstIsBest DEF IsCandidates
    <3> QED
      BY <1>2, <3>2
  <2> HIDE DEF x
  <2>2. x + start = x
    BY <1>1, <1>2, SMT DEF x
  <2> QED
    BY <1>2, <2>1, <2>2 DEF x
<1>8. Q = LineCandidates(a, axis, line)
  BY <1>4, <1>5
<1>9. ArgLine(op, a, s, axis, line) = First(op, Q).index
  BY <1>2, <1>6, <1>7
<1> QED
  BY <1>8, <1>9

(* Tiles that hold parts of all lines: the answers are combined.            *)
LEMMA CombinedLinesAgree ==
    ASSUME NEW op \in {"argmax", "argmin"}, NEW a, Sound(a), Numeric(a), Complete(a),
           Rank(a) = 2, NEW axis \in 1 .. 2, DimTiled(a, 3 - axis),
           NEW line \in 0 .. (Dims(a)[3 - axis] - 1), NEW order \in Orders
    PROVE  ArgLines(op, a, axis, line, order) =
                First(op, LineCandidates(a, axis, line)).index
<1> DEFINE S == LineCandidates(a, axis, line)
           part == [s \in Sites |-> CandidatesOfLine(a, s, axis, line)]
           best == [s \in Sites |->
                        LET b == LineFirst(op, a, s, axis, line)
                        IN  [b EXCEPT !.index = @ + a.tiles[s][axis].start]]
<1>1. 3 - axis \in 1 .. Rank(a) /\ axis \in 1 .. Rank(a) /\ line \in Nat
  BY OtherAxis, SMT
<1>2. ASSUME NEW s \in Sites
      PROVE  InSpan(line, a.tiles[s][3 - axis]) /\ line - a.tiles[s][3 - axis].start = line
  <2> DEFINE x == a.tiles[s][3 - axis].start
             y == a.tiles[s][3 - axis].stop
             z == Dims(a)[3 - axis]
  <2>1. x = 0 /\ y = z /\ z \in Nat
    BY <1>1, WholeDimensionSpan, SpanWithin DEF DimTiled
  <2>2. line \in 0 .. (z - 1)
    OBVIOUS
  <2> HIDE DEF x, y, z
  <2>3. x <= line /\ line < y /\ line - x = line
    BY <2>1, <2>2, SMT
  <2> QED
    BY <2>3 DEF x, y, InSpan
<1>3. \A s \in Sites : /\ IsCandidates(part[s])
                       /\ part[s] \subseteq S
                       /\ best[s] = First(op, part[s])
  <2> SUFFICES ASSUME NEW s \in Sites
               PROVE  /\ IsCandidates(part[s])
                      /\ part[s] \subseteq S
                      /\ best[s] = First(op, part[s])
    OBVIOUS
  <2> DEFINE b == LineFirst(op, a, s, axis, line)
  <2>1. /\ IsCandidates(CandidatesOfLine(a, s, axis, line))
        /\ CandidatesOfLine(a, s, axis, line) \subseteq S
        /\ [LineFirst(op, a, s, axis, line - a.tiles[s][3 - axis].start)
                EXCEPT !.index = @ + a.tiles[s][axis].start] =
            First(op, CandidatesOfLine(a, s, axis, line))
    BY <1>1, <1>2, LineFirstIsFirst
  <2>2. [b EXCEPT !.index = @ + a.tiles[s][axis].start] =
            First(op, CandidatesOfLine(a, s, axis, line))
    BY <1>2, <2>1
  <2>3. best[s] = [b EXCEPT !.index = @ + a.tiles[s][axis].start]
    OBVIOUS
  <2> HIDE DEF b, S, best
  <2> QED
    BY <2>1, <2>2, <2>3
<1>4. \A x \in S : \E s \in Sites : x \in part[s]
  <2> SUFFICES ASSUME NEW g \in LineElements(a, axis, line)
               PROVE  \E s \in Sites : LineCandidate(a, axis, g) \in part[s]
    BY DEF LineCandidates
  <2>1. g \in Box(Dims(a)) /\ \E s \in Sites : Holds(a.tiles[s], g)
    BY CompleteElement DEF LineElements
  <2>2. PICK s \in Sites : Holds(a.tiles[s], g)
    BY <2>1
  <2>3. DOMAIN a.tiles[s] = 1 .. Rank(a)
    BY TilesOfArray, TileIsFunction DEF Sound
  <2>4. InSpan(g[axis], a.tiles[s][axis])
    BY <1>1, <2>2, <2>3 DEF Holds
  <2>5. PICK c \in LineOfTile(a, s, axis, line) : ToGlobal(a.tiles[s], c) = g
    BY <1>1, <1>2, <2>4, LineOfTileFacts
  <2>6. LineCandidate(a, axis, g) \in part[s]
    BY <2>5 DEF CandidatesOfLine
  <2> QED
    BY <2>6
<1>5. IsCandidates(S)
  <2> DEFINE X == LineElements(a, axis, line)
             p == [g \in X |-> LineCandidate(a, axis, g)]
  <2>1. IsFiniteSet(X)
    <3>1. IsFiniteSet(Box(Dims(a)))
      BY DimsOfArray, BoxIsFinite DEF Sound
    <3> QED
      BY <3>1, FS_Subset DEF LineElements
  <2>2. S = Image(p, X)
    <3>1. S = {LineCandidate(a, axis, g) : g \in X}
      BY DEF LineCandidates
    <3> HIDE DEF S, X
    <3> QED
      BY <3>1 DEF Image
  <2>3. IsFiniteSet(S)
    <3> HIDE DEF S, X, p
    <3> QED
      BY <2>1, <2>2, FiniteImage
  <2>4. S \subseteq [value : Int, index : Nat]
    <3> SUFFICES ASSUME NEW g \in LineElements(a, axis, line)
                 PROVE  LineCandidate(a, axis, g) \in [value : Int, index : Nat]
      BY DEF LineCandidates
    <3>1. Element(a, g) \in Int /\ g[axis] \in Nat
      BY <1>1, CompleteElement DEF LineElements
    <3> QED
      BY <3>1 DEF LineCandidate
  <2>5. S # {}
    <3>1. part[0] # {} /\ part[0] \subseteq S
      BY <1>3, SitesNotEmpty DEF IsCandidates
    <3> HIDE DEF part, S
    <3> QED
      BY <3>1
  <2> HIDE DEF S
  <2> QED
    BY <2>3, <2>4, <2>5 DEF IsCandidates
<1>6. ArgLines(op, a, axis, line, order) = AllReduce(op, best, order).index
  BY Zenon DEF ArgLines
<1> HIDE DEF S, part, best
<1>7. \A s \in Sites : best[s] \in [value : Int, index : Nat]
  BY <1>3, FirstIsBest DEF IsCandidates
<1>8. AllReduce(op, best, order) = First(op, Image(best, Sites))
  BY <1>7, AllReduceIsFirst
<1>9. First(op, Image(best, Sites)) = First(op, S)
  BY <1>3, <1>4, <1>5, FirstOfParts
<1> QED
  BY <1>6, <1>8, <1>9 DEF S

(* argmax_d and argmin_d answer for the whole array, flattened or along     *)
(* an axis, in whatever order the answers of the sites arrive.              *)
THEOREM ArgOfWhole ==
    ASSUME NEW op \in {"argmax", "argmin"}, NEW a, Sound(a), Numeric(a), Complete(a)
    PROVE  ArgAgrees(op, a)
<1>1. Rank(a) < 3 => Rank(a) \in 1 .. 2
  BY SMT DEF Sound
<1>2. ASSUME Rank(a) < 3, NEW order \in Orders
      PROVE  ArgFlat(op, a, order) = WholeFirst(op, a, Box(Dims(a))).index
  BY <1>1, <1>2, FlatAnswersAgree
<1>3. ASSUME Rank(a) = 2, NEW axis \in 1 .. 2, NEW line \in 0 .. (Dims(a)[3 - axis] - 1)
      PROVE  LET elems == {g \in Box(Dims(a)) : g[3 - axis] = line}
                 best == First(op, {[value |-> Element(a, g), index |-> g[axis]] :
                                    g \in elems})
             IN  IF DimTiled(a, axis)
                 THEN \A s \in Sites :
                         InSpan(line, a.tiles[s][3 - axis]) =>
                             ArgLine(op, a, s, axis, line) = best.index
                 ELSE DimTiled(a, 3 - axis) => \A o \in Orders :
                         ArgLines(op, a, axis, line, o) = best.index
  <2> DEFINE elems == {g \in Box(Dims(a)) : g[3 - axis] = line}
             best == First(op, {[value |-> Element(a, g), index |-> g[axis]] : g \in elems})
  <2>1. best = First(op, LineCandidates(a, axis, line))
    BY Zenon DEF LineCandidates, LineCandidate, LineElements
  <2> HIDE DEF best
  <2>2. line \in Nat
    BY SMT
  <2>3. ASSUME DimTiled(a, axis), NEW s \in Sites, InSpan(line, a.tiles[s][3 - axis])
        PROVE  ArgLine(op, a, s, axis, line) = best.index
    BY <1>3, <2>1, <2>2, <2>3, WholeLinesAgree
  <2>4. ASSUME DimTiled(a, 3 - axis), NEW o \in Orders
        PROVE  ArgLines(op, a, axis, line, o) = best.index
    BY <1>3, <2>1, <2>4, CombinedLinesAgree
  <2> QED
    BY <2>3, <2>4 DEF best
<1> QED
  BY <1>2, <1>3, Zenon DEF ArgAgrees

-----------------------------------------------------------------------------
(* An element of a disjoint array is on one site.                           *)
LEMMA SitesAreFinite == IsFiniteSet(Sites)
<1>1. NumSites - 1 \in Int /\ 0 \in Int
  BY TiledArraysAssumption, SMT
<1> QED
  BY <1>1, FS_Interval DEF Sites

(* No two sites have it.                                                    *)
LEMMA OnlyHolder ==
    ASSUME NEW a, Disjoint(a), NEW g \in Box(Dims(a)), NEW s \in Sites, NEW t \in Sites,
           Holds(a.tiles[s], g), Holds(a.tiles[t], g)
    PROVE  s = t
<1> DEFINE H == Holders(a, g)
<1>1. IsFiniteSet(H) /\ s \in H /\ t \in H
  BY SitesAreFinite, FS_Subset DEF Holders
<1>2. Cardinality(H) <= 1
  BY DEF Disjoint
<1> HIDE DEF H
<1>3. SUFFICES ASSUME s # t PROVE FALSE
  OBVIOUS
<1>4. IsFiniteSet(H \ {s}) /\ Cardinality(H \ {s}) = Cardinality(H) - 1
  BY <1>1, FS_RemoveElement
<1>5. t \in H \ {s}
  BY <1>1, <1>3
<1>6. Cardinality(H \ {s}) # 0
  BY <1>4, <1>5, FS_EmptySet
<1>7. Cardinality(H) \in Nat /\ Cardinality(H \ {s}) \in Nat
  BY <1>1, <1>4, FS_CardinalityType
<1> QED
  BY <1>2, <1>4, <1>6, <1>7, SMT

(* A tile that is the whole of a disjoint array is the only one.            *)
LEMMA OnlyTile ==
    ASSUME NEW a, Sound(a), Disjoint(a), NEW s \in Sites,
           \A d \in 1 .. Rank(a) : Size(a.tiles[s][d]) = Dims(a)[d]
    PROVE  Sites = {s}
<1> SUFFICES ASSUME NEW t \in Sites PROVE t = s
  OBVIOUS
<1>1. Rank(a) \in Nat /\ Rank(a) \in 1 .. 3 /\ IsTile(a.tiles[t], Rank(a))
      /\ DOMAIN a.tiles[t] = 1 .. Rank(a) /\ DOMAIN a.tiles[s] = 1 .. Rank(a)
  BY TilesOfArray, TileIsFunction DEF Sound
<1> DEFINE g == [d \in 1 .. Rank(a) |-> a.tiles[t][d].start]
<1>2. g \in [1 .. Rank(a) -> Nat]
  BY SpanWithin
<1>3. ASSUME NEW d \in 1 .. Rank(a)
      PROVE  InSpan(g[d], a.tiles[t][d]) /\ InSpan(g[d], a.tiles[s][d])
  <2> DEFINE x == a.tiles[t][d].start
             y == a.tiles[t][d].stop
             z == Dims(a)[d]
  <2>1. /\ x \in Nat /\ y \in Nat /\ x < y /\ y <= z /\ z \in Nat
        /\ a.tiles[s][d].start = 0 /\ a.tiles[s][d].stop = z
    BY SpanWithin, WholeDimensionSpan
  <2>2. g[d] = x
    OBVIOUS
  <2> HIDE DEF x, y, z, g
  <2>3. 0 <= x /\ x < z /\ x <= x
    BY <2>1, SMT
  <2> QED
    BY <2>1, <2>2, <2>3 DEF InSpan, x, y
<1>4. Holds(a.tiles[t], g) /\ Holds(a.tiles[s], g)
  <2> HIDE DEF g
  <2> QED
    BY <1>1, <1>3 DEF Holds
<1>5. g \in Box(Dims(a))
  <2> HIDE DEF g
  <2> QED
    BY <1>2, <1>4, ElementOfTile
<1> HIDE DEF g
<1> QED
  BY <1>4, <1>5, OnlyHolder

-----------------------------------------------------------------------------
(* dot_d: all sites refuse, or none; all add up, or none.                   *)
LEMMA DotIsDone ==
    ASSUME NEW x, Sound(x), Regular(x), NEW y, Sound(y), Regular(y)
    PROVE  ~DotStuck(x, y) /\ \A s \in Sites : ~RefusesDot(x, y, s)
<1> DEFINE refusing == {s \in Sites : RefusesDot(x, y, s)}
           reducing == {s \in Sites : ~HasWholeRows(x, s)}
<1>1. ASSUME NEW a, Sound(a), Regular(a), Rank(a) = 2, NEW s \in Sites
      PROVE  HasWholeRows(a, s) \/ HasWholeColumns(a, s)
  BY <1>1 DEF Regular, DimTiled, HasWholeRows, HasWholeColumns
<1>2. \A s \in Sites : ~RefusesDot(x, y, s)
  BY <1>1 DEF RefusesDot
<1>3. refusing = {}
  BY <1>2
<1>4. reducing \in {{}, Sites}
  <2>1. CASE Rank(x) # 2
    BY <2>1 DEF HasWholeRows
  <2>2. CASE Rank(x) = 2 /\ DimTiled(x, 2)
    BY <2>2 DEF HasWholeRows, DimTiled
  <2>3. CASE Rank(x) = 2 /\ DimTiled(x, 1) /\ reducing # Sites
    <3>1. PICK s \in Sites : HasWholeRows(x, s)
      BY <2>3
    <3>2. \A d \in 1 .. 2 : d = 1 \/ d = 2
      BY SMT
    <3>3. \A d \in 1 .. Rank(x) : Size(x.tiles[s][d]) = Dims(x)[d]
      BY <2>3, <3>1, <3>2 DEF HasWholeRows, DimTiled
    <3>4. Sites = {s}
      BY <3>3, OnlyTile DEF Regular
    <3>5. reducing = {}
      BY <3>1, <3>4
    <3> QED
      BY <3>5
  <2> QED
    BY <2>1, <2>2, <2>3 DEF Regular
<1>5. DotStuck(x, y) <=> refusing \notin {{}, Sites} \/ (refusing = {} /\ reducing \notin {{}, Sites})
  BY Zenon DEF DotStuck
<1> HIDE DEF refusing, reducing
<1> QED
  BY <1>2, <1>3, <1>4, <1>5

-----------------------------------------------------------------------------
(* The indices of the factors.                                              *)
LEMMA Joined ==
    ASSUME NEW S, NEW i \in S, NEW k \in S
    PROVE  /\ << >> \o <<k>> = <<k>>
           /\ <<i>> \o <<k>> = <<i, k>>
           /\ <<k>> \o << >> = <<k>>
<1>1. << >> \in Seq(S) /\ <<k>> \in Seq(S) /\ <<i>> \in Seq(S)
  OBVIOUS
<1>2. << >> \o <<k>> = <<k>> /\ <<k>> \o << >> = <<k>>
  BY <1>1
<1>3. <<i>> \o <<k>> = <<i, k>>
  <2> DEFINE u == <<i>>
             v == <<k>>
  <2>1. /\ u \in Seq(S) /\ v \in Seq(S) /\ Len(u) = 1 /\ Len(v) = 1
        /\ u[1] = i /\ v[1] = k
    OBVIOUS
  <2> HIDE DEF u, v
  <2> DEFINE z == u \o v
             e == <<i, k>>
  <2>2. /\ z \in Seq(S) /\ Len(z) = 1 + 1
        /\ \A j \in 1 .. 1 + 1 : z[j] = IF j <= 1 THEN u[j] ELSE v[j - 1]
    BY <2>1, ConcatProperties
  <2>3. e \in Seq(S) /\ Len(e) = 2 /\ e[1] = i /\ e[2] = k
    OBVIOUS
  <2> HIDE DEF z, e
  <2>4. \A j \in 1 .. 2 : z[j] = e[j]
    BY <2>1, <2>2, <2>3, SMT
  <2>5. Len(z) = 2
    BY <2>2, SMT
  <2>6. z = e
    BY <2>2, <2>3, <2>4, <2>5, SeqEqual
  <2> QED
    BY <2>6 DEF u, v, z, e
<1> QED
  BY <1>2, <1>3

(* The column a right hand side is asked for: none, if it is a vector.      *)
IsColumn(a, column) ==
    \/ Rank(a) = 1 /\ column = << >>
    \/ Rank(a) = 2 /\ \E j \in Nat : j < Dims(a)[2] /\ column = <<j>>

(* The row a left hand side is asked for; c names it on site s, g in all.   *)
IsRow(a, s, c, g) ==
    \/ Rank(a) = 1
    \/ Rank(a) = 2 /\ /\ c[1] \in Int /\ g[1] \in Nat
                      /\ c[1] = g[1] - a.tiles[s][1].start
                      /\ InSpan(g[1], a.tiles[s][1])

(* Where a site has a factor of the left hand side.                         *)
LEMMA LeftIndex ==
    ASSUME NEW a, Sound(a), NEW s \in Sites, NEW c, NEW g, IsRow(a, s, c, g),
           NEW k \in Nat, InSpan(k, Contracted(a, s))
    PROVE  /\ Row(a, g) \o <<k>> \in Box(Dims(a))
           /\ Holds(a.tiles[s], Row(a, g) \o <<k>>)
           /\ a.data[s][Row(a, c) \o <<k - Contracted(a, s).start>>] =
                Element(a, Row(a, g) \o <<k>>)
<1> DEFINE tile == a.tiles[s]
           G == Row(a, g) \o <<k>>
<1>1. IsTile(tile, Rank(a)) /\ DOMAIN tile = 1 .. Rank(a)
  BY TilesOfArray, TileIsFunction DEF Sound
<1>2. \A d \in 1 .. Rank(a) : tile[d].start \in Nat
  BY SpanWithin
<1>3. CASE Rank(a) = 1
  <2>1. G = <<k>> /\ Row(a, c) \o <<k - tile[1].start>> = <<k - tile[1].start>>
    <3>1. Row(a, g) = << >> /\ Row(a, c) = << >>
      BY <1>3, SMT DEF Row
    <3>2. 1 \in 1 .. Rank(a)
      BY <1>3, SMT
    <3> DEFINE z == tile[1].start
    <3>3. z \in Nat
      BY <1>2, <3>2
    <3> HIDE DEF z
    <3>4. k - z \in Int /\ k \in Int
      BY <3>3, SMT
    <3> QED
      BY <3>1, <3>4, Joined DEF z
  <2>2. <<k>> \in [1 .. 1 -> Nat] /\ <<k>>[1] = k
    BY OneIndex
  <2>3. \A d \in 1 .. 1 : d = 1
    BY SMT
  <2>4. InSpan(k, tile[1])
    BY <1>3 DEF Contracted
  <2>5. Holds(tile, <<k>>)
    BY <1>1, <1>3, <2>2, <2>3, <2>4 DEF Holds
  <2>6. /\ <<k>> \in Box(Dims(a))
        /\ a.data[s][ToLocal(tile, <<k>>)] = Element(a, <<k>>)
    BY <1>3, <2>2, <2>5, ElementOfTile
  <2>7. ToLocal(tile, <<k>>) = <<k - tile[1].start>>
    <3>1. ToLocal(tile, <<k>>) = [d \in 1 .. 1 |-> <<k>>[d] - tile[d].start]
      BY <1>1, <1>3, Zenon DEF ToLocal
    <3>2. [d \in 1 .. 1 |-> <<k>>[d] - tile[d].start] = <<k - tile[1].start>>
      <4> HIDE DEF tile
      <4> QED
        BY <2>2, <2>3
    <3> QED
      BY <3>1, <3>2
  <2> QED
    BY <1>3, <2>1, <2>5, <2>6, <2>7 DEF Contracted
<1>4. CASE Rank(a) = 2
  <2> DEFINE i == g[1]
  <2>1. /\ c[1] \in Int /\ i \in Nat /\ InSpan(i, tile[1])
        /\ c[1] = i - tile[1].start
    BY <1>4 DEF IsRow
  <2>2. /\ Row(a, g) = <<i>> /\ Row(a, c) = <<c[1]>>
    BY <1>4 DEF Row
  <2>3. 2 \in 1 .. Rank(a) /\ 1 \in 1 .. Rank(a)
    BY <1>4, SMT
  <2>4. InSpan(k, tile[2]) /\ Contracted(a, s) = tile[2]
    BY <1>4 DEF Contracted
  <2> DEFINE z == tile[2].start
  <2>5. z \in Nat
    BY <1>2, <2>3
  <2> HIDE DEF i
  <2>6. G = <<i, k>> /\ Row(a, c) \o <<k - z>> = <<c[1], k - z>>
    <3>1. k - z \in Int /\ k \in Int /\ i \in Int /\ c[1] \in Int
      <4> HIDE DEF z
      <4> QED
        BY <2>1, <2>5, SMT
    <3> HIDE DEF z
    <3>2. <<i>> \o <<k>> = <<i, k>>
      BY <3>1, Joined
    <3>3. <<c[1]>> \o <<k - z>> = <<c[1], k - z>>
      BY <3>1, Joined
    <3> QED
      BY <2>2, <3>2, <3>3
  <2>7. /\ <<i, k>> \in [1 .. 2 -> Nat] /\ <<i, k>>[1] = i /\ <<i, k>>[2] = k
        /\ \A d \in 1 .. 2 : d = 1 \/ d = 2
    BY <2>1, TwoIndices
  <2>8. Holds(tile, <<i, k>>)
    BY <1>1, <1>4, <2>1, <2>4, <2>7 DEF Holds
  <2>9. /\ <<i, k>> \in Box(Dims(a))
        /\ a.data[s][ToLocal(tile, <<i, k>>)] = Element(a, <<i, k>>)
    BY <1>4, <2>7, <2>8, ElementOfTile
  <2>10. ToLocal(tile, <<i, k>>) = <<c[1], k - z>>
    <3>1. ToLocal(tile, <<i, k>>) = [d \in 1 .. 2 |-> <<i, k>>[d] - tile[d].start]
      BY <1>1, <1>4, Zenon DEF ToLocal
    <3>2. [d \in 1 .. 2 |-> <<i, k>>[d] - tile[d].start] = <<i - tile[1].start, k - tile[2].start>>
      <4> HIDE DEF tile
      <4> QED
        BY <2>7
    <3> QED
      BY <2>1, <3>1, <3>2
  <2> QED
    BY <2>4, <2>6, <2>8, <2>9, <2>10
<1> QED
  BY <1>3, <1>4 DEF IsRow

(* The column in the tile of a site.                                        *)
LocalColumn(a, w, column) == [j \in DOMAIN column |-> column[j] - a.tiles[w][2].start]

(* Where a site has a factor of the right hand side.                        *)
LEMMA RightIndex ==
    ASSUME NEW a, Sound(a), NEW w \in Sites, NEW column, IsColumn(a, column),
           NEW k \in Nat, k < Dims(a)[1]
    PROVE  /\ <<k>> \o column \in [1 .. Rank(a) -> Nat]
           /\ \A d \in 1 .. Rank(a) : (<<k>> \o column)[d] < Dims(a)[d]
           /\ Holds(a.tiles[w], <<k>> \o column) <=>
                InSpan(k, a.tiles[w][1]) /\ HasColumn(a, w, column)
           /\ ToLocal(a.tiles[w], <<k>> \o column) =
                <<k - a.tiles[w][1].start>> \o LocalColumn(a, w, column)
<1> DEFINE tile == a.tiles[w]
<1>1. IsTile(tile, Rank(a)) /\ DOMAIN tile = 1 .. Rank(a)
  BY TilesOfArray, TileIsFunction DEF Sound
<1>2. \A d \in 1 .. Rank(a) : tile[d].start \in Nat
  BY SpanWithin
<1>3. CASE Rank(a) = 1
  <2>1. 1 \in 1 .. Rank(a) /\ \A d \in 1 .. 1 : d = 1
    BY <1>3, SMT
  <2>2. column = << >>
    BY <1>3, SMT DEF IsColumn
  <2>3. <<k>> \o column = <<k>>
    BY <2>2, Joined
  <2>4. <<k>> \in [1 .. 1 -> Nat] /\ <<k>>[1] = k
    BY OneIndex
  <2>5. HasColumn(a, w, column)
    BY <2>2 DEF HasColumn
  <2>6. Holds(tile, <<k>>) <=> InSpan(k, tile[1])
    BY <1>1, <1>3, <2>1, <2>4 DEF Holds
  <2>7. ToLocal(tile, <<k>>) = <<k - tile[1].start>>
    <3>1. ToLocal(tile, <<k>>) = [d \in 1 .. 1 |-> <<k>>[d] - tile[d].start]
      BY <1>1, <1>3, Zenon DEF ToLocal
    <3>2. [d \in 1 .. 1 |-> <<k>>[d] - tile[d].start] = <<k - tile[1].start>>
      <4> HIDE DEF tile
      <4> QED
        BY <2>1, <2>4
    <3> QED
      BY <3>1, <3>2
  <2>8. <<k - tile[1].start>> \o LocalColumn(a, w, column) =
            <<k - tile[1].start>>
    <3> DEFINE z == tile[1].start
               e == [j \in DOMAIN column |-> column[j] - tile[2].start]
    <3>1. z \in Nat
      BY <1>2, <2>1
    <3>2. e = << >>
      <4> HIDE DEF tile
      <4> QED
        BY <2>2
    <3> HIDE DEF z, e
    <3>3. k - z \in Int
      BY <3>1, SMT
    <3>4. <<k - z>> \o << >> = <<k - z>>
      BY <3>3, Joined
    <3> QED
      BY <3>2, <3>4 DEF z, e, LocalColumn
  <2> QED
    BY <1>3, <2>1, <2>3, <2>4, <2>5, <2>6, <2>7, <2>8
<1>4. CASE Rank(a) = 2
  <2>1. PICK j \in Nat : j < Dims(a)[2] /\ column = <<j>>
    BY <1>4, SMT DEF IsColumn
  <2>2. 2 \in 1 .. Rank(a) /\ 1 \in 1 .. Rank(a)
    BY <1>4, SMT
  <2>3. <<k>> \o column = <<k, j>>
    BY <2>1, Joined
  <2>4. /\ <<k, j>> \in [1 .. 2 -> Nat] /\ <<k, j>>[1] = k /\ <<k, j>>[2] = j
        /\ \A d \in 1 .. 2 : d = 1 \/ d = 2
    BY TwoIndices
  <2>5. HasColumn(a, w, column) <=> InSpan(j, tile[2])
    <3>1. DOMAIN <<j>> = 1 .. 1 /\ <<j>>[1] = j /\ 1 \in 1 .. 1 /\ \A d \in 1 .. 1 : d = 1
      BY SMT
    <3> QED
      BY <2>1, <3>1 DEF HasColumn
  <2>6. Holds(tile, <<k, j>>) <=> InSpan(k, tile[1]) /\ InSpan(j, tile[2])
    BY <1>1, <1>4, <2>2, <2>4 DEF Holds
  <2>7. ToLocal(tile, <<k, j>>) = <<k - tile[1].start, j - tile[2].start>>
    <3>1. ToLocal(tile, <<k, j>>) = [d \in 1 .. 2 |-> <<k, j>>[d] - tile[d].start]
      BY <1>1, <1>4, Zenon DEF ToLocal
    <3>2. [d \in 1 .. 2 |-> <<k, j>>[d] - tile[d].start] = <<k - tile[1].start, j - tile[2].start>>
      <4> HIDE DEF tile
      <4> QED
        BY <2>4
    <3> QED
      BY <3>1, <3>2
  <2>8. <<k - tile[1].start>> \o LocalColumn(a, w, column) =
            <<k - tile[1].start, j - tile[2].start>>
    <3> DEFINE z == tile[1].start
               v == tile[2].start
               e == [l \in DOMAIN column |-> column[l] - v]
    <3>1. z \in Nat /\ v \in Nat
      BY <1>2, <2>2
    <3> HIDE DEF z, v
    <3>2. e = <<j - v>>
      <4>1. e = [l \in 1 .. 1 |-> <<j>>[l] - v]
        BY <2>1
      <4>2. [l \in 1 .. 1 |-> <<j>>[l] - v] = <<j - v>>
        BY <3>1, SMT
      <4> QED
        BY <4>1, <4>2
    <3> HIDE DEF e
    <3>3. k - z \in Int /\ j - v \in Int
      BY <3>1, SMT
    <3>4. <<k - z>> \o <<j - v>> = <<k - z, j - v>>
      BY <3>3, Joined
    <3> QED
      BY <3>2, <3>4 DEF z, v, e, LocalColumn
  <2>9. <<k, j>>[1] < Dims(a)[1] /\ <<k, j>>[2] < Dims(a)[2]
    BY <2>1, <2>4
  <2> QED
    BY <1>4, <2>3, <2>4, <2>5, <2>6, <2>7, <2>8, <2>9
<1> QED
  BY <1>3, <1>4 DEF IsColumn

-----------------------------------------------------------------------------
(* What is multiplied for the elements of a row and a column.               *)
Factors(x, y, g, column, k) ==
    Element(x, Row(x, g) \o <<k>>) * Element(y, <<k>> \o column)

(* The indices that are summed over: all, those that a tile of either       *)
(* side has, and those of a tile of the left hand side.                     *)
Contraction(y) == 0 .. (Dims(y)[1] - 1)

Shared(x, y, s, w, column) ==
    {k \in Contraction(y) : /\ InSpan(k, Contracted(x, s))
                            /\ InSpan(k, y.tiles[w][1])
                            /\ HasColumn(y, w, column)}

Own(x, y, s) == {k \in Contraction(y) : InSpan(k, Contracted(x, s))}

(* They are finitely many natural numbers.                                  *)
LEMMA ContractionIsFinite ==
    ASSUME NEW y, Sound(y)
    PROVE  /\ Dims(y)[1] \in Nat \ {0}
           /\ IsFiniteSet(Contraction(y)) /\ Contraction(y) \subseteq Nat
           /\ \A k \in Contraction(y) : k < Dims(y)[1]
<1>1. 1 \in 1 .. Rank(y)
  BY SMT DEF Sound
<1>2. Dims(y)[1] \in Nat \ {0}
  BY <1>1, SpanWithin, SitesNotEmpty
<1> DEFINE K == Dims(y)[1]
<1> HIDE DEF K
<1>3. K - 1 \in Int /\ 0 \in Int /\ \A k \in 0 .. (K - 1) : k \in Nat /\ k < K
  BY <1>2, SMT DEF K
<1>4. IsFiniteSet(0 .. (K - 1))
  BY <1>3, FS_Interval
<1> QED
  BY <1>2, <1>3, <1>4 DEF K, Contraction

(* The span of a tile that is summed over.                                  *)
LEMMA ContractedIsSpan ==
    ASSUME NEW x, Sound(x), NEW s \in Sites
    PROVE  /\ Contracted(x, s).start \in Nat /\ Contracted(x, s).stop \in Nat
           /\ Contracted(x, s).start < Contracted(x, s).stop
           /\ Contracted(x, s).stop <= Dims(x)[Rank(x)]
<1>1. Rank(x) \in 1 .. Rank(x)
  BY SMT DEF Sound
<1> QED
  BY <1>1, SpanWithin DEF Contracted

(* The right factor is a number.                                            *)
LEMMA RightNumber ==
    ASSUME NEW a, Sound(a), Numeric(a), Complete(a), NEW column, IsColumn(a, column),
           NEW k \in Contraction(a)
    PROVE  <<k>> \o column \in Box(Dims(a)) /\ Element(a, <<k>> \o column) \in Int
<1>1. k \in Nat /\ k < Dims(a)[1]
  BY ContractionIsFinite
<1>2. /\ <<k>> \o column \in [1 .. Rank(a) -> Nat]
      /\ \A d \in 1 .. Rank(a) : (<<k>> \o column)[d] < Dims(a)[d]
  BY <1>1, SitesNotEmpty, RightIndex
<1>3. IsDims(Dims(a)) /\ Len(Dims(a)) = Rank(a)
  BY DimsOfArray DEF Sound
<1>4. <<k>> \o column \in Box(Dims(a))
  <2> DEFINE g == <<k>> \o column
  <2> HIDE DEF g
  <2> QED
    BY <1>2, <1>3, BoxIndex DEF g
<1> QED
  BY <1>4, CompleteElement

(* The product of the tiles of two sites.                                   *)
LEMMA PartialProductIs ==
    ASSUME NEW x, Sound(x), NEW y, Sound(y), NEW s \in Sites, NEW w \in Sites,
           NEW c, NEW g, IsRow(x, s, c, g), NEW column, IsColumn(y, column),
           Column(y, c) = column,
           NEW f, \A k \in Contraction(y) : f[k] \in Int,
           \A k \in Contraction(y) : f[k] = Factors(x, y, g, column, k)
    PROVE  PartialProduct(x, y, s, w, c) =
                SumFunctionOnSet(f, Shared(x, y, s, w, column))
<1> DEFINE u == Contracted(x, s)
           v == y.tiles[w][1]
           common == Intersection(u, v)
           lo == common.start
           n == Size(common)
           K == Dims(y)[1]
           h == [i \in 0 .. (n - 1) |->
                    x.data[s][Row(x, c) \o <<ProjectCoords(common, u).start + i>>]
                  * y.data[w][<<ProjectCoords(common, v).start + i>> \o
                        [j \in DOMAIN column |-> column[j] - y.tiles[w][2].start]]]
           S == Shared(x, y, s, w, column)
<1>1. /\ u.start \in Nat /\ u.stop \in Nat /\ u.start < u.stop
      /\ v.start \in Nat /\ v.stop \in Nat /\ v.start < v.stop
      /\ K \in Nat \ {0} /\ v.stop <= K
  <2>1. 1 \in 1 .. Rank(y)
    BY SMT DEF Sound
  <2> QED
    BY <2>1, ContractedIsSpan, SpanWithin
<1>2. PartialProduct(x, y, s, w, c) =
        IF Intersects(u, v) /\ HasColumn(y, w, column) THEN SumFunction(h) ELSE 0
  BY Zenon DEF PartialProduct
<1>3. CASE Intersects(u, v) /\ HasColumn(y, w, column)
  <2> DEFINE us == u.start
             ue == u.stop
             vs == v.start
             ve == v.stop
             hi == common.stop
  <2>1. us < ve /\ ue > vs
    BY <1>3 DEF Intersects
  <2>2. lo = Greatest(us, vs) /\ hi = Least(ue, ve) /\ n = hi - lo
    BY DEF Intersection, Span, Size
  <2>3. /\ ProjectCoords(common, u).start = lo - us
        /\ ProjectCoords(common, v).start = lo - vs
    BY DEF ProjectCoords, Span
  <2>4. us \in Nat /\ ue \in Nat /\ us < ue /\ vs \in Nat /\ ve \in Nat /\ vs < ve /\ ve <= K
    BY <1>1
  <2>5. K \in Nat
    BY <1>1
  <2> HIDE DEF us, ue, vs, ve, lo, hi, n, K
  <2>6. /\ lo \in Nat /\ hi \in Nat /\ n \in Nat /\ lo + n - 1 = hi - 1
        /\ us <= lo /\ vs <= lo /\ hi <= ue /\ hi <= ve
        /\ \A k \in Nat : (lo <= k /\ k < hi) <=> us <= k /\ k < ue /\ vs <= k /\ k < ve
    BY <2>1, <2>2, <2>4, SMT DEF Greatest, Least
  <2>7. S = lo .. (lo + n - 1)
    <3>1. \A k : k \in S <=> /\ k \in 0 .. (K - 1) /\ us <= k /\ k < ue
                             /\ vs <= k /\ k < ve
      BY <1>3 DEF Shared, InSpan, Contraction, K, us, ue, vs, ve
    <3>2. \A k : k \in lo .. (hi - 1) <=> k \in Nat /\ lo <= k /\ k < hi
      BY <2>6, SMT
    <3>3. \A k : k \in 0 .. (K - 1) <=> k \in Nat /\ k < K
      BY <2>5, SMT
    <3>4. \A k \in Nat : lo <= k /\ k < hi => k < K
      BY <2>4, <2>5, <2>6, SMT
    <3>5. \A k : k \in S <=> k \in lo .. (hi - 1)
      <4> HIDE DEF S
      <4> QED
        BY <2>6, <3>1, <3>2, <3>3, <3>4
    <3> HIDE DEF S
    <3>6. S = lo .. (hi - 1)
      BY <3>5
    <3> QED
      BY <2>6, <3>6
  <2>8. ASSUME NEW i \in 0 .. (n - 1)
        PROVE  h[i] = f[lo + i] /\ f[lo + i] \in Int
    <3> DEFINE k == lo + i
    <3>1. k \in Nat /\ lo <= k /\ k < hi /\ k \in lo .. (lo + n - 1)
      BY <2>2, <2>6, SMT
    <3>2. k \in S
      <4> HIDE DEF S, k
      <4> QED
        BY <2>7, <3>1
    <3>3. /\ k \in Contraction(y) /\ InSpan(k, u) /\ InSpan(k, v)
      <4> HIDE DEF k
      <4> QED
        BY <3>2 DEF Shared
    <3>4. k < Dims(y)[1]
      <4> HIDE DEF k
      <4> QED
        BY <3>3, ContractionIsFinite
    <3> HIDE DEF k
    <3>5. x.data[s][Row(x, c) \o <<k - u.start>>] = Element(x, Row(x, g) \o <<k>>)
      BY <3>1, <3>3, LeftIndex
    <3>6. y.data[w][<<k - v.start>> \o
                [j \in DOMAIN column |-> column[j] - y.tiles[w][2].start]] =
            Element(y, <<k>> \o column)
      <4> DEFINE G == <<k>> \o column
      <4>1. /\ G \in [1 .. Rank(y) -> Nat]
            /\ Holds(y.tiles[w], G)
            /\ ToLocal(y.tiles[w], G) =
                <<k - v.start>> \o LocalColumn(y, w, column)
        <5>1. HasColumn(y, w, column) /\ InSpan(k, y.tiles[w][1])
          BY <1>3, <3>3
        <5> HIDE DEF h, S, common, u
        <5>2. G \in [1 .. Rank(y) -> Nat]
          BY <3>1, <3>4, RightIndex
        <5>3. Holds(y.tiles[w], G)
          BY <3>1, <3>4, <5>1, RightIndex
        <5>4. ToLocal(y.tiles[w], G) =
                <<k - v.start>> \o LocalColumn(y, w, column)
          BY <3>1, <3>4, RightIndex
        <5> QED
          BY <5>2, <5>3, <5>4
      <4> HIDE DEF G
      <4>2. y.data[w][ToLocal(y.tiles[w], G)] = Element(y, G)
        BY <4>1, ElementOfTile
      <4> QED
        BY <4>1, <4>2, Zenon DEF G, LocalColumn
    <3>7. (lo - us) + i = k - us /\ (lo - vs) + i = k - vs
      BY <2>4, <2>6, SMT DEF k
    <3>8. h[i] = x.data[s][Row(x, c) \o <<k - us>>]
                * y.data[w][<<k - vs>> \o
                    [j \in DOMAIN column |-> column[j] - y.tiles[w][2].start]]
      <4>1. h[i] = x.data[s][Row(x, c) \o <<ProjectCoords(common, u).start + i>>]
                  * y.data[w][<<ProjectCoords(common, v).start + i>> \o
                        [j \in DOMAIN column |-> column[j] - y.tiles[w][2].start]]
        BY Zenon
      <4> HIDE DEF h, common, u, v
      <4> QED
        BY <2>3, <3>7, <4>1
    <3>9. h[i] = f[k] /\ f[k] \in Int
      <4> HIDE DEF h
      <4> QED
        BY <3>3, <3>5, <3>6, <3>8 DEF us, vs, Factors
    <3> QED
      BY <3>9 DEF k
  <2>9. SumFunctionOnSet(h, 0 .. (n - 1)) = SumFunctionOnSet(f, lo .. (lo + n - 1))
    <3> HIDE DEF h
    <3>1. lo \in Int
      BY <2>6
    <3> QED
      BY <2>6, <2>8, <3>1, SumIsShifted
  <2>10. SumFunction(h) = SumFunctionOnSet(h, 0 .. (n - 1))
    <3>1. DOMAIN h = 0 .. (n - 1)
      BY Zenon
    <3> HIDE DEF h
    <3> QED
      BY <3>1 DEF SumFunction
  <2> HIDE DEF h, S
  <2> QED
    BY <1>2, <1>3, <2>7, <2>9, <2>10 DEF S
<1>4. CASE ~(Intersects(u, v) /\ HasColumn(y, w, column))
  <2>1. S = {}
    <3> SUFFICES ASSUME NEW k \in S PROVE FALSE
      OBVIOUS
    <3> DEFINE us == u.start
               ue == u.stop
               vs == v.start
               ve == v.stop
    <3>1. k \in Nat
      BY ContractionIsFinite DEF Shared
    <3>2. us <= k /\ k < ue /\ vs <= k /\ k < ve /\ HasColumn(y, w, column)
      BY DEF Shared, InSpan
    <3>3. us \in Nat /\ ue \in Nat /\ vs \in Nat /\ ve \in Nat
      BY <1>1
    <3> HIDE DEF us, ue, vs, ve
    <3>4. us < ve /\ ue > vs
      BY <3>1, <3>2, <3>3, SMT
    <3> QED
      BY <1>4, <3>2, <3>4 DEF us, ue, vs, ve, Intersects
  <2>2. PartialProduct(x, y, s, w, c) = 0
    BY <1>2, <1>4
  <2> HIDE DEF S
  <2> QED
    BY <2>1, <2>2, SumOfNothing DEF S
<1> QED
  BY <1>3, <1>4

(* The product of the tile of a site with the whole right hand side: every  *)
(* one of the site's indices is multiplied once, on one of the others.      *)
LEMMA LocalProductIs ==
    ASSUME NEW x, Sound(x), NEW y, Sound(y), Complete(y), Disjoint(y), NEW s \in Sites,
           NEW c, NEW g, IsRow(x, s, c, g), NEW column, IsColumn(y, column),
           Column(y, c) = column,
           NEW f, \A k \in Contraction(y) : f[k] \in Int,
           \A k \in Contraction(y) : f[k] = Factors(x, y, g, column, k)
    PROVE  LocalProduct(x, y, s, c) = SumFunctionOnSet(f, Own(x, y, s))
<1> DEFINE P == [w \in Sites |-> Shared(x, y, s, w, column)]
           h == [w \in Sites |-> PartialProduct(x, y, s, w, c)]
           D == Own(x, y, s)
<1>1. ASSUME NEW k \in Contraction(y)
      PROVE  /\ <<k>> \o column \in Box(Dims(y))
             /\ \A w \in Sites : Holds(y.tiles[w], <<k>> \o column) <=>
                    InSpan(k, y.tiles[w][1]) /\ HasColumn(y, w, column)
             /\ \E w \in Sites : Holds(y.tiles[w], <<k>> \o column)
  <2> DEFINE G == <<k>> \o column
  <2>1. k \in Nat /\ k < Dims(y)[1]
    BY ContractionIsFinite
  <2>2. /\ G \in [1 .. Rank(y) -> Nat]
        /\ \A d \in 1 .. Rank(y) : G[d] < Dims(y)[d]
    BY <2>1, SitesNotEmpty, RightIndex
  <2>3. IsDims(Dims(y)) /\ Len(Dims(y)) = Rank(y)
    BY DimsOfArray DEF Sound
  <2>4. \A w \in Sites : Holds(y.tiles[w], G) <=>
            InSpan(k, y.tiles[w][1]) /\ HasColumn(y, w, column)
    BY <2>1, RightIndex
  <2> HIDE DEF G
  <2>5. G \in Box(Dims(y))
    BY <2>2, <2>3, BoxIndex
  <2>6. \E w \in Sites : Holds(y.tiles[w], G)
    BY <2>5, HeldBySomeone DEF Complete, Sound
  <2> QED
    BY <2>4, <2>5, <2>6 DEF G
<1>2. IsFiniteSet(Sites) /\ \A w \in Sites : IsFiniteSet(P[w])
  BY SitesAreFinite, ContractionIsFinite, FS_Subset DEF Shared
<1>3. ASSUME NEW v \in Sites, NEW w \in Sites, NEW k \in P[v] \cap P[w]
      PROVE  v = w
  <2>1. /\ k \in Contraction(y)
        /\ InSpan(k, y.tiles[v][1]) /\ HasColumn(y, v, column)
        /\ InSpan(k, y.tiles[w][1]) /\ HasColumn(y, w, column)
    BY DEF Shared
  <2> QED
    BY <1>1, <2>1, OnlyHolder
<1>4. \A v, w \in Sites : v # w => P[v] \cap P[w] = {}
  <2> HIDE DEF P
  <2> QED
    BY <1>3
<1>5. D = UNION {P[w] : w \in Sites}
  <2>1. ASSUME NEW k \in D PROVE \E w \in Sites : k \in P[w]
    <3>1. k \in Contraction(y) /\ InSpan(k, Contracted(x, s))
      BY DEF Own
    <3>2. PICK w \in Sites : InSpan(k, y.tiles[w][1]) /\ HasColumn(y, w, column)
      BY <1>1, <3>1
    <3>3. k \in P[w]
      BY <3>1, <3>2 DEF Shared
    <3> QED
      BY <3>3
  <2>2. ASSUME NEW w \in Sites PROVE P[w] \subseteq D
    BY DEF Shared, Own
  <2> HIDE DEF P, D
  <2> QED
    BY <2>1, <2>2
<1>6. \A k \in D : f[k] \in Int
  BY DEF Own
<1>7. \A w \in Sites : h[w] = SumFunctionOnSet(f, P[w])
  BY PartialProductIs
<1>8. LocalProduct(x, y, s, c) = SumFunctionOnSet(h, Sites)
  <2>1. LocalProduct(x, y, s, c) = SumFunction(h)
    BY Zenon DEF LocalProduct
  <2>2. DOMAIN h = Sites
    BY Zenon
  <2> HIDE DEF h
  <2> QED
    BY <2>1, <2>2 DEF SumFunction
<1> HIDE DEF P, h, D
<1>9. SumFunctionOnSet(h, Sites) = SumFunctionOnSet(f, D)
  BY <1>2, <1>4, <1>5, <1>6, <1>7, SumOfSums
<1> QED
  BY <1>8, <1>9 DEF D

(* The indices of the result.                                               *)
ResultDims(x, y) ==
    (IF Rank(x) = 2 THEN <<Dims(x)[1]>> ELSE << >>) \o
    (IF Rank(y) = 2 THEN <<Dims(y)[2]>> ELSE << >>)

(* An index of the result has a row of the left hand side and a column of   *)
(* the right hand side.                                                     *)
LEMMA ResultIndex ==
    ASSUME NEW x, Sound(x), Rank(x) \in 1 .. 2, NEW y, Sound(y), Rank(y) \in 1 .. 2,
           NEW g \in Box(ResultDims(x, y))
    PROVE  /\ Rank(x) = 2 => g[1] \in Nat /\ g[1] < Dims(x)[1]
           /\ IsColumn(y, Column(y, g))
           /\ Rank(x) = 2 => \A e \in Int :
                /\ [g EXCEPT ![1] = e][1] = e
                /\ Column(y, [g EXCEPT ![1] = e]) = Column(y, g)
<1> DEFINE n == Dims(x)[1]
           m == Dims(y)[2]
<1>1. n \in Nat \ {0}
  <2>1. 1 \in 1 .. Rank(x)
    BY SMT
  <2> QED
    BY <2>1, SpanWithin, SitesNotEmpty
<1>2. Rank(y) = 2 => m \in Nat \ {0}
  <2>1. Rank(y) = 2 => 2 \in 1 .. Rank(y)
    BY SMT
  <2> QED
    BY <2>1, SpanWithin, SitesNotEmpty
<1>3. ASSUME NEW k \in Nat \ {0}, g \in Box(<<k>>)
      PROVE  /\ g \in [1 .. 1 -> Nat] /\ Len(g) = 1 /\ g[1] \in Nat /\ g[1] < k
             /\ \A e \in Int : [g EXCEPT ![1] = e][1] = e
  <2>1. IsDims(<<k>>) /\ Len(<<k>>) = 1 /\ <<k>>[1] = k
    BY SMT DEF IsDims
  <2>2. 1 \in 1 .. 1 /\ 1 \in Nat
    BY SMT
  <2> DEFINE dims == <<k>>
  <2> HIDE DEF dims
  <2>3. g \in [1 .. 1 -> Nat] /\ \A d \in 1 .. 1 : g[d] < dims[d]
    BY <1>3, <2>1, BoxIndex DEF dims
  <2>4. Len(g) = 1
    BY <2>2, <2>3, FunctionIsSequence
  <2> QED
    BY <2>1, <2>2, <2>3, <2>4 DEF dims
<1>4. ASSUME NEW k \in Nat \ {0}, NEW l \in Nat \ {0}, g \in Box(<<k, l>>)
      PROVE  /\ g \in [1 .. 2 -> Nat] /\ Len(g) = 2
             /\ g[1] \in Nat /\ g[1] < k /\ g[2] \in Nat /\ g[2] < l
             /\ \A e \in Int : /\ [g EXCEPT ![1] = e][1] = e
                               /\ Len([g EXCEPT ![1] = e]) = 2
                               /\ [g EXCEPT ![1] = e][2] = g[2]
  <2>1. IsDims(<<k, l>>) /\ Len(<<k, l>>) = 2 /\ <<k, l>>[1] = k /\ <<k, l>>[2] = l
    BY SMT DEF IsDims
  <2>2. 1 \in 1 .. 2 /\ 2 \in 1 .. 2 /\ 2 \in Nat
    BY SMT
  <2> DEFINE dims == <<k, l>>
  <2> HIDE DEF dims
  <2>3. g \in [1 .. 2 -> Nat] /\ \A d \in 1 .. 2 : g[d] < dims[d]
    BY <1>4, <2>1, BoxIndex DEF dims
  <2>4. Len(g) = 2
    BY <2>2, <2>3, FunctionIsSequence
  <2>5. ASSUME NEW e \in Int
        PROVE  /\ [g EXCEPT ![1] = e][1] = e
               /\ Len([g EXCEPT ![1] = e]) = 2
               /\ [g EXCEPT ![1] = e][2] = g[2]
    <3> DEFINE c == [g EXCEPT ![1] = e]
    <3>1. c \in [1 .. 2 -> Int]
      BY <2>3
    <3>2. c[1] = e /\ c[2] = g[2]
      BY <2>2, <2>3
    <3> HIDE DEF c
    <3>3. Len(c) = 2
      BY <2>2, <3>1, FunctionIsSequence
    <3> QED
      BY <3>2, <3>3 DEF c
  <2> QED
    BY <2>1, <2>2, <2>3, <2>4, <2>5 DEF dims
<1>5. CASE Rank(x) = 1 /\ Rank(y) = 1
  <2>1. Rank(x) # 2 /\ Rank(y) # 2
    BY <1>5, SMT
  <2> QED
    BY <1>5, <2>1 DEF IsColumn, Column
<1>6. CASE Rank(x) = 2 /\ Rank(y) = 1
  <2>1. Rank(y) # 2
    BY <1>6, SMT
  <2>2. ResultDims(x, y) = <<n>>
    <3> HIDE DEF n
    <3>1. ResultDims(x, y) = <<n>> \o << >>
      BY <1>6, <2>1 DEF ResultDims, n
    <3> QED
      BY <1>1, <3>1, Joined
  <2>3. g \in Box(<<n>>)
    BY <2>2
  <2> HIDE DEF n
  <2>4. g[1] \in Nat /\ g[1] < n /\ \A e \in Int : [g EXCEPT ![1] = e][1] = e
    BY <1>1, <1>3, <2>3
  <2> QED
    BY <1>6, <2>1, <2>4 DEF IsColumn, Column, n
<1>7. CASE Rank(x) = 1 /\ Rank(y) = 2
  <2>1. Rank(x) # 2
    BY <1>7, SMT
  <2>2. ResultDims(x, y) = <<m>>
    <3> HIDE DEF m
    <3>1. ResultDims(x, y) = << >> \o <<m>>
      BY <1>7, <2>1 DEF ResultDims, m
    <3> QED
      BY <1>2, <1>7, <3>1, Joined
  <2>3. g \in Box(<<m>>)
    BY <2>2
  <2> HIDE DEF m
  <2>4. Len(g) = 1 /\ g[1] \in Nat /\ g[1] < m
    BY <1>2, <1>3, <1>7, <2>3
  <2>5. Column(y, g) = <<g[1]>>
    BY <1>7, <2>4 DEF Column
  <2> QED
    BY <1>7, <2>1, <2>4, <2>5 DEF IsColumn, m
<1>8. CASE Rank(x) = 2 /\ Rank(y) = 2
  <2>2. ResultDims(x, y) = <<n, m>>
    <3> HIDE DEF n, m
    <3>1. ResultDims(x, y) = <<n>> \o <<m>>
      BY <1>8 DEF ResultDims, n, m
    <3> QED
      BY <1>1, <1>2, <1>8, <3>1, Joined
  <2>3. g \in Box(<<n, m>>)
    BY <2>2
  <2> HIDE DEF n, m
  <2>4. /\ Len(g) = 2
        /\ g[1] \in Nat /\ g[1] < n /\ g[2] \in Nat /\ g[2] < m
        /\ \A e \in Int : /\ [g EXCEPT ![1] = e][1] = e
                          /\ Len([g EXCEPT ![1] = e]) = 2
                          /\ [g EXCEPT ![1] = e][2] = g[2]
    BY <1>1, <1>2, <1>4, <1>8, <2>3
  <2>5. Column(y, g) = <<g[2]>>
    BY <1>8, <2>4 DEF Column
  <2>6. \A e \in Int : Column(y, [g EXCEPT ![1] = e]) = <<g[2]>>
    BY <1>8, <2>4 DEF Column
  <2> QED
    BY <1>8, <2>4, <2>5, <2>6 DEF IsColumn, n, m
<1>9. (Rank(x) = 1 \/ Rank(x) = 2) /\ (Rank(y) = 1 \/ Rank(y) = 2)
  BY SMT
<1> QED
  BY <1>5, <1>6, <1>7, <1>8, <1>9

(* The left factor is a number.                                             *)
LEMMA LeftNumber ==
    ASSUME NEW a, Sound(a), Numeric(a), Complete(a), Rank(a) \in 1 .. 2,
           NEW g, Rank(a) = 2 => g[1] \in Nat /\ g[1] < Dims(a)[1],
           NEW k \in Nat, k < Dims(a)[Rank(a)]
    PROVE  /\ Row(a, g) \o <<k>> \in Box(Dims(a))
           /\ Element(a, Row(a, g) \o <<k>>) \in Int
           /\ \E s \in Sites : InSpan(k, Contracted(a, s))
<1> DEFINE G == Row(a, g) \o <<k>>
<1>1. G \in [1 .. Rank(a) -> Nat] /\ G[Rank(a)] = k /\ \A d \in 1 .. Rank(a) : G[d] < Dims(a)[d]
  <2>1. CASE Rank(a) = 1
    <3>1. Row(a, g) = << >>
      BY <2>1, SMT DEF Row
    <3>2. G = <<k>>
      BY <3>1, Joined
    <3>3. <<k>> \in [1 .. 1 -> Nat] /\ <<k>>[1] = k /\ \A d \in 1 .. 1 : d = 1
      BY OneIndex, SMT
    <3> QED
      BY <2>1, <3>2, <3>3
  <2>2. CASE Rank(a) = 2
    <3> DEFINE i == g[1]
    <3>1. Row(a, g) = <<i>> /\ i \in Nat /\ i < Dims(a)[1]
      BY <2>2 DEF Row
    <3> HIDE DEF i
    <3>2. G = <<i, k>>
      BY <3>1, Joined
    <3>3. /\ <<i, k>> \in [1 .. 2 -> Nat] /\ <<i, k>>[1] = i /\ <<i, k>>[2] = k
          /\ \A d \in 1 .. 2 : d = 1 \/ d = 2
      BY <3>1, TwoIndices
    <3> QED
      BY <2>2, <3>1, <3>2, <3>3
  <2> QED
    BY <2>1, <2>2, SMT
<1>2. IsDims(Dims(a)) /\ Len(Dims(a)) = Rank(a)
  BY DimsOfArray DEF Sound
<1> HIDE DEF G
<1>3. G \in Box(Dims(a))
  BY <1>1, <1>2, BoxIndex
<1>4. Element(a, G) \in Int /\ \E s \in Sites : Holds(a.tiles[s], G)
  BY <1>3, CompleteElement
<1>5. PICK s \in Sites : Holds(a.tiles[s], G)
  BY <1>4
<1>6. DOMAIN a.tiles[s] = 1 .. Rank(a) /\ Rank(a) \in 1 .. Rank(a)
  <2>1. Rank(a) \in 1 .. Rank(a)
    BY SMT
  <2> QED
    BY <2>1, TilesOfArray, TileIsFunction DEF Sound
<1>7. InSpan(k, Contracted(a, s))
  BY <1>1, <1>5, <1>6 DEF Holds, Contracted
<1> QED
  BY <1>3, <1>4, <1>7 DEF G

(* dot_d of two arrays that are tiled regularly.                            *)
LEMMA DotAtIs ==
    ASSUME NEW x, Sound(x), Numeric(x), Regular(x),
           NEW y, Sound(y), Numeric(y), Regular(y),
           Dims(x)[Rank(x)] = Dims(y)[1], NEW s \in Sites,
           NEW g \in Box(ResultDims(x, y)),
           ~HasWholeRows(x, s) \/ InSpan(g[1], x.tiles[s][1]),
           NEW c, c = IF HasWholeRows(x, s)
                      THEN [g EXCEPT ![1] = @ - x.tiles[s][1].start] ELSE g
    PROVE  DotAt(x, y, s, c) =
                SumFunction([i \in 0 .. (Dims(y)[1] - 1) |->
                                Element(x, Row(x, g) \o <<i>>) *
                                Element(y, <<i>> \o Column(y, g))])
<1> DEFINE column == Column(y, g)
           f == [i \in 0 .. (Dims(y)[1] - 1) |->
                    Element(x, Row(x, g) \o <<i>>) * Element(y, <<i>> \o column)]
<1>1. /\ Rank(x) \in 1 .. 2 /\ Rank(y) \in 1 .. 2
      /\ Complete(x) /\ Disjoint(x) /\ Complete(y) /\ Disjoint(y)
  BY SMT DEF Regular, Sound
<1>2. /\ Rank(x) = 2 => g[1] \in Nat /\ g[1] < Dims(x)[1]
      /\ IsColumn(y, column)
      /\ Rank(x) = 2 => \A e \in Int :
            /\ [g EXCEPT ![1] = e][1] = e
            /\ Column(y, [g EXCEPT ![1] = e]) = Column(y, g)
  BY <1>1, ResultIndex
<1>3. \A k \in Contraction(y) : f[k] = Factors(x, y, g, column, k)
  BY Zenon DEF Factors, Contraction
<1>4. SumFunction(f) = SumFunctionOnSet(f, Contraction(y))
  <2>1. DOMAIN f = Contraction(y)
    BY Zenon DEF Contraction
  <2> HIDE DEF f
  <2> QED
    BY <2>1 DEF SumFunction
<1> HIDE DEF f, column
<1>5. ASSUME NEW k \in Contraction(y)
      PROVE  /\ Row(x, g) \o <<k>> \in Box(Dims(x))
             /\ f[k] \in Int
             /\ \E t \in Sites : InSpan(k, Contracted(x, t))
  <2>1. k \in Nat /\ k < Dims(x)[Rank(x)]
    BY ContractionIsFinite
  <2>2. /\ Row(x, g) \o <<k>> \in Box(Dims(x))
        /\ Element(x, Row(x, g) \o <<k>>) \in Int
        /\ \E t \in Sites : InSpan(k, Contracted(x, t))
    BY <1>1, <1>2, <2>1, LeftNumber
  <2>3. Element(y, <<k>> \o column) \in Int
    BY <1>1, <1>2, RightNumber
  <2> DEFINE p == Element(x, Row(x, g) \o <<k>>)
             q == Element(y, <<k>> \o column)
  <2>4. f[k] = p * q
    BY <1>3, Zenon DEF Factors
  <2>5. p \in Int /\ q \in Int
    BY <2>2, <2>3
  <2> HIDE DEF p, q
  <2>6. p * q \in Int
    BY <2>5, SMT
  <2> QED
    BY <2>2, <2>4, <2>6
<1>6. \A k \in Contraction(y) : f[k] \in Int
  BY <1>5
<1>7. IsColumn(y, column)
  BY <1>2
<1>8. CASE HasWholeRows(x, s)
  <2> DEFINE e == g[1] - x.tiles[s][1].start
  <2>1. Rank(x) = 2 /\ Size(x.tiles[s][2]) = Dims(x)[2]
    BY <1>8 DEF HasWholeRows
  <2>2. c = [g EXCEPT ![1] = e]
    BY <1>8
  <2>3. x.tiles[s][1].start \in Nat /\ g[1] \in Nat
    <3>1. 1 \in 1 .. Rank(x)
      BY <2>1, SMT
    <3> QED
      BY <1>2, <2>1, <3>1, SpanWithin
  <2>4. e \in Int
    <3> DEFINE u == g[1]
               v == x.tiles[s][1].start
    <3> HIDE DEF u, v
    <3>1. u - v \in Int
      BY <2>3, SMT DEF u, v
    <3> QED
      BY <3>1 DEF u, v
  <2> HIDE DEF e
  <2>5. c[1] = e /\ Column(y, c) = column
    <3>1. /\ [g EXCEPT ![1] = e][1] = e
          /\ Column(y, [g EXCEPT ![1] = e]) = Column(y, g)
      BY <1>2, <2>1, <2>4
    <3> QED
      BY <2>2, <3>1 DEF column
  <2>6. IsRow(x, s, c, g)
    BY <1>8, <2>1, <2>3, <2>4, <2>5 DEF IsRow, e
  <2>7. LocalProduct(x, y, s, c) = SumFunctionOnSet(f, Own(x, y, s))
    BY <1>1, <1>7, <1>3, <1>6, <2>5, <2>6, LocalProductIs
  <2>8. Own(x, y, s) = Contraction(y)
    <3>1. 2 \in 1 .. Rank(x)
      BY <2>1, SMT
    <3>2. Contracted(x, s).start = 0 /\ Contracted(x, s).stop = Dims(y)[1]
      BY <2>1, <3>1, WholeDimensionSpan DEF Contracted
    <3>3. \A k \in Contraction(y) : 0 <= k /\ k < Dims(y)[1]
      <4>1. \A k \in Nat : 0 <= k
        BY SMT
      <4> QED
        BY <4>1, ContractionIsFinite
    <3> QED
      BY <3>2, <3>3 DEF Own, InSpan
  <2>9. DotAt(x, y, s, c) = LocalProduct(x, y, s, c)
    BY <1>8 DEF DotAt
  <2> QED
    BY <1>4, <2>7, <2>8, <2>9 DEF f, column
<1>9. CASE ~HasWholeRows(x, s)
  <2> DEFINE h == [t \in Sites |-> LocalProduct(x, y, t, c)]
             P == [t \in Sites |-> Own(x, y, t)]
  <2>1. c = g /\ Column(y, c) = column
    BY <1>9 DEF column
  <2>2. ASSUME NEW t \in Sites PROVE IsRow(x, t, g, g)
    <3>1. CASE Rank(x) = 1
      BY <3>1 DEF IsRow
    <3>2. CASE Rank(x) = 2
      <4>1. DimTiled(x, 1)
        <5>1. ~DimTiled(x, 2)
          BY <1>9, <3>2 DEF DimTiled, HasWholeRows
        <5> QED
          BY <3>2, <5>1 DEF Regular
      <4>2. 1 \in 1 .. Rank(x)
        BY <3>2, SMT
      <4>3. x.tiles[t][1].start = 0 /\ x.tiles[t][1].stop = Dims(x)[1]
        BY <4>1, <4>2, WholeDimensionSpan DEF DimTiled
      <4> DEFINE u == g[1]
      <4>4. u \in Nat /\ u < Dims(x)[1]
        BY <1>2, <3>2
      <4> HIDE DEF u
      <4>5. u \in Int /\ u = u - 0 /\ 0 <= u
        BY <4>4, SMT
      <4> QED
        BY <3>2, <4>3, <4>4, <4>5 DEF u, IsRow, InSpan
    <3>3. Rank(x) = 1 \/ Rank(x) = 2
      BY <1>1, SMT
    <3> QED
      BY <3>1, <3>2, <3>3
  <2>3. \A t \in Sites : h[t] = SumFunctionOnSet(f, P[t])
    <3> SUFFICES ASSUME NEW t \in Sites
                 PROVE  LocalProduct(x, y, t, c) = SumFunctionOnSet(f, Own(x, y, t))
      BY Zenon
    <3> QED
      BY <1>1, <1>7, <1>3, <1>6, <2>1, <2>2, LocalProductIs
  <2>4. IsFiniteSet(Sites) /\ \A t \in Sites : IsFiniteSet(P[t])
    BY SitesAreFinite, ContractionIsFinite, FS_Subset DEF Own
  <2>5. ASSUME NEW t \in Sites, NEW v \in Sites, NEW k \in P[t] \cap P[v]
        PROVE  t = v
    <3>1. /\ k \in Contraction(y) /\ k \in Nat
          /\ InSpan(k, Contracted(x, t)) /\ InSpan(k, Contracted(x, v))
      BY ContractionIsFinite DEF Own
    <3> DEFINE G == Row(x, g) \o <<k>>
    <3>2. G \in Box(Dims(x)) /\ Holds(x.tiles[t], G)
      BY <2>2, <3>1, LeftIndex
    <3>3. Holds(x.tiles[v], G)
      BY <2>2, <3>1, LeftIndex
    <3> HIDE DEF G
    <3> QED
      BY <1>1, <3>2, <3>3, OnlyHolder
  <2>6. \A t, v \in Sites : t # v => P[t] \cap P[v] = {}
    <3> HIDE DEF P
    <3> QED
      BY <2>5
  <2>7. Contraction(y) = UNION {P[t] : t \in Sites}
    <3>1. ASSUME NEW k \in Contraction(y) PROVE \E t \in Sites : k \in P[t]
      BY <1>5 DEF Own
    <3>2. \A t \in Sites : P[t] \subseteq Contraction(y)
      BY DEF Own
    <3> HIDE DEF P
    <3> QED
      BY <3>1, <3>2
  <2>8. DotAt(x, y, s, c) = SumFunctionOnSet(h, Sites)
    <3>1. DotAt(x, y, s, c) = SumFunction(h)
      BY <1>9, Zenon DEF DotAt
    <3>2. DOMAIN h = Sites
      BY Zenon
    <3> HIDE DEF h
    <3> QED
      BY <3>1, <3>2 DEF SumFunction
  <2> HIDE DEF h, P
  <2>9. SumFunctionOnSet(h, Sites) = SumFunctionOnSet(f, Contraction(y))
    BY <1>6, <2>3, <2>4, <2>6, <2>7, SumOfSums
  <2> QED
    BY <1>4, <2>8, <2>9 DEF f, column
<1> QED
  BY <1>8, <1>9

(* dot_d multiplies every pair of elements once, and no site waits for      *)
(* one that refuses.                                                        *)
THEOREM DotOfWhole ==
    ASSUME NEW x, Sound(x), Numeric(x), Regular(x),
           NEW y, Sound(y), Numeric(y), Regular(y)
    PROVE  DotAgrees(x, y)
<1>1. ~DotStuck(x, y)
  BY DotIsDone
<1>2. ASSUME Dims(x)[Rank(x)] = Dims(y)[1], NEW s \in Sites,
             NEW g \in Box(ResultDims(x, y)),
             ~HasWholeRows(x, s) \/ InSpan(g[1], x.tiles[s][1])
      PROVE  LET c == IF HasWholeRows(x, s)
                      THEN [g EXCEPT ![1] = @ - x.tiles[s][1].start] ELSE g
             IN  DotAt(x, y, s, c) =
                    SumFunction([i \in 0 .. (Dims(y)[1] - 1) |->
                                    Element(x, Row(x, g) \o <<i>>) *
                                    Element(y, <<i>> \o Column(y, g))])
  BY <1>2, DotAtIs
<1> QED
  BY <1>1, <1>2, Zenon DEF DotAgrees, ResultDims

-----------------------------------------------------------------------------
(* Intervals that make up 0 .. D - 1 in the order of their numbers: one     *)
(* ends where the next one begins.                                          *)
Intervals(N, D, b, e) ==
    /\ \A w \in 0 .. (N - 1) : b[w] \in Nat /\ e[w] \in Nat /\ b[w] < e[w] /\ e[w] <= D
    /\ \A v, w \in 0 .. (N - 1) : \A k \in Nat :
            b[v] <= k /\ k < e[v] /\ b[w] <= k /\ k < e[w] => v = w
    /\ \A k \in Nat : k < D => \E w \in 0 .. (N - 1) : b[w] <= k /\ k < e[w]
    /\ \A w \in 1 .. (N - 1) : b[w - 1] <= b[w]

(* One ends where the next one begins.                                      *)
Adjacent(N, D, b, e) ==
    /\ b[0] = 0
    /\ \A w \in 0 .. (N - 1) : e[w] = IF w = N - 1 THEN D ELSE b[w + 1]

(* Intervals that cover the indices, do not overlap and are in order        *)
(* follow on each other.                                                    *)
LEMMA IntervalsInOrder ==
    ASSUME NEW N \in Nat \ {0}, NEW D \in Nat, NEW b, NEW e, Intervals(N, D, b, e)
    PROVE  Adjacent(N, D, b, e)
<1> USE DEF Intervals, Adjacent
<1> DEFINE I == 0 .. (N - 1)
<1>1. \A j \in I : \A i \in 0 .. j : i \in I /\ b[i] <= b[j]
  <2> DEFINE F == {j \in 0 .. (N - 1) : \A i \in 0 .. j : b[i] <= b[j]}
  <2>1. N - 1 \in Nat
    BY SMT
  <2>2. 0 \in F
    <3>1. \A i \in 0 .. 0 : i = 0
      BY SMT
    <3>2. 0 \in 0 .. (N - 1)
      BY <2>1, SMT
    <3>3. b[0] \in Nat
      BY <3>2
    <3>4. b[0] <= b[0]
      <4> DEFINE z == b[0]
      <4> HIDE DEF z
      <4>1. z <= z
        BY <3>3, SMT DEF z
      <4> QED
        BY <4>1 DEF z
    <3> QED
      BY <3>1, <3>2, <3>4
  <2>3. ASSUME NEW j \in 0 .. (N - 1 - 1), j \in F PROVE j + 1 \in F
    <3>1. j + 1 \in 0 .. (N - 1) /\ j + 1 \in 1 .. (N - 1) /\ j + 1 - 1 = j /\ j \in 0 .. (N - 1)
      BY <2>1, SMT
    <3>2. b[j] <= b[j + 1]
      BY <3>1
    <3>3. ASSUME NEW i \in 0 .. (j + 1) PROVE b[i] <= b[j + 1]
      <4>1. i = j + 1 \/ i \in 0 .. j
        BY <3>1, SMT
      <4> DEFINE x == b[i]
                 y == b[j]
                 z == b[j + 1]
      <4>2. i \in 0 .. (N - 1)
        BY <3>1, SMT
      <4>3. x \in Nat /\ y \in Nat /\ z \in Nat
        BY <3>1, <4>2
      <4>4. i = j + 1 => x = z
        OBVIOUS
      <4>5. i \in 0 .. j => x <= y
        BY <2>3
      <4> HIDE DEF x, y, z
      <4>6. x <= z
        BY <3>2, <4>1, <4>3, <4>4, <4>5, SMT DEF y, z
      <4> QED
        BY <4>6 DEF x, z
    <3> QED
      BY <3>1, <3>3
  <2> HIDE DEF F
  <2>4. \A j \in 0 .. (N - 1) : j \in F
    BY <2>1, <2>2, <2>3, ReachesAll
  <2>5. \A j \in I : \A i \in 0 .. j : i \in I
    BY SMT
  <2> QED
    BY <2>4, <2>5 DEF F
<1>2. I \subseteq Nat /\ 0 \in I
  BY SMT
<1>3. ASSUME NEW i \in I, NEW j \in I, i < j
      PROVE  e[i] <= b[j] /\ b[i] < b[j]
  <2> DEFINE bi == b[i]
             bj == b[j]
             ei == e[i]
             ej == e[j]
  <2>1. /\ bi \in Nat /\ bj \in Nat /\ ei \in Nat /\ ej \in Nat
        /\ bi < ei /\ bj < ej
    OBVIOUS
  <2>2. bi <= bj
    <3>1. i \in 0 .. j
      BY <1>2, <1>3, SMT
    <3> QED
      BY <1>1, <3>1
  <2>3. ~(bi <= bj /\ bj < ei /\ bj <= bj /\ bj < ej)
    <3>1. i # j
      BY <1>2, <1>3, SMT
    <3> QED
      BY <2>1, <3>1
  <2> HIDE DEF bi, bj, ei, ej
  <2>4. ei <= bj /\ bi < bj
    BY <2>1, <2>2, <2>3, SMT
  <2> QED
    BY <2>4 DEF bi, bj, ei
<1>4. b[0] = 0
  <2> DEFINE b0 == b[0]
  <2>1. b0 \in Nat
    BY <1>2
  <2>2. D > 0
    <3> DEFINE e0 == e[0]
    <3>1. e0 \in Nat /\ b0 < e0 /\ e0 <= D
      BY <1>2
    <3> HIDE DEF b0, e0
    <3> QED
      BY <2>1, <3>1, SMT
  <2>3. 0 \in Nat /\ 0 < D
    BY <2>2, SMT
  <2>4. PICK w \in I : b[w] <= 0
    BY <2>3
  <2> DEFINE bw == b[w]
  <2>5. bw \in Nat /\ b0 <= bw
    <3>1. 0 \in 0 .. w
      BY <1>2, SMT
    <3> QED
      BY <1>1, <3>1
  <2> HIDE DEF b0, bw
  <2>6. b0 = 0
    BY <2>1, <2>4, <2>5, SMT DEF bw
  <2> QED
    BY <2>6 DEF b0
<1>5. ASSUME NEW w \in I, NEW top \in Nat, e[w] <= top, top <= D,
             \A v \in I : v > w => top <= b[v]
      PROVE  e[w] = top
  <2> DEFINE k == e[w]
  <2>1. k \in Nat
    OBVIOUS
  <2>2. SUFFICES ASSUME k < top PROVE FALSE
    <3> HIDE DEF k
    <3>1. k = top
      BY <1>5, <2>1, <2>2, SMT DEF k
    <3> QED
      BY <3>1 DEF k
  <2>3. k < D
    <3> HIDE DEF k
    <3> QED
      BY <1>5, <2>1, <2>2, SMT
  <2>4. PICK v \in I : b[v] <= k /\ k < e[v]
    BY <2>1, <2>3
  <2> DEFINE bv == b[v]
             ev == e[v]
             bw == b[w]
  <2>5. bv \in Nat /\ ev \in Nat /\ bv <= k /\ k < ev /\ bw \in Nat /\ bw < k
    BY <2>4
  <2>6. v # w
    <3>1. v = w => ev = k
      OBVIOUS
    <3> HIDE DEF ev, k
    <3> QED
      BY <2>1, <2>5, <3>1, SMT
  <2>7. ~(v < w)
    <3>1. v < w => ev <= bw
      BY <1>3
    <3> HIDE DEF ev, k, bw
    <3> QED
      BY <2>1, <2>5, <3>1, SMT
  <2>8. ~(v > w)
    <3>1. v > w => top <= bv
      BY <1>5
    <3> HIDE DEF bv, k
    <3> QED
      BY <1>5, <2>1, <2>2, <2>5, <3>1, SMT
  <2> QED
    BY <1>2, <2>6, <2>7, <2>8, SMT
<1>6. ASSUME NEW w \in I PROVE e[w] = IF w = N - 1 THEN D ELSE b[w + 1]
  <2>1. CASE w = N - 1
    <3>1. \A v \in I : ~(v > w)
      BY <2>1, SMT
    <3>2. e[w] <= D /\ D \in Nat
      OBVIOUS
    <3>3. D <= D
      BY SMT
    <3>4. e[w] = D
      BY <1>5, <3>1, <3>2, <3>3
    <3> QED
      BY <2>1, <3>4
  <2>2. CASE w # N - 1
    <3>1. w + 1 \in I /\ w < w + 1 /\ \A v \in I : v > w => w + 1 \in 0 .. v
      BY <2>2, SMT
    <3>2. e[w] <= b[w + 1] /\ b[w + 1] \in Nat
      BY <1>3, <3>1
    <3>3. b[w + 1] <= D
      <4> DEFINE x == b[w + 1]
                 y == e[w + 1]
      <4>1. x \in Nat /\ y \in Nat /\ x < y /\ y <= D
        BY <3>1
      <4> HIDE DEF x, y
      <4>2. x <= D
        BY <4>1, SMT
      <4> QED
        BY <4>2 DEF x
    <3>4. \A v \in I : v > w => b[w + 1] <= b[v]
      BY <1>1, <3>1
    <3>5. e[w] = b[w + 1]
      <4> DEFINE x == b[w + 1]
      <4> HIDE DEF x
      <4>1. x \in Nat /\ e[w] <= x /\ x <= D /\ \A v \in I : v > w => x <= b[v]
        BY <3>2, <3>3, <3>4 DEF x
      <4>2. e[w] = x
        BY <1>5, <4>1
      <4> QED
        BY <4>2 DEF x
    <3> QED
      BY <2>2, <3>5
  <2> QED
    BY <2>1, <2>2
<1> QED
  BY <1>4, <1>6

(* How much lies before each of them.                                       *)
LEMMA SizesAddUp ==
    ASSUME NEW N \in Nat \ {0}, NEW D \in Nat, NEW b, NEW e,
           \A w \in 0 .. (N - 1) : b[w] \in Nat /\ e[w] \in Nat,
           Adjacent(N, D, b, e),
           NEW size, \A w \in 0 .. (N - 1) : size[w] = e[w] - b[w]
    PROVE  \A w \in 0 .. (N - 1) :
                /\ SumFunctionOnSet(size, 0 .. (w - 1)) = b[w]
                /\ SumFunctionOnSet(size, 0 .. ((w + 1) - 1)) = e[w]
<1> USE DEF Adjacent
<1> DEFINE Before(w) == SumFunctionOnSet(size, 0 .. (w - 1))
           F == {w \in 0 .. N : Before(w) = IF w = N THEN D ELSE b[w]}
<1>1. \A w \in 0 .. (N - 1) : size[w] \in Int
  <2> SUFFICES ASSUME NEW w \in 0 .. (N - 1) PROVE size[w] \in Int
    OBVIOUS
  <2> DEFINE x == b[w]
             y == e[w]
  <2>1. x \in Nat /\ y \in Nat /\ size[w] = y - x
    OBVIOUS
  <2> HIDE DEF x, y
  <2>2. y - x \in Int
    BY <2>1, SMT
  <2> QED
    BY <2>1, <2>2
<1>2. 0 \in F
  <2>1. 0 .. (0 - 1) = {} /\ 0 \in 0 .. N /\ 0 # N
    BY SMT
  <2>2. Before(0) = 0
    BY <2>1, SumOfNothing
  <2> HIDE DEF Before
  <2> QED
    BY <2>1, <2>2
<1>3. ASSUME NEW w \in 0 .. (N - 1), w \in F
      PROVE  w + 1 \in F /\ Before(w) = b[w] /\ Before(w + 1) = e[w]
  <2> DEFINE S == 0 .. ((w + 1) - 1)
  <2>1. /\ w \in S /\ S \ {w} = 0 .. (w - 1) /\ \A x \in S : x \in 0 .. (N - 1)
        /\ w # N /\ w + 1 \in 0 .. N /\ (w + 1 = N <=> w = N - 1)
    BY SMT
  <2>2. IsFiniteSet(S)
    <3>1. 0 \in Int /\ (w + 1) - 1 \in Int
      BY SMT
    <3> QED
      BY <3>1, FS_Interval
  <2>3. \A x \in S : size[x] \in Int
    BY <1>1, <2>1
  <2>4. SumFunctionOnSet(size, S) = size[w] + SumFunctionOnSet(size, S \ {w})
    <3> HIDE DEF S
    <3> QED
      BY <2>1, <2>2, <2>3, SumWithout
  <2>5. Before(w + 1) = size[w] + Before(w)
    <3>1. Before(w + 1) = SumFunctionOnSet(size, S)
      OBVIOUS
    <3> HIDE DEF S
    <3>2. SumFunctionOnSet(size, S \ {w}) = Before(w)
      BY <2>1
    <3> HIDE DEF Before
    <3> QED
      BY <2>4, <3>1, <3>2
  <2> HIDE DEF Before
  <2>6. Before(w) = b[w]
    BY <1>3, <2>1
  <2>7. Before(w + 1) = e[w]
    <3> DEFINE x == b[w]
               y == e[w]
    <3>1. x \in Nat /\ y \in Nat /\ Before(w + 1) = (y - x) + x
      BY <2>5, <2>6
    <3> HIDE DEF x, y
    <3>2. (y - x) + x = y
      BY <3>1, SMT
    <3> QED
      BY <3>1, <3>2 DEF y
  <2>8. Before(w + 1) = IF w + 1 = N THEN D ELSE b[w + 1]
    BY <2>1, <2>7
  <2> QED
    BY <2>1, <2>6, <2>7, <2>8
<1> HIDE DEF F
<1>4. \A w \in 0 .. N : w \in F
  <2>1. \A w \in 0 .. (N - 1) : w \in F => w + 1 \in F
    BY <1>3
  <2> HIDE DEF Before
  <2> QED
    BY <1>2, <2>1, ReachesAll
<1>5. \A w \in 0 .. (N - 1) : Before(w) = b[w] /\ Before(w + 1) = e[w]
  <2>1. \A w \in 0 .. (N - 1) : w \in 0 .. N
    BY SMT
  <2> HIDE DEF Before
  <2> QED
    BY <1>3, <1>4, <2>1
<1> QED
  BY <1>5

(* all_gather_d: the axis the tiles are joined along.                       *)
LEMMA GatherAxisIs ==
    ASSUME NEW a, Sound(a), Regular(a), Rank(a) = 2, NEW s \in Sites
    PROVE  /\ ~RefusesGather(a, s)
           /\ GatherAxis(a, s) \in 1 .. 2
           /\ DimTiled(a, 3 - GatherAxis(a, s))
<1>1. 1 \in 1 .. 2 /\ 2 \in 1 .. 2 /\ 3 - 1 = 2 /\ 3 - 2 = 1 /\ \A d \in 1 .. 2 : d = 1 \/ d = 2
  BY SMT
<1>2. DimTiled(a, 1) \/ DimTiled(a, 2)
  BY DEF Regular
<1>3. ~RefusesGather(a, s)
  BY <1>1, <1>2 DEF RefusesGather, DimTiled
<1>4. CASE DimTiled(a, 1)
  <2>1. GatherAxis(a, s) = 2
    BY <1>4 DEF GatherAxis, DimTiled
  <2> QED
    BY <1>1, <1>3, <1>4, <2>1
<1>5. CASE ~DimTiled(a, 1)
  <2>1. DimTiled(a, 2)
    BY <1>2, <1>5
  <2>2. Size(a.tiles[s][1]) # Dims(a)[1]
    <3> SUFFICES ASSUME Size(a.tiles[s][1]) = Dims(a)[1] PROVE FALSE
      OBVIOUS
    <3>1. \A d \in 1 .. Rank(a) : Size(a.tiles[s][d]) = Dims(a)[d]
      BY <1>1, <2>1 DEF DimTiled
    <3>2. Sites = {s}
      BY <3>1, OnlyTile DEF Regular
    <3> QED
      BY <1>5, <3>2 DEF DimTiled
  <2>3. GatherAxis(a, s) = 1
    BY <2>2 DEF GatherAxis
  <2> QED
    BY <1>1, <1>3, <2>1, <2>3
<1> QED
  BY <1>4, <1>5

(* all_gather_d gives every site the whole matrix if its tiles are in the   *)
(* order of the sites.                                                      *)
THEOREM GatherOfWhole ==
    ASSUME NEW a, Sound(a), Regular(a), Rank(a) = 2, InOrder(a)
    PROVE  GatherAgrees(a)
<1> SUFFICES ASSUME NEW s \in Sites, NEW g \in Box(Dims(a))
             PROVE  GatheredAt(a, s, g) = Element(a, g)
  BY GatherAxisIs DEF GatherAgrees
<1> DEFINE axis == GatherAxis(a, s)
           N == NumSites
           D == Dims(a)[axis]
           b == [w \in Sites |-> a.tiles[w][axis].start]
           e == [w \in Sites |-> a.tiles[w][axis].stop]
           size == [w \in Sites |-> Size(a.tiles[w][axis])]
           Before(w) == SumFunction([v \in 0 .. (w - 1) |-> Size(a.tiles[v][axis])])
           from == CHOOSE w \in Sites : Before(w) <= g[axis] /\ g[axis] < Before(w + 1)
<1>1. axis \in 1 .. 2 /\ DimTiled(a, 3 - axis)
  BY GatherAxisIs
<1>2. GatheredAt(a, s, g) = a.data[from][[g EXCEPT ![axis] = @ - Before(from)]]
  BY Zenon DEF GatheredAt
<1>3. N \in Nat \ {0} /\ Sites = 0 .. (N - 1) /\ \A w \in Sites : w \in Nat
  BY TiledArraysAssumption, SMT DEF Sites
<1> HIDE DEF axis
<1>4. /\ axis \in 1 .. Rank(a) /\ 3 - axis \in 1 .. Rank(a) /\ 3 - axis # axis
      /\ \A d \in 1 .. 2 : d = axis \/ d = 3 - axis
  BY <1>1, OtherAxis
<1>5. ASSUME NEW w \in Sites
      PROVE  /\ b[w] \in Nat /\ e[w] \in Nat /\ b[w] < e[w] /\ e[w] <= D
             /\ size[w] = e[w] - b[w]
             /\ a.tiles[w][3 - axis].start = 0
             /\ a.tiles[w][3 - axis].stop = Dims(a)[3 - axis]
             /\ DOMAIN a.tiles[w] = 1 .. 2
  <2>1. /\ a.tiles[w][axis].start \in Nat /\ a.tiles[w][axis].stop \in Nat
        /\ a.tiles[w][axis].start < a.tiles[w][axis].stop
        /\ a.tiles[w][axis].stop <= D
        /\ Size(a.tiles[w][axis]) = a.tiles[w][axis].stop - a.tiles[w][axis].start
    BY <1>4, SpanWithin
  <2>2. /\ a.tiles[w][3 - axis].start = 0
        /\ a.tiles[w][3 - axis].stop = Dims(a)[3 - axis]
    BY <1>1, <1>4, WholeDimensionSpan DEF DimTiled
  <2>3. DOMAIN a.tiles[w] = 1 .. 2
    BY TilesOfArray, TileIsFunction DEF Sound
  <2> QED
    BY <2>1, <2>2, <2>3
<1>6. ASSUME NEW w \in Sites, NEW h \in Box(Dims(a))
      PROVE  /\ h \in [1 .. 2 -> Nat] /\ h[axis] < D
             /\ Holds(a.tiles[w], h) <=> b[w] <= h[axis] /\ h[axis] < e[w]
  <2>1. IsDims(Dims(a)) /\ Len(Dims(a)) = 2
    BY DimsOfArray DEF Sound
  <2>2. h \in [1 .. 2 -> Nat] /\ \A d \in 1 .. 2 : h[d] < Dims(a)[d]
    BY <2>1, BoxIndex
  <2>3. InSpan(h[3 - axis], a.tiles[w][3 - axis])
    <3> DEFINE x == h[3 - axis]
    <3>1. x \in Nat /\ x < a.tiles[w][3 - axis].stop
      BY <1>4, <1>5, <2>2
    <3> HIDE DEF x
    <3>2. 0 <= x
      BY <3>1, SMT
    <3> QED
      BY <1>5, <3>1, <3>2 DEF InSpan, x
  <2>4. InSpan(h[axis], a.tiles[w][axis]) <=> b[w] <= h[axis] /\ h[axis] < e[w]
    BY DEF InSpan
  <2>5. Holds(a.tiles[w], h) <=> InSpan(h[axis], a.tiles[w][axis])
    BY <1>4, <1>5, <2>3 DEF Holds
  <2> QED
    BY <1>4, <2>2, <2>4, <2>5
<1>7. ASSUME NEW k \in Nat, k < D
      PROVE  \E h \in Box(Dims(a)) : h[axis] = k
  <2> DEFINE h == [d \in 1 .. 2 |-> IF d = axis THEN k ELSE 0]
  <2>1. IsDims(Dims(a)) /\ Len(Dims(a)) = 2
    BY DimsOfArray DEF Sound
  <2>2. h \in [1 .. 2 -> Nat] /\ h[axis] = k /\ h[3 - axis] = 0
    BY <1>4
  <2>3. Dims(a)[3 - axis] > 0
    <3> DEFINE z == Dims(a)[3 - axis]
    <3>1. z \in Nat \ {0}
      BY <1>4, SpanWithin
    <3> HIDE DEF z
    <3>2. z > 0
      BY <3>1, SMT
    <3> QED
      BY <3>2 DEF z
  <2> HIDE DEF h
  <2>4. \A d \in 1 .. 2 : h[d] < Dims(a)[d]
    BY <1>4, <1>7, <2>2, <2>3
  <2>5. h \in Box(Dims(a))
    BY <2>1, <2>2, <2>4, BoxIndex
  <2> QED
    BY <2>2, <2>5
<1>8. \A v, w \in Sites : \A k \in Nat :
        b[v] <= k /\ k < e[v] /\ b[w] <= k /\ k < e[w] => v = w
  <2> SUFFICES ASSUME NEW v \in Sites, NEW w \in Sites, NEW k \in Nat,
                      b[v] <= k, k < e[v], b[w] <= k, k < e[w]
               PROVE  v = w
    OBVIOUS
  <2>1. k < D
    <3> DEFINE x == e[v]
    <3>1. x \in Nat /\ x <= D /\ k < x /\ D \in Nat
      BY <1>4, <1>5, SpanWithin
    <3> HIDE DEF x, D
    <3> QED
      BY <3>1, SMT
  <2>2. PICK h \in Box(Dims(a)) : h[axis] = k
    BY <1>7, <2>1
  <2>3. Holds(a.tiles[v], h) /\ Holds(a.tiles[w], h)
    BY <1>6, <2>2
  <2> QED
    BY <2>3, OnlyHolder DEF Regular
<1>9. \A k \in Nat : k < D => \E w \in Sites : b[w] <= k /\ k < e[w]
  <2> SUFFICES ASSUME NEW k \in Nat, k < D PROVE \E w \in Sites : b[w] <= k /\ k < e[w]
    OBVIOUS
  <2>1. PICK h \in Box(Dims(a)) : h[axis] = k
    BY <1>7
  <2>2. PICK w \in Sites : Holds(a.tiles[w], h)
    BY HeldBySomeone DEF Regular, Complete, Sound
  <2> QED
    BY <1>6, <2>1, <2>2
<1>10. \A w \in 1 .. (N - 1) : b[w - 1] <= b[w]
  <2> SUFFICES ASSUME NEW w \in 1 .. (N - 1) PROVE b[w - 1] <= b[w]
    OBVIOUS
  <2>1. w \in Sites \ {0} /\ w - 1 \in Sites
    BY <1>3, SMT
  <2>2. a.tiles[w - 1][axis].start <= a.tiles[w][axis].start
    BY <1>4, <2>1 DEF InOrder
  <2> QED
    BY <2>1, <2>2
<1>11. D \in Nat
  BY <1>4, SpanWithin
<1>12. ASSUME NEW w \in Sites
       PROVE  /\ Before(w) = SumFunctionOnSet(size, 0 .. (w - 1))
              /\ Before(w + 1) = SumFunctionOnSet(size, 0 .. ((w + 1) - 1))
  <2> DEFINE UpTo(m) == SumFunction([v \in 0 .. m |-> Size(a.tiles[v][axis])])
  <2>1. ASSUME NEW m \in Int, \A v \in 0 .. m : v \in Sites
        PROVE  UpTo(m) = SumFunctionOnSet(size, 0 .. m)
    <3> DEFINE f == [v \in 0 .. m |-> Size(a.tiles[v][axis])]
               S == 0 .. m
    <3>1. DOMAIN f = S
      BY Zenon
    <3>2. \A v \in S : f[v] = size[v]
      BY <2>1
    <3>3. IsFiniteSet(S)
      BY FS_Interval, SMT
    <3> HIDE DEF f, S, size
    <3>4. SumFunctionOnSet(f, S) = SumFunctionOnSet(size, S)
      BY <3>2, <3>3, SumOfSame
    <3> QED
      BY <3>1, <3>4 DEF SumFunction, f, S
  <2>2. /\ w - 1 \in Int /\ (w + 1) - 1 \in Int
        /\ \A v \in 0 .. (w - 1) : v \in Sites
        /\ \A v \in 0 .. ((w + 1) - 1) : v \in Sites
    BY <1>3, SMT
  <2>3. Before(w) = UpTo(w - 1) /\ Before(w + 1) = UpTo((w + 1) - 1)
    <3>1. \A m : Before(m) = UpTo(m - 1)
      BY Zenon
    <3> HIDE DEF Before, UpTo
    <3> QED
      BY <3>1
  <2> HIDE DEF size, UpTo, Before
  <2> QED
    BY <2>1, <2>2, <2>3
<1> HIDE DEF b, e, size, D, Before, from
<1>13. N \in Nat \ {0}
  BY <1>3
<1>14. Adjacent(N, D, b, e)
  <2>1. \A w \in 0 .. (N - 1) : b[w] \in Nat /\ e[w] \in Nat /\ b[w] < e[w] /\ e[w] <= D
    BY <1>3, <1>5
  <2>2. \A v, w \in 0 .. (N - 1) : \A k \in Nat :
            b[v] <= k /\ k < e[v] /\ b[w] <= k /\ k < e[w] => v = w
    BY <1>3, <1>8
  <2>3. \A k \in Nat : k < D => \E w \in 0 .. (N - 1) : b[w] <= k /\ k < e[w]
    BY <1>3, <1>9
  <2> HIDE DEF N
  <2>4. Intervals(N, D, b, e)
    BY <1>10, <2>1, <2>2, <2>3, Zenon DEF Intervals
  <2> QED
    BY <1>11, <1>13, <2>4, IntervalsInOrder
<1>15. \A w \in Sites : Before(w) = b[w] /\ Before(w + 1) = e[w]
  <2>1. \A w \in 0 .. (N - 1) : b[w] \in Nat /\ e[w] \in Nat
    BY <1>3, <1>5
  <2>2. \A w \in 0 .. (N - 1) : size[w] = e[w] - b[w]
    BY <1>3, <1>5
  <2> HIDE DEF N
  <2>3. \A w \in 0 .. (N - 1) :
            /\ SumFunctionOnSet(size, 0 .. (w - 1)) = b[w]
            /\ SumFunctionOnSet(size, 0 .. ((w + 1) - 1)) = e[w]
    BY <1>11, <1>13, <1>14, <2>1, <2>2, SizesAddUp
  <2> QED
    BY <1>3, <1>12, <2>3
<1>16. PICK w \in Sites : Holds(a.tiles[w], g)
  BY HeldBySomeone DEF Regular, Complete, Sound
<1>17. g \in [1 .. 2 -> Nat] /\ g[axis] \in Nat /\ b[w] <= g[axis] /\ g[axis] < e[w]
  BY <1>4, <1>6, <1>16
<1>18. from = w
  <2>1. /\ Before(w) <= g[axis] /\ g[axis] < Before(w + 1)
        /\ \A v \in Sites : Before(v) <= g[axis] /\ g[axis] < Before(v + 1) => v = w
    BY <1>8, <1>15, <1>17
  <2> QED
    BY <2>1 DEF from
<1>19. a.data[w][ToLocal(a.tiles[w], g)] = Element(a, g)
  BY <1>16, <1>17, ElementOfTile
<1>20. ToLocal(a.tiles[w], g) = [g EXCEPT ![axis] = @ - b[w]]
  <2> DEFINE h == [g EXCEPT ![axis] = @ - b[w]]
             l == ToLocal(a.tiles[w], g)
             u == g[axis]
             v == b[w]
  <2>1. v \in Nat /\ u \in Nat
    BY <1>5, <1>17
  <2>2. u - v \in Int
    <3> HIDE DEF u, v
    <3> QED
      BY <2>1, SMT
  <2>3. h \in [1 .. 2 -> Int] /\ h[axis] = u - v /\ h[3 - axis] = g[3 - axis]
    BY <1>4, <1>17, <2>2
  <2>4. l = [d \in 1 .. 2 |-> g[d] - a.tiles[w][d].start]
    BY <1>5, Zenon DEF ToLocal
  <2>5. l[axis] = u - v
    BY <1>4, <2>4 DEF b
  <2>6. l[3 - axis] = g[3 - axis]
    <3> DEFINE x == g[3 - axis]
    <3>1. x \in Nat
      BY <1>4, <1>17
    <3>2. l[3 - axis] = x - 0
      BY <1>4, <1>5, <2>4
    <3> HIDE DEF x
    <3>3. x - 0 = x
      BY <3>1, SMT
    <3> QED
      BY <3>2, <3>3 DEF x
  <2>7. h = [d \in 1 .. 2 |-> h[d]] /\ l = [d \in 1 .. 2 |-> l[d]]
    <3>1. h = [d \in 1 .. 2 |-> h[d]]
      <4> HIDE DEF h
      <4> QED
        BY <2>3
    <3>2. l = [d \in 1 .. 2 |-> l[d]]
      <4> HIDE DEF l
      <4> QED
        BY <2>4
    <3> QED
      BY <3>1, <3>2
  <2> HIDE DEF h, l
  <2>8. \A d \in 1 .. 2 : h[d] = l[d]
    BY <1>4, <2>3, <2>5, <2>6
  <2>9. h = l
    BY <2>7, <2>8
  <2> QED
    BY <2>9 DEF h, l
<1> QED
  BY <1>2, <1>15, <1>18, <1>19, <1>20

-----------------------------------------------------------------------------
(* One dimension, in which a site may have nothing.                         *)
LEMMA LineIndex ==
    ASSUME NEW span \in IsSpan, NEW c
    PROVE  /\ c \in LocalIndices(<<span>>) <=> c \in [1 .. 1 -> Nat] /\ c[1] < Size(span)
           /\ DOMAIN <<span>> = 1 .. 1 /\ <<span>>[1] = span
<1> DEFINE tile == <<span>>
           n == Size(span)
           S == UNION {0 .. (Size(tile[d]) - 1) : d \in DOMAIN tile}
<1>1. DOMAIN tile = 1 .. 1 /\ tile[1] = span /\ 1 \in 1 .. 1 /\ \A d \in 1 .. 1 : d = 1
  BY SMT
<1>2. n \in Int
  <2> DEFINE x == span.start
             y == span.stop
  <2>1. x \in Nat /\ y \in Nat /\ n = y - x
    BY DEF IsSpan, Size
  <2> HIDE DEF x, y, n
  <2> QED
    BY <2>1, SMT
<1>3. c \in LocalIndices(tile) <=> c \in [DOMAIN tile -> S] /\ \A d \in DOMAIN tile : c[d] < Size(tile[d])
  BY Zenon DEF LocalIndices
<1> HIDE DEF tile
<1>4. S = 0 .. (n - 1)
  BY <1>1
<1> HIDE DEF S, n
<1>5. c \in LocalIndices(tile) <=> c \in [1 .. 1 -> S] /\ c[1] < n
  BY <1>1, <1>3 DEF n
<1>6. c \in [1 .. 1 -> S] => c \in [1 .. 1 -> Nat]
  <2>1. S \subseteq Nat
    BY <1>2, <1>4, SMT
  <2> QED
    BY <2>1
<1>7. c \in [1 .. 1 -> Nat] /\ c[1] < n => c \in [1 .. 1 -> S]
  <2> SUFFICES ASSUME c \in [1 .. 1 -> Nat], c[1] < n PROVE c \in [1 .. 1 -> S]
    OBVIOUS
  <2>1. c[1] \in Nat
    BY <1>1
  <2>2. c[1] \in S
    BY <1>2, <1>4, <2>1, SMT
  <2>3. \A d \in 1 .. 1 : c[d] \in S
    BY <1>1, <2>2
  <2> QED
    BY <2>3
<1> QED
  BY <1>1, <1>5, <1>6, <1>7 DEF tile, n

(* Local and global indices of a span.                                      *)
LEMMA LinePlaces ==
    ASSUME NEW span \in IsSpan
    PROVE  /\ \A c \in LocalIndices(<<span>>) :
                /\ c[1] \in Nat /\ c[1] + span.start \in Nat
                /\ c = <<c[1]>>
                /\ ToGlobal(<<span>>, c) = <<c[1] + span.start>>
                /\ InSpan(c[1] + span.start, span)
           /\ \A k \in Nat :
                /\ Holds(<<span>>, <<k>>) <=> InSpan(k, span)
                /\ InSpan(k, span) =>
                    /\ k - span.start \in Nat
                    /\ ToLocal(<<span>>, <<k>>) = <<k - span.start>>
                    /\ <<k - span.start>> \in LocalIndices(<<span>>)
                    /\ ToGlobal(<<span>>, <<k - span.start>>) = <<k>>
<1> DEFINE tile == <<span>>
           x == span.start
           y == span.stop
<1>1. x \in Nat /\ y \in Nat /\ Size(span) = y - x
  BY DEF IsSpan, Size
<1>2. DOMAIN tile = 1 .. 1 /\ tile[1] = span /\ \A d \in 1 .. 1 : d = 1
  BY SMT
<1>3. \A k : InSpan(k, span) <=> x <= k /\ k < y
  BY DEF InSpan
<1>4. \A c : c \in LocalIndices(tile) <=> c \in [1 .. 1 -> Nat] /\ c[1] < y - x
  BY <1>1, LineIndex
<1>5. ASSUME NEW c \in [1 .. 1 -> Int]
      PROVE  c = <<c[1]>> /\ ToGlobal(tile, c) = <<c[1] + x>> /\ ToLocal(tile, c) = <<c[1] - x>>
  <2>1. c = <<c[1]>>
    <3> DEFINE e == c[1]
    <3>1. 1 \in 1 .. 1
      BY SMT
    <3>2. \A d \in 1 .. 1 : c[d] = e
      BY <1>2
    <3> HIDE DEF e
    <3>3. c = [d \in 1 .. 1 |-> e]
      BY <3>2
    <3>4. [d \in 1 .. 1 |-> e] = <<e>>
      BY SMT
    <3> QED
      BY <3>3, <3>4 DEF e
  <2> DEFINE e == c[1] + x
             f == c[1] - x
  <2>2. ToGlobal(tile, c) = [d \in 1 .. 1 |-> e]
    <3>1. ToGlobal(tile, c) = [d \in 1 .. 1 |-> c[d] + tile[d].start]
      BY <1>2, Zenon DEF ToGlobal
    <3>2. \A d \in 1 .. 1 : c[d] + tile[d].start = e
      BY <1>2
    <3> HIDE DEF tile, e
    <3> QED
      BY <3>1, <3>2
  <2>3. ToLocal(tile, c) = [d \in 1 .. 1 |-> f]
    <3>1. ToLocal(tile, c) = [d \in 1 .. 1 |-> c[d] - tile[d].start]
      BY <1>2, Zenon DEF ToLocal
    <3>2. \A d \in 1 .. 1 : c[d] - tile[d].start = f
      BY <1>2
    <3> HIDE DEF tile, f
    <3> QED
      BY <3>1, <3>2
  <2>4. [d \in 1 .. 1 |-> e] = <<e>> /\ [d \in 1 .. 1 |-> f] = <<f>>
    <3> HIDE DEF e, f
    <3> QED
      BY SMT
  <2> QED
    BY <2>1, <2>2, <2>3, <2>4
<1>6. ASSUME NEW c \in LocalIndices(tile)
      PROVE  /\ c[1] \in Nat /\ c[1] + x \in Nat
             /\ c = <<c[1]>>
             /\ ToGlobal(tile, c) = <<c[1] + x>>
             /\ InSpan(c[1] + x, span)
  <2>1. c \in [1 .. 1 -> Nat] /\ c[1] < y - x
    BY <1>4
  <2> DEFINE i == c[1]
  <2>2. i \in Nat /\ i < y - x
    <3>1. 1 \in 1 .. 1
      BY SMT
    <3> QED
      BY <2>1, <3>1
  <2>3. c \in [1 .. 1 -> Int]
    BY <2>1
  <2> HIDE DEF i, x, y
  <2>4. i + x \in Nat /\ x <= i + x /\ i + x < y
    BY <1>1, <2>2, SMT
  <2> QED
    BY <1>3, <1>5, <2>2, <2>3, <2>4 DEF i
<1>7. ASSUME NEW k \in Nat
      PROVE  /\ Holds(tile, <<k>>) <=> InSpan(k, span)
             /\ InSpan(k, span) =>
                  /\ k - x \in Nat
                  /\ ToLocal(tile, <<k>>) = <<k - x>>
                  /\ <<k - x>> \in LocalIndices(tile)
                  /\ ToGlobal(tile, <<k - x>>) = <<k>>
  <2>1. <<k>> \in [1 .. 1 -> Nat] /\ <<k>>[1] = k /\ <<k>> \in [1 .. 1 -> Int]
    BY OneIndex
  <2>2. Holds(tile, <<k>>) <=> InSpan(k, span)
    BY <1>2, <2>1, SMT DEF Holds
  <2>3. ASSUME InSpan(k, span)
        PROVE  k - x \in Nat /\ k - x < y - x /\ (k - x) + x = k
    <3>1. x <= k /\ k < y
      BY <1>3, <2>3
    <3> HIDE DEF x, y
    <3> QED
      BY <1>1, <3>1, SMT
  <2> DEFINE m == k - x
  <2>4. m \in Nat => <<m>> \in [1 .. 1 -> Nat] /\ <<m>>[1] = m /\ <<m>> \in [1 .. 1 -> Int]
    <3> HIDE DEF m
    <3> QED
      BY OneIndex
  <2>5. ToLocal(tile, <<k>>) = <<k - x>>
    BY <1>5, <2>1
  <2>6. ASSUME InSpan(k, span)
        PROVE  <<m>> \in LocalIndices(tile) /\ ToGlobal(tile, <<m>>) = <<k>>
    <3>1. m \in Nat /\ m < y - x /\ m + x = k
      BY <2>3, <2>6
    <3> HIDE DEF m, tile, x, y
    <3>2. <<m>> \in LocalIndices(tile)
      BY <1>4, <2>4, <3>1
    <3>3. ToGlobal(tile, <<m>>) = <<m + x>>
      <4>1. ToGlobal(tile, <<m>>) = <<<<m>>[1] + x>>
        BY <1>5, <2>4, <3>1
      <4> QED
        BY <2>4, <3>1, <4>1
    <3> QED
      BY <3>1, <3>2, <3>3
  <2> QED
    BY <2>2, <2>3, <2>5, <2>6
<1> QED
  BY <1>6, <1>7

-----------------------------------------------------------------------------
(* A line of a matrix.                                                      *)
OnLine(axis, index, k) == IF axis = 1 THEN <<index, k>> ELSE <<k, index>>

(* A place of a line is a place of the matrix.                              *)
LEMMA PlaceOnLine ==
    ASSUME NEW axis \in 1 .. 2, NEW index \in Nat, NEW k \in Nat
    PROVE  /\ OnLine(axis, index, k) \in [1 .. 2 -> Nat]
           /\ OnLine(axis, index, k)[axis] = index
           /\ OnLine(axis, index, k)[3 - axis] = k
<1>1. CASE axis = 1
  <2>1. 3 - axis = 2
    BY <1>1, SMT
  <2> QED
    BY <1>1, <2>1, TwoIndices DEF OnLine
<1>2. CASE axis = 2
  <2>1. 3 - axis = 1 /\ axis # 1
    BY <1>2, SMT
  <2> QED
    BY <1>2, <2>1, TwoIndices DEF OnLine
<1> QED
  BY <1>1, <1>2, SMT

(* What a site has of the line: its span, an element of it, and all of      *)
(* them.                                                                    *)
SliceSpan(a, axis, index, s) ==
    IF WithoutLine(a.tiles[s], axis, index) THEN Span(0, 0) ELSE a.tiles[s][3 - axis]

SliceElement(a, axis, index, s, i) ==
    LET line == index - a.tiles[s][axis].start
    IN  a.data[s][IF axis = 1 THEN <<line, i>> ELSE <<i, line>>]

SliceData(a, axis, index, s) ==
    [c \in LocalIndices(<<SliceSpan(a, axis, index, s)>>) |->
        SliceElement(a, axis, index, s, c[1])]

(* That is what slice_row_d and slice_column_d give.                        *)
LEMMA SliceIs ==
    ASSUME NEW a, NEW axis, NEW index, NEW s \in Sites
    PROVE  /\ SliceOf(a, axis, index).tiles[s] = <<SliceSpan(a, axis, index, s)>>
           /\ SliceOf(a, axis, index).data[s] = SliceData(a, axis, index, s)
<1> DEFINE tiles == [w \in Sites |-> <<SliceSpan(a, axis, index, w)>>]
           data == [w \in Sites |->
                        [c \in LocalIndices(<<SliceSpan(a, axis, index, w)>>) |->
                            SliceElement(a, axis, index, w, c[1])]]
<1>1. SliceOf(a, axis, index) = [tiles |-> tiles, data |-> data]
  BY Zenon DEF SliceOf, SliceSpan, SliceElement
<1>2. tiles[s] = <<SliceSpan(a, axis, index, s)>>
  BY Zenon
<1>3. data[s] = SliceData(a, axis, index, s)
  BY Zenon DEF SliceData
<1> HIDE DEF tiles, data
<1>4. SliceOf(a, axis, index).tiles = tiles /\ SliceOf(a, axis, index).data = data
  BY <1>1
<1> QED
  BY <1>2, <1>3, <1>4

(* No site is asked for the line at which its tile ends.                    *)
Available(a, axis, index) ==
    /\ index \in 0 .. (Dims(a)[axis] - 1)
    /\ \A s \in Sites : ~RefusesLine(a.tiles[s], axis, index)

(* A site has a part of the line if its tile has, and no part otherwise.    *)
LEMMA SliceSpanIs ==
    ASSUME NEW a, Sound(a), Rank(a) = 2, NEW axis \in 1 .. 2, NEW index,
           Available(a, axis, index), NEW s \in Sites
    PROVE  /\ index \in Nat /\ index < Dims(a)[axis]
           /\ SliceSpan(a, axis, index, s) \in IsSpan
           /\ InSpan(index, a.tiles[s][axis]) =>
                SliceSpan(a, axis, index, s) = a.tiles[s][3 - axis]
           /\ ~InSpan(index, a.tiles[s][axis]) =>
                SliceSpan(a, axis, index, s) = Span(0, 0)
<1> DEFINE x == a.tiles[s][axis].start
           y == a.tiles[s][axis].stop
           D == Dims(a)[axis]
<1>1. axis \in 1 .. Rank(a) /\ 3 - axis \in 1 .. Rank(a)
  BY OtherAxis
<1>2. x \in Nat /\ y \in Nat /\ D \in Nat
  BY <1>1, SpanWithin
<1>3. a.tiles[s][3 - axis] \in IsSpan
  BY <1>1, TilesOfArray, TileIsFunction DEF Sound
<1>4. Span(0, 0) \in IsSpan
  BY SMT DEF Span, IsSpan
<1>5. index \in 0 .. (D - 1)
  BY DEF Available
<1>6. WithoutLine(a.tiles[s], axis, index) <=> index < x \/ index > y
  BY DEF WithoutLine
<1>7. WithoutLine(a.tiles[s], axis, index) \/ index # y
  BY DEF Available, RefusesLine
<1>8. InSpan(index, a.tiles[s][axis]) <=> x <= index /\ index < y
  BY DEF InSpan
<1> HIDE DEF x, y, D
<1>9. index \in Nat /\ index < D
  BY <1>2, <1>5, SMT
<1>10. InSpan(index, a.tiles[s][axis]) <=> ~WithoutLine(a.tiles[s], axis, index)
  BY <1>2, <1>6, <1>7, <1>8, <1>9, SMT
<1> QED
  BY <1>3, <1>4, <1>9, <1>10 DEF SliceSpan, D

(* What a site has of the line is what the array has there.                 *)
LEMMA SliceHolds ==
    ASSUME NEW a, Sound(a), Rank(a) = 2, NEW axis \in 1 .. 2, NEW index,
           Available(a, axis, index), NEW s \in Sites, NEW k \in Nat,
           InSpan(k, SliceSpan(a, axis, index, s))
    PROVE  /\ InSpan(index, a.tiles[s][axis]) /\ InSpan(k, a.tiles[s][3 - axis])
           /\ OnLine(axis, index, k) \in Box(Dims(a))
           /\ k < Dims(a)[3 - axis]
           /\ At(SliceOf(a, axis, index), s, <<k>>) = Element(a, OnLine(axis, index, k))
<1> DEFINE span == SliceSpan(a, axis, index, s)
           tile == a.tiles[s]
           slice == SliceOf(a, axis, index)
           g == OnLine(axis, index, k)
<1>1. /\ index \in Nat /\ span \in IsSpan
      /\ InSpan(index, tile[axis]) => span = tile[3 - axis]
      /\ ~InSpan(index, tile[axis]) => span = Span(0, 0)
  BY SliceSpanIs
<1>2. ~InSpan(k, Span(0, 0))
  <2>1. ~(0 <= k /\ k < 0)
    BY SMT
  <2> QED
    BY <2>1 DEF InSpan, Span
<1>3. InSpan(index, tile[axis]) /\ span = tile[3 - axis] /\ InSpan(k, tile[3 - axis])
  BY <1>1, <1>2
<1>4. /\ axis \in 1 .. Rank(a) /\ 3 - axis \in 1 .. Rank(a)
      /\ \A d \in 1 .. 2 : d = axis \/ d = 3 - axis
  BY OtherAxis
<1>5. DOMAIN tile = 1 .. 2
  BY TilesOfArray, TileIsFunction DEF Sound
<1>6. g \in [1 .. 2 -> Nat] /\ g[axis] = index /\ g[3 - axis] = k
  BY <1>1, PlaceOnLine
<1> HIDE DEF g, span
<1>7. Holds(tile, g)
  BY <1>3, <1>4, <1>5, <1>6 DEF Holds
<1>8. g \in Box(Dims(a)) /\ a.data[s][ToLocal(tile, g)] = Element(a, g)
  BY <1>6, <1>7, ElementOfTile
<1>9. k < Dims(a)[3 - axis]
  <2>1. IsDims(Dims(a)) /\ Len(Dims(a)) = 2
    BY DimsOfArray DEF Sound
  <2> QED
    BY <1>4, <1>6, <1>8, <2>1, BoxIndex
<1> DEFINE i == k - span.start
           line == index - tile[axis].start
<1>10. ToLocal(tile, g) = IF axis = 1 THEN <<line, i>> ELSE <<i, line>>
  <2>1. ToLocal(tile, g) = [d \in 1 .. 2 |-> g[d] - tile[d].start]
    BY <1>5, Zenon DEF ToLocal
  <2>2. [d \in 1 .. 2 |-> g[d] - tile[d].start] = <<g[1] - tile[1].start, g[2] - tile[2].start>>
    <3> HIDE DEF tile
    <3> QED
      BY SMT
  <2>3. CASE axis = 1
    <3>1. 3 - axis = 2
      BY <2>3, SMT
    <3> QED
      BY <1>3, <1>6, <2>1, <2>2, <2>3, <3>1
  <2>4. CASE axis # 1
    <3>1. 3 - axis = 1 /\ axis = 2
      BY <2>4, SMT
    <3> QED
      BY <1>3, <1>6, <2>1, <2>2, <2>4, <3>1
  <2> QED
    BY <2>3, <2>4
<1>11. At(slice, s, <<k>>) = SliceElement(a, axis, index, s, i)
  <2>1. /\ slice.tiles[s] = <<span>>
        /\ slice.data[s] = SliceData(a, axis, index, s)
    BY SliceIs, Zenon DEF span
  <2>2. /\ ToLocal(<<span>>, <<k>>) = <<i>> /\ <<i>> \in LocalIndices(<<span>>)
    BY <1>1, LinePlaces DEF span
  <2>3. <<i>>[1] = i
    OBVIOUS
  <2> HIDE DEF i, slice
  <2>4. At(slice, s, <<k>>) = slice.data[s][<<i>>]
    BY <2>1, <2>2 DEF At
  <2>5. slice.data[s][<<i>>] = SliceElement(a, axis, index, s, i)
    <3> DEFINE f == [c \in LocalIndices(<<span>>) |-> SliceElement(a, axis, index, s, c[1])]
    <3>1. f[<<i>>] = SliceElement(a, axis, index, s, <<i>>[1])
      BY <2>2, Zenon
    <3>2. slice.data[s] = f
      BY <2>1, Zenon DEF SliceData, span
    <3> HIDE DEF f
    <3> QED
      BY <2>3, <3>1, <3>2
  <2> QED
    BY <2>4, <2>5
<1>12. SliceElement(a, axis, index, s, i) = a.data[s][ToLocal(tile, g)]
  BY <1>10, Zenon DEF SliceElement
<1> QED
  BY <1>3, <1>8, <1>9, <1>11, <1>12 DEF g, tile

(* Every place of the line is on some site.                                 *)
LEMMA SliceCovers ==
    ASSUME NEW a, Sound(a), Complete(a), Rank(a) = 2, NEW axis \in 1 .. 2, NEW index,
           Available(a, axis, index), NEW k \in Nat, k < Dims(a)[3 - axis]
    PROVE  \E s \in Sites : InSpan(k, SliceSpan(a, axis, index, s))
<1> DEFINE g == OnLine(axis, index, k)
<1>1. index \in Nat /\ index < Dims(a)[axis]
  BY SliceSpanIs, SitesNotEmpty
<1>2. /\ axis \in 1 .. Rank(a) /\ 3 - axis \in 1 .. Rank(a)
      /\ \A d \in 1 .. 2 : d = axis \/ d = 3 - axis
  BY OtherAxis
<1>3. g \in [1 .. 2 -> Nat] /\ g[axis] = index /\ g[3 - axis] = k
  BY <1>1, PlaceOnLine
<1>4. IsDims(Dims(a)) /\ Len(Dims(a)) = 2
  BY DimsOfArray DEF Sound
<1> HIDE DEF g
<1>5. \A d \in 1 .. 2 : g[d] < Dims(a)[d]
  BY <1>1, <1>2, <1>3
<1>6. g \in Box(Dims(a))
  BY <1>3, <1>4, <1>5, BoxIndex
<1>7. PICK s \in Sites : Holds(a.tiles[s], g)
  BY <1>6, HeldBySomeone DEF Complete, Sound
<1>8. DOMAIN a.tiles[s] = 1 .. 2
  BY TilesOfArray, TileIsFunction DEF Sound
<1>9. InSpan(index, a.tiles[s][axis]) /\ InSpan(k, a.tiles[s][3 - axis])
  BY <1>2, <1>3, <1>7, <1>8 DEF Holds
<1>10. InSpan(k, SliceSpan(a, axis, index, s))
  BY <1>9, SliceSpanIs
<1> QED
  BY <1>10

-----------------------------------------------------------------------------
(* Spans of one dimension, some of them empty, that hold the elements of a  *)
(* vector of m elements.                                                    *)
IsVectorOf(v, E, m) ==
    /\ \A s \in Sites :
        /\ v.tiles[s] = <<v.tiles[s][1]>>
        /\ v.tiles[s][1] \in IsSpan
        /\ v.tiles[s][1].start < v.tiles[s][1].stop \/ v.tiles[s][1] = Span(0, 0)
        /\ v.tiles[s][1].stop <= m
        /\ DOMAIN v.data[s] = LocalIndices(v.tiles[s])
    /\ \A s \in Sites, k \in Nat :
        InSpan(k, v.tiles[s][1]) => k < m /\ At(v, s, <<k>>) = E[k]
    /\ \A k \in Nat : k < m => \E s \in Sites : InSpan(k, v.tiles[s][1])

(* Such a vector has m elements,                                            *)
LEMMA VectorExtent ==
    ASSUME NEW v, NEW E, NEW m \in Nat \ {0}, IsVectorOf(v, E, m)
    PROVE  Dims(v) = <<m>>
<1> DEFINE S == {v.tiles[s][1].stop : s \in Sites}
           L == Largest(S)
<1>1. \A s \in Sites : v.tiles[s][1].stop \in Nat /\ v.tiles[s][1].stop <= m
  BY DEF IsVectorOf, IsSpan
<1>2. S \subseteq Nat /\ S # {} /\ (\A x \in S : x <= m) /\ m \in Nat
  BY <1>1, SitesNotEmpty
<1>3. m - 1 \in Nat /\ m - 1 < m
  BY SMT
<1>4. PICK s \in Sites : InSpan(m - 1, v.tiles[s][1])
  BY <1>3 DEF IsVectorOf
<1>5. v.tiles[s][1].stop \in S /\ m - 1 < v.tiles[s][1].stop
  BY <1>4 DEF InSpan
<1> HIDE DEF S
<1>6. L \in S /\ \A x \in S : x <= L
  BY <1>2, LargestElement
<1> HIDE DEF L
<1>7. L = m
  BY <1>1, <1>2, <1>5, <1>6, SMT
<1>8. DOMAIN v.tiles[0] = 1 .. 1 /\ \A d \in 1 .. 1 : d = 1
  <2>1. v.tiles[0] = <<v.tiles[0][1]>>
    BY SitesNotEmpty DEF IsVectorOf
  <2>2. \A z : DOMAIN <<z>> = 1 .. 1
    BY SMT
  <2>3. \A d \in 1 .. 1 : d = 1
    BY SMT
  <2> HIDE DEF IsVectorOf
  <2>4. DOMAIN v.tiles[0] = DOMAIN <<v.tiles[0][1]>>
    BY <2>1, Zenon
  <2> QED
    BY <2>2, <2>3, <2>4, Zenon
<1>9. Extent(v.tiles, 1) = m
  BY <1>7 DEF Extent, L, S
<1>10. Dims(v) = [d \in 1 .. 1 |-> Extent(v.tiles, d)]
  BY <1>8, Zenon DEF Dims
<1>11. \A d \in 1 .. 1 : Extent(v.tiles, d) = m
  BY <1>8, <1>9
<1>12. Dims(v) = [d \in 1 .. 1 |-> m]
  BY <1>10, <1>11
<1>13. [d \in 1 .. 1 |-> m] = <<m>>
  BY SMT
<1> QED
  BY <1>12, <1>13

(* Indices of a vector.                                                     *)
LEMMA VectorBox ==
    ASSUME NEW m \in Nat \ {0}, NEW g
    PROVE  g \in Box(<<m>>) <=> \E k \in Nat : k < m /\ g = <<k>>
<1>1. IsDims(<<m>>) /\ Len(<<m>>) = 1 /\ <<m>>[1] = m /\ 1 \in 1 .. 1 /\ \A d \in 1 .. 1 : d = 1
  BY SMT DEF IsDims
<1>2. g \in Box(<<m>>) <=> g \in [1 .. 1 -> Nat] /\ g[1] < m
  <2>1. g \in Box(<<m>>) <=> g \in [1 .. 1 -> Nat] /\ \A d \in 1 .. 1 : g[d] < <<m>>[d]
    BY <1>1, BoxIndex
  <2> QED
    BY <1>1, <2>1, Zenon
<1>3. ASSUME g \in [1 .. 1 -> Nat] PROVE g[1] \in Nat /\ g = <<g[1]>>
  <2> DEFINE e == g[1]
  <2>1. g = [d \in 1 .. 1 |-> e]
    BY <1>1, <1>3
  <2>2. e \in Nat
    BY <1>1, <1>3
  <2> HIDE DEF e
  <2>3. [d \in 1 .. 1 |-> e] = <<e>>
    BY SMT
  <2> QED
    BY <2>1, <2>2, <2>3 DEF e
<1>4. \A k \in Nat : <<k>> \in [1 .. 1 -> Nat] /\ <<k>>[1] = k
  BY OneIndex
<1> QED
  BY <1>2, <1>3, <1>4, Zenon

(* all of them are held, and sites that have the same one agree.            *)
LEMMA VectorIsWhole ==
    ASSUME NEW v, NEW E, NEW m \in Nat \ {0}, IsVectorOf(v, E, m)
    PROVE  /\ Held(v) = Box(<<m>>)
           /\ Agree(v)
           /\ \A k \in Nat : k < m => Element(v, <<k>>) = E[k]
<1>1. ASSUME NEW s \in Sites
      PROVE  /\ v.tiles[s][1] \in IsSpan
             /\ v.tiles[s] = <<v.tiles[s][1]>>
             /\ DOMAIN v.data[s] = LocalIndices(<<v.tiles[s][1]>>)
  <2>1. v.tiles[s] = <<v.tiles[s][1]>> /\ DOMAIN v.data[s] = LocalIndices(v.tiles[s])
    BY Zenon DEF IsVectorOf
  <2>2. v.tiles[s][1] \in IsSpan
    BY DEF IsVectorOf
  <2> QED
    BY <2>1, <2>2, Zenon
<1>2. \A s \in Sites, k \in Nat :
        InSpan(k, v.tiles[s][1]) => k < m /\ At(v, s, <<k>>) = E[k]
  BY Zenon DEF IsVectorOf
<1>3. \A k \in Nat : k < m => \E s \in Sites : InSpan(k, v.tiles[s][1])
  BY DEF IsVectorOf
<1>4. ASSUME NEW s \in Sites, NEW c \in LocalIndices(v.tiles[s])
      PROVE  /\ c[1] + v.tiles[s][1].start \in Nat
             /\ ToGlobal(v.tiles[s], c) = <<c[1] + v.tiles[s][1].start>>
             /\ InSpan(c[1] + v.tiles[s][1].start, v.tiles[s][1])
             /\ v.data[s][c] = At(v, s, <<c[1] + v.tiles[s][1].start>>)
  <2> DEFINE span == v.tiles[s][1]
             k == c[1] + span.start
  <2>1. span \in IsSpan /\ v.tiles[s] = <<span>> /\ c \in LocalIndices(<<span>>)
    <3>1. span \in IsSpan /\ v.tiles[s] = <<span>>
      BY <1>1
    <3> HIDE DEF span
    <3> QED
      BY <3>1, Zenon
  <2>2. span.start \in Nat
    BY <2>1 DEF IsSpan
  <2> HIDE DEF span
  <2>3. /\ c[1] \in Nat /\ k \in Nat /\ c = <<c[1]>>
        /\ ToGlobal(<<span>>, c) = <<k>> /\ InSpan(k, span)
    BY <2>1, LinePlaces
  <2>4. ToLocal(<<span>>, <<k>>) = <<k - span.start>>
    <3> HIDE DEF k
    <3> QED
      BY <2>1, <2>3, LinePlaces
  <2>5. k - span.start = c[1]
    BY <2>2, <2>3, SMT
  <2>6. ToLocal(v.tiles[s], <<k>>) = c
    BY <2>1, <2>3, <2>4, <2>5, Zenon
  <2> QED
    BY <2>1, <2>3, <2>6, Zenon DEF At, span
<1>5. ASSUME NEW s \in Sites, NEW k \in Nat
      PROVE  Holds(v.tiles[s], <<k>>) <=> InSpan(k, v.tiles[s][1])
  BY <1>1, LinePlaces
<1>6. Held(v) \subseteq Box(<<m>>)
  <2> SUFFICES ASSUME NEW g \in Held(v) PROVE g \in Box(<<m>>)
    OBVIOUS
  <2>1. PICK s \in Sites : g \in {ToGlobal(v.tiles[s], c) : c \in DOMAIN v.data[s]}
    BY DEF Held
  <2>2. DOMAIN v.data[s] = LocalIndices(v.tiles[s])
    BY <1>1, Zenon
  <2>3. PICK c \in LocalIndices(v.tiles[s]) : g = ToGlobal(v.tiles[s], c)
    BY <2>1, <2>2
  <2>4. g = <<c[1] + v.tiles[s][1].start>> /\ c[1] + v.tiles[s][1].start < m
    BY <1>2, <1>4, <2>3, Zenon
  <2>5. c[1] + v.tiles[s][1].start \in Nat
    BY <1>4
  <2> QED
    BY <2>4, <2>5, VectorBox, Zenon
<1>7. Box(<<m>>) \subseteq Held(v)
  <2> SUFFICES ASSUME NEW g \in Box(<<m>>) PROVE g \in Held(v)
    OBVIOUS
  <2>1. PICK k \in Nat : k < m /\ g = <<k>>
    BY VectorBox
  <2>2. PICK s \in Sites : InSpan(k, v.tiles[s][1])
    BY <1>3, <2>1
  <2> DEFINE c == <<k - v.tiles[s][1].start>>
  <2>3. c \in DOMAIN v.data[s] /\ ToGlobal(v.tiles[s], c) = <<k>>
    <3>1. /\ v.tiles[s][1] \in IsSpan /\ v.tiles[s] = <<v.tiles[s][1]>>
          /\ DOMAIN v.data[s] = LocalIndices(<<v.tiles[s][1]>>)
      BY <1>1
    <3>2. /\ c \in LocalIndices(<<v.tiles[s][1]>>)
          /\ ToGlobal(<<v.tiles[s][1]>>, c) = <<k>>
      BY <2>2, <3>1, LinePlaces
    <3> QED
      BY <3>1, <3>2, Zenon
  <2> HIDE DEF c
  <2>4. g \in {ToGlobal(v.tiles[s], e) : e \in DOMAIN v.data[s]}
    BY <2>1, <2>3
  <2> QED
    BY <2>4 DEF Held
<1>8. ASSUME NEW k \in Nat, k < m PROVE Element(v, <<k>>) = E[k]
  <2>1. \E s \in Sites : Holds(v.tiles[s], <<k>>)
    BY <1>3, <1>5, <1>8
  <2> DEFINE t == CHOOSE s \in Sites : Holds(v.tiles[s], <<k>>)
  <2>2. t \in Sites /\ Holds(v.tiles[t], <<k>>) /\ Element(v, <<k>>) = At(v, t, <<k>>)
    BY <2>1, Zenon DEF Element
  <2> HIDE DEF t
  <2> QED
    BY <1>2, <1>5, <2>2, Zenon
<1>9. Agree(v)
  <2> SUFFICES ASSUME NEW s \in Sites, NEW t \in Sites, NEW c \in LocalIndices(v.tiles[s]),
                      Holds(v.tiles[t], ToGlobal(v.tiles[s], c))
               PROVE  v.data[s][c] = At(v, t, ToGlobal(v.tiles[s], c))
    BY Zenon DEF Agree
  <2> DEFINE k == c[1] + v.tiles[s][1].start
  <2>1. /\ k \in Nat /\ ToGlobal(v.tiles[s], c) = <<k>>
        /\ InSpan(k, v.tiles[s][1]) /\ v.data[s][c] = At(v, s, <<k>>)
    BY <1>4
  <2> HIDE DEF k
  <2>2. InSpan(k, v.tiles[t][1])
    BY <1>5, <2>1
  <2> QED
    BY <1>2, <2>1, <2>2, Zenon
<1> QED
  BY <1>6, <1>7, <1>8, <1>9

(* A line of a complete matrix is the vector of its elements.               *)
LineElementsOf(a, axis, index) ==
    [k \in 0 .. (Dims(a)[3 - axis] - 1) |-> Element(a, OnLine(axis, index, k))]

(* The slice is this vector.                                                *)
LEMMA SliceIsVector ==
    ASSUME NEW a, Sound(a), Complete(a), Rank(a) = 2, NEW axis \in 1 .. 2, NEW index,
           Available(a, axis, index)
    PROVE  /\ Dims(a)[3 - axis] \in Nat \ {0}
           /\ IsVectorOf(SliceOf(a, axis, index), LineElementsOf(a, axis, index),
                         Dims(a)[3 - axis])
<1> DEFINE v == SliceOf(a, axis, index)
           E == LineElementsOf(a, axis, index)
           m == Dims(a)[3 - axis]
<1>1. 3 - axis \in 1 .. Rank(a)
  BY OtherAxis
<1>2. m \in Nat \ {0}
  BY <1>1, SpanWithin, SitesNotEmpty
<1>3. \A s \in Sites : v.tiles[s] = <<SliceSpan(a, axis, index, s)>>
                       /\ v.data[s] = SliceData(a, axis, index, s)
  BY SliceIs
<1>4. \A z : <<z>>[1] = z
  OBVIOUS
<1>5. ASSUME NEW s \in Sites
      PROVE  /\ v.tiles[s] = <<v.tiles[s][1]>>
             /\ v.tiles[s][1] = SliceSpan(a, axis, index, s)
             /\ DOMAIN v.data[s] = LocalIndices(v.tiles[s])
  <2> HIDE DEF v
  <2>1. DOMAIN SliceData(a, axis, index, s) = LocalIndices(<<SliceSpan(a, axis, index, s)>>)
    BY Zenon DEF SliceData
  <2>2. v.tiles[s][1] = SliceSpan(a, axis, index, s)
    BY <1>3, <1>4, Zenon
  <2> QED
    BY <1>3, <2>1, <2>2, Zenon
<1> HIDE DEF v
<1>6. ASSUME NEW s \in Sites
      PROVE  /\ v.tiles[s][1] \in IsSpan /\ v.tiles[s][1].stop <= m
             /\ v.tiles[s][1].start < v.tiles[s][1].stop \/ v.tiles[s][1] = Span(0, 0)
  <2>1. /\ SliceSpan(a, axis, index, s) \in IsSpan
        /\ \/ SliceSpan(a, axis, index, s) = a.tiles[s][3 - axis]
           \/ SliceSpan(a, axis, index, s) = Span(0, 0)
    BY SliceSpanIs
  <2>2. /\ a.tiles[s][3 - axis].stop <= m
        /\ a.tiles[s][3 - axis].start < a.tiles[s][3 - axis].stop
    BY <1>1, SpanWithin
  <2>3. Span(0, 0).stop <= m
    <3>1. Span(0, 0).stop = 0
      BY DEF Span
    <3> HIDE DEF m
    <3> QED
      BY <1>2, <3>1, SMT
  <2> QED
    BY <1>5, <2>1, <2>2, <2>3, Zenon
<1>7. ASSUME NEW s \in Sites, NEW k \in Nat, InSpan(k, v.tiles[s][1])
      PROVE  k < m /\ At(v, s, <<k>>) = E[k]
  <2>1. InSpan(k, SliceSpan(a, axis, index, s))
    BY <1>5, <1>7, Zenon
  <2>2. k < m /\ At(v, s, <<k>>) = Element(a, OnLine(axis, index, k))
    BY <2>1, SliceHolds DEF v
  <2>3. k \in 0 .. (m - 1)
    <3> HIDE DEF m
    <3> QED
      BY <1>2, <2>2, SMT
  <2>4. E[k] = Element(a, OnLine(axis, index, k))
    BY <2>3, Zenon DEF LineElementsOf
  <2> QED
    BY <2>2, <2>4
<1>8. ASSUME NEW k \in Nat, k < m
      PROVE  \E s \in Sites : InSpan(k, v.tiles[s][1])
  <2>1. PICK s \in Sites : InSpan(k, SliceSpan(a, axis, index, s))
    BY <1>8, SliceCovers
  <2> QED
    BY <1>5, <2>1, Zenon
<1> HIDE DEF E, m
<1>9. IsVectorOf(v, E, m)
  BY <1>5, <1>6, <1>7, <1>8, Zenon DEF IsVectorOf
<1> QED
  BY <1>2, <1>9 DEF v, E, m

(* A line that no tile ends at is that line of the whole matrix.            *)
THEOREM SliceOfWhole ==
    ASSUME NEW a, Sound(a), Complete(a), Rank(a) = 2, NEW axis \in 1 .. 2, NEW index,
           Available(a, axis, index)
    PROVE  SliceAgrees(a, axis, index)
<1> DEFINE v == SliceOf(a, axis, index)
           E == LineElementsOf(a, axis, index)
           m == Dims(a)[3 - axis]
<1>1. m \in Nat \ {0} /\ IsVectorOf(v, E, m)
  BY SliceIsVector
<1>2. ASSUME NEW k \in Nat, k < m
      PROVE  E[k] = Element(a, OnLine(axis, index, k)) /\ OnLine(axis, index, k) \in Box(Dims(a))
  <2>1. k \in 0 .. (m - 1)
    <3> HIDE DEF m
    <3> QED
      BY <1>1, <1>2, SMT
  <2>2. E[k] = Element(a, OnLine(axis, index, k))
    BY <2>1, Zenon DEF LineElementsOf
  <2>3. PICK s \in Sites : InSpan(k, SliceSpan(a, axis, index, s))
    BY <1>2, SliceCovers
  <2>4. OnLine(axis, index, k) \in Box(Dims(a))
    BY <2>3, SliceHolds
  <2> QED
    BY <2>2, <2>4
<1> HIDE DEF E, m, v
<1>3. Dims(v) = <<m>> /\ Held(v) = Box(<<m>>) /\ Agree(v)
  BY <1>1, VectorExtent, VectorIsWhole
<1>4. \A k \in Nat : k < m => Element(v, <<k>>) = Element(a, OnLine(axis, index, k))
  <2>1. \A k \in Nat : k < m => Element(v, <<k>>) = E[k]
    BY <1>1, VectorIsWhole
  <2> QED
    BY <1>2, <2>1, Zenon
<1>5. \A g \in Box(Dims(a)) : Element(a, g) # Junk
  BY DEF Complete
<1>6. Complete(v)
  <2>1. ASSUME NEW g \in Held(v) PROVE Element(v, g) # Junk
    <3>1. PICK k \in Nat : k < m /\ g = <<k>>
      BY <1>1, <1>3, <2>1, VectorBox
    <3> QED
      BY <1>2, <1>4, <1>5, <3>1
  <2> QED
    BY <1>3, <2>1, Zenon DEF Complete
<1>7. ASSUME NEW i \in 0 .. (m - 1)
      PROVE  Element(v, <<i>>) =
                Element(a, IF axis = 1 THEN <<index, i>> ELSE <<i, index>>)
  <2>1. i \in Nat /\ i < m
    BY <1>1, SMT
  <2> QED
    BY <1>4, <2>1, Zenon DEF OnLine
<1> QED
  BY <1>3, <1>6, <1>7, Zenon DEF SliceAgrees, v, m

(* What a site finds when it asks for a span of a vector.                   *)
LEMMA VectorPieces ==
    ASSUME NEW v, NEW E, NEW m \in Nat, IsVectorOf(v, E, m),
           NEW s \in Sites, NEW w \in Sites, NEW des \in IsSpan,
           NEW i \in Nat, i < Size(des)
    PROVE  /\ Writes(v, s, w, <<des>>, <<i>>) <=> InSpan(i + des.start, v.tiles[w][1])
           /\ InSpan(i + des.start, v.tiles[w][1]) =>
                Copied(v, s, w, <<des>>, <<i>>) = At(v, w, <<i + des.start>>)
<1> DEFINE loc == v.tiles[w][1]
           k == i + des.start
           P == Pieces(v, s, w, <<des>>)
           p == P[1]
<1>1. /\ v.tiles[w] = <<loc>> /\ v.tiles[s] = <<v.tiles[s][1]>>
      /\ loc \in IsSpan /\ (loc.start < loc.stop \/ loc = Span(0, 0))
  <2>1. v.tiles[w] = <<loc>> /\ v.tiles[s] = <<v.tiles[s][1]>>
    BY Zenon DEF IsVectorOf
  <2>2. loc \in IsSpan /\ (loc.start < loc.stop \/ loc = Span(0, 0))
    BY DEF IsVectorOf
  <2> QED
    BY <2>1, <2>2
<1>2. /\ \A z : DOMAIN <<z>> = 1 .. 1 /\ <<z>>[1] = z
      /\ 1 \in 1 .. 1 /\ \A d \in 1 .. 1 : d = 1
  BY SMT
<1>3. des.start \in Nat /\ k \in Nat
  <2>1. des.start \in Nat
    BY DEF IsSpan
  <2> QED
    BY <2>1, SMT
<1>4. p \in {IndexCalculation(des, loc), RetileCalculation(loc, des)}
  <2>1. P = [d \in 1 .. 1 |-> IF w = s THEN IndexCalculation(<<des>>[d], v.tiles[s][d])
                              ELSE RetileCalculation(v.tiles[w][d], <<des>>[d])]
    BY <1>2, Zenon DEF Pieces
  <2>2. p = IF w = s THEN IndexCalculation(<<des>>[1], v.tiles[s][1])
            ELSE RetileCalculation(v.tiles[w][1], <<des>>[1])
    <3> HIDE DEF P
    <3> QED
      BY <1>2, <2>1
  <2>3. <<des>>[1] = des
    BY <1>2
  <2> QED
    BY <2>2, <2>3
<1>5. Writes(v, s, w, <<des>>, <<i>>) <=> Intersects(des, loc) /\ InPiece(i, p)
  <2>1. Writes(v, s, w, <<des>>, <<i>>) <=>
            /\ \A d \in 1 .. 1 : Intersects(<<des>>[d], v.tiles[w][d])
            /\ \A d \in 1 .. 1 : InPiece(<<i>>[d], P[d])
    BY <1>2, Zenon DEF Writes
  <2>2. <<des>>[1] = des /\ <<i>>[1] = i
    BY <1>2
  <2> HIDE DEF P
  <2>3. (\A d \in 1 .. 1 : Intersects(<<des>>[d], v.tiles[w][d])) <=> Intersects(des, loc)
    BY <1>2, <2>2, Zenon
  <2>4. (\A d \in 1 .. 1 : InPiece(<<i>>[d], P[d])) <=> InPiece(i, p)
    BY <1>2, <2>2, Zenon
  <2> QED
    BY <2>1, <2>3, <2>4, Zenon
<1>6. Copied(v, s, w, <<des>>, <<i>>) = v.data[w][<<i - p.projected + p.local>>]
  <2>1. Copied(v, s, w, <<des>>, <<i>>) =
            v.data[w][[d \in 1 .. 1 |-> <<i>>[d] - P[d].projected + P[d].local]]
    BY <1>2, Zenon DEF Copied
  <2> DEFINE j == i - p.projected + p.local
  <2>2. <<i>>[1] = i
    BY <1>2
  <2>3. \A d \in 1 .. 1 : <<i>>[d] - P[d].projected + P[d].local = j
    BY <1>2, <2>2, Zenon
  <2> HIDE DEF j, P
  <2>4. [d \in 1 .. 1 |-> <<i>>[d] - P[d].projected + P[d].local] = [d \in 1 .. 1 |-> j]
    BY <2>3
  <2>5. [d \in 1 .. 1 |-> j] = <<j>>
    BY SMT
  <2> QED
    BY <2>1, <2>4, <2>5, Zenon DEF j
<1>7. InSpan(k, loc) => At(v, w, <<k>>) = v.data[w][<<k - loc.start>>]
  <2> HIDE DEF loc, k
  <2>1. InSpan(k, loc) => ToLocal(<<loc>>, <<k>>) = <<k - loc.start>>
    BY <1>1, <1>3, LinePlaces
  <2> QED
    BY <1>1, <2>1, Zenon DEF At
<1> HIDE DEF p, loc
<1>8. CASE loc.start < loc.stop
  <2>1. /\ Intersects(des, loc) /\ InPiece(i, p) <=> InSpan(i + des.start, loc)
        /\ InSpan(i + des.start, loc) =>
              i - p.projected + p.local = (i + des.start) - loc.start
    BY <1>1, <1>4, <1>8, PieceIsFound
  <2>2. Writes(v, s, w, <<des>>, <<i>>) <=> InSpan(k, loc)
    BY <1>5, <2>1
  <2>3. InSpan(k, loc) => Copied(v, s, w, <<des>>, <<i>>) = At(v, w, <<k>>)
    BY <1>6, <1>7, <2>1
  <2> QED
    BY <2>2, <2>3 DEF loc
<1>9. CASE loc = Span(0, 0)
  <2>1. loc.stop = 0
    BY <1>9 DEF Span
  <2> HIDE DEF k
  <2>2. ~(des.start < 0) /\ ~(k < 0)
    BY <1>3, SMT
  <2>3. ~Intersects(des, loc) /\ ~InSpan(k, loc)
    BY <2>1, <2>2 DEF Intersects, InSpan
  <2> QED
    BY <1>5, <2>3 DEF loc, k
<1> QED
  BY <1>1, <1>8, <1>9

(* A site finds the elements it asks for, whether it has them or others     *)
(* do.                                                                      *)
LEMMA VectorFound ==
    ASSUME NEW v, NEW E, NEW m \in Nat, IsVectorOf(v, E, m),
           NEW s \in Sites, NEW des \in IsSpan, des.stop <= m,
           NEW i \in Nat, i < Size(des)
    PROVE  Retiled(v, s, <<des>>)[<<i>>] = E[i + des.start]
<1> DEFINE own == v.tiles[s][1]
           k == i + des.start
           subset == \A d \in 1 .. 1 :
                <<des>>[d].start >= v.tiles[s][d].start /\ <<des>>[d].stop <= v.tiles[s][d].stop
           Others == {w \in Sites \ {s} : Writes(v, s, w, <<des>>, <<i>>)}
           last == Largest(Others)
<1>1. /\ v.tiles[s] = <<own>> /\ own \in IsSpan
  <2>1. v.tiles[s] = <<own>>
    BY Zenon DEF IsVectorOf
  <2>2. own \in IsSpan
    BY DEF IsVectorOf
  <2> QED
    BY <2>1, <2>2
<1>2. /\ \A z : DOMAIN <<z>> = 1 .. 1 /\ <<z>>[1] = z
      /\ 1 \in 1 .. 1 /\ \A d \in 1 .. 1 : d = 1
  BY SMT
<1>3. /\ des.start \in Nat /\ des.stop \in Nat /\ own.start \in Nat /\ own.stop \in Nat
      /\ Size(des) = des.stop - des.start
  BY <1>1 DEF IsSpan, Size
<1>4. k \in Nat /\ k < des.stop /\ k < m /\ des.start <= k
  BY <1>3, SMT
<1>5. \A w \in Sites : InSpan(k, v.tiles[w][1]) => At(v, w, <<k>>) = E[k]
  BY <1>4 DEF IsVectorOf
<1>6. <<i>> \in LocalIndices(<<des>>)
  <2>1. <<i>> \in [1 .. 1 -> Nat] /\ <<i>>[1] = i
    BY OneIndex
  <2> QED
    BY <2>1, LineIndex
<1>7. Retiled(v, s, <<des>>)[<<i>>] =
        IF subset
        THEN v.data[s][[d \in 1 .. 1 |->
                            <<i>>[d] + (<<des>>[d].start - v.tiles[s][d].start)]]
        ELSE Fetched(v, s, <<des>>, <<i>>)
  BY <1>2, <1>6, Zenon DEF Retiled
<1>8. CASE subset
  <2> DEFINE j == i + (des.start - own.start)
  <2>1. <<des>>[1] = des /\ <<i>>[1] = i
    BY <1>2
  <2>2. own.start <= des.start /\ des.stop <= own.stop
    <3>1. des.start >= own.start /\ des.stop <= own.stop
      BY <1>2, <1>8, <2>1, Zenon
    <3> QED
      BY <1>3, <3>1, SMT
  <2>3. \A d \in 1 .. 1 : <<i>>[d] + (<<des>>[d].start - v.tiles[s][d].start) = j
    BY <1>2, <2>1, Zenon
  <2>4. j = k - own.start
    BY <1>3, SMT
  <2>5. InSpan(k, own)
    BY <1>3, <1>4, <2>2, SMT DEF InSpan
  <2> HIDE DEF j, own, k, subset
  <2>6. [d \in 1 .. 1 |-> <<i>>[d] + (<<des>>[d].start - v.tiles[s][d].start)] =
            [d \in 1 .. 1 |-> j]
    BY <2>3
  <2>7. [d \in 1 .. 1 |-> j] = <<j>>
    BY SMT
  <2>8. ToLocal(<<own>>, <<k>>) = <<k - own.start>>
    BY <1>1, <1>4, <2>5, LinePlaces
  <2>9. At(v, s, <<k>>) = v.data[s][<<j>>]
    BY <1>1, <2>4, <2>8, Zenon DEF At
  <2>10. At(v, s, <<k>>) = E[k]
    BY <1>5, <2>5 DEF own
  <2>11. Retiled(v, s, <<des>>)[<<i>>] = v.data[s][<<j>>]
    BY <1>7, <1>8, <2>6, <2>7, Zenon
  <2> QED
    BY <2>9, <2>10, <2>11 DEF k
<1>9. CASE ~subset
  <2>1. \A w \in Sites :
            /\ Writes(v, s, w, <<des>>, <<i>>) <=> InSpan(k, v.tiles[w][1])
            /\ InSpan(k, v.tiles[w][1]) =>
                    Copied(v, s, w, <<des>>, <<i>>) = At(v, w, <<k>>)
    BY VectorPieces
  <2>2. PICK u \in Sites : InSpan(k, v.tiles[u][1])
    BY <1>4 DEF IsVectorOf
  <2>3. Fetched(v, s, <<des>>, <<i>>) =
            CASE Others # {} -> Copied(v, s, last, <<des>>, <<i>>)
              [] Writes(v, s, s, <<des>>, <<i>>) /\ Others = {} ->
                    Copied(v, s, s, <<des>>, <<i>>)
              [] OTHER -> Junk
    BY Zenon DEF Fetched
  <2>4. CASE Others # {}
    <3>1. last \in Others
      <4>1. Others \subseteq Nat /\ \A w \in Others : w <= NumSites
        <5>1. \A w \in Sites : w \in Nat /\ w <= NumSites
          BY SitesNotEmpty, SMT DEF Sites
        <5> QED
          BY <5>1
      <4> HIDE DEF Others
      <4> QED
        BY <2>4, <4>1, LargestElement, SitesNotEmpty
    <3> HIDE DEF last
    <3>2. last \in Sites /\ Writes(v, s, last, <<des>>, <<i>>)
      BY <3>1
    <3>3. Copied(v, s, last, <<des>>, <<i>>) = E[k]
      BY <1>5, <2>1, <3>2, Zenon
    <3>4. Fetched(v, s, <<des>>, <<i>>) = Copied(v, s, last, <<des>>, <<i>>)
      <4> HIDE DEF Others
      <4> QED
        BY <2>3, <2>4
    <3> QED
      BY <1>7, <1>9, <3>3, <3>4, Zenon
  <2>5. CASE Others = {}
    <3>1. u = s
      BY <2>1, <2>2, <2>5
    <3>2. Writes(v, s, s, <<des>>, <<i>>) /\ Copied(v, s, s, <<des>>, <<i>>) = E[k]
      BY <1>5, <2>1, <2>2, <3>1, Zenon
    <3>3. Fetched(v, s, <<des>>, <<i>>) = Copied(v, s, s, <<des>>, <<i>>)
      <4> HIDE DEF Others
      <4> QED
        BY <2>3, <2>5, <3>2
    <3> QED
      BY <1>7, <1>9, <3>2, <3>3, Zenon
  <2> QED
    BY <2>4, <2>5
<1> QED
  BY <1>8, <1>9

(* Storing a row of the array into a row at which no tile begins changes    *)
(* this row, on every site that has it, and nothing else (slice assignment  *)
(* of a distributed matrix, which asks the others for the vector's tile).   *)
THEOREM StoreOfWhole ==
    ASSUME NEW a, Sound(a), Complete(a), Rank(a) = 2, NEW from, Available(a, 1, from),
           NEW row \in Nat, \A s \in Sites : row # a.tiles[s][1].start
    PROVE  StoreAgrees(a, from, row)
<1> DEFINE v == SliceOf(a, 1, from)
           E == LineElementsOf(a, 1, from)
           m == Dims(a)[2]
<1>1. m \in Nat /\ IsVectorOf(v, E, m)
  <2>1. 1 \in 1 .. 2 /\ 3 - 1 = 2
    BY SMT
  <2>2. m \in Nat \ {0} /\ IsVectorOf(v, E, m)
    BY <2>1, SliceIsVector
  <2> QED
    BY <2>2
<1> SUFFICES ASSUME NEW s \in Sites, NEW c \in DOMAIN a.data[s]
             PROVE  RowStored(a, v, s, row)[c] =
                        Element(a, IF ToGlobal(a.tiles[s], c)[1] = row
                                   THEN <<from, ToGlobal(a.tiles[s], c)[2]>>
                                   ELSE ToGlobal(a.tiles[s], c))
  BY Zenon DEF StoreAgrees
<1> DEFINE tile == a.tiles[s]
           g == ToGlobal(tile, c)
           x == tile[1].start
           y == tile[1].stop
<1>2. 1 \in 1 .. Rank(a) /\ 2 \in 1 .. Rank(a) /\ Rank(a) \in Nat
  BY SMT
<1>3. IsTile(tile, Rank(a)) /\ c \in LocalIndices(tile)
  BY TilesOfArray DEF Sound, IsArray
<1>4. /\ c[1] \in Nat /\ c[2] \in Nat /\ c[1] < Size(tile[1]) /\ c[2] < Size(tile[2])
  <2>1. /\ c \in [1 .. Rank(a) -> Nat]
        /\ \A d \in 1 .. Rank(a) : c[d] < Size(tile[d])
    BY <1>2, <1>3, LocalIndex
  <2> QED
    BY <1>2, <2>1
<1>5. g[1] = c[1] + x /\ g[2] = c[2] + tile[2].start
  <2>1. \A d \in 1 .. Rank(a) : g[d] = c[d] + tile[d].start
    BY <1>2, <1>3, GlobalOfLocal
  <2> QED
    BY <1>2, <2>1
<1>6. /\ x \in Nat /\ y \in Nat /\ Size(tile[1]) = y - x
      /\ tile[2] \in IsSpan /\ tile[2].stop <= m /\ tile[2].start \in Nat
      /\ Size(tile[2]) = tile[2].stop - tile[2].start /\ tile[2].stop \in Nat
  <2>1. tile[2] \in IsSpan
    BY <1>2, <1>3, TileIsFunction
  <2> QED
    BY <1>2, <2>1, SpanWithin
<1>7. a.data[s][c] = Element(a, g)
  BY <1>3, TileOfElements
<1>8. RowStored(a, v, s, row)[c] =
        IF row > x /\ row < y /\ c[1] = row - x
        THEN Retiled(v, s, <<tile[2]>>)[<<c[2]>>] ELSE a.data[s][c]
  BY Zenon DEF RowStored
<1>9. row > x /\ row < y /\ c[1] = row - x <=> g[1] = row
  <2>1. row # x
    OBVIOUS
  <2> DEFINE i == c[1]
             h == g[1]
  <2> HIDE DEF x, y, i, h
  <2>2. row > x /\ row < y /\ i = row - x <=> h = row
    <3>1. i \in Nat /\ i < y - x /\ h = i + x
      BY <1>4, <1>5, <1>6 DEF i, h
    <3> QED
      BY <1>6, <2>1, <3>1, SMT
  <2> QED
    BY <2>2 DEF i, h
<1>10. Retiled(v, s, <<tile[2]>>)[<<c[2]>>] = Element(a, <<from, g[2]>>)
  <2> DEFINE des == tile[2]
             i == c[2]
  <2>1. des \in IsSpan /\ des.stop <= m /\ i \in Nat /\ i < Size(des)
    BY <1>4, <1>6
  <2>2. i + des.start = g[2]
    BY <1>5
  <2>3. i + des.start \in 0 .. (m - 1)
    <3>1. des.start \in Nat /\ des.stop \in Nat /\ Size(des) = des.stop - des.start
      BY <1>6
    <3> HIDE DEF des, i, m
    <3> QED
      BY <1>1, <2>1, <3>1, SMT
  <2> HIDE DEF des, i, v
  <2>4. Retiled(v, s, <<des>>)[<<i>>] = E[i + des.start]
    <3> HIDE DEF E, m
    <3> QED
      BY <1>1, <2>1, VectorFound
  <2>5. E[i + des.start] = Element(a, OnLine(1, from, i + des.start))
    <3>1. 3 - 1 = 2
      BY SMT
    <3> QED
      BY <2>3, <3>1, Zenon DEF LineElementsOf
  <2> QED
    BY <2>2, <2>4, <2>5, Zenon DEF OnLine, des, i
<1> HIDE DEF v
<1> QED
  BY <1>7, <1>8, <1>9, <1>10, Zenon

(* Lines of whole matrices.                                                 *)
LEMMA SlicesOfWhole ==
    ASSUME NEW a, Sound(a), Complete(a), Rank(a) = 2
    PROVE  SlicesAgree(a)
<1>1. ASSUME NEW axis \in 1 .. 2, NEW i \in 0 .. (Dims(a)[axis] - 1),
             \A s \in Sites : ~RefusesLine(a.tiles[s], axis, i)
      PROVE  Available(a, axis, i) /\ SliceAgrees(a, axis, i)
  <2>1. Available(a, axis, i)
    BY <1>1 DEF Available
  <2> QED
    BY <2>1, SliceOfWhole
<1>2. ASSUME NEW from \in 0 .. (Dims(a)[1] - 1),
             \A s \in Sites : ~RefusesLine(a.tiles[s], 1, from),
             NEW row \in 0 .. (Dims(a)[1] - 1),
             \A s \in Sites : row # a.tiles[s][1].start
      PROVE  StoreAgrees(a, from, row)
  <2>1. Available(a, 1, from)
    BY <1>2 DEF Available
  <2>2. row \in Nat
    BY SMT
  <2> QED
    BY <1>2, <2>1, <2>2, StoreOfWhole
<1>3. 1 \in 1 .. 2
  BY SMT
<1> QED
  BY <1>1, <1>2, Zenon DEF SlicesAgree

-----------------------------------------------------------------------------
(* Whatever is asked of an array, the sites answer as one would that has    *)
(* the whole array: the first of the best elements, products, gathered      *)
(* arrays, and lines that are sliced or stored (argmax_d, argmin_d, dot_d,  *)
(* all_gather_d and the slices of distributed matrices).                    *)
THEOREM AnswersAreThoseOfTheWhole == TiledSpec => []AnswersAgree
<1>1. TiledInv /\ NumbersInv => AnswersAgree
  <2> SUFFICES ASSUME TiledInv, NumbersInv PROVE AnswersAgree
    OBVIOUS
  <2>1. ASSUME NEW x \in Operands PROVE Sound(x) /\ Numeric(x)
    BY DEF Operands, TiledInv, NoneOrSound, NumbersInv
  <2>2. ASSUME NEW x \in Operands, Complete(x), NEW op \in {"argmax", "argmin"}
        PROVE  ArgAgrees(op, x)
    BY <2>1, <2>2, ArgOfWhole
  <2>3. ASSUME NEW x \in Operands, Regular(x), NEW y \in Operands, Regular(y)
        PROVE  DotAgrees(x, y)
    BY <2>1, <2>3, DotOfWhole
  <2>4. ASSUME NEW x \in Operands, Rank(x) = 2, Regular(x), InOrder(x)
        PROVE  GatherAgrees(x)
    BY <2>1, <2>4, GatherOfWhole
  <2>5. ASSUME NEW x \in Operands, Rank(x) = 2, Complete(x)
        PROVE  SlicesAgree(x)
    BY <2>1, <2>5, SlicesOfWhole
  <2> QED
    BY <2>2, <2>3, <2>4, <2>5, Zenon DEF AnswersAgree
<1> QED
  BY <1>1, NumbersInvAlways, PTL

===============================================================================
