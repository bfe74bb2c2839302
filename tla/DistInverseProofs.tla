-------------------------- MODULE DistInverseProofs --------------------------
(* Proofs about DistInverse: who owns which column, types, barriers, which  *)
(* fetches can meet a write, and that the elimination finds the inverse.    *)
EXTENDS DistInverse, WellFoundedInduction, FiniteSetTheorems, TLAPS

-----------------------------------------------------------------------------
(* Division of natural numbers.                                             *)

LEMMA Division ==
    ASSUME NEW x \in Nat, NEW d \in Nat \ {0}
    PROVE  /\ x \div d \in Nat
           /\ x % d \in 0..(d - 1)
           /\ x = d * (x \div d) + (x % d)
  BY SMT

LEMMA Quotient ==
    ASSUME NEW x \in Nat, NEW d \in Nat \ {0}
    PROVE  /\ x \div d \in Nat
           /\ (x \div d) * d <= x
           /\ x < ((x \div d) + 1) * d
  BY SMT

LEMMA TimesMonotone ==
    ASSUME NEW a \in Nat, NEW b \in Nat, NEW d \in Nat, a <= b
    PROVE  d * a <= d * b
  BY SMT

LEMMA QuotientBelow ==
    ASSUME NEW x \in Nat, NEW d \in Nat \ {0}, NEW q \in Nat, x < d * q
    PROVE  x \div d < q
<1> DEFINE k == x \div d
<1>1. k \in Nat /\ d * k <= x
  BY Division, SMT
<1>2. q <= k => d * q <= d * k
  BY <1>1, TimesMonotone
<1> QED
  BY <1>1, <1>2, SMT

(* findOwningLoc and getStartCol, which the code writes out independently,  *)
(* agree for every number of columns and localities: the site a column is   *)
(* fetched from exists and holds it.                                        *)
THEOREM OwnerHoldsColumn ==
    \A col \in Index : OwningLoc(col) \in Site /\ col \in Columns(OwningLoc(col))
<1> DEFINE w == Rows \div Sites
           m == Rows % Sites
<1>1. /\ w \in Nat /\ m \in 0..(Sites - 1)
      /\ Rows = Sites * w + m
      /\ Sites \in Nat \ {0} /\ Rows \in Nat \ {0}
  <2>1. Sites \in Nat \ {0} /\ Rows \in Nat \ {0}
    BY DistInverseAssumption
  <2> QED
    BY <2>1, Division
<1> HIDE DEF w, m
<1>2. SUFFICES ASSUME NEW col \in Index
               PROVE  OwningLoc(col) \in Site /\ col \in Columns(OwningLoc(col))
  OBVIOUS
<1>3. col \in Nat /\ col < Rows
  BY <1>1 DEF Index
<1>4. CASE col < m * (w + 1)
  <2> DEFINE k == col \div (w + 1)
  <2>1. OwningLoc(col) = k
    BY <1>4 DEF OwningLoc, w, m
  <2>2. k \in Nat /\ k < m
    BY <1>1, <1>3, <1>4, Division, QuotientBelow, SMT
  <2>3. k * (w + 1) <= col /\ col < (k + 1) * (w + 1)
    <3>1. w + 1 \in Nat \ {0}
      BY <1>1, SMT
    <3> QED
      BY <1>3, <3>1, Quotient
  <2> HIDE DEF k
  <2>4. StartCol(k) = k * (w + 1)
    BY <1>1, <2>2, SMT DEF StartCol, w, m
  <2>5. EndCol(k) = (k + 1) * (w + 1)
    BY <1>1, <2>2, SMT DEF StartCol, EndCol, w, m
  <2> QED
    BY <1>1, <1>3, <2>1, <2>2, <2>3, <2>4, <2>5, SMT DEF Columns, Site
<1>5. CASE ~(col < m * (w + 1))
  <2> DEFINE x == col - m * (w + 1)
             k == x \div w
  <2>1. OwningLoc(col) = m + k
    BY <1>5 DEF OwningLoc, w, m
  <2>2. x \in Nat /\ x < w * (Sites - m) /\ w # 0
    BY <1>1, <1>3, <1>5, SMT
  <2>3. k \in Nat /\ k < Sites - m
    <3>1. w \in Nat \ {0} /\ Sites - m \in Nat
      BY <1>1, <2>2, SMT
    <3> QED
      BY <2>2, <3>1, Quotient, QuotientBelow
  <2>4. k * w <= x /\ x < (k + 1) * w
    <3>1. w \in Nat \ {0}
      BY <1>1, <2>2
    <3> QED
      BY <2>2, <3>1, Quotient
  <2> HIDE DEF k
  <2>5. StartCol(m + k) = (m + k) * w + m
    BY <1>1, <2>3, SMT DEF StartCol, w, m
  <2>6. EndCol(m + k) = (m + k + 1) * w + m
    BY <1>1, <2>3, SMT DEF StartCol, EndCol, w, m
  <2> QED
    BY <1>1, <1>3, <2>1, <2>2, <2>3, <2>4, <2>5, <2>6, SMT DEF Columns, Site
<1> QED
  BY <1>4, <1>5

LEMMA ColumnsOrdered ==
    ASSUME NEW s \in Site, NEW t \in Site, s < t
    PROVE  EndCol(s) <= StartCol(t)
<1> DEFINE w == Rows \div Sites
           m == Rows % Sites
<1>1. /\ w \in Nat /\ m \in Nat
      /\ Sites \in Nat \ {0}
      /\ s \in Nat /\ t \in Nat /\ s + 1 \in Nat /\ s + 1 <= t /\ t < Sites
  <2>1. Sites \in Nat \ {0} /\ Rows \in Nat \ {0}
    BY DistInverseAssumption
  <2>2. w \in Nat /\ m \in 0..(Sites - 1)
    BY <2>1, Division
  <2> HIDE DEF w, m
  <2> QED
    BY <2>1, <2>2, SMT DEF Site
<1> HIDE DEF w, m
<1>2. EndCol(s) = StartCol(s + 1)
  BY <1>1, SMT DEF EndCol
<1>3. w * (s + 1) <= w * t
  BY <1>1, TimesMonotone
<1>4. /\ StartCol(s + 1) = (s + 1) * w + (IF s + 1 < m THEN s + 1 ELSE m)
      /\ StartCol(t) = t * w + (IF t < m THEN t ELSE m)
  BY DEF StartCol, w, m
<1> QED
  BY <1>1, <1>2, <1>3, <1>4, SMT

(* No other site holds it.                                                  *)
THEOREM ColumnHasOneOwner ==
    \A col \in Index, s \in Site : col \in Columns(s) <=> s = OwningLoc(col)
<1>1. SUFFICES ASSUME NEW col \in Index, NEW s \in Site
               PROVE  col \in Columns(s) <=> s = OwningLoc(col)
  OBVIOUS
<1> DEFINE o == OwningLoc(col)
<1>2. o \in Site /\ col \in Columns(o)
  BY OwnerHoldsColumn
<1> HIDE DEF o
<1>3. s = o => col \in Columns(s)
  BY <1>2
<1>4. \A t \in Site : StartCol(t) \in Int /\ EndCol(t) \in Int
  <2>1. Sites \in Nat \ {0} /\ Rows \in Nat \ {0}
    BY DistInverseAssumption
  <2>2. Rows \div Sites \in Nat /\ Rows % Sites \in 0..(Sites - 1)
    BY <2>1, Division
  <2>3. \A t \in Nat : StartCol(t) \in Int
    BY <2>1, <2>2, SMT DEF StartCol
  <2> QED
    BY <2>1, <2>3, SMT DEF EndCol, Site
<1>5. ASSUME s < o PROVE col \notin Columns(s)
  <2>1. EndCol(s) <= StartCol(o)
    BY <1>2, <1>5, ColumnsOrdered
  <2> QED
    BY <1>2, <1>4, <2>1, SMT DEF Columns
<1>6. ASSUME o < s PROVE col \notin Columns(s)
  <2>1. EndCol(o) <= StartCol(s)
    BY <1>2, <1>6, ColumnsOrdered
  <2> QED
    BY <1>2, <1>4, <2>1, SMT DEF Columns
<1>7. s < o \/ o < s \/ s = o
  BY <1>2, SMT DEF Site
<1> QED
  BY <1>3, <1>5, <1>6, <1>7 DEF o

-----------------------------------------------------------------------------
(* Barriers.  A site that is not at one has left as many of each kind as    *)
(* every other site has come to.                                            *)

BarrierType ==
    /\ waiting \in [Site -> BOOLEAN]
    /\ entered \in [Site -> [Barriers -> Nat]]

Behind ==
    \A s, p \in Site, b \in Barriers :
        entered[s][b] <= IF waiting[s] /\ b = Barrier(s)
                         THEN entered[p][b] + 1 ELSE entered[p][b]

BarrierInv == BarrierType /\ Behind

LEMMA BarrierIsOne == \A s : Barrier(s) \in Barriers
  BY DEF Barrier, Barriers

LEMMA BarrierInit == Init => BarrierInv
  BY SMT DEF Init, BarrierInv, BarrierType, Behind, Barriers

LEMMA BarrierFetch ==
    ASSUME NEW s \in Site, NEW col, NEW i, NEW j, BarrierInv,
           Fetch(s, col, i, j)
    PROVE  BarrierInv'
<1>1. /\ ~waiting[s]
      /\ waiting' = [waiting EXCEPT ![s] = TRUE]
      /\ entered' = IF Sites = 1 THEN entered
                    ELSE [entered EXCEPT ![s][Barrier(s)] = @ + 1]
      /\ loop' = loop
  BY DEF Fetch
<1>2. BarrierType'
  BY <1>1, BarrierIsOne, SMT DEF BarrierInv, BarrierType
<1>3. \A p \in Site : Barrier(p)' = Barrier(p)
  BY <1>1 DEF Barrier
<1>4. Behind'
  <2>1. SUFFICES ASSUME NEW p \in Site, NEW q \in Site, NEW b \in Barriers
                 PROVE  entered'[p][b] <=
                            IF waiting'[p] /\ b = Barrier(p)
                            THEN entered'[q][b] + 1 ELSE entered'[q][b]
    BY <1>3 DEF Behind
  <2>2. /\ entered[p][b] <= IF waiting[p] /\ b = Barrier(p)
                            THEN entered[q][b] + 1 ELSE entered[q][b]
        /\ entered[p][b] \in Nat /\ entered[q][b] \in Nat
    BY DEF BarrierInv, BarrierType, Behind
  <2>3. entered'[q][b] \in {entered[q][b], entered[q][b] + 1}
    BY <1>1, BarrierIsOne, SMT DEF BarrierInv, BarrierType
  <2>4. CASE p = s
    <3>1. waiting'[p] /\ ~waiting[p]
      BY <1>1, <2>4 DEF BarrierInv, BarrierType
    <3>2. entered'[p][b] \in IF b = Barrier(p)
            THEN {entered[p][b], entered[p][b] + 1} ELSE {entered[p][b]}
      BY <1>1, <2>4, BarrierIsOne, SMT DEF BarrierInv, BarrierType
    <3> QED
      BY <2>2, <2>3, <3>1, <3>2, SMT
  <2>5. CASE p # s
    <3>1. waiting'[p] = waiting[p] /\ entered'[p][b] = entered[p][b]
      BY <1>1, <2>5, BarrierIsOne DEF BarrierInv, BarrierType
    <3> QED
      BY <2>2, <2>3, <3>1, SMT
  <2> QED
    BY <2>4, <2>5
<1> QED
  BY <1>2, <1>4 DEF BarrierInv

(* Leaving one: all have come, and what loop a site goes on to is of no     *)
(* importance.                                                              *)
LEMMA BarrierUpdate ==
    ASSUME NEW s \in Site, BarrierInv, Update(s),
           \A p \in Site : p # s => loop'[p] = loop[p]
    PROVE  BarrierInv'
<1>1. /\ waiting[s]
      /\ \A p \in Site : entered[p][Barrier(s)] >= entered[s][Barrier(s)]
      /\ waiting' = [waiting EXCEPT ![s] = FALSE]
      /\ entered' = entered
  BY DEF Update, Released
<1>2. BarrierType'
  BY <1>1 DEF BarrierInv, BarrierType
<1>3. Behind'
  <2>1. SUFFICES ASSUME NEW p \in Site, NEW q \in Site, NEW b \in Barriers
                 PROVE  entered[p][b] <=
                            IF waiting'[p] /\ b = Barrier(p)'
                            THEN entered[q][b] + 1 ELSE entered[q][b]
    BY <1>1 DEF Behind
  <2>2. /\ entered[p][b] <= IF waiting[p] /\ b = Barrier(p)
                            THEN entered[q][b] + 1 ELSE entered[q][b]
        /\ entered[p][b] \in Nat /\ entered[q][b] \in Nat
    BY DEF BarrierInv, BarrierType, Behind
  <2>3. CASE p = s
    <3>1. ~waiting'[p]
      BY <1>1, <2>3 DEF BarrierInv, BarrierType
    <3>2. b = Barrier(p) => entered[p][b] <= entered[q][b]
      BY <1>1, <2>2, <2>3, SMT
    <3> QED
      BY <2>2, <3>1, <3>2, SMT
  <2>4. CASE p # s
    <3>1. waiting'[p] = waiting[p] /\ Barrier(p)' = Barrier(p)
      BY <1>1, <2>4 DEF BarrierInv, BarrierType, Barrier
    <3> QED
      BY <2>2, <3>1
  <2> QED
    BY <2>3, <2>4
<1> QED
  BY <1>2, <1>3 DEF BarrierInv

-----------------------------------------------------------------------------
(* Matrices stay matrices.                                                  *)

LEMMA Residue == \A x \in Int : x % P \in Elem
<1>1. P \in Nat \ {0}
  BY DistInverseAssumption
<1> QED
  BY <1>1, SMT DEF Elem

LEMMA ReciprocalType == \A x \in Elem : x # 0 => Reciprocal(x) \in Elem
<1>1. P \in Nat \ {0}
  BY DistInverseAssumption
<1>2. \A x \in Elem : x # 0 => x \in 1..(P - 1)
  BY <1>1, SMT DEF Elem
<1>3. \A x \in Elem : x # 0 => \E y \in Elem : (x * y) % P = 1
  BY <1>2, DistInverseAssumption DEF Elem
<1> QED
  BY <1>3 DEF Reciprocal

LEMMA ElemInt == Elem \subseteq Int
  BY DistInverseAssumption, SMT DEF Elem

LEMMA SwappedType ==
    \A m \in Matrices, s, i, k \in Index \cup Int :
        i \in Index /\ k \in Index => Swapped(m, s, i, k) \in Matrices
  BY SMT DEF Swapped, WithRow, Matrices

LEMMA DividedType ==
    \A m \in Matrices, s \in Int, i \in Index, x \in Elem :
        x # 0 => Divided(m, s, i, x) \in Matrices
<1>1. SUFFICES ASSUME NEW m \in Matrices, NEW s \in Int, NEW i \in Index,
                      NEW x \in Elem, x # 0
               PROVE  Divided(m, s, i, x) \in Matrices
  OBVIOUS
<1>2. \A j \in Index : (m[i][j] * Reciprocal(x)) % P \in Elem
  <2>1. \A j \in Index : m[i][j] \in Elem
    BY DEF Matrices
  <2>2. Reciprocal(x) \in Elem
    BY <1>1, ReciprocalType
  <2>3. \A a, b \in Elem : a * b \in Int
    BY ElemInt, SMT
  <2> QED
    BY <2>1, <2>2, <2>3, Residue
<1> QED
  BY <1>2, SMT DEF Divided, WithRow, Matrices

LEMMA SubtractedType ==
    \A m \in Matrices, s \in Int, i, k \in Index, x \in Elem :
        Subtracted(m, s, i, x, k) \in Matrices
<1>1. SUFFICES ASSUME NEW m \in Matrices, NEW s \in Int, NEW i \in Index,
                      NEW k \in Index, NEW x \in Elem
               PROVE  Subtracted(m, s, i, x, k) \in Matrices
  OBVIOUS
<1>2. \A j \in Index : (m[i][j] - x * m[k][j]) % P \in Elem
  <2>1. \A j \in Index : m[i][j] \in Elem /\ m[k][j] \in Elem
    BY DEF Matrices
  <2>2. \A a, b, c \in Elem : a - b * c \in Int
    BY ElemInt, SMT
  <2> QED
    BY <2>1, <2>2, Residue
<1> QED
  BY <1>2, SMT DEF Subtracted, WithRow, Matrices

(* A nonempty set of indices has a least one.                               *)
LEMMA LeastExists ==
    \A S \in SUBSET Nat : S # {} => \E k \in S : \A l \in S : k <= l
<1>1. SUFFICES ASSUME NEW S \in SUBSET Nat, S # {}
               PROVE  \E k \in S : \A l \in S : k <= l
  OBVIOUS
<1>2. PICK k \in S : \A l \in S : ~(<<l, k>> \in OpToRel(<, Nat))
  BY <1>1, NatLessThanWellFounded, WFMin
<1>3. \A l \in S : k <= l
  <2>1. SUFFICES ASSUME NEW l \in S PROVE k <= l
    OBVIOUS
  <2>2. ~(l < k)
    BY <1>2 DEF OpToRel
  <2>3. k \in Nat /\ l \in Nat
    OBVIOUS
  <2> QED
    BY <2>2, <2>3, SMT
<1> QED
  BY <1>3

LEMMA CheckRowType ==
    \A s : Candidates(s) # {} => CheckRow(s) \in Candidates(s)
<1>1. \A s : Candidates(s) \in SUBSET Nat
  BY DistInverseAssumption, SMT DEF Candidates, Index
<1> QED
  BY <1>1, LeastExists DEF CheckRow

LEMMA UpdatedType ==
    ASSUME TypeOK
    PROVE  \A m \in Matrices, s \in Site : Updated(m, s) \in Matrices
<1>1. SUFFICES ASSUME NEW m \in Matrices, NEW s \in Site
               PROVE  Updated(m, s) \in Matrices
  OBVIOUS
<1>2. /\ current[s] \in Index /\ row[s] \in Index
      /\ pulled[s] \in [Index -> Elem]
      /\ s \in Int
  BY DistInverseAssumption, SMT DEF TypeOK, Site
<1>3. pulled[s][row[s]] \in Elem /\ Pivot(s) \in Elem
  BY <1>2 DEF Pivot
<1>4. CASE loop[s] \in {"eliminate", "substitute"}
  BY <1>2, <1>3, <1>4, SubtractedType DEF Updated
<1>5. CASE loop[s] = "pivot" /\ Pivot(s) # 0
  BY <1>2, <1>3, <1>5, DividedType DEF Updated
<1>6. CASE loop[s] = "pivot" /\ Pivot(s) = 0 /\ Candidates(s) # {}
  <2>1. CheckRow(s) \in Index
    BY <1>6, CheckRowType DEF Candidates
  <2>2. Updated(m, s) = Swapped(m, s, current[s], CheckRow(s))
    BY <1>6 DEF Updated
  <2> QED
    BY <1>2, <2>1, <2>2, SwappedType
<1>7. CASE /\ loop[s] \notin {"eliminate", "substitute"}
           /\ ~(loop[s] = "pivot" /\ Pivot(s) # 0)
           /\ ~(loop[s] = "pivot" /\ Pivot(s) = 0 /\ Candidates(s) # {})
  <2>1. Updated(m, s) = m
    BY <1>7 DEF Updated
  <2> QED
    BY <2>1
<1> QED
  BY <1>4, <1>5, <1>6, <1>7

-----------------------------------------------------------------------------
(* The ranges of the loops.                                                 *)

Ranges ==
    \A s \in Site :
        /\ loop[s] = "eliminate" => current[s] < row[s]
        /\ loop[s] = "substitute" => row[s] < current[s]

IInv == TypeOK /\ Ranges /\ Behind

LEMMA TypeBarrier == TypeOK => BarrierType
  BY DEF TypeOK, BarrierType

LEMMA InvInit == Init => IInv
<1>1. SUFFICES ASSUME Init PROVE IInv
  OBVIOUS
<1>2. 0 \in Index /\ 0 \in Elem /\ 1 \in Elem
  BY DistInverseAssumption, SMT DEF Index, Elem
<1>3. Unit \in Matrices
  BY <1>2 DEF Unit, Matrices
<1>4. TypeOK
  BY <1>1, <1>2, <1>3 DEF Init, TypeOK, Loops, Barriers
<1>5. Ranges
  BY <1>1 DEF Init, Ranges
<1> QED
  BY <1>1, <1>4, <1>5, BarrierInit DEF IInv, BarrierInv

(* A fetch changes what was fetched and enters a barrier.                   *)
LEMMA InvFetch ==
    ASSUME NEW s \in Site, NEW col \in Index, NEW i, NEW j, IInv,
           Fetch(s, col, i, j)
    PROVE  IInv'
<1>1. TypeOK /\ BarrierInv
  BY TypeBarrier DEF IInv, BarrierInv
<1>2. BarrierInv'
  BY <1>1, BarrierFetch
<1> DEFINE owner == OwningLoc(col)
           old == [k \in Index |-> IF k \in i..j THEN lhs[k][col] ELSE 0]
           fresh == [k \in Index |->
                        IF k \in i..j THEN Updated(lhs, owner)[k][col] ELSE 0]
           new == IF owner # s /\ Released(owner) THEN fresh ELSE old
<1>3. old \in [Index -> Elem] /\ new \in [Index -> Elem]
  <2>1. lhs \in Matrices /\ Updated(lhs, owner) \in Matrices
    BY <1>1, UpdatedType, OwnerHoldsColumn DEF TypeOK
  <2>2. 0 \in Elem
    BY DistInverseAssumption, SMT DEF Elem
  <2>3. \A m \in Matrices : \A k \in Index : m[k][col] \in Elem
    BY DEF Matrices
  <2>4. old \in [Index -> Elem] /\ fresh \in [Index -> Elem]
    BY <2>1, <2>2, <2>3
  <2> QED
    BY <2>4
<1>4. /\ \E late \in SUBSET {k \in i..j : new[k] # old[k]} :
            pulled' = [pulled EXCEPT ![s] =
                [k \in Index |-> IF k \in late THEN new[k] ELSE old[k]]]
      /\ raced' = (raced \/ new # old)
      /\ UNCHANGED <<input, lhs, inverse, loop, current, row>>
  BY DEF Fetch
<1> HIDE DEF old, fresh, new
<1>5. pulled' \in [Site -> [Index -> Elem]]
  BY <1>1, <1>3, <1>4 DEF TypeOK
<1>6. raced' \in BOOLEAN
  BY <1>1, <1>4 DEF TypeOK
<1>7. TypeOK'
  BY <1>1, <1>2, <1>4, <1>5, <1>6 DEF TypeOK, BarrierInv, BarrierType
<1>8. Ranges'
  BY <1>4 DEF IInv, Ranges
<1> QED
  BY <1>2, <1>7, <1>8 DEF IInv, BarrierInv

(* An update leaves everything in place, wherever the loops go on.          *)
LEMMA InvUpdate ==
    ASSUME NEW s \in Site, IInv, Update(s),
           loop' \in [Site -> Loops \cup {"returned", "thrown"}],
           current' \in [Site -> Index],
           row' \in [Site -> Index],
           \A p \in Site : p # s => /\ loop'[p] = loop[p]
                                    /\ current'[p] = current[p]
                                    /\ row'[p] = row[p],
           loop'[s] = "eliminate" => current'[s] < row'[s],
           loop'[s] = "substitute" => row'[s] < current'[s]
    PROVE  IInv'
<1>1. TypeOK /\ BarrierInv
  BY TypeBarrier DEF IInv, BarrierInv
<1>2. BarrierInv'
  BY <1>1, BarrierUpdate
<1>3. lhs' \in Matrices /\ inverse' \in Matrices
  BY <1>1, UpdatedType DEF TypeOK, Update
<1>4. TypeOK'
  BY <1>1, <1>2, <1>3 DEF TypeOK, Update, BarrierInv, BarrierType
<1>5. Ranges'
  BY DEF IInv, Ranges
<1> QED
  BY <1>2, <1>4, <1>5 DEF IInv, BarrierInv

LEMMA GotoType ==
    ASSUME NEW s \in Site, TypeOK,
           NEW l \in Loops \cup {"returned", "thrown"},
           NEW c \in Index, NEW r \in Index, Goto(s, l, c, r)
    PROVE  /\ loop' \in [Site -> Loops \cup {"returned", "thrown"}]
           /\ current' \in [Site -> Index]
           /\ row' \in [Site -> Index]
           /\ loop'[s] = l /\ current'[s] = c /\ row'[s] = r
           /\ \A p \in Site : p # s => /\ loop'[p] = loop[p]
                                       /\ current'[p] = current[p]
                                       /\ row'[p] = row[p]
  BY DEF Goto, TypeOK

LEMMA InvGoto ==
    ASSUME NEW s \in Site, IInv, Update(s),
           NEW l \in Loops \cup {"returned", "thrown"},
           NEW c \in Index, NEW r \in Index, Goto(s, l, c, r),
           l = "eliminate" => c < r, l = "substitute" => r < c
    PROVE  IInv'
<1>1. TypeOK
  BY DEF IInv
<1> QED
  BY <1>1, GotoType, InvUpdate

LEMMA InvSubstitute ==
    ASSUME NEW s \in Site, IInv, Update(s), NEW col \in Index,
           GotoSubstitute(s, col)
    PROVE  IInv'
<1>1. 0 \in Index
  BY DistInverseAssumption, SMT DEF Index
<1>2. CASE col = 0
  BY <1>1, <1>2, InvGoto DEF GotoSubstitute
<1>3. CASE col # 0
  <2>1. col - 1 \in Index /\ col - 1 < col
    BY <1>3, DistInverseAssumption, SMT DEF Index
  <2> QED
    BY <1>3, <2>1, InvGoto DEF GotoSubstitute, Loops
<1> QED
  BY <1>2, <1>3

LEMMA InvStep ==
    ASSUME NEW s \in Site, IInv, Step(s)
    PROVE  IInv'
<1>1. /\ TypeOK
      /\ current[s] \in Index /\ row[s] \in Index
      /\ Rows - 1 \in Index /\ 0 \in Index
      /\ \A k \in Index : k \in Nat /\ k < Rows
      /\ \A k \in Index : k < Rows - 1 => k + 1 \in Index
      /\ \A k \in Index : k > 0 => k - 1 \in Index
  BY DistInverseAssumption, SMT DEF IInv, TypeOK, Index
<1>2. CASE FetchPivot(s)
  BY <1>1, <1>2, InvFetch DEF FetchPivot
<1>3. CASE FetchFactor(s)
  BY <1>1, <1>3, InvFetch DEF FetchFactor
<1>4. CASE Swap(s)
  BY <1>1, <1>4, InvUpdate DEF Swap, IInv, TypeOK, Ranges
<1>5. CASE Throw(s)
  BY <1>1, <1>5, InvGoto DEF Throw
<1>6. CASE Divide(s)
  <2>1. CASE current[s] < Rows - 1
    <3>1. Goto(s, "eliminate", current[s], current[s] + 1) /\ Update(s)
      BY <1>6, <2>1 DEF Divide
    <3>2. current[s] + 1 \in Index /\ current[s] < current[s] + 1
      BY <1>1, <2>1, SMT
    <3> QED
      BY <1>1, <3>1, <3>2, InvGoto DEF Loops
  <2>2. CASE ~(current[s] < Rows - 1)
    BY <1>1, <1>6, <2>2, InvSubstitute DEF Divide
  <2> QED
    BY <2>1, <2>2
<1>7. CASE Eliminate(s)
  <2>1. current[s] < row[s]
    BY <1>7 DEF Eliminate, IInv, Ranges
  <2>2. CASE row[s] < Rows - 1
    <3>1. Goto(s, "eliminate", current[s], row[s] + 1) /\ Update(s)
      BY <1>7, <2>2 DEF Eliminate
    <3>2. row[s] + 1 \in Index /\ current[s] < row[s] + 1
      BY <1>1, <2>1, <2>2, SMT
    <3> QED
      BY <1>1, <3>1, <3>2, InvGoto DEF Loops
  <2>3. CASE ~(row[s] < Rows - 1)
    <3>1. Goto(s, "pivot", current[s] + 1, row[s]) /\ Update(s)
      BY <1>7, <2>3 DEF Eliminate
    <3>2. current[s] < Rows - 1
      BY <1>1, <2>1, DistInverseAssumption, SMT DEF Index
    <3>3. current[s] + 1 \in Index
      BY <1>1, <3>2
    <3> QED
      BY <1>1, <3>1, <3>3, InvGoto DEF Loops
  <2> QED
    BY <2>2, <2>3
<1>8. CASE Substitute(s)
  <2>1. row[s] < current[s]
    BY <1>8 DEF Substitute, IInv, Ranges
  <2>2. CASE row[s] > 0
    <3>1. Goto(s, "substitute", current[s], row[s] - 1) /\ Update(s)
      BY <1>8, <2>2 DEF Substitute
    <3>2. row[s] - 1 \in Index /\ row[s] - 1 < current[s]
      BY <1>1, <2>1, <2>2, SMT
    <3> QED
      BY <1>1, <3>1, <3>2, InvGoto DEF Loops
  <2>3. CASE ~(row[s] > 0)
    <3>1. GotoSubstitute(s, current[s] - 1) /\ Update(s)
      BY <1>8, <2>3 DEF Substitute
    <3>2. current[s] - 1 \in Index
      BY <1>1, <2>1, SMT
    <3> QED
      BY <3>1, <3>2, InvSubstitute
  <2> QED
    BY <2>2, <2>3
<1> QED
  BY <1>2, <1>3, <1>4, <1>5, <1>6, <1>7, <1>8 DEF Step

LEMMA Inductive == IInv /\ [Next]_vars => IInv'
<1>1. SUFFICES ASSUME IInv, [Next]_vars PROVE IInv'
  OBVIOUS
<1>2. CASE UNCHANGED vars
  BY <1>1, <1>2 DEF vars, control, IInv, TypeOK, Ranges, Behind, Barrier
<1> QED
  BY <1>1, <1>2, InvStep DEF Next

(* Every index stays inside the matrix and every element a residue, for any *)
(* size, number of sites and prime, pivot search and races included.        *)
THEOREM TypeCorrect == Spec => []TypeOK
<1>1. IInv => TypeOK
  BY DEF IInv
<1> QED
  BY <1>1, InvInit, Inductive, PTL DEF Spec

-----------------------------------------------------------------------------
(* Until a fetch meets a write.                                             *)

(* What a site does to a matrix it does to its own columns, from what these *)
(* columns are.                                                             *)
LEMMA UpdatedByLoop ==
    ASSUME NEW m, NEW s
    PROVE  /\ loop[s] \in {"eliminate", "substitute"} =>
                Updated(m, s) = Subtracted(m, s, row[s], pulled[s][row[s]], current[s])
           /\ loop[s] = "pivot" /\ Pivot(s) # 0 =>
                Updated(m, s) = Divided(m, s, current[s], Pivot(s))
           /\ loop[s] = "pivot" /\ Pivot(s) = 0 /\ Candidates(s) # {} =>
                Updated(m, s) = Swapped(m, s, current[s], CheckRow(s))
  BY DEF Updated

LEMMA UpdatedElsewhere ==
    ASSUME TypeOK, NEW m \in Matrices, NEW s \in Site,
           NEW k \in Index, NEW j \in Index, j \notin Columns(s)
    PROVE  Updated(m, s)[k][j] = m[k][j]
<1>1. current[s] \in Index /\ row[s] \in Index
  BY DEF TypeOK
<1>2. ASSUME NEW i \in Index, NEW x, NEW r
      PROVE  /\ Subtracted(m, s, i, x, r)[k][j] = m[k][j]
             /\ Divided(m, s, i, x)[k][j] = m[k][j]
  BY DEF Subtracted, Divided, WithRow, Matrices
<1>3. ASSUME NEW i \in Index, NEW r \in Index
      PROVE  Swapped(m, s, i, r)[k][j] = m[k][j]
  BY DEF Swapped, WithRow, Matrices
<1>4. Candidates(s) # {} => CheckRow(s) \in Index
  BY CheckRowType DEF Candidates
<1>5. CASE loop[s] \in {"eliminate", "substitute"}
  BY <1>1, <1>2, <1>5, UpdatedByLoop
<1>6. CASE loop[s] = "pivot" /\ Pivot(s) # 0
  BY <1>1, <1>2, <1>6, UpdatedByLoop
<1>7. CASE loop[s] = "pivot" /\ Pivot(s) = 0 /\ Candidates(s) # {}
  BY <1>1, <1>3, <1>4, <1>7, UpdatedByLoop
<1>8. CASE /\ loop[s] \notin {"eliminate", "substitute"}
           /\ ~(loop[s] = "pivot" /\ Pivot(s) # 0)
           /\ ~(loop[s] = "pivot" /\ Pivot(s) = 0 /\ Candidates(s) # {})
  BY <1>8 DEF Updated
<1> QED
  BY <1>5, <1>6, <1>7, <1>8

LEMMA UpdatedFromColumn ==
    ASSUME TypeOK, NEW m \in Matrices, NEW o \in Matrices, NEW s \in Site,
           NEW k \in Index, NEW j \in Index, \A i \in Index : m[i][j] = o[i][j]
    PROVE  Updated(m, s)[k][j] = Updated(o, s)[k][j]
<1>1. current[s] \in Index /\ row[s] \in Index
  BY DEF TypeOK
<1>2. ASSUME NEW i \in Index, NEW x, NEW r \in Index
      PROVE  /\ Subtracted(m, s, i, x, r)[k][j] = Subtracted(o, s, i, x, r)[k][j]
             /\ Divided(m, s, i, x)[k][j] = Divided(o, s, i, x)[k][j]
  BY DEF Subtracted, Divided, WithRow, Matrices
<1>3. ASSUME NEW i \in Index, NEW r \in Index
      PROVE  Swapped(m, s, i, r)[k][j] = Swapped(o, s, i, r)[k][j]
  BY DEF Swapped, WithRow, Matrices
<1>4. Candidates(s) # {} => CheckRow(s) \in Index
  BY CheckRowType DEF Candidates
<1>5. CASE loop[s] \in {"eliminate", "substitute"}
  BY <1>1, <1>2, <1>5, UpdatedByLoop
<1>6. CASE loop[s] = "pivot" /\ Pivot(s) # 0
  BY <1>1, <1>2, <1>6, UpdatedByLoop
<1>7. CASE loop[s] = "pivot" /\ Pivot(s) = 0 /\ Candidates(s) # {}
  BY <1>1, <1>3, <1>4, <1>7, UpdatedByLoop
<1>8. CASE /\ loop[s] \notin {"eliminate", "substitute"}
           /\ ~(loop[s] = "pivot" /\ Pivot(s) # 0)
           /\ ~(loop[s] = "pivot" /\ Pivot(s) = 0 /\ Candidates(s) # {})
  BY <1>8 DEF Updated
<1> QED
  BY <1>5, <1>6, <1>7, <1>8

(* Which row a pass changes, except that of a pivot that is zero.           *)
LEMMA UpdatedOneRow ==
    ASSUME TypeOK, NEW m \in Matrices, NEW s \in Site, NEW k \in Index,
           loop[s] \in {"eliminate", "substitute"} => k # row[s],
           loop[s] = "pivot" => Pivot(s) # 0 /\ k # current[s]
    PROVE  Updated(m, s)[k] = m[k]
<1>1. current[s] \in Index /\ row[s] \in Index
  BY DEF TypeOK
<1>2. ASSUME NEW i \in Index, NEW x, NEW r, k # i
      PROVE  /\ Subtracted(m, s, i, x, r)[k] = m[k]
             /\ Divided(m, s, i, x)[k] = m[k]
  BY <1>2 DEF Subtracted, Divided, WithRow, Matrices
<1> QED
  BY <1>1, <1>2 DEF Updated

(* Where a site is in the program, what it has left behind of each kind of  *)
(* pass, and where it goes from here.                                       *)
Place(s) == <<loop[s], current[s], row[s]>>

Base(s) ==
    [b \in Barriers |-> IF waiting[s] /\ b = Barrier(s) THEN entered[s][b] - 1
                        ELSE entered[s][b]]

Substitution(col) ==
    IF col = 0 THEN <<"returned", 0, 0>> ELSE <<"substitute", col, col - 1>>

Successor(s) ==
    CASE loop[s] = "pivot" /\ Pivot(s) # 0 ->
            IF current[s] < Rows - 1 THEN <<"eliminate", current[s], current[s] + 1>>
            ELSE Substitution(Rows - 1)
      [] loop[s] = "pivot" /\ Pivot(s) = 0 /\ Candidates(s) # {} -> Place(s)
      [] loop[s] = "pivot" /\ Pivot(s) = 0 /\ Candidates(s) = {} ->
            <<"thrown", current[s], row[s]>>
      [] loop[s] = "eliminate" ->
            IF row[s] < Rows - 1 THEN <<"eliminate", current[s], row[s] + 1>>
            ELSE <<"pivot", current[s] + 1, row[s]>>
      [] loop[s] = "substitute" ->
            IF row[s] > 0 THEN <<"substitute", current[s], row[s] - 1>>
            ELSE Substitution(current[s] - 1)
      [] OTHER -> Place(s)

(* What a site fetches in this pass, if the matrix is m.                    *)
Wanted(s) == IF loop[s] = "pivot" THEN current[s] .. (Rows - 1) ELSE row[s] .. row[s]

Column(m, s) ==
    [k \in Index |-> IF k \in Wanted(s) THEN m[k][current[s]] ELSE 0]

(* Two sites are in the same pass, or one is in the pass that follows the   *)
(* one the other has not left yet.                                          *)
SamePass(s, p) == Place(s) = Place(p) /\ Base(s) = Base(p)

Ahead(p, s) == waiting[s] /\ Place(p) = Successor(s) /\ Base(p) = entered[s]

Paced == \A s, p \in Site : SamePass(s, p) \/ Ahead(s, p) \/ Ahead(p, s)

(* What was fetched is what another that comes to fetch it will find,       *)
FindsTheSame ==
    \A q, p \in Site :
        waiting[q] /\ ~waiting[p] /\ SamePass(p, q) => pulled[q] = Column(lhs, q)

(* also when sites that are still in the pass before make their updates,    *)
UpdatesElsewhere ==
    \A q, u \in Site :
        waiting[q] /\ Ahead(q, u) =>
            /\ pulled[q] = Column(lhs, q)
            /\ pulled[q] = Column(Updated(lhs, u), q)

(* and all have fetched the same.                                           *)
FetchedTheSame ==
    \A q, p \in Site :
        waiting[q] /\ waiting[p] /\ SamePass(p, q) => pulled[q] = pulled[p]

Agreed == Paced /\ FindsTheSame /\ UpdatesElsewhere /\ FetchedTheSame

-----------------------------------------------------------------------------
LEMMA BaseBelow ==
    ASSUME TypeOK, NEW s \in Site, NEW b \in Barriers
    PROVE  /\ entered[s][b] \in Nat /\ Base(s)[b] \in Int
           /\ Base(s)[b] = IF waiting[s] /\ b = Barrier(s) THEN entered[s][b] - 1
                           ELSE entered[s][b]
           /\ Base(s)[b] <= entered[s][b]
<1>1. entered[s][b] \in Nat
  BY DEF TypeOK
<1> QED
  BY <1>1, SMT DEF Base

(* Nobody is ahead of a site whose barrier some site has not come to.       *)
LEMMA AllCome ==
    ASSUME TypeOK, Paced, NEW q \in Site, NEW u \in Site, Ahead(q, u)
    PROVE  Released(u)
<1> DEFINE b == Barrier(u)
<1>1. b \in Barriers /\ waiting[u] /\ Base(q)[b] = entered[u][b]
  BY BarrierIsOne DEF Ahead
<1>2. ASSUME NEW x \in Site PROVE entered[x][b] >= entered[u][b]
  <2>1. /\ entered[x][b] \in Nat /\ entered[u][b] \in Nat /\ entered[q][b] \in Nat
        /\ Base(x)[b] \in Int /\ Base(x)[b] <= entered[x][b]
        /\ Base(q)[b] \in Int /\ Base(q)[b] <= entered[q][b]
    BY <1>1, BaseBelow
  <2>2. SamePass(x, q) \/ Ahead(x, q) \/ Ahead(q, x)
    BY DEF Paced
  <2>3. Base(x)[b] = Base(q)[b] \/ Base(x)[b] = entered[q][b] \/ Base(q)[b] = entered[x][b]
    BY <2>2 DEF SamePass, Ahead
  <2> QED
    BY <1>1, <2>1, <2>3, SMT
<1> QED
  BY <1>1, <1>2 DEF Released

(* A site that has been released: others in its pass have fetched too, and  *)
(* it is not ahead of any.                                                  *)
LEMMA OthersHaveFetched ==
    ASSUME TypeOK, Paced, NEW v \in Site, Released(v), NEW q \in Site
    PROVE  /\ SamePass(v, q) => waiting[q] /\ entered[q] = entered[v]
           /\ ~Ahead(v, q)
           /\ Base(v) # entered[v]
<1> DEFINE b == Barrier(v)
<1>1. b \in Barriers /\ waiting[v] /\ entered[q][b] >= entered[v][b]
  BY BarrierIsOne DEF Released
<1>2. /\ entered[q][b] \in Nat /\ entered[v][b] \in Nat
      /\ Base(v)[b] = entered[v][b] - 1
  BY <1>1, BaseBelow
<1>3. Base(v)[b] # entered[q][b] /\ Base(v)[b] # entered[v][b]
  BY <1>1, <1>2, SMT
<1>4. ASSUME SamePass(v, q) PROVE waiting[q] /\ entered[q] = entered[v]
  <2>1. Base(q) = Base(v) /\ loop[q] = loop[v]
    BY <1>4 DEF SamePass, Place
  <2>2. Barrier(q) = b
    BY <2>1 DEF Barrier
  <2>3. waiting[q]
    <3>1. Base(q)[b] = IF waiting[q] THEN entered[q][b] - 1 ELSE entered[q][b]
      BY <1>1, <2>2, BaseBelow
    <3> QED
      BY <1>3, <2>1, <3>1
  <2>4. ASSUME NEW c \in Barriers PROVE entered[q][c] = entered[v][c]
    <3>1. /\ entered[q][c] \in Nat /\ entered[v][c] \in Nat
          /\ Base(q)[c] = IF c = b THEN entered[q][c] - 1 ELSE entered[q][c]
          /\ Base(v)[c] = IF c = b THEN entered[v][c] - 1 ELSE entered[v][c]
      BY <1>1, <2>2, <2>3, BaseBelow
    <3> QED
      BY <2>1, <3>1, SMT
  <2>5. entered[q] \in [Barriers -> Nat] /\ entered[v] \in [Barriers -> Nat]
    BY DEF TypeOK
  <2> QED
    BY <2>3, <2>4, <2>5
<1> QED
  BY <1>3, <1>4 DEF Ahead

LEMMA SameSuccessor ==
    ASSUME NEW s, NEW p, Place(s) = Place(p), pulled[s] = pulled[p]
    PROVE  Successor(s) = Successor(p)
<1>1. loop[s] = loop[p] /\ current[s] = current[p] /\ row[s] = row[p]
  BY DEF Place
<1>2. Pivot(s) = Pivot(p) /\ Candidates(s) = Candidates(p)
  BY <1>1 DEF Pivot, Candidates
<1> QED
  BY <1>1, <1>2 DEF Successor, Place

-----------------------------------------------------------------------------
(* A site that does not act stays where it is.                              *)
Unmoved(s) ==
    /\ loop'[s] = loop[s] /\ current'[s] = current[s] /\ row'[s] = row[s]
    /\ waiting'[s] = waiting[s] /\ entered'[s] = entered[s]
    /\ pulled'[s] = pulled[s]

LEMMA UnmovedPlace ==
    ASSUME NEW s, loop'[s] = loop[s], current'[s] = current[s], row'[s] = row[s]
    PROVE  /\ Place(s)' = Place(s)
           /\ Wanted(s)' = Wanted(s)
           /\ Barrier(s)' = Barrier(s)
  BY DEF Place, Wanted, Barrier

LEMMA UnmovedSuccessor ==
    ASSUME NEW s, Unmoved(s)
    PROVE  /\ Place(s)' = Place(s)
           /\ Base(s)' = Base(s)
           /\ Successor(s)' = Successor(s)
<1>1. Place(s)' = Place(s) /\ Barrier(s)' = Barrier(s)
  BY UnmovedPlace DEF Unmoved
<1>2. Pivot(s)' = Pivot(s) /\ Candidates(s)' = Candidates(s)
  BY DEF Pivot, Candidates, Unmoved
<1>3. Base(s)' = Base(s)
  BY <1>1 DEF Base, Unmoved
<1>4. Successor(s)' = Successor(s)
  BY <1>1, <1>2 DEF Successor, Unmoved
<1> QED
  BY <1>1, <1>3, <1>4

LEMMA UnmovedColumn ==
    ASSUME NEW s, Unmoved(s)
    PROVE  Column(lhs, s)' = Column(lhs', s)
  BY UnmovedPlace DEF Column, Unmoved

LEMMA UnmovedUpdate ==
    ASSUME NEW u, Unmoved(u)
    PROVE  Updated(lhs, u)' = Updated(lhs', u)
<1>1. Pivot(u)' = Pivot(u) /\ Candidates(u)' = Candidates(u)
  BY DEF Pivot, Candidates, Unmoved
<1>2. CheckRow(u)' = CheckRow(u)
  BY <1>1 DEF CheckRow
<1> QED
  BY <1>1, <1>2 DEF Updated, Unmoved

LEMMA UnmovedAfter ==
    ASSUME NEW u, Unmoved(u), NEW q,
           loop'[q] = loop[q], current'[q] = current[q], row'[q] = row[q]
    PROVE  Column(Updated(lhs, u), q)' = Column(Updated(lhs', u), q)
  BY UnmovedUpdate, UnmovedPlace DEF Column

LEMMA AgreedInit == Init => Agreed
<1>1. SUFFICES ASSUME Init PROVE Agreed
  OBVIOUS
<1>2. \A s, p \in Site : SamePass(s, p)
  BY <1>1 DEF Init, SamePass, Place, Base
<1>3. \A s \in Site : ~waiting[s]
  BY <1>1 DEF Init
<1> QED
  BY <1>2, <1>3 DEF Agreed, Paced, FindsTheSame, UpdatesElsewhere, FetchedTheSame

(* The columns of an other site: not what is fetched from here.             *)
LEMMA ColumnElsewhere ==
    ASSUME TypeOK, NEW m \in Matrices, NEW u \in Site, NEW q \in Site,
           u # OwningLoc(current[q])
    PROVE  Column(Updated(m, u), q) = Column(m, q)
<1>1. current[q] \in Index
  BY DEF TypeOK
<1>2. current[q] \notin Columns(u)
  BY <1>1, ColumnHasOneOwner
<1>3. \A k \in Index : Updated(m, u)[k][current[q]] = m[k][current[q]]
  BY <1>1, <1>2, UpdatedElsewhere
<1> QED
  BY <1>3 DEF Column

(* What an owner makes of a column, when another site has changed others.   *)
LEMMA ColumnAfterBoth ==
    ASSUME TypeOK, NEW m \in Matrices, NEW u \in Site, NEW v \in Site, u # v,
           NEW q \in Site,
           u = OwningLoc(current[q])
    PROVE  Column(Updated(Updated(m, v), u), q) = Column(Updated(m, u), q)
<1>1. current[q] \in Index /\ Updated(m, v) \in Matrices
  BY UpdatedType DEF TypeOK
<1>2. current[q] \notin Columns(v)
  BY <1>1, ColumnHasOneOwner
<1>3. \A k \in Index : Updated(m, v)[k][current[q]] = m[k][current[q]]
  BY <1>1, <1>2, UpdatedElsewhere
<1>4. \A k \in Index : Updated(Updated(m, v), u)[k][current[q]]
                            = Updated(m, u)[k][current[q]]
  BY <1>1, <1>3, UpdatedFromColumn
<1> QED
  BY <1>4 DEF Column

-----------------------------------------------------------------------------
(* A fetch that meets no write.                                             *)
LEMMA FetchesColumn ==
    ASSUME NEW v \in Site, NEW i, NEW j, TypeOK, raced' = FALSE,
           Wanted(v) = i .. j, Fetch(v, current[v], i, j)
    PROVE  /\ pulled' = [pulled EXCEPT ![v] = Column(lhs, v)]
           /\ LET u == OwningLoc(current[v])
              IN  u # v /\ Released(u) => Column(Updated(lhs, u), v) = Column(lhs, v)
<1> DEFINE u == OwningLoc(current[v])
           old == [k \in Index |-> IF k \in i..j THEN lhs[k][current[v]] ELSE 0]
           fresh == [k \in Index |->
                        IF k \in i..j THEN Updated(lhs, u)[k][current[v]] ELSE 0]
           new == IF u # v /\ Released(u) THEN fresh ELSE old
<1>1. old = Column(lhs, v) /\ fresh = Column(Updated(lhs, u), v)
  BY DEF Column
<1>2. /\ \E late \in SUBSET {k \in i..j : new[k] # old[k]} :
            pulled' = [pulled EXCEPT ![v] =
                [k \in Index |-> IF k \in late THEN new[k] ELSE old[k]]]
      /\ raced' = (raced \/ new # old)
  BY DEF Fetch
<1>3. old = [k \in Index |-> old[k]]
  OBVIOUS
<1> HIDE DEF old, fresh, new
<1>4. new = old
  BY <1>2
<1>5. PICK late \in SUBSET {k \in i..j : new[k] # old[k]} :
        pulled' = [pulled EXCEPT ![v] =
            [k \in Index |-> IF k \in late THEN new[k] ELSE old[k]]]
  BY <1>2
<1>6. [k \in Index |-> IF k \in late THEN new[k] ELSE old[k]] = old
  BY <1>3, <1>4
<1>7. pulled' = [pulled EXCEPT ![v] = old]
  BY <1>5, <1>6
<1>8. u # v /\ Released(u) => fresh = old
  BY <1>4 DEF new
<1> QED
  BY <1>1, <1>7, <1>8 DEF u

(* It takes the site to the barrier, and does not move it in the program.   *)
LEMMA FetchStays ==
    ASSUME NEW v \in Site, NEW i, NEW j, TypeOK, Sites # 1,
           Fetch(v, current[v], i, j)
    PROVE  /\ \A p \in Site : Place(p)' = Place(p) /\ Base(p)' = Base(p)
           /\ ~waiting[v] /\ waiting'[v]
           /\ Base(v) = entered[v]
           /\ entered'[v][Barrier(v)] = entered[v][Barrier(v)] + 1
<1> DEFINE b == Barrier(v)
<1>1. /\ ~waiting[v]
      /\ waiting' = [waiting EXCEPT ![v] = TRUE]
      /\ entered' = [entered EXCEPT ![v][b] = @ + 1]
      /\ UNCHANGED <<lhs, loop, current, row>>
  BY DEF Fetch
<1>2. /\ waiting \in [Site -> BOOLEAN]
      /\ entered \in [Site -> [Barriers -> Nat]]
  BY DEF TypeOK
<1>3. b \in Barriers
  BY BarrierIsOne
<1>4. \A p : Place(p)' = Place(p) /\ Barrier(p)' = Barrier(p)
  BY <1>1, UnmovedPlace
<1> HIDE DEF b
<1>5. waiting'[v] /\ entered'[v] = [entered[v] EXCEPT ![b] = @ + 1]
  BY <1>1, <1>2
<1>6. entered'[v][b] = entered[v][b] + 1
  BY <1>2, <1>3, <1>5
<1>7. Base(v) = entered[v]
  BY <1>1, <1>2 DEF Base
<1>8. ASSUME NEW p \in Site PROVE Base(p)' = Base(p)
  <2>1. CASE p = v
    <3>1. Base(v)' = [c \in Barriers |-> IF c = b THEN entered'[v][c] - 1
                                          ELSE entered'[v][c]]
      BY <1>4, <1>5 DEF Base, b
    <3>2. \A c \in Barriers :
            (IF c = b THEN entered'[v][c] - 1 ELSE entered'[v][c]) = entered[v][c]
      BY <1>2, <1>3, <1>5, SMT
    <3> QED
      BY <1>2, <1>7, <2>1, <3>1, <3>2
  <2>2. CASE p # v
    <3>1. waiting'[p] = waiting[p] /\ entered'[p] = entered[p]
      BY <1>1, <1>2, <2>2
    <3> QED
      BY <1>4, <3>1 DEF Base
  <2> QED
    BY <2>1, <2>2
<1> QED
  BY <1>1, <1>4, <1>5, <1>6, <1>7, <1>8 DEF b

LEMMA FetchMovesOne ==
    ASSUME NEW v \in Site, NEW i, NEW j, TypeOK, Sites # 1,
           Fetch(v, current[v], i, j)
    PROVE  /\ \A p \in Site : p # v => Unmoved(p)
           /\ lhs' = lhs
  BY DEF Fetch, TypeOK, Unmoved

LEMMA FetchAhead ==
    ASSUME NEW v \in Site, NEW i, NEW j, TypeOK, Paced, Sites # 1,
           Fetch(v, current[v], i, j)
    PROVE  /\ \A p, q \in Site : SamePass(p, q)' <=> SamePass(p, q)
           /\ \A p, q \in Site : Ahead(p, q)' <=> Ahead(p, q)
           /\ \A p \in Site : ~Ahead(p, v)
<1> DEFINE b == Barrier(v)
<1>1. /\ \A p \in Site : Place(p)' = Place(p) /\ Base(p)' = Base(p)
      /\ ~waiting[v] /\ waiting'[v] /\ Base(v) = entered[v]
      /\ entered'[v][b] = entered[v][b] + 1
  BY FetchStays
<1>2. \A p \in Site : p # v => Unmoved(p)
  BY FetchMovesOne
<1>3. \A p, q \in Site : SamePass(p, q)' <=> SamePass(p, q)
  BY <1>1 DEF SamePass
<1>4. \A p, q \in Site : q # v => (Ahead(p, q)' <=> Ahead(p, q))
  BY <1>1, <1>2, UnmovedSuccessor DEF Ahead, Unmoved
<1>5. \A p \in Site : ~Ahead(p, v)
  BY <1>1 DEF Ahead
<1>6. \A q \in Site : ~Ahead(q, v)'
  <2>1. SUFFICES ASSUME NEW q \in Site, Ahead(q, v)' PROVE FALSE
    OBVIOUS
  <2>2. b \in Barriers
    BY BarrierIsOne
  <2>3. Base(q)[b] = entered'[v][b]
    BY <1>1, <2>1 DEF Ahead
  <2>4. /\ entered[v][b] \in Nat
        /\ Base(q)[b] \in Int /\ Base(q)[b] <= entered[q][b] /\ entered[q][b] \in Nat
    BY <2>2, BaseBelow
  <2>5. Base(q) = entered[v] \/ entered[v] = entered[q]
    BY <1>1, <1>5 DEF Paced, SamePass, Ahead
  <2> QED
    BY <1>1, <2>3, <2>4, <2>5, SMT
<1> QED
  BY <1>3, <1>4, <1>5, <1>6

LEMMA AgreedFetch ==
    ASSUME NEW v \in Site, NEW i, NEW j, TypeOK, Agreed, Sites # 1,
           raced' = FALSE, Wanted(v) = i .. j, Fetch(v, current[v], i, j)
    PROVE  Agreed'
<1>1. ~waiting[v] /\ waiting'[v]
  BY FetchStays
<1>2. /\ \A p \in Site : p # v => Unmoved(p)
      /\ lhs' = lhs
  BY FetchMovesOne
<1>3. pulled'[v] = Column(lhs, v)
  BY FetchesColumn DEF TypeOK
<1>4. \A p, q \in Site : SamePass(p, q)' <=> SamePass(p, q)
  BY FetchAhead DEF Agreed
<1>5. \A p, q \in Site : Ahead(p, q)' <=> Ahead(p, q)
  BY FetchAhead DEF Agreed
<1>6. \A p \in Site : ~Ahead(p, v)
  BY FetchAhead DEF Agreed
<1>7. Paced'
  BY <1>4, <1>5, <1>6 DEF Agreed, Paced
<1>8. \A q \in Site : q # v => /\ waiting'[q] = waiting[q]
                               /\ pulled'[q] = pulled[q]
                               /\ Column(lhs, q)' = Column(lhs, q)
  BY <1>2, UnmovedColumn DEF Unmoved
<1>9. Column(lhs, v)' = Column(lhs, v)
  BY <1>2 DEF Column, Wanted, Fetch
<1>10. FindsTheSame'
  BY <1>1, <1>3, <1>4, <1>8, <1>9 DEF Agreed, FindsTheSame
<1>11. UpdatesElsewhere'
  <2>1. SUFFICES ASSUME NEW q \in Site, NEW u \in Site, waiting'[q], Ahead(q, u)'
                 PROVE  /\ pulled'[q] = Column(lhs, q)'
                        /\ pulled'[q] = Column(Updated(lhs, u), q)'
    BY DEF UpdatesElsewhere
  <2>2. u # v /\ Ahead(q, u)
    BY <1>5, <1>6, <2>1
  <2>3. CASE q # v
    <3>1. Column(Updated(lhs, u), q)' = Column(Updated(lhs, u), q)
      BY <1>2, <2>2, <2>3, UnmovedAfter DEF Unmoved
    <3> QED
      BY <1>8, <2>1, <2>2, <2>3, <3>1 DEF Agreed, UpdatesElsewhere
  <2>4. CASE q = v
    <3>1. Released(u)
      BY <2>2, AllCome DEF Agreed
    <3>2. Column(Updated(lhs, u), v) = Column(lhs, v)
      <4>1. CASE u = OwningLoc(current[v])
        BY <2>2, <3>1, <4>1, FetchesColumn
      <4>2. CASE u # OwningLoc(current[v])
        BY <4>2, ColumnElsewhere DEF TypeOK
      <4> QED
        BY <4>1, <4>2
    <3>3. Column(Updated(lhs, u), v)' = Column(Updated(lhs, u), v)
      BY <1>2, <2>2, UnmovedAfter DEF Fetch
    <3> QED
      BY <1>3, <1>9, <2>4, <3>2, <3>3
  <2> QED
    BY <2>3, <2>4
<1>12. FetchedTheSame'
  <2>1. SUFFICES ASSUME NEW q \in Site, NEW p \in Site,
                        waiting'[q], waiting'[p], SamePass(p, q)
                 PROVE  pulled'[q] = pulled'[p]
    BY <1>4 DEF FetchedTheSame
  <2>2. ASSUME NEW x \in Site, x # v, waiting[x], SamePass(v, x) \/ SamePass(x, v)
        PROVE  pulled[x] = Column(lhs, v)
    <3>1. SamePass(v, x)
      BY <2>2 DEF SamePass
    <3>2. pulled[x] = Column(lhs, x)
      BY <1>1, <2>2, <3>1 DEF Agreed, FindsTheSame
    <3>3. Column(lhs, x) = Column(lhs, v)
      BY <3>1 DEF SamePass, Place, Column, Wanted
    <3> QED
      BY <3>2, <3>3
  <2> QED
    BY <1>3, <1>8, <2>1, <2>2 DEF Agreed, FetchedTheSame
<1> QED
  BY <1>7, <1>10, <1>11, <1>12 DEF Agreed

(* An update, after which the site goes on to the pass that follows.        *)
LEMMA UpdateAhead ==
    ASSUME NEW v \in Site, TypeOK, Paced, FetchedTheSame, Update(v),
           Place(v)' = Successor(v),
           \A p \in Site : p # v => /\ loop'[p] = loop[p]
                                    /\ current'[p] = current[p]
                                    /\ row'[p] = row[p]
    PROVE  /\ \A p, q \in Site : p # v /\ q # v =>
                /\ SamePass(p, q)' <=> SamePass(p, q)
                /\ Ahead(p, q)' <=> Ahead(p, q)
           /\ \A q \in Site : q # v =>
                /\ SamePass(q, v)' <=> Ahead(q, v)
                /\ SamePass(v, q)' <=> Ahead(q, v)
                /\ Ahead(v, q)' <=> SamePass(v, q)
           /\ \A q \in Site : SamePass(v, q) \/ Ahead(q, v)
           /\ \A q \in Site : ~Ahead(v, q) /\ ~Ahead(q, v)'
           /\ \A q \in Site : SamePass(v, q) =>
                /\ waiting[q] /\ entered[q] = entered[v] /\ pulled[q] = pulled[v]
                /\ Successor(q) = Successor(v)
<1>1. /\ Released(v) /\ waiting[v] /\ ~waiting'[v]
      /\ entered' = entered
      /\ \A p \in Site : p # v => Unmoved(p)
  BY DEF Update, Released, TypeOK, Unmoved
<1>2. Base(v)' = entered[v]
  BY <1>1 DEF Base, TypeOK
<1>3. \A p \in Site : p # v => /\ Place(p)' = Place(p)
                               /\ Base(p)' = Base(p)
                               /\ Successor(p)' = Successor(p)
                               /\ waiting'[p] = waiting[p]
  BY <1>1, UnmovedSuccessor DEF Unmoved
<1>4. \A p, q \in Site : p # v /\ q # v =>
            /\ SamePass(p, q)' <=> SamePass(p, q)
            /\ Ahead(p, q)' <=> Ahead(p, q)
  BY <1>1, <1>3 DEF SamePass, Ahead
<1>5. \A q \in Site : q # v =>
            /\ SamePass(q, v)' <=> Ahead(q, v)
            /\ SamePass(v, q)' <=> Ahead(q, v)
  BY <1>1, <1>2, <1>3 DEF SamePass, Ahead
<1>6. \A q \in Site : /\ SamePass(v, q) => waiting[q] /\ entered[q] = entered[v]
                      /\ ~Ahead(v, q) /\ ~Ahead(q, v)'
  BY <1>1, OthersHaveFetched DEF Ahead
<1>7. \A q \in Site : SamePass(v, q) \/ Ahead(q, v)
  BY <1>6 DEF Paced
<1>8. ASSUME NEW q \in Site, SamePass(v, q)
      PROVE  pulled[q] = pulled[v] /\ Successor(q) = Successor(v)
  <2>1. pulled[v] = pulled[q]
    BY <1>1, <1>6, <1>8 DEF FetchedTheSame, SamePass
  <2> QED
    BY <1>8, <2>1, SameSuccessor DEF SamePass
<1>9. ASSUME NEW q \in Site, q # v PROVE Ahead(v, q)' <=> SamePass(v, q)
  <2>1. SamePass(v, q) => Ahead(v, q)'
    BY <1>1, <1>2, <1>3, <1>6, <1>8, <1>9 DEF Ahead
  <2>2. ASSUME Ahead(v, q)', Ahead(q, v) PROVE FALSE
    <3> DEFINE b == Barrier(q)
    <3>1. /\ waiting[q] /\ entered[v] = entered[q] /\ Base(q) = entered[v]
      BY <1>1, <1>2, <1>3, <1>9, <2>2 DEF Ahead
    <3>2. b \in Barriers
      BY BarrierIsOne
    <3>3. Base(q)[b] = entered[q][b] - 1 /\ entered[q][b] \in Nat
      BY <3>1, <3>2, BaseBelow
    <3> HIDE DEF b
    <3> QED
      BY <3>1, <3>3, SMT
  <2> QED
    BY <1>7, <2>1, <2>2
<1> QED
  BY <1>4, <1>5, <1>6, <1>7, <1>8, <1>9

LEMMA AgreedUpdate ==
    ASSUME NEW v \in Site, TypeOK, Agreed, Update(v),
           Place(v)' = Successor(v),
           \A p \in Site : p # v => /\ loop'[p] = loop[p]
                                    /\ current'[p] = current[p]
                                    /\ row'[p] = row[p]
    PROVE  Agreed'
<1>1. /\ Released(v) /\ waiting[v] /\ ~waiting'[v]
      /\ lhs' = Updated(lhs, v)
      /\ entered' = entered /\ pulled' = pulled
      /\ \A p \in Site : p # v => Unmoved(p)
  BY DEF Update, Released, TypeOK, Unmoved
<1>2. \A p \in Site : p # v => waiting'[p] = waiting[p]
  BY <1>1 DEF Unmoved
<1>3. \A p, q \in Site : p # v /\ q # v =>
            /\ SamePass(p, q)' <=> SamePass(p, q)
            /\ Ahead(p, q)' <=> Ahead(p, q)
  BY UpdateAhead DEF Agreed
<1>4. \A q \in Site : q # v =>
            /\ SamePass(q, v)' <=> Ahead(q, v)
            /\ SamePass(v, q)' <=> Ahead(q, v)
            /\ Ahead(v, q)' <=> SamePass(v, q)
  BY UpdateAhead DEF Agreed
<1>5. \A q \in Site : /\ SamePass(v, q) => waiting[q] /\ entered[q] = entered[v]
                      /\ ~Ahead(v, q) /\ ~Ahead(q, v)'
  BY UpdateAhead DEF Agreed
<1>6. \A q \in Site : SamePass(v, q) \/ Ahead(q, v)
  BY UpdateAhead DEF Agreed
<1>7. Paced'
  <2>1. SUFFICES ASSUME NEW s \in Site, NEW p \in Site
                 PROVE  (SamePass(s, p) \/ Ahead(s, p) \/ Ahead(p, s))'
    BY DEF Paced
  <2>2. CASE s # v /\ p # v
    BY <1>3, <2>2 DEF Agreed, Paced
  <2>3. CASE s = v /\ p = v
    BY <2>3 DEF SamePass
  <2>4. CASE s = v /\ p # v
    BY <1>4, <1>6, <2>4
  <2>5. CASE s # v /\ p = v
    BY <1>4, <1>6, <2>5
  <2> QED
    BY <2>2, <2>3, <2>4, <2>5
<1>8. \A q \in Site : q # v => Column(lhs, q)' = Column(Updated(lhs, v), q)
  BY <1>1, UnmovedColumn
<1>9. FindsTheSame'
  <2>1. SUFFICES ASSUME NEW q \in Site, NEW p \in Site,
                        waiting'[q], ~waiting'[p], SamePass(p, q)'
                 PROVE  pulled'[q] = Column(lhs, q)'
    BY DEF FindsTheSame
  <2>2. q # v /\ waiting[q]
    BY <1>1, <1>2, <2>1
  <2>3. Ahead(q, v)
    <3>1. CASE p = v
      BY <1>4, <2>1, <2>2, <3>1
    <3>2. CASE p # v
      <4>1. ~waiting[p] /\ SamePass(p, q)
        BY <1>2, <1>3, <2>1, <2>2, <3>2
      <4>2. Ahead(p, v)
        BY <1>5, <1>6, <4>1
      <4> QED
        BY <4>1, <4>2 DEF SamePass, Ahead
    <3> QED
      BY <3>1, <3>2
  <2>4. pulled[q] = Column(Updated(lhs, v), q)
    BY <2>2, <2>3 DEF Agreed, UpdatesElsewhere
  <2> QED
    BY <1>1, <1>8, <2>2, <2>4
<1>10. UpdatesElsewhere'
  <2>1. SUFFICES ASSUME NEW q \in Site, NEW u \in Site, waiting'[q], Ahead(q, u)'
                 PROVE  /\ pulled'[q] = Column(lhs, q)'
                        /\ pulled'[q] = Column(Updated(lhs, u), q)'
    BY DEF UpdatesElsewhere
  <2>2. q # v /\ u # v /\ waiting[q] /\ Ahead(q, u)
    <3>1. q # v /\ u # v
      BY <1>1, <2>1 DEF Ahead
    <3> QED
      BY <1>2, <1>3, <2>1, <3>1
  <2>3. Ahead(q, v)
    <3>1. SUFFICES ASSUME SamePass(v, q) PROVE FALSE
      BY <1>6
    <3> DEFINE b == Barrier(v)
    <3>2. /\ b \in Barriers
          /\ entered[u][b] >= entered[v][b]
          /\ Base(v)[b] = entered[u][b]
      BY <1>1, <2>2, <3>1, BarrierIsOne DEF Released, SamePass, Ahead
    <3>3. /\ Base(v)[b] = entered[v][b] - 1
          /\ entered[v][b] \in Nat /\ entered[u][b] \in Nat
      BY <1>1, <3>2, BaseBelow
    <3> HIDE DEF b
    <3> QED
      BY <3>2, <3>3, SMT
  <2>4. /\ pulled[q] = Column(Updated(lhs, v), q)
        /\ pulled[q] = Column(Updated(lhs, u), q)
    BY <2>2, <2>3 DEF Agreed, UpdatesElsewhere
  <2>5. Column(Updated(lhs, u), q)' = Column(Updated(Updated(lhs, v), u), q)
    BY <1>1, <2>2, UnmovedAfter DEF Unmoved
  <2>6. Column(Updated(Updated(lhs, v), u), q) = pulled[q]
    <3>1. lhs \in Matrices /\ Updated(lhs, v) \in Matrices
      BY UpdatedType DEF TypeOK
    <3>2. CASE u = OwningLoc(current[q])
      BY <2>2, <2>4, <3>1, <3>2, ColumnAfterBoth
    <3>3. CASE u # OwningLoc(current[q])
      BY <2>4, <3>1, <3>3, ColumnElsewhere
    <3> QED
      BY <3>2, <3>3
  <2> QED
    BY <1>1, <1>8, <2>2, <2>4, <2>5, <2>6
<1>11. FetchedTheSame'
  BY <1>1, <1>2, <1>3 DEF Agreed, FetchedTheSame
<1> QED
  BY <1>7, <1>9, <1>10, <1>11 DEF Agreed

-----------------------------------------------------------------------------
(* Every action behind a barrier takes its site where Successor says.       *)
LEMMA GotoPlace ==
    ASSUME NEW s \in Site, TypeOK, NEW l, NEW c, NEW r, Goto(s, l, c, r)
    PROVE  /\ Place(s)' = <<l, c, r>>
           /\ \A p \in Site : p # s => /\ loop'[p] = loop[p]
                                       /\ current'[p] = current[p]
                                       /\ row'[p] = row[p]
  BY DEF Goto, TypeOK, Place

LEMMA SubstitutionPlace ==
    ASSUME NEW s \in Site, TypeOK, NEW col, GotoSubstitute(s, col)
    PROVE  /\ Place(s)' = Substitution(col)
           /\ \A p \in Site : p # s => /\ loop'[p] = loop[p]
                                       /\ current'[p] = current[p]
                                       /\ row'[p] = row[p]
<1>1. CASE col = 0
  BY <1>1, GotoPlace DEF GotoSubstitute, Substitution
<1>2. CASE col # 0
  BY <1>2, GotoPlace DEF GotoSubstitute, Substitution
<1> QED
  BY <1>1, <1>2

LEMMA SuccessorByLoop ==
    ASSUME NEW s
    PROVE  /\ loop[s] = "pivot" /\ Pivot(s) # 0 =>
                Successor(s) = IF current[s] < Rows - 1
                               THEN <<"eliminate", current[s], current[s] + 1>>
                               ELSE Substitution(Rows - 1)
           /\ loop[s] = "pivot" /\ Pivot(s) = 0 /\ Candidates(s) # {} =>
                Successor(s) = Place(s)
           /\ loop[s] = "pivot" /\ Pivot(s) = 0 /\ Candidates(s) = {} =>
                Successor(s) = <<"thrown", current[s], row[s]>>
           /\ loop[s] = "eliminate" =>
                Successor(s) = IF row[s] < Rows - 1
                               THEN <<"eliminate", current[s], row[s] + 1>>
                               ELSE <<"pivot", current[s] + 1, row[s]>>
           /\ loop[s] = "substitute" =>
                Successor(s) = IF row[s] > 0
                               THEN <<"substitute", current[s], row[s] - 1>>
                               ELSE Substitution(current[s] - 1)
           /\ loop[s] \notin Loops => Successor(s) = Place(s)
  BY DEF Successor, Loops

(* What a site does next: it fetches, or makes its update and goes on.      *)
Fetches(s) == \E i, j : Wanted(s) = i .. j /\ Fetch(s, current[s], i, j)

Proceeds(s) ==
    /\ Update(s)
    /\ Place(s)' = Successor(s)
    /\ \A p \in Site : p # s => /\ loop'[p] = loop[p]
                                /\ current'[p] = current[p]
                                /\ row'[p] = row[p]

(* What a step is, of whatever loop.                                        *)
LEMMA StepKinds ==
    ASSUME NEW s \in Site, TypeOK, Step(s)
    PROVE  /\ loop[s] \in Loops
           /\ Fetches(s) \/ Proceeds(s)
<1>1. CASE FetchPivot(s)
  BY <1>1 DEF FetchPivot, Wanted, Fetches, Loops
<1>2. CASE FetchFactor(s)
  BY <1>2 DEF FetchFactor, Wanted, Fetches, Loops
<1>3. CASE Swap(s)
  <2>1. Place(s)' = Successor(s)
    BY <1>3, SuccessorByLoop, UnmovedPlace DEF Swap
  <2> QED
    BY <1>3, <2>1 DEF Swap, Proceeds, Loops
<1>4. CASE Throw(s)
  <2>1. /\ Update(s) /\ Goto(s, "thrown", current[s], row[s])
        /\ Successor(s) = <<"thrown", current[s], row[s]>>
        /\ loop[s] \in Loops
    BY <1>4, SuccessorByLoop DEF Throw, Loops
  <2> QED
    BY <2>1, GotoPlace DEF Proceeds
<1>5. CASE Divide(s)
  <2>1. Update(s) /\ loop[s] = "pivot" /\ Pivot(s) # 0 /\ loop[s] \in Loops
    BY <1>5 DEF Divide, Loops
  <2>2. CASE current[s] < Rows - 1
    <3>1. Goto(s, "eliminate", current[s], current[s] + 1)
      BY <1>5, <2>2 DEF Divide
    <3>2. Successor(s) = <<"eliminate", current[s], current[s] + 1>>
      BY <2>1, <2>2, SuccessorByLoop
    <3> QED
      BY <2>1, <3>1, <3>2, GotoPlace DEF Proceeds
  <2>3. CASE ~(current[s] < Rows - 1)
    <3>1. GotoSubstitute(s, Rows - 1)
      BY <1>5, <2>3 DEF Divide
    <3>2. Successor(s) = Substitution(Rows - 1)
      BY <2>1, <2>3, SuccessorByLoop
    <3> QED
      BY <2>1, <3>1, <3>2, SubstitutionPlace DEF Proceeds
  <2> QED
    BY <2>2, <2>3
<1>6. CASE Eliminate(s)
  <2>1. Update(s) /\ loop[s] = "eliminate" /\ loop[s] \in Loops
    BY <1>6 DEF Eliminate, Loops
  <2>2. CASE row[s] < Rows - 1
    <3>1. Goto(s, "eliminate", current[s], row[s] + 1)
      BY <1>6, <2>2 DEF Eliminate
    <3>2. Successor(s) = <<"eliminate", current[s], row[s] + 1>>
      BY <2>1, <2>2, SuccessorByLoop
    <3> QED
      BY <2>1, <3>1, <3>2, GotoPlace DEF Proceeds
  <2>3. CASE ~(row[s] < Rows - 1)
    <3>1. Goto(s, "pivot", current[s] + 1, row[s])
      BY <1>6, <2>3 DEF Eliminate
    <3>2. Successor(s) = <<"pivot", current[s] + 1, row[s]>>
      BY <2>1, <2>3, SuccessorByLoop
    <3> QED
      BY <2>1, <3>1, <3>2, GotoPlace DEF Proceeds
  <2> QED
    BY <2>2, <2>3
<1>7. CASE Substitute(s)
  <2>1. Update(s) /\ loop[s] = "substitute" /\ loop[s] \in Loops
    BY <1>7 DEF Substitute, Loops
  <2>2. CASE row[s] > 0
    <3>1. Goto(s, "substitute", current[s], row[s] - 1)
      BY <1>7, <2>2 DEF Substitute
    <3>2. Successor(s) = <<"substitute", current[s], row[s] - 1>>
      BY <2>1, <2>2, SuccessorByLoop
    <3> QED
      BY <2>1, <3>1, <3>2, GotoPlace DEF Proceeds
  <2>3. CASE ~(row[s] > 0)
    <3>1. GotoSubstitute(s, current[s] - 1)
      BY <1>7, <2>3 DEF Substitute
    <3>2. Successor(s) = Substitution(current[s] - 1)
      BY <2>1, <2>3, SuccessorByLoop
    <3> QED
      BY <2>1, <3>1, <3>2, SubstitutionPlace DEF Proceeds
  <2> QED
    BY <2>2, <2>3
<1> QED
  BY <1>1, <1>2, <1>3, <1>4, <1>5, <1>6, <1>7 DEF Step

LEMMA NotAheadOfItself == TypeOK => \A s \in Site : ~Ahead(s, s)
<1>1. SUFFICES ASSUME TypeOK, NEW s \in Site, Ahead(s, s) PROVE FALSE
  OBVIOUS
<1> DEFINE b == Barrier(s)
<1>2. b \in Barriers /\ waiting[s] /\ Base(s)[b] = entered[s][b]
  BY <1>1, BarrierIsOne DEF Ahead
<1>3. entered[s][b] \in Nat /\ Base(s)[b] = entered[s][b] - 1
  BY <1>1, <1>2, BaseBelow
<1> QED
  BY <1>2, <1>3, SMT

LEMMA NotAheadOfItselfNext == TypeOK' => (\A s \in Site : ~Ahead(s, s))'
  BY NotAheadOfItself, PTL

(* With one site there is nothing to agree about.                           *)
LEMMA AloneAgreed ==
    ASSUME TypeOK, Sites = 1
    PROVE  Agreed /\ \A s, p \in Site : ~Ahead(s, p)
<1>1. \A s, p \in Site : s = p
  BY SMT DEF Site
<1>2. \A s, p \in Site : ~Ahead(s, p)
  BY <1>1, NotAheadOfItself
<1>3. \A s, p \in Site : SamePass(s, p)
  BY <1>1 DEF SamePass
<1> QED
  BY <1>1, <1>2, <1>3
     DEF Agreed, Paced, FindsTheSame, UpdatesElsewhere, FetchedTheSame

LEMMA AloneAgreedNext == TypeOK' => (Sites = 1 => Agreed)'
<1>1. TypeOK => (Sites = 1 => Agreed)
  BY AloneAgreed
<1> QED
  BY <1>1, PTL

LEMMA RacedStays ==
    ASSUME NEW s \in Site, TypeOK, Step(s), ~raced'
    PROVE  raced' = FALSE /\ ~raced
  BY DEF Step, FetchPivot, FetchFactor, Fetch, Swap, Throw, Divide, Eliminate,
         Substitute, Update, TypeOK

LEMMA AgreedStutters ==
    ASSUME Agreed, UNCHANGED vars
    PROVE  /\ Agreed'
           /\ \A s, p \in Site : Ahead(s, p)' <=> Ahead(s, p)
<1>1. \A s \in Site : Unmoved(s)
  BY DEF vars, control, Unmoved
<1>2. lhs' = lhs
  BY DEF vars
<1>3. \A s, p \in Site : /\ SamePass(s, p)' <=> SamePass(s, p)
                         /\ Ahead(s, p)' <=> Ahead(s, p)
  BY <1>1, UnmovedSuccessor DEF SamePass, Ahead, Unmoved
<1>4. \A q \in Site : Column(lhs, q)' = Column(lhs, q)
  BY <1>1, <1>2, UnmovedColumn
<1>5. \A q, u \in Site : Column(Updated(lhs, u), q)' = Column(Updated(lhs, u), q)
  BY <1>1, <1>2, UnmovedAfter DEF Unmoved
<1>6. \A q \in Site : waiting'[q] = waiting[q] /\ pulled'[q] = pulled[q]
  BY <1>1 DEF Unmoved
<1> QED
  BY <1>3, <1>4, <1>5, <1>6
     DEF Agreed, Paced, FindsTheSame, UpdatesElsewhere, FetchedTheSame

LEMMA AgreedStep ==
    ASSUME NEW s \in Site, TypeOK, TypeOK', Agreed, raced' = FALSE, Step(s)
    PROVE  Agreed'
<1>1. CASE Sites = 1
  BY <1>1, AloneAgreedNext
<1>2. CASE Sites # 1
  <2>1. Fetches(s) => Agreed'
    BY <1>2, AgreedFetch DEF Fetches
  <2>2. Proceeds(s) => Agreed'
    BY AgreedUpdate DEF Proceeds
  <2> QED
    BY <2>1, <2>2, StepKinds
<1> QED
  BY <1>1, <1>2

AgreedUnlessRaced == ~raced => Agreed

LEMMA AgreedInductive ==
    IInv /\ AgreedUnlessRaced /\ [Next]_vars => AgreedUnlessRaced'
<1>1. SUFFICES ASSUME IInv, AgreedUnlessRaced, [Next]_vars, ~raced'
               PROVE  Agreed'
  BY DEF AgreedUnlessRaced
<1>2. TypeOK /\ TypeOK'
  BY <1>1, Inductive DEF IInv
<1>3. CASE UNCHANGED vars
  BY <1>1, <1>3, AgreedStutters DEF vars, AgreedUnlessRaced
<1>4. ASSUME NEW s \in Site, Step(s) PROVE Agreed'
  BY <1>1, <1>2, <1>4, RacedStays, AgreedStep DEF AgreedUnlessRaced
<1> QED
  BY <1>1, <1>3, <1>4 DEF Next

(* A site that comes to a fetch and meets a writer follows right behind it. *)
LEMMA RacesBehind ==
    ASSUME NEW s \in Site, NEW u \in Site, TypeOK, Agreed,
           ~waiting[s], Released(u), u # s
    PROVE  Place(s) = Successor(u)
<1>1. ~SamePass(u, s) /\ ~Ahead(u, s)
  BY OthersHaveFetched DEF Agreed
<1>2. Ahead(s, u)
  BY <1>1 DEF Agreed, Paced
<1> QED
  BY <1>2 DEF Ahead

(* What it fetches for an elimination is not in the row being written.      *)
LEMMA FactorNotWritten ==
    ASSUME NEW s \in Site, NEW u \in Site, TypeOK,
           Place(s) = Successor(u),
           loop[s] \in {"eliminate", "substitute"},
           loop[s] = "substitute" => current[s] # 1
    PROVE  Updated(lhs, u)[row[s]] = lhs[row[s]]
<1>1. /\ lhs \in Matrices
      /\ row[s] \in Index /\ row[u] \in Index
      /\ current[s] \in Index /\ current[u] \in Index
      /\ \A k \in Index : k \in Nat /\ k < Rows
      /\ Rows \in Nat \ {0}
      /\ loop[u] \in Loops \cup {"returned", "thrown"}
  BY DistInverseAssumption, SMT DEF TypeOK, Index
<1>2. ASSUME loop[u] = "pivot"
      PROVE  Pivot(u) # 0 /\ row[s] # current[u]
  <2>1. Pivot(u) # 0
    <3>1. SUFFICES ASSUME Pivot(u) = 0 PROVE loop[s] \in {"pivot", "thrown"}
      OBVIOUS
    <3>2. Place(s) = Place(u) \/ Place(s) = <<"thrown", current[u], row[u]>>
      BY <1>2, <3>1, SuccessorByLoop
    <3> QED
      BY <1>2, <3>2 DEF Place
  <2>2. CASE current[u] < Rows - 1
    <3>1. Place(s) = <<"eliminate", current[u], current[u] + 1>>
      BY <1>2, <2>1, <2>2, SuccessorByLoop
    <3>2. row[s] = current[u] + 1
      BY <3>1 DEF Place
    <3> QED
      BY <1>1, <2>1, <3>2, SMT
  <2>3. CASE ~(current[u] < Rows - 1)
    <3>1. Place(s) = Substitution(Rows - 1)
      BY <1>2, <2>1, <2>3, SuccessorByLoop
    <3>2. row[s] = Rows - 1 - 1
      BY <3>1 DEF Place, Substitution
    <3>3. current[u] = Rows - 1
      BY <1>1, <2>3, SMT
    <3> QED
      BY <1>1, <2>1, <3>2, <3>3, SMT
  <2> QED
    BY <2>2, <2>3
<1>3. ASSUME loop[u] = "eliminate" PROVE row[s] # row[u]
  <2>1. CASE row[u] < Rows - 1
    <3>1. Place(s) = <<"eliminate", current[u], row[u] + 1>>
      BY <1>3, <2>1, SuccessorByLoop
    <3>2. row[s] = row[u] + 1
      BY <3>1 DEF Place
    <3> QED
      BY <1>1, <3>2, SMT
  <2>2. CASE ~(row[u] < Rows - 1)
    <3>1. Place(s) = <<"pivot", current[u] + 1, row[u]>>
      BY <1>3, <2>2, SuccessorByLoop
    <3> QED
      BY <3>1 DEF Place
  <2> QED
    BY <2>1, <2>2
<1>4. ASSUME loop[u] = "substitute" PROVE row[s] # row[u]
  <2>1. CASE row[u] > 0
    <3>1. Place(s) = <<"substitute", current[u], row[u] - 1>>
      BY <1>4, <2>1, SuccessorByLoop
    <3>2. row[s] = row[u] - 1
      BY <3>1 DEF Place
    <3> QED
      BY <1>1, <3>2, SMT
  <2>2. CASE ~(row[u] > 0)
    <3>1. Place(s) = Substitution(current[u] - 1)
      BY <1>4, <2>2, SuccessorByLoop
    <3>2. /\ loop[s] = "substitute"
          /\ current[s] = current[u] - 1
          /\ row[s] = current[u] - 1 - 1
      BY <3>1 DEF Place, Substitution
    <3>3. row[u] = 0
      BY <1>1, <2>2, SMT
    <3> QED
      BY <1>1, <3>2, <3>3, SMT
  <2> QED
    BY <2>1, <2>2
<1> QED
  BY <1>1, <1>2, <1>3, <1>4, UpdatedOneRow

LEMMA RaceAtPivot ==
    ASSUME NEW s \in Site, IInv, AgreedUnlessRaced, Step(s), raced' # raced
    PROVE  /\ ~waiting[s] /\ waiting'[s]
           /\ \/ loop[s] = "pivot"
              \/ loop[s] = "substitute" /\ current[s] = 1
<1>1. TypeOK
  BY DEF IInv
<1>2. FetchPivot(s) \/ FetchFactor(s)
  BY DEF Step, Swap, Throw, Divide, Eliminate, Substitute, Update
<1>3. ~waiting[s] /\ waiting'[s]
  BY <1>1, <1>2 DEF FetchPivot, FetchFactor, Fetch, TypeOK
<1>4. CASE FetchPivot(s)
  BY <1>3, <1>4 DEF FetchPivot
<1>5. CASE FetchFactor(s)
  <2>1. /\ loop[s] \in {"eliminate", "substitute"}
        /\ Fetch(s, current[s], row[s], row[s])
    BY <1>5 DEF FetchFactor
  <2>2. SUFFICES ASSUME loop[s] = "substitute" => current[s] # 1
                 PROVE  FALSE
    BY <1>3, <2>1
  <2> DEFINE u == OwningLoc(current[s])
             old == [k \in Index |-> IF k \in row[s]..row[s] THEN lhs[k][current[s]] ELSE 0]
             fresh == [k \in Index |->
                IF k \in row[s]..row[s] THEN Updated(lhs, u)[k][current[s]] ELSE 0]
             new == IF u # s /\ Released(u) THEN fresh ELSE old
  <2>3. raced' = (raced \/ new # old)
    BY <2>1 DEF Fetch
  <2>4. current[s] \in Index /\ row[s] \in Index /\ u \in Site /\ raced \in BOOLEAN
    BY <1>1, OwnerHoldsColumn DEF TypeOK
  <2>5. (u # s /\ Released(u) => Updated(lhs, u)[row[s]] = lhs[row[s]]) => new = old
    <3>1. \A k \in row[s]..row[s] : k = row[s]
      BY <2>4, DistInverseAssumption, SMT DEF Index
    <3> QED
      BY <3>1
  <2> HIDE DEF u, old, fresh, new
  <2>6. new # old /\ ~raced
    BY <2>3, <2>4
  <2>7. u # s /\ Released(u) /\ Updated(lhs, u)[row[s]] # lhs[row[s]]
    BY <2>5, <2>6
  <2>8. Agreed
    BY <2>6 DEF AgreedUnlessRaced
  <2>9. Place(s) = Successor(u)
    BY <1>1, <1>3, <2>4, <2>7, <2>8, RacesBehind
  <2> QED
    BY <1>1, <2>1, <2>2, <2>4, <2>7, <2>9, FactorNotWritten
<1> QED
  BY <1>2, <1>4, <1>5

(* Passes that follow one another write one row and fetch another, so that  *)
(* one barrier a pass is enough for them: only the fetch of a pivot, and    *)
(* the last one of the substitution, can meet a write to what it fetches,   *)
(* for any number of rows and sites.                                        *)
THEOREM FactorsDoNotRace == Spec => RacesAtPivots
<1>1. IInv /\ AgreedUnlessRaced /\ [Next]_vars =>
        [raced' # raced => \E s \in Site :
            /\ ~waiting[s] /\ waiting'[s]
            /\ \/ loop[s] = "pivot"
               \/ loop[s] = "substitute" /\ current[s] = 1]_vars
  <2>1. SUFFICES ASSUME IInv, AgreedUnlessRaced, Next, raced' # raced
                 PROVE  \E s \in Site :
                            /\ ~waiting[s] /\ waiting'[s]
                            /\ \/ loop[s] = "pivot"
                               \/ loop[s] = "substitute" /\ current[s] = 1
    OBVIOUS
  <2> QED
    BY <2>1, RaceAtPivot DEF Next
<1>2. Init => AgreedUnlessRaced
  BY AgreedInit DEF AgreedUnlessRaced
<1> QED
  BY <1>1, <1>2, InvInit, Inductive, AgreedInductive, PTL DEF Spec, RacesAtPivots

(* Until then the sites that are at the barrier of a pass have all fetched  *)
(* the same from its owner, however far apart in time they came to it: they *)
(* agree about the pivot, the row to swap and every factor.                 *)
THEOREM SitesFetchTheSame == Spec => [](~raced => FetchedTheSame)
<1>1. IInv /\ AgreedUnlessRaced => (~raced => FetchedTheSame)
  BY DEF AgreedUnlessRaced, Agreed
<1>2. Init => AgreedUnlessRaced
  BY AgreedInit DEF AgreedUnlessRaced
<1> QED
  BY <1>1, <1>2, InvInit, Inductive, AgreedInductive, PTL DEF Spec

(* Sites at one barrier are in one pass, and what follows a pass in which   *)
(* one site throws is that the others do.                                   *)
LEMMA DecidesTogether ==
    ASSUME TypeOK, Agreed, NEW s \in Site, NEW p \in Site
    PROVE  /\ AtOneBarrier(s, p) => pulled[s] = pulled[p]
           /\ loop[s] = "thrown" => loop[p] = "thrown" \/ AboutToThrow(p)
<1>1. ASSUME AtOneBarrier(s, p) PROVE pulled[s] = pulled[p]
  <2>1. Place(s) = Place(p) /\ Barrier(s) = Barrier(p) /\ entered[s] = entered[p]
    BY <1>1 DEF AtOneBarrier, Place, Barrier
  <2>2. Base(s) = Base(p)
    BY <1>1, <2>1 DEF AtOneBarrier, Base
  <2> QED
    BY <1>1, <2>1, <2>2 DEF AtOneBarrier, SamePass, Agreed, FetchedTheSame
<1>2. ASSUME loop[s] = "thrown" PROVE loop[p] = "thrown" \/ AboutToThrow(p)
  <2>1. CASE SamePass(s, p)
    BY <1>2, <2>1 DEF SamePass, Place
  <2>2. CASE Ahead(p, s)
    <3>1. Successor(s) = Place(s)
      BY <1>2 DEF Successor
    <3> QED
      BY <1>2, <2>2, <3>1 DEF Ahead, Place
  <2>3. CASE Ahead(s, p)
    <3>1. waiting[p] /\ Successor(p)[1] = "thrown"
      BY <1>2, <2>3 DEF Ahead, Place
    <3>2. CASE loop[p] = "pivot"
      BY <3>1, <3>2 DEF Successor, Substitution, Place, AboutToThrow
    <3>3. CASE loop[p] \in {"eliminate", "substitute"}
      BY <3>1, <3>3 DEF Successor, Substitution
    <3>4. CASE loop[p] \notin Loops
      BY <3>1, <3>4 DEF Successor, Place, Loops
    <3> QED
      BY <3>2, <3>3, <3>4 DEF Loops
  <2> QED
    BY <2>1, <2>2, <2>3 DEF Agreed, Paced
<1> QED
  BY <1>1, <1>2

(* Until a fetch meets a write, the sites decide the same in every pass,    *)
(* each for itself: none throws while another divides or swaps.             *)
THEOREM SitesDecideTogether == Spec => []DecideTogether
<1>1. IInv /\ AgreedUnlessRaced => DecideTogether
  BY DecidesTogether DEF AgreedUnlessRaced, DecideTogether, IInv
<1>2. Init => AgreedUnlessRaced
  BY AgreedInit DEF AgreedUnlessRaced
<1> QED
  BY <1>1, <1>2, InvInit, Inductive, AgreedInductive, PTL DEF Spec

-----------------------------------------------------------------------------
(* Sums.                                                                    *)

LEMMA Mod ==
    ASSUME NEW x \in Int
    PROVE  /\ x \div P \in Int
           /\ x % P \in 0..(P - 1)
           /\ x = P * (x \div P) + (x % P)
<1>1. P \in Nat \ {0}
  BY DistInverseAssumption
<1> QED
  BY <1>1, SMT

LEMMA ModUnique ==
    ASSUME NEW q \in Int, NEW r \in Int, 0 <= r, r < P
    PROVE  (P * q + r) % P = r
<1>1. P \in Nat \ {0}
  BY DistInverseAssumption
<1> QED
  BY <1>1, SMT

First(S) == CHOOSE x \in S : TRUE

IsPartial(g, f) ==
    g = [S \in SUBSET DOMAIN f |->
            IF S = {} THEN 0 ELSE f[First(S)] + g[S \ {First(S)}]]

Partial(f) == CHOOSE g : IsPartial(g, f)

Total(f) == FoldFunction(+, 0, f)

LEMMA TotalPartial == \A f : Total(f) = Partial(f)[DOMAIN f]
  BY DEF Total, FoldFunction, FoldFunctionOnSet, MapThenFoldSet, Partial, IsPartial, First

LEMMA SubsetsFinite ==
    /\ Cardinality(Index) = Rows /\ Rows \in Nat
    /\ \A S \in SUBSET Index : IsFiniteSet(S) /\ Cardinality(S) \in 0..Rows
<1>1. Rows \in Nat \ {0}
  BY DistInverseAssumption
<1>2. IsFiniteSet(Index) /\ Cardinality(Index) = Rows
  BY <1>1, FS_Interval, SMT DEF Index
<1>3. ASSUME NEW S \in SUBSET Index
      PROVE  IsFiniteSet(S) /\ Cardinality(S) \in 0..Rows
  <2>1. IsFiniteSet(S) /\ Cardinality(S) <= Rows
    BY <1>2, FS_Subset
  <2>2. Cardinality(S) \in Nat
    BY <2>1, FS_CardinalityType
  <2> QED
    BY <1>1, <2>1, <2>2, SMT
<1> QED
  BY <1>1, <1>2, <1>3

LEMMA FirstRemoved ==
    ASSUME NEW S \in SUBSET Index, S # {}
    PROVE  /\ First(S) \in S
           /\ S \ {First(S)} \in SUBSET Index
           /\ Cardinality(S \ {First(S)}) = Cardinality(S) - 1
<1>1. First(S) \in S
  BY DEF First
<1>2. IsFiniteSet(S)
  BY SubsetsFinite
<1>3. Cardinality(S \ {First(S)}) = Cardinality(S) - 1
  BY <1>1, <1>2, FS_RemoveElement
<1> QED
  BY <1>1, <1>3

(* Induction over the sets of indices.                                      *)
LEMMA SubsetInduction ==
    ASSUME NEW G, {} \in G,
           \A S \in SUBSET Index : S # {} /\ S \ {First(S)} \in G => S \in G
    PROVE  \A S \in SUBSET Index : S \in G
<1> DEFINE Bad == {Cardinality(S) : S \in (SUBSET Index) \ G}
<1>1. SUFFICES ASSUME Bad # {} PROVE FALSE
  OBVIOUS
<1>2. Bad \in SUBSET Nat
  BY SubsetsFinite
<1>3. PICK n \in Bad : \A k \in Bad : n <= k
  BY <1>1, <1>2, LeastExists
<1>4. PICK S \in (SUBSET Index) \ G : Cardinality(S) = n
  BY <1>3
<1>5. S # {}
  BY <1>4
<1> DEFINE T == S \ {First(S)}
<1>6. T \in SUBSET Index /\ Cardinality(T) = n - 1
  BY <1>4, <1>5, FirstRemoved
<1>7. T \notin G
  BY <1>4, <1>5
<1>8. Cardinality(T) \in Bad
  BY <1>6, <1>7
<1>9. n \in Nat
  BY <1>2, <1>3
<1> HIDE DEF Bad, T
<1> QED
  BY <1>3, <1>6, <1>8, <1>9, SMT

LEMMA PartialExists ==
    ASSUME NEW f \in [Index -> Int]
    PROVE  IsPartial(Partial(f), f)
<1> DEFINE Subsets(n) == {S \in SUBSET Index : Cardinality(S) <= n}
           UpTo(g, n) ==
             g = [S \in Subsets(n) |->
                    IF S = {} THEN 0 ELSE f[First(S)] + g[S \ {First(S)}]]
           Bad == {n \in Nat : ~\E g : UpTo(g, n)}
<1>1. Bad = {}
  <2>1. SUFFICES ASSUME Bad # {} PROVE FALSE
    OBVIOUS
  <2>2. PICK n \in Bad : \A k \in Bad : n <= k
    <3>1. Bad \in SUBSET Nat
      OBVIOUS
    <3> HIDE DEF Bad
    <3> QED
      BY <2>1, <3>1, LeastExists
  <2>3. n \in Nat /\ ~\E g : UpTo(g, n)
    OBVIOUS
  <2>4. n # 0
    <3>1. ASSUME NEW S \in Subsets(0) PROVE S = {}
      <4>1. IsFiniteSet(S) /\ Cardinality(S) = 0
        BY SubsetsFinite, SMT
      <4> QED
        BY <4>1, FS_EmptySet
    <3>2. UpTo([S \in Subsets(0) |-> 0], 0)
      BY <3>1
    <3> QED
      BY <2>3, <3>2
  <2>5. n - 1 \in Nat /\ n - 1 \notin Bad
    <3>1. n - 1 \in Nat /\ ~(n <= n - 1)
      BY <2>3, <2>4, SMT
    <3> HIDE DEF Bad
    <3> QED
      BY <2>2, <3>1
  <2>6. PICK g : UpTo(g, n - 1)
    BY <2>5
  <2> DEFINE h == [S \in Subsets(n) |->
                    IF S = {} THEN 0 ELSE f[First(S)] + g[S \ {First(S)}]]
  <2>7. ASSUME NEW S \in Subsets(n), S # {}
        PROVE  h[S \ {First(S)}] = g[S \ {First(S)}]
    <3> DEFINE T == S \ {First(S)}
    <3>1. T \in SUBSET Index /\ Cardinality(T) = Cardinality(S) - 1
      BY <2>7, FirstRemoved
    <3>2. Cardinality(S) \in Int /\ Cardinality(S) <= n
      BY SubsetsFinite
    <3>3. T \in Subsets(n - 1) /\ T \in Subsets(n)
      <4> HIDE DEF T
      <4> QED
        BY <2>3, <3>1, <3>2, SMT
    <3>4. g[T] = IF T = {} THEN 0 ELSE f[First(T)] + g[T \ {First(T)}]
      <4> HIDE DEF T, Subsets
      <4> QED
        BY <2>6, <3>3
    <3>5. h[T] = IF T = {} THEN 0 ELSE f[First(T)] + g[T \ {First(T)}]
      <4> HIDE DEF T, Subsets
      <4> QED
        BY <3>3
    <3> QED
      BY <3>4, <3>5
  <2>8. UpTo(h, n)
    BY <2>7
  <2> QED
    BY <2>3, <2>8
<1>2. \E g : UpTo(g, Rows)
  <2>1. Rows \in Nat /\ Rows \notin Bad
    BY <1>1, SubsetsFinite
  <2> QED
    BY <2>1
<1>3. Subsets(Rows) = SUBSET DOMAIN f
  BY SubsetsFinite
<1>4. \E g : IsPartial(g, f)
  <2> HIDE DEF Subsets
  <2> QED
    BY <1>2, <1>3 DEF IsPartial
<1> QED
  BY <1>4 DEF Partial

LEMMA PartialDef ==
    ASSUME NEW f \in [Index -> Int]
    PROVE  /\ Partial(f)[{}] = 0
           /\ \A S \in SUBSET Index : S # {} =>
                Partial(f)[S] = f[First(S)] + Partial(f)[S \ {First(S)}]
           /\ \A S \in SUBSET Index : Partial(f)[S] \in Int
<1> DEFINE g == Partial(f)
<1>1. g = [S \in SUBSET Index |->
            IF S = {} THEN 0 ELSE f[First(S)] + g[S \ {First(S)}]]
  BY PartialExists DEF IsPartial
<1> HIDE DEF g
<1>2. g[{}] = 0
  BY <1>1
<1>3. \A S \in SUBSET Index : S # {} => g[S] = f[First(S)] + g[S \ {First(S)}]
  BY <1>1
<1> DEFINE G == {S \in SUBSET Index : g[S] \in Int}
<1>4. \A S \in SUBSET Index : S \in G
  <2>1. {} \in G
    BY <1>2
  <2>2. \A S \in SUBSET Index : S # {} /\ S \ {First(S)} \in G => S \in G
    <3>1. SUFFICES ASSUME NEW S \in SUBSET Index, S # {}, S \ {First(S)} \in G
                   PROVE  g[S] \in Int
      OBVIOUS
    <3>2. First(S) \in Index /\ g[S \ {First(S)}] \in Int
      BY <3>1, FirstRemoved
    <3>3. g[S] = f[First(S)] + g[S \ {First(S)}]
      BY <1>3, <3>1
    <3>4. f[First(S)] \in Int
      BY <3>2
    <3> QED
      BY <3>2, <3>3, <3>4, SMT
  <2> HIDE DEF G
  <2> QED
    BY <2>1, <2>2, SubsetInduction
<1> QED
  BY <1>2, <1>3, <1>4 DEF g

(* Sums are linear.                                                         *)
Combined(a, f, b, g) == [k \in Index |-> a * f[k] + b * g[k]]

LEMMA CombinedType ==
    ASSUME NEW f \in [Index -> Int], NEW g \in [Index -> Int],
           NEW a \in Int, NEW b \in Int
    PROVE  /\ Combined(a, f, b, g) \in [Index -> Int]
           /\ \A k \in Index : Combined(a, f, b, g)[k] = a * f[k] + b * g[k]
  BY DEF Combined

LEMMA TotalLinear ==
    ASSUME NEW f \in [Index -> Int], NEW g \in [Index -> Int],
           NEW a \in Int, NEW b \in Int
    PROVE  Total(Combined(a, f, b, g)) = a * Total(f) + b * Total(g)
<1> DEFINE h == Combined(a, f, b, g)
<1>0. h \in [Index -> Int] /\ \A k \in Index : h[k] = a * f[k] + b * g[k]
  BY CombinedType
<1> HIDE DEF h
<1> DEFINE F == Partial(f)
           G == Partial(g)
           H == Partial(h)
           Same == {S \in SUBSET Index : H[S] = a * F[S] + b * G[S]}
<1>1. /\ F[{}] = 0 /\ G[{}] = 0 /\ H[{}] = 0
      /\ \A S \in SUBSET Index : S # {} =>
            /\ F[S] = f[First(S)] + F[S \ {First(S)}]
            /\ G[S] = g[First(S)] + G[S \ {First(S)}]
            /\ H[S] = h[First(S)] + H[S \ {First(S)}]
      /\ \A S \in SUBSET Index : F[S] \in Int /\ G[S] \in Int /\ H[S] \in Int
  BY <1>0, PartialDef
<1> HIDE DEF F, G, H
<1>2. {} \in Same
  BY <1>1, SMT
<1>3. ASSUME NEW S \in SUBSET Index, S # {}, S \ {First(S)} \in Same
      PROVE  S \in Same
  <2> DEFINE k == First(S)
             T == S \ {First(S)}
  <2>1. k \in Index /\ T \in SUBSET Index
    BY <1>3, FirstRemoved
  <2>2. F[S] = f[k] + F[T] /\ G[S] = g[k] + G[T] /\ H[S] = h[k] + H[T]
    BY <1>1, <1>3
  <2>3. H[T] = a * F[T] + b * G[T]
    BY <1>3
  <2>4. h[k] = a * f[k] + b * g[k]
    BY <1>0, <2>1
  <2>5. /\ F[T] \in Int /\ G[T] \in Int /\ f[k] \in Int /\ g[k] \in Int
    BY <1>1, <2>1
  <2> HIDE DEF k, T
  <2>6. (a * f[k] + b * g[k]) + (a * F[T] + b * G[T])
            = a * (f[k] + F[T]) + b * (g[k] + G[T])
    BY <2>5, SMT
  <2> QED
    BY <2>2, <2>3, <2>4, <2>6
<1> HIDE DEF Same
<1>4. Index \in Same
  BY <1>2, <1>3, SubsetInduction
<1>5. /\ Total(f) = F[Index] /\ Total(g) = G[Index] /\ Total(h) = H[Index]
  BY <1>0, TotalPartial DEF F, G, H
<1> QED
  BY <1>4, <1>5 DEF Same, h

LEMMA TotalInt == \A f \in [Index -> Int] : Total(f) \in Int
  BY TotalPartial, PartialDef

(* If all but one of the terms are zero.                                    *)
LEMMA TotalSingle ==
    ASSUME NEW f \in [Index -> Int], NEW i \in Index,
           \A k \in Index : k # i => f[k] = 0
    PROVE  Total(f) = f[i]
<1> DEFINE F == Partial(f)
           Same == {S \in SUBSET Index : F[S] = IF i \in S THEN f[i] ELSE 0}
<1>1. /\ F[{}] = 0
      /\ \A S \in SUBSET Index : S # {} => F[S] = f[First(S)] + F[S \ {First(S)}]
  BY PartialDef
<1> HIDE DEF F
<1>2. {} \in Same
  BY <1>1
<1>3. ASSUME NEW S \in SUBSET Index, S # {}, S \ {First(S)} \in Same
      PROVE  S \in Same
  <2> DEFINE k == First(S)
  <2>1. k \in S
    BY <1>3, FirstRemoved
  <2>2. F[S] = f[k] + (IF i \in S \ {k} THEN f[i] ELSE 0)
    BY <1>1, <1>3
  <2> HIDE DEF k
  <2>3. f[k] \in Int /\ f[i] \in Int /\ (k # i => f[k] = 0)
    BY <2>1
  <2>4. F[S] = IF i \in S THEN f[i] ELSE 0
    BY <2>1, <2>2, <2>3, SMT
  <2> QED
    BY <2>4
<1> HIDE DEF Same
<1>4. Index \in Same
  BY <1>2, <1>3, SubsetInduction
<1> QED
  BY <1>4, TotalPartial DEF Same, F

-----------------------------------------------------------------------------
(* Residues.                                                                *)
LEMMA ModShift ==
    ASSUME NEW x \in Int, NEW t \in Int
    PROVE  (x + P * t) % P = x % P
<1> DEFINE q == x \div P
           r == x % P
<1>1. q \in Int /\ r \in Int /\ 0 <= r /\ r < P /\ x = P * q + r
  BY Mod, DistInverseAssumption, SMT
<1>2. P \in Int
  BY DistInverseAssumption
<1> HIDE DEF q, r
<1>3. x + P * t = P * (q + t) + r
  BY <1>1, <1>2, SMT
<1>4. (P * (q + t) + r) % P = r
  BY <1>1, ModUnique
<1> QED
  BY <1>3, <1>4 DEF r

LEMMA ModOfElem == \A x \in Elem : x % P = x
<1>1. SUFFICES ASSUME NEW x \in Elem PROVE x % P = x
  OBVIOUS
<1>2. x \in Int /\ 0 <= x /\ x < P /\ P * 0 + x = x
  BY DistInverseAssumption, SMT DEF Elem
<1>3. (P * 0 + x) % P = x
  BY <1>2, ModUnique
<1> QED
  BY <1>2, <1>3

(* Combinations of residues.                                                *)
LEMMA ModCombined ==
    ASSUME NEW a \in Int, NEW b \in Int, NEW x \in Int, NEW y \in Int
    PROVE  (a * (x % P) + b * (y % P)) % P = (a * x + b * y) % P
<1> DEFINE q == x \div P
           r == x % P
           p == y \div P
           s == y % P
<1>1. /\ q \in Int /\ r \in Int /\ x = P * q + r
      /\ p \in Int /\ s \in Int /\ y = P * p + s
      /\ P \in Int
  BY Mod, DistInverseAssumption, SMT
<1> HIDE DEF q, r, p, s
<1>2. a * x + b * y = (a * r + b * s) + P * (a * q + b * p)
  BY <1>1, SMT
<1>3. a * r + b * s \in Int /\ a * q + b * p \in Int
  BY <1>1
<1>4. ((a * r + b * s) + P * (a * q + b * p)) % P = (a * r + b * s) % P
  BY <1>3, ModShift
<1> QED
  BY <1>2, <1>4 DEF r, s

Dot(r, x) == Total([k \in Index |-> r[k] * x[k]])

LEMMA DotInt ==
    \A r, x \in [Index -> Int] : Dot(r, x) \in Int
<1>1. \A r, x \in [Index -> Int] : [k \in Index |-> r[k] * x[k]] \in [Index -> Int]
  OBVIOUS
<1> QED
  BY <1>1, TotalInt DEF Dot

(* A row that is a combination of two others, modulo P.                     *)
Congruent(t, u) == \A k \in Index : t[k] % P = u[k] % P

LEMMA TotalCongruent ==
    ASSUME NEW f \in [Index -> Int], NEW g \in [Index -> Int], NEW d \in [Index -> Int],
           NEW a \in Int, NEW b \in Int
    PROVE  Total(Combined(1, Combined(a, f, b, g), P, d)) % P
                = (a * Total(f) + b * Total(g)) % P
<1> DEFINE c == Combined(a, f, b, g)
<1>1. c \in [Index -> Int] /\ P \in Int /\ 1 \in Int
  BY CombinedType, DistInverseAssumption
<1>2. Total(c) = a * Total(f) + b * Total(g)
  BY TotalLinear
<1> HIDE DEF c
<1>3. Total(Combined(1, c, P, d)) = 1 * Total(c) + P * Total(d)
  BY <1>1, TotalLinear
<1>4. Total(c) \in Int /\ Total(d) \in Int
  BY <1>1, TotalInt
<1>5. 1 * Total(c) + P * Total(d) = Total(c) + P * Total(d)
  BY <1>1, <1>4, SMT
<1>6. Total(Combined(1, c, P, d)) % P = Total(c) % P
  BY <1>3, <1>4, <1>5, ModShift
<1> QED
  BY <1>2, <1>6 DEF c

LEMMA DotCombined ==
    ASSUME NEW r \in [Index -> Int], NEW q \in [Index -> Int], NEW t \in [Index -> Int],
           NEW x \in [Index -> Int], NEW a \in Int, NEW b \in Int,
           Congruent(t, Combined(a, r, b, q))
    PROVE  Dot(t, x) % P = (a * Dot(r, x) + b * Dot(q, x)) % P
<1> DEFINE f == [k \in Index |-> r[k] * x[k]]
           g == [k \in Index |-> q[k] * x[k]]
           h == [k \in Index |-> t[k] * x[k]]
           d == [k \in Index |->
                    ((t[k] \div P) - ((a * r[k] + b * q[k]) \div P)) * x[k]]
<1>1. f \in [Index -> Int] /\ g \in [Index -> Int]
  OBVIOUS
<1>2. P \in Int
  BY DistInverseAssumption
<1>3. ASSUME NEW k \in Index
      PROVE  d[k] \in Int /\ h[k] = 1 * (a * f[k] + b * g[k]) + P * d[k]
  <2> DEFINE u == a * r[k] + b * q[k]
             v == t[k]
             m == u \div P
             n == v \div P
  <2>1. r[k] \in Int /\ q[k] \in Int /\ x[k] \in Int /\ v \in Int
    OBVIOUS
  <2>2. u \in Int
    BY <2>1
  <2>3. a * f[k] + b * g[k] = u * x[k]
    BY <2>1, SMT
  <2>4. h[k] = v * x[k] /\ d[k] = (n - m) * x[k]
    OBVIOUS
  <2>5. v % P = u % P
    BY DEF Congruent, Combined
  <2> HIDE DEF u, v
  <2>6. m \in Int /\ n \in Int /\ u % P \in Int /\ u = P * m + (u % P) /\ v = P * n + (v % P)
    BY <2>1, <2>2, Mod, SMT
  <2> HIDE DEF m, n, f, g, h, d
  <2>7. v = u + P * (n - m)
    BY <1>2, <2>5, <2>6, SMT
  <2>8. v * x[k] = 1 * (u * x[k]) + P * ((n - m) * x[k])
    BY <1>2, <2>1, <2>2, <2>6, <2>7, SMT
  <2> QED
    BY <2>1, <2>3, <2>4, <2>6, <2>8
<1>4. d \in [Index -> Int]
  BY <1>3
<1>5. h = Combined(1, Combined(a, f, b, g), P, d)
  <2> HIDE DEF f, g, d
  <2> QED
    BY <1>3 DEF Combined
<1>6. Dot(r, x) = Total(f) /\ Dot(q, x) = Total(g) /\ Dot(t, x) = Total(h)
  BY DEF Dot
<1> HIDE DEF f, g, h, d
<1>7. Total(Combined(1, Combined(a, f, b, g), P, d)) % P
        = (a * Total(f) + b * Total(g)) % P
  BY <1>1, <1>4, TotalCongruent
<1> QED
  BY <1>5, <1>6, <1>7

-----------------------------------------------------------------------------
(* One update, made by all sites, is an operation on the rows of the whole  *)
(* matrix.                                                                  *)
RowMinus(q, x, p) == [j \in Index |-> (q[j] - x * p[j]) % P]

RowTimes(q, x) == [j \in Index |-> (q[j] * x) % P]

RowsUpdated(m, s) ==
    CASE loop[s] \in {"eliminate", "substitute"} ->
            [m EXCEPT ![row[s]] =
                RowMinus(m[row[s]], pulled[s][row[s]], m[current[s]])]
      [] loop[s] = "pivot" /\ Pivot(s) # 0 ->
            [m EXCEPT ![current[s]] =
                RowTimes(m[current[s]], Reciprocal(Pivot(s)))]
      [] loop[s] = "pivot" /\ Pivot(s) = 0 /\ Candidates(s) # {} ->
            [m EXCEPT ![current[s]] = m[CheckRow(s)],
                      ![CheckRow(s)] = m[current[s]]]
      [] OTHER -> m

LEMMA RowTypes ==
    ASSUME NEW q \in [Index -> Elem], NEW p \in [Index -> Elem], NEW x \in Elem
    PROVE  RowMinus(q, x, p) \in [Index -> Elem] /\ RowTimes(q, x) \in [Index -> Elem]
<1>1. \A j \in Index : q[j] \in Elem /\ p[j] \in Elem
  OBVIOUS
<1>2. \A a, b, c \in Elem : a - b * c \in Int /\ a * b \in Int
  BY ElemInt, SMT
<1>3. \A j \in Index : (q[j] - x * p[j]) % P \in Elem /\ (q[j] * x) % P \in Elem
  BY <1>1, <1>2, Residue
<1> QED
  BY <1>3 DEF RowMinus, RowTimes

LEMMA RowInt ==
    /\ \A x \in Elem : x \in Int /\ -x \in Int
    /\ \A q \in [Index -> Elem] : q \in [Index -> Int]
<1>1. \A x \in Elem : x \in Int
  BY ElemInt
<1> QED
  BY <1>1

LEMMA RowMinusDot ==
    ASSUME NEW q \in [Index -> Elem], NEW p \in [Index -> Elem], NEW x \in Elem,
           NEW y \in [Index -> Int]
    PROVE  Dot(RowMinus(q, x, p), y) % P
                = ((Dot(q, y) % P) - x * (Dot(p, y) % P)) % P
<1> DEFINE t == RowMinus(q, x, p)
           u == Dot(q, y)
           w == Dot(p, y)
<1>1. /\ t \in [Index -> Int] /\ q \in [Index -> Int] /\ p \in [Index -> Int]
      /\ x \in Int /\ -x \in Int
  BY RowTypes, RowInt
<1>2. Congruent(t, Combined(1, q, -x, p))
  <2>1. SUFFICES ASSUME NEW k \in Index
                 PROVE  t[k] % P = (1 * q[k] + (-x) * p[k]) % P
    BY DEF Congruent, Combined
  <2>2. q[k] \in Int /\ p[k] \in Int
    BY <1>1
  <2>3. q[k] - x * p[k] = 1 * q[k] + (-x) * p[k]
    BY <1>1, <2>2, SMT
  <2>4. t[k] = (q[k] - x * p[k]) % P /\ t[k] \in Elem
    <3>1. t \in [Index -> Elem]
      BY RowTypes
    <3> QED
      BY <3>1 DEF RowMinus
  <2> QED
    BY <2>3, <2>4, ModOfElem
<1>3. u \in Int /\ w \in Int
  BY <1>1, DotInt
<1> HIDE DEF t
<1>4. Dot(t, y) % P = (1 * u + (-x) * w) % P
  <2>1. 1 \in Int
    OBVIOUS
  <2> QED
    BY <1>1, <1>2, <2>1, DotCombined
<1> HIDE DEF u, w
<1>5. (1 * u + (-x) * w) % P = (1 * (u % P) + (-x) * (w % P)) % P
  BY <1>1, <1>3, ModCombined
<1>6. 1 * (u % P) + (-x) * (w % P) = (u % P) - x * (w % P)
  <2>1. u % P \in Int /\ w % P \in Int
    BY <1>3, Residue, ElemInt
  <2> QED
    BY <1>1, <2>1, SMT
<1> QED
  BY <1>4, <1>5, <1>6 DEF t, u, w

LEMMA RowTimesDot ==
    ASSUME NEW q \in [Index -> Elem], NEW x \in Elem, NEW y \in [Index -> Int]
    PROVE  Dot(RowTimes(q, x), y) % P = ((Dot(q, y) % P) * x) % P
<1> DEFINE t == RowTimes(q, x)
           u == Dot(q, y)
<1>1. /\ t \in [Index -> Int] /\ q \in [Index -> Int] /\ x \in Int
  BY RowTypes, RowInt
<1>2. Congruent(t, Combined(x, q, 0, q))
  <2>1. SUFFICES ASSUME NEW k \in Index
                 PROVE  t[k] % P = (x * q[k] + 0 * q[k]) % P
    BY DEF Congruent, Combined
  <2>2. q[k] \in Int
    BY <1>1
  <2>3. q[k] * x = x * q[k] + 0 * q[k]
    BY <1>1, <2>2, SMT
  <2>4. t[k] = (q[k] * x) % P /\ t[k] \in Elem
    BY RowTypes DEF RowTimes
  <2> QED
    BY <2>3, <2>4, ModOfElem
<1>3. u \in Int
  BY <1>1, DotInt
<1> HIDE DEF t
<1>4. Dot(t, y) % P = (x * u + 0 * u) % P
  <2>1. 0 \in Int
    OBVIOUS
  <2> QED
    BY <1>1, <1>2, <2>1, DotCombined
<1> HIDE DEF u
<1>5. (x * u + 0 * u) % P = (x * (u % P) + 0 * (u % P)) % P
  BY <1>1, <1>3, ModCombined
<1>6. x * (u % P) + 0 * (u % P) = (u % P) * x
  <2>1. u % P \in Int
    BY <1>3, Residue, ElemInt
  <2> QED
    BY <1>1, <2>1, SMT
<1> QED
  BY <1>4, <1>5, <1>6 DEF t, u

Col(b, j) == [k \in Index |-> b[k][j]]

LEMMA ProductDot ==
    ASSUME NEW a, NEW b
    PROVE  Product(a, b) = [i \in Index |-> [j \in Index |-> Dot(a[i], Col(b, j)) % P]]
<1>1. \A i, j \in Index :
        [k \in Index |-> a[i][k] * b[k][j]] = [k \in Index |-> a[i][k] * Col(b, j)[k]]
  BY DEF Col
<1> QED
  BY <1>1 DEF Product, Dot, Total

LEMMA ColType ==
    ASSUME NEW b \in Matrices, NEW j \in Index
    PROVE  Col(b, j) \in [Index -> Int]
  BY ElemInt DEF Matrices, Col

LEMMA ProductType ==
    ASSUME NEW a \in Matrices, NEW b \in Matrices
    PROVE  Product(a, b) \in Matrices
<1>1. \A i, j \in Index : Dot(a[i], Col(b, j)) \in Int
  <2>1. \A i \in Index : a[i] \in [Index -> Int]
    BY RowInt DEF Matrices
  <2> QED
    BY <2>1, ColType, DotInt
<1>2. \A i, j \in Index : Dot(a[i], Col(b, j)) % P \in Elem
  BY <1>1, Residue
<1> QED
  BY <1>2, ProductDot DEF Matrices

LEMMA RowsByLoop ==
    ASSUME NEW m, NEW s
    PROVE  /\ loop[s] \in {"eliminate", "substitute"} =>
                RowsUpdated(m, s) = [m EXCEPT ![row[s]] =
                    RowMinus(m[row[s]], pulled[s][row[s]], m[current[s]])]
           /\ loop[s] = "pivot" /\ Pivot(s) # 0 =>
                RowsUpdated(m, s) = [m EXCEPT ![current[s]] =
                    RowTimes(m[current[s]], Reciprocal(Pivot(s)))]
           /\ loop[s] = "pivot" /\ Pivot(s) = 0 /\ Candidates(s) # {} =>
                RowsUpdated(m, s) = [m EXCEPT ![current[s]] = m[CheckRow(s)],
                                              ![CheckRow(s)] = m[current[s]]]
  BY DEF RowsUpdated

(* The values an update uses.                                               *)
LEMMA UpdateTypes ==
    ASSUME TypeOK, NEW s \in Site
    PROVE  /\ current[s] \in Index /\ row[s] \in Index
           /\ pulled[s][row[s]] \in Elem
           /\ Pivot(s) \in Elem
           /\ Pivot(s) # 0 => Reciprocal(Pivot(s)) \in Elem
           /\ Candidates(s) # {} => CheckRow(s) \in Index /\ CheckRow(s) # current[s]
<1>1. /\ current[s] \in Index /\ row[s] \in Index
      /\ pulled[s] \in [Index -> Elem]
  BY DEF TypeOK
<1>2. pulled[s][row[s]] \in Elem /\ Pivot(s) \in Elem
  BY <1>1 DEF Pivot
<1>3. Candidates(s) # {} => CheckRow(s) \in Index /\ CheckRow(s) > current[s]
  BY CheckRowType DEF Candidates
<1>4. current[s] \in Int /\ ~(current[s] > current[s])
  BY <1>1, DistInverseAssumption, SMT DEF Index
<1> QED
  BY <1>1, <1>2, <1>3, <1>4, ReciprocalType

LEMMA RowsUpdatedType ==
    ASSUME TypeOK, NEW m \in Matrices, NEW s \in Site
    PROVE  RowsUpdated(m, s) \in Matrices
<1>1. \A i \in Index : m[i] \in [Index -> Elem]
  BY DEF Matrices
<1>2. CASE loop[s] \in {"eliminate", "substitute"}
  <2>1. RowMinus(m[row[s]], pulled[s][row[s]], m[current[s]]) \in [Index -> Elem]
    BY <1>1, UpdateTypes, RowTypes
  <2> QED
    BY <1>2, <2>1, RowsByLoop DEF Matrices
<1>3. CASE loop[s] = "pivot" /\ Pivot(s) # 0
  <2>1. RowTimes(m[current[s]], Reciprocal(Pivot(s))) \in [Index -> Elem]
    BY <1>1, <1>3, UpdateTypes, RowTypes
  <2> QED
    BY <1>3, <2>1, RowsByLoop DEF Matrices
<1>4. CASE loop[s] = "pivot" /\ Pivot(s) = 0 /\ Candidates(s) # {}
  <2>1. m[CheckRow(s)] \in [Index -> Elem] /\ m[current[s]] \in [Index -> Elem]
    BY <1>1, <1>4, UpdateTypes
  <2> QED
    BY <1>4, <2>1, RowsByLoop DEF Matrices
<1>5. CASE /\ loop[s] \notin {"eliminate", "substitute"}
           /\ ~(loop[s] = "pivot" /\ Pivot(s) # 0)
           /\ ~(loop[s] = "pivot" /\ Pivot(s) = 0 /\ Candidates(s) # {})
  BY <1>5 DEF RowsUpdated
<1> QED
  BY <1>2, <1>3, <1>4, <1>5

(* It is what each site does to its own columns.                            *)
LEMMA UpdatedIsRows ==
    ASSUME TypeOK, NEW m \in Matrices, NEW s \in Site,
           NEW i \in Index, NEW j \in Index, j \in Columns(s)
    PROVE  Updated(m, s)[i][j] = RowsUpdated(m, s)[i][j]
<1>1. CASE loop[s] \in {"eliminate", "substitute"}
  <2> DEFINE x == pulled[s][row[s]]
  <2>1. /\ Updated(m, s) = Subtracted(m, s, row[s], x, current[s])
        /\ RowsUpdated(m, s) =
                [m EXCEPT ![row[s]] = RowMinus(m[row[s]], x, m[current[s]])]
    BY <1>1, UpdatedByLoop, RowsByLoop
  <2> HIDE DEF x
  <2>2. \A r, k \in Index :
            Subtracted(m, s, r, x, k)[i][j] =
                [m EXCEPT ![r] = RowMinus(m[r], x, m[k])][i][j]
    BY DEF Subtracted, WithRow, RowMinus, Matrices
  <2> QED
    BY <2>1, <2>2, UpdateTypes
<1>2. CASE loop[s] = "pivot" /\ Pivot(s) # 0
  <2> DEFINE x == Pivot(s)
  <2>1. /\ Updated(m, s) = Divided(m, s, current[s], x)
        /\ RowsUpdated(m, s) =
                [m EXCEPT ![current[s]] = RowTimes(m[current[s]], Reciprocal(x))]
    BY <1>2, UpdatedByLoop, RowsByLoop
  <2> HIDE DEF x
  <2>2. \A k \in Index :
            Divided(m, s, k, x)[i][j] =
                [m EXCEPT ![k] = RowTimes(m[k], Reciprocal(x))][i][j]
    BY DEF Divided, WithRow, RowTimes, Matrices
  <2> QED
    BY <2>1, <2>2, UpdateTypes
<1>3. CASE loop[s] = "pivot" /\ Pivot(s) = 0 /\ Candidates(s) # {}
  <2>1. /\ Updated(m, s) = Swapped(m, s, current[s], CheckRow(s))
        /\ RowsUpdated(m, s) =
                [m EXCEPT ![current[s]] = m[CheckRow(s)], ![CheckRow(s)] = m[current[s]]]
    BY <1>3, UpdatedByLoop, RowsByLoop
  <2>2. \A r, k \in Index :
            Swapped(m, s, r, k)[i][j] = [m EXCEPT ![r] = m[k], ![k] = m[r]][i][j]
    BY DEF Swapped, WithRow, Matrices
  <2>3. current[s] \in Index /\ CheckRow(s) \in Index
    BY <1>3, UpdateTypes
  <2>4. Swapped(m, s, current[s], CheckRow(s))[i][j] =
            [m EXCEPT ![current[s]] = m[CheckRow(s)], ![CheckRow(s)] = m[current[s]]][i][j]
    BY <2>2, <2>3
  <2> QED
    BY <2>1, <2>4
<1>4. CASE /\ loop[s] \notin {"eliminate", "substitute"}
           /\ ~(loop[s] = "pivot" /\ Pivot(s) # 0)
           /\ ~(loop[s] = "pivot" /\ Pivot(s) = 0 /\ Candidates(s) # {})
  BY <1>4 DEF Updated, RowsUpdated
<1> QED
  BY <1>1, <1>2, <1>3, <1>4

LEMMA SameRows ==
    ASSUME NEW s, NEW p, Place(s) = Place(p), pulled[s] = pulled[p], NEW m
    PROVE  RowsUpdated(m, s) = RowsUpdated(m, p)
<1>1. loop[s] = loop[p] /\ current[s] = current[p] /\ row[s] = row[p]
  BY DEF Place
<1>2. Pivot(s) = Pivot(p) /\ Candidates(s) = Candidates(p)
  BY <1>1 DEF Pivot, Candidates
<1>3. CheckRow(s) = CheckRow(p)
  BY <1>2 DEF CheckRow
<1> QED
  BY <1>1, <1>2, <1>3 DEF RowsUpdated

LEMMA ModTimes ==
    ASSUME NEW x \in Int, NEW y \in Int
    PROVE  ((x % P) * y) % P = (x * y) % P
<1>1. (y * (x % P) + 0 * (x % P)) % P = (y * x + 0 * x) % P
  BY ModCombined
<1>2. x % P \in Int
  BY Residue, ElemInt
<1>3. y * (x % P) + 0 * (x % P) = (x % P) * y /\ y * x + 0 * x = x * y
  BY <1>2, SMT
<1> QED
  BY <1>1, <1>3

LEMMA ReciprocalTimes ==
    ASSUME NEW x \in Elem, x # 0
    PROVE  (x * Reciprocal(x)) % P = 1
<1>1. P \in Nat \ {0}
  BY DistInverseAssumption
<1>2. x \in 1..(P - 1)
  BY <1>1, SMT DEF Elem
<1>3. \E y \in Elem : (x * y) % P = 1
  BY <1>2, DistInverseAssumption DEF Elem
<1> QED
  BY <1>3 DEF Reciprocal

(* A product with a residue that is not zero is not zero.                   *)
LEMMA NoZeroDivisors ==
    ASSUME NEW x \in Elem, x # 0, NEW d \in Elem, (d * Reciprocal(x)) % P = 0
    PROVE  d = 0
<1> DEFINE r == Reciprocal(x)
<1>1. x \in Int /\ d \in Int /\ r \in Int /\ (x * r) % P = 1
  BY ReciprocalTimes, ReciprocalType, ElemInt
<1>2. (d * r) % P = 0
  OBVIOUS
<1> HIDE DEF r
<1>3. (((d * r) % P) * x) % P = ((d * r) * x) % P
  <2>1. d * r \in Int
    BY <1>1
  <2> QED
    BY <1>1, <2>1, ModTimes
<1>4. (((x * r) % P) * d) % P = ((x * r) * d) % P
  <2>1. x * r \in Int
    BY <1>1
  <2> QED
    BY <1>1, <2>1, ModTimes
<1>5. (d * r) * x = (x * r) * d
  BY <1>1, SMT
<1>6. 0 * x = 0 /\ 1 * d = d
  BY <1>1, SMT
<1>7. d % P = 0 % P
  BY <1>1, <1>2, <1>3, <1>4, <1>5, <1>6
<1>8. 0 \in Elem
  BY DistInverseAssumption, SMT DEF Elem
<1> QED
  BY <1>7, <1>8, ModOfElem

LEMMA MatrixRow ==
    ASSUME NEW m \in Matrices, NEW i \in Index
    PROVE  m[i] \in [Index -> Elem] /\ m[i] \in [Index -> Int]
  BY RowInt DEF Matrices

(* An operation on the rows of a factor is one on those of the product.     *)
LEMMA ProductOfRows ==
    ASSUME TypeOK, NEW a \in Matrices, NEW b \in Matrices, NEW s \in Site
    PROVE  Product(RowsUpdated(a, s), b) = RowsUpdated(Product(a, b), s)
<1> DEFINE m == RowsUpdated(a, s)
           c == Product(a, b)
           d == RowsUpdated(c, s)
<1>1. m \in Matrices /\ c \in Matrices /\ d \in Matrices
  BY RowsUpdatedType, ProductType
<1>2. \A i, j \in Index : c[i][j] = Dot(a[i], Col(b, j)) % P
  BY ProductDot
<1>3. SUFFICES ASSUME NEW i \in Index, NEW j \in Index
               PROVE  Dot(m[i], Col(b, j)) % P = d[i][j]
  <2>1. Product(m, b) = [i \in Index |-> [j \in Index |-> Dot(m[i], Col(b, j)) % P]]
    BY ProductDot
  <2>2. d = [i \in Index |-> [j \in Index |-> d[i][j]]]
    BY <1>1 DEF Matrices
  <2> QED
    BY <2>1, <2>2
<1> DEFINE y == Col(b, j)
<1>4. y \in [Index -> Int]
  BY ColType
<1>5. Dot(a[i], y) % P = c[i][j]
  BY <1>2
<1>6. \A k \in Index : c[k] \in [Index -> Elem] /\ a[k] \in [Index -> Elem]
  BY <1>1, MatrixRow
<1> HIDE DEF y
<1>7. CASE loop[s] \in {"eliminate", "substitute"}
  <2> DEFINE x == pulled[s][row[s]]
             r == row[s]
             k == current[s]
  <2>1. /\ m = [a EXCEPT ![r] = RowMinus(a[r], x, a[k])]
        /\ d = [c EXCEPT ![r] = RowMinus(c[r], x, c[k])]
    BY <1>7, RowsByLoop
  <2>2. x \in Elem /\ r \in Index /\ k \in Index
    BY UpdateTypes
  <2> HIDE DEF x, r, k, m, c, d
  <2>3. CASE i # r
    BY <1>1, <1>5, <2>1, <2>3 DEF Matrices, y
  <2>4. CASE i = r
    <3>1. m[i] = RowMinus(a[r], x, a[k]) /\ d[i] = RowMinus(c[r], x, c[k])
      BY <1>1, <2>1, <2>2, <2>4 DEF Matrices
    <3>2. Dot(RowMinus(a[r], x, a[k]), y) % P
            = ((Dot(a[r], y) % P) - x * (Dot(a[k], y) % P)) % P
      BY <1>4, <1>6, <2>2, RowMinusDot
    <3>3. Dot(a[r], y) % P = c[r][j] /\ Dot(a[k], y) % P = c[k][j]
      BY <1>2, <2>2 DEF y
    <3>4. d[i][j] = (c[r][j] - x * c[k][j]) % P
      BY <3>1 DEF RowMinus
    <3> QED
      BY <3>1, <3>2, <3>3, <3>4 DEF y
  <2> QED
    BY <2>3, <2>4 DEF m, d
<1>8. CASE loop[s] = "pivot" /\ Pivot(s) # 0
  <2> DEFINE x == Reciprocal(Pivot(s))
             k == current[s]
  <2>1. /\ m = [a EXCEPT ![k] = RowTimes(a[k], x)]
        /\ d = [c EXCEPT ![k] = RowTimes(c[k], x)]
    BY <1>8, RowsByLoop
  <2>2. x \in Elem /\ k \in Index
    BY <1>8, UpdateTypes
  <2> HIDE DEF x, k, m, c, d
  <2>3. CASE i # k
    BY <1>1, <1>5, <2>1, <2>3 DEF Matrices, y
  <2>4. CASE i = k
    <3>1. m[i] = RowTimes(a[k], x) /\ d[i] = RowTimes(c[k], x)
      BY <1>1, <2>1, <2>2, <2>4 DEF Matrices
    <3>2. Dot(RowTimes(a[k], x), y) % P = ((Dot(a[k], y) % P) * x) % P
      BY <1>4, <1>6, <2>2, RowTimesDot
    <3>3. Dot(a[k], y) % P = c[k][j]
      BY <1>2, <2>2 DEF y
    <3>4. d[i][j] = (c[k][j] * x) % P
      BY <3>1 DEF RowTimes
    <3> QED
      BY <3>1, <3>2, <3>3, <3>4 DEF y
  <2> QED
    BY <2>3, <2>4 DEF m, d
<1>9. CASE loop[s] = "pivot" /\ Pivot(s) = 0 /\ Candidates(s) # {}
  <2> DEFINE r == CheckRow(s)
             k == current[s]
  <2>1. /\ m = [a EXCEPT ![k] = a[r], ![r] = a[k]]
        /\ d = [c EXCEPT ![k] = c[r], ![r] = c[k]]
    BY <1>9, RowsByLoop
  <2>2. r \in Index /\ k \in Index
    BY <1>9, UpdateTypes
  <2> HIDE DEF r, k, m, c, d
  <2>3. PICK l \in Index : m[i] = a[l] /\ d[i] = c[l]
    <3>1. CASE i = r
      BY <1>1, <2>1, <2>2, <3>1 DEF Matrices
    <3>2. CASE i = k /\ i # r
      BY <1>1, <2>1, <2>2, <3>2 DEF Matrices
    <3>3. CASE i # k /\ i # r
      BY <1>1, <2>1, <2>2, <3>3 DEF Matrices
    <3> QED
      BY <3>1, <3>2, <3>3
  <2> QED
    BY <1>2, <2>3 DEF m, d
<1>10. CASE /\ loop[s] \notin {"eliminate", "substitute"}
            /\ ~(loop[s] = "pivot" /\ Pivot(s) # 0)
            /\ ~(loop[s] = "pivot" /\ Pivot(s) = 0 /\ Candidates(s) # {})
  <2>1. m = a /\ d = c
    BY <1>10 DEF RowsUpdated
  <2> QED
    BY <1>5, <2>1 DEF y
<1> QED
  BY <1>7, <1>8, <1>9, <1>10

(* Nor does it add to what the matrix takes to zero.                        *)
Kernel(m) == {x \in [Index -> Elem] : \A i \in Index : Dot(m[i], x) % P = 0}

LEMMA KernelOfRows ==
    ASSUME TypeOK, NEW a \in Matrices, NEW s \in Site,
           loop[s] \in {"eliminate", "substitute"} => row[s] # current[s]
    PROVE  Kernel(RowsUpdated(a, s)) \subseteq Kernel(a)
<1> DEFINE m == RowsUpdated(a, s)
<1>1. m \in Matrices
  BY RowsUpdatedType
<1>2. SUFFICES ASSUME NEW y \in Kernel(m), NEW i \in Index
               PROVE  Dot(a[i], y) % P = 0
  BY DEF Kernel
<1>3. /\ y \in [Index -> Int]
      /\ \A k \in Index : Dot(m[k], y) % P = 0
  BY <1>2, RowInt DEF Kernel
<1>4. \A k \in Index : a[k] \in [Index -> Elem] /\ Dot(a[k], y) \in Int
  BY <1>3, MatrixRow, DotInt
<1>5. CASE loop[s] \in {"eliminate", "substitute"}
  <2> DEFINE x == pulled[s][row[s]]
             r == row[s]
             k == current[s]
  <2>1. m = [a EXCEPT ![r] = RowMinus(a[r], x, a[k])]
    BY <1>5, RowsByLoop
  <2>2. x \in Elem /\ r \in Index /\ k \in Index /\ r # k
    BY <1>5, UpdateTypes
  <2> HIDE DEF x, r, k, m
  <2>3. \A l \in Index : l # r => m[l] = a[l]
    BY <2>1 DEF Matrices
  <2>4. CASE i # r
    BY <1>3, <2>3, <2>4
  <2>5. CASE i = r
    <3>1. m[r] = RowMinus(a[r], x, a[k])
      BY <2>1, <2>2 DEF Matrices
    <3>2. Dot(RowMinus(a[r], x, a[k]), y) % P
            = ((Dot(a[r], y) % P) - x * (Dot(a[k], y) % P)) % P
      BY <1>3, <1>4, <2>2, RowMinusDot
    <3>3. Dot(a[k], y) % P = 0
      BY <1>3, <2>2, <2>3
    <3>4. Dot(a[r], y) % P \in Elem /\ x \in Int
      BY <1>4, <2>2, Residue, ElemInt
    <3> DEFINE v == Dot(a[r], y) % P
    <3>5. (v - x * 0) % P = 0
      BY <1>3, <2>2, <3>1, <3>2, <3>3
    <3> HIDE DEF v
    <3>6. v - x * 0 = v
      <4>1. v \in Int
        BY <3>4, ElemInt DEF v
      <4> QED
        BY <3>4, <4>1, SMT
    <3>7. v = 0
      BY <3>4, <3>5, <3>6, ModOfElem DEF v
    <3> QED
      BY <2>5, <3>7 DEF v
  <2> QED
    BY <2>4, <2>5
<1>6. CASE loop[s] = "pivot" /\ Pivot(s) # 0
  <2> DEFINE x == Pivot(s)
             k == current[s]
  <2>1. m = [a EXCEPT ![k] = RowTimes(a[k], Reciprocal(x))]
    BY <1>6, RowsByLoop
  <2>2. x \in Elem /\ x # 0 /\ Reciprocal(x) \in Elem /\ k \in Index
    BY <1>6, UpdateTypes
  <2> HIDE DEF x, k, m
  <2>3. CASE i # k
    BY <1>3, <2>1, <2>3 DEF Matrices
  <2>4. CASE i = k
    <3>1. m[k] = RowTimes(a[k], Reciprocal(x))
      BY <2>1, <2>2 DEF Matrices
    <3>2. Dot(RowTimes(a[k], Reciprocal(x)), y) % P
            = ((Dot(a[k], y) % P) * Reciprocal(x)) % P
      BY <1>3, <1>4, <2>2, RowTimesDot
    <3>3. Dot(a[k], y) % P \in Elem
      BY <1>4, <2>2, Residue
    <3>4. ((Dot(a[k], y) % P) * Reciprocal(x)) % P = 0
      BY <1>3, <2>2, <3>1, <3>2
    <3> QED
      BY <2>2, <2>4, <3>3, <3>4, NoZeroDivisors
  <2> QED
    BY <2>3, <2>4
<1>7. CASE loop[s] = "pivot" /\ Pivot(s) = 0 /\ Candidates(s) # {}
  <2> DEFINE r == CheckRow(s)
             k == current[s]
  <2>1. m = [a EXCEPT ![k] = a[r], ![r] = a[k]]
    BY <1>7, RowsByLoop
  <2>2. r \in Index /\ k \in Index
    BY <1>7, UpdateTypes
  <2> HIDE DEF r, k, m
  <2>3. PICK l \in Index : m[l] = a[i]
    <3>1. CASE i = r
      <4>1. m[k] = a[r]
        BY <2>1, <2>2 DEF Matrices
      <4> QED
        BY <2>2, <3>1, <4>1
    <3>2. CASE i = k
      <4>1. m[r] = a[k]
        BY <2>1, <2>2 DEF Matrices
      <4> QED
        BY <2>2, <3>2, <4>1
    <3>3. CASE i # k /\ i # r
      BY <2>1, <2>2, <3>3 DEF Matrices
    <3> QED
      BY <3>1, <3>2, <3>3
  <2> QED
    BY <1>3, <2>3
<1>8. CASE /\ loop[s] \notin {"eliminate", "substitute"}
           /\ ~(loop[s] = "pivot" /\ Pivot(s) # 0)
           /\ ~(loop[s] = "pivot" /\ Pivot(s) = 0 /\ Candidates(s) # {})
  <2>1. m = a
    BY <1>8 DEF RowsUpdated
  <2> QED
    BY <1>3, <2>1
<1> QED
  BY <1>5, <1>6, <1>7, <1>8

(* The unit matrix.                                                         *)
LEMMA UnitType == Unit \in Matrices
<1>1. 0 \in Elem /\ 1 \in Elem
  BY DistInverseAssumption, SMT DEF Elem
<1> QED
  BY <1>1 DEF Unit, Matrices

LEMMA ProductUnit ==
    ASSUME NEW m \in Matrices
    PROVE  Product(Unit, m) = m
<1>1. SUFFICES ASSUME NEW i \in Index, NEW j \in Index
               PROVE  Dot(Unit[i], Col(m, j)) % P = m[i][j]
  <2>1. m = [i \in Index |-> [j \in Index |-> m[i][j]]]
    BY DEF Matrices
  <2> QED
    BY <2>1, ProductDot
<1> DEFINE f == [k \in Index |-> Unit[i][k] * Col(m, j)[k]]
<1>2. \A k \in Index : m[k][j] \in Elem /\ m[k][j] \in Int
  BY ElemInt DEF Matrices
<1>3. \A k \in Index : f[k] = IF k = i THEN m[k][j] ELSE 0
  BY <1>2, SMT DEF Unit, Col
<1>4. f \in [Index -> Int]
  <2>1. \A k \in Index : f[k] \in Int
    BY <1>2, <1>3
  <2> QED
    BY <2>1
<1>5. Dot(Unit[i], Col(m, j)) = Total(f)
  BY DEF Dot
<1> HIDE DEF f
<1>6. Total(f) = m[i][j]
  BY <1>3, <1>4, TotalSingle, TotalPartial
<1> QED
  BY <1>2, <1>5, <1>6, ModOfElem

-----------------------------------------------------------------------------
(* The matrices as they are when the sites that are behind have made their  *)
(* updates.                                                                 *)
Late(s) == \E p \in Site : Ahead(p, s)

CaughtUp(m) ==
    [i \in Index |-> [j \in Index |->
        IF Late(OwningLoc(j)) THEN Updated(m, OwningLoc(j))[i][j] ELSE m[i][j]]]

(* One who is last to fetch is not behind: what it has is what the matrix   *)
(* holds.                                                                   *)
FetchedInFront ==
    \A q \in Site : waiting[q] /\ ~Late(q) => pulled[q] = Column(lhs, q)

LEMMA OwnerType ==
    \A j \in Index : OwningLoc(j) \in Site /\ j \in Columns(OwningLoc(j))
  BY OwnerHoldsColumn

LEMMA MatrixEqual ==
    ASSUME NEW m \in Matrices, NEW n \in Matrices,
           \A i, j \in Index : m[i][j] = n[i][j]
    PROVE  m = n
<1>1. /\ m = [i \in Index |-> [j \in Index |-> m[i][j]]]
      /\ n = [i \in Index |-> [j \in Index |-> n[i][j]]]
  BY DEF Matrices
<1> QED
  BY <1>1

LEMMA CaughtUpType ==
    ASSUME TypeOK, NEW m \in Matrices
    PROVE  CaughtUp(m) \in Matrices
<1>1. \A s \in Site : Updated(m, s) \in Matrices
  BY UpdatedType
<1>2. \A n \in Matrices : \A i, j \in Index : n[i][j] \in Elem
  BY DEF Matrices
<1>3. \A i, j \in Index :
        (IF Late(OwningLoc(j)) THEN Updated(m, OwningLoc(j))[i][j] ELSE m[i][j]) \in Elem
  BY <1>1, <1>2, OwnerType
<1> QED
  BY <1>3 DEF CaughtUp, Matrices

LEMMA NobodyLate ==
    ASSUME NEW m \in Matrices, \A s \in Site : ~Late(s)
    PROVE  CaughtUp(m) = m
<1>1. m = [i \in Index |-> [j \in Index |-> m[i][j]]]
  BY DEF Matrices
<1> QED
  BY <1>1, OwnerType DEF CaughtUp

(* Who is ahead of another is not behind a third.                           *)
LEMMA AheadIsInFront ==
    ASSUME TypeOK, Paced, NEW v \in Site, Released(v), NEW p \in Site, Ahead(p, v)
    PROVE  ~Late(p)
<1>1. SUFFICES ASSUME NEW r \in Site, Ahead(r, p) PROVE FALSE
  BY DEF Late
<1> DEFINE b == Barrier(v)
           c == Barrier(p)
<1>2. /\ b \in Barriers /\ c \in Barriers
      /\ waiting[v] /\ waiting[p]
      /\ Base(p) = entered[v] /\ Base(r) = entered[p]
  BY <1>1, BarrierIsOne DEF Ahead
<1>3. /\ Base(v)[b] = entered[v][b] - 1 /\ Base(p)[c] = entered[p][c] - 1
      /\ Base(p)[b] <= entered[p][b]
      /\ entered[v][b] \in Nat /\ entered[p][b] \in Nat /\ entered[p][c] \in Nat
  BY <1>2, BaseBelow
<1> HIDE DEF b, c
<1>4. Base(r) # Base(v)
  BY <1>2, <1>3, SMT
<1>5. Base(r) # entered[v]
  BY <1>2, <1>3, SMT
<1>6. ~Ahead(v, r)
  BY OthersHaveFetched
<1> QED
  BY <1>4, <1>5, <1>6 DEF Paced, SamePass, Ahead

-----------------------------------------------------------------------------
(* Nobody makes another step that it is late for.                           *)
LEMMA FetchLate ==
    ASSUME NEW v \in Site, NEW i, NEW j, TypeOK, TypeOK', Paced,
           Fetch(v, current[v], i, j)
    PROVE  /\ \A q \in Site : Late(q)' <=> Late(q)
           /\ ~Late(v)
<1>1. CASE Sites = 1
  <2>1. \A s, p \in Site : s = p
    BY <1>1, SMT DEF Site
  <2>2. \A s, p \in Site : ~Ahead(s, p)
    BY <1>1, AloneAgreed
  <2>3. \A s, p \in Site : ~Ahead(s, p)'
    BY <2>1, NotAheadOfItselfNext
  <2> QED
    BY <2>2, <2>3 DEF Late
<1>2. CASE Sites # 1
  BY <1>2, FetchAhead DEF Late
<1> QED
  BY <1>1, <1>2

LEMMA UnmovedInverse ==
    ASSUME NEW u, Unmoved(u)
    PROVE  Updated(inverse, u)' = Updated(inverse', u)
<1>1. Pivot(u)' = Pivot(u) /\ Candidates(u)' = Candidates(u)
  BY DEF Pivot, Candidates, Unmoved
<1>2. CheckRow(u)' = CheckRow(u)
  BY <1>1 DEF CheckRow
<1> QED
  BY <1>1, <1>2 DEF Updated, Unmoved

LEMMA FetchCaughtUp ==
    ASSUME NEW v \in Site, NEW i, NEW j, TypeOK, TypeOK', Paced,
           Fetch(v, current[v], i, j)
    PROVE  CaughtUp(lhs)' = CaughtUp(lhs) /\ CaughtUp(inverse)' = CaughtUp(inverse)
<1>1. /\ \A q \in Site : Late(q)' <=> Late(q)
      /\ ~Late(v)
  BY FetchLate
<1>2. /\ \A p \in Site : p # v => Unmoved(p)
      /\ lhs' = lhs /\ inverse' = inverse
  BY DEF Fetch, TypeOK, Unmoved
<1>3. ASSUME NEW u \in Site, Late(u)
      PROVE  /\ Updated(lhs, u)' = Updated(lhs, u)
             /\ Updated(inverse, u)' = Updated(inverse, u)
  <2>1. Unmoved(u)
    BY <1>1, <1>2, <1>3
  <2> QED
    BY <1>2, <2>1, UnmovedUpdate, UnmovedInverse
<1>4. \A k \in Index : OwningLoc(k) \in Site
  BY OwnerType
<1>5. CaughtUp(lhs)' = CaughtUp(lhs)
  BY <1>1, <1>2, <1>3, <1>4 DEF CaughtUp
<1>6. CaughtUp(inverse)' = CaughtUp(inverse)
  BY <1>1, <1>2, <1>3, <1>4 DEF CaughtUp
<1> QED
  BY <1>5, <1>6

-----------------------------------------------------------------------------
(* A site makes its update: the last of them, for a pass that others have   *)
(* begun already, or the first, and then all others are late.               *)
LEMMA UpdateLate ==
    ASSUME NEW v \in Site, TypeOK, Paced, FetchedTheSame, Update(v),
           Place(v)' = Successor(v),
           \A p \in Site : p # v => /\ loop'[p] = loop[p]
                                    /\ current'[p] = current[p]
                                    /\ row'[p] = row[p]
    PROVE  /\ ~Late(v)'
           /\ Late(v) => \A o \in Site : o # v => (Late(o)' <=> Late(o))
           /\ ~Late(v) => \A o \in Site : /\ ~Late(o) /\ SamePass(v, o)
                                          /\ o # v => Late(o)'
<1>1. /\ \A p, q \in Site : p # v /\ q # v => (Ahead(p, q)' <=> Ahead(p, q))
      /\ \A q \in Site : q # v => (Ahead(v, q)' <=> SamePass(v, q))
      /\ \A q \in Site : SamePass(v, q) \/ Ahead(q, v)
      /\ \A q \in Site : ~Ahead(v, q) /\ ~Ahead(q, v)'
  BY UpdateAhead
<1>2. \A q \in Site : SamePass(v, q) =>
            /\ waiting[q] /\ entered[q] = entered[v]
            /\ Successor(q) = Successor(v)
  BY UpdateAhead
<1>3. ~Late(v)'
  BY <1>1 DEF Late
<1>4. waiting[v]
  BY DEF Update, Released
<1>5. \A p, q \in Site : SamePass(v, q) => (Ahead(p, q) <=> Ahead(p, v))
  BY <1>2, <1>4 DEF Ahead
<1>6. ASSUME Late(v), NEW o \in Site, o # v PROVE Late(o)' <=> Late(o)
  <2>1. PICK r \in Site : Ahead(r, v)
    BY <1>6 DEF Late
  <2>2. Late(o) => Late(o)'
    BY <1>1, <1>6 DEF Late
  <2>3. Late(o)' => Late(o)
    <3>1. SUFFICES ASSUME NEW p \in Site, Ahead(p, o)' PROVE Late(o)
      BY DEF Late
    <3>2. CASE p # v
      BY <1>1, <1>6, <3>1, <3>2 DEF Late
    <3>3. CASE p = v
      BY <1>1, <1>5, <1>6, <2>1, <3>1, <3>3 DEF Late
    <3> QED
      BY <3>2, <3>3
  <2> QED
    BY <2>2, <2>3
<1>7. ASSUME ~Late(v), NEW o \in Site
      PROVE  /\ ~Late(o) /\ SamePass(v, o)
             /\ o # v => Late(o)'
  <2>1. SamePass(v, o)
    BY <1>1, <1>7 DEF Late
  <2>2. ~Late(o)
    BY <1>5, <1>7, <2>1 DEF Late
  <2>3. o # v => Late(o)'
    BY <1>1, <2>1 DEF Late
  <2> QED
    BY <2>1, <2>2, <2>3
<1> QED
  BY <1>3, <1>6, <1>7

(* A matrix in which the sites of L have made their updates.                *)
Completed(m, L) ==
    [i \in Index |-> [j \in Index |->
        IF OwningLoc(j) \in L THEN Updated(m, OwningLoc(j))[i][j] ELSE m[i][j]]]

LEMMA CompletedAfter ==
    ASSUME TypeOK, NEW m \in Matrices, NEW L, NEW v \in Site, v \in L
    PROVE  Completed(Updated(m, v), L \ {v}) = Completed(m, L)
<1> DEFINE n == Updated(m, v)
<1>1. n \in Matrices
  BY UpdatedType
<1>2. ASSUME NEW i \in Index, NEW j \in Index, OwningLoc(j) # v
      PROVE  /\ n[i][j] = m[i][j]
             /\ Updated(n, OwningLoc(j))[i][j] = Updated(m, OwningLoc(j))[i][j]
  <2>1. j \notin Columns(v) /\ OwningLoc(j) \in Site
    BY <1>2, ColumnHasOneOwner, OwnerType
  <2>2. \A k \in Index : n[k][j] = m[k][j]
    BY <2>1, UpdatedElsewhere
  <2> HIDE DEF n
  <2> QED
    BY <1>1, <2>1, <2>2, UpdatedFromColumn
<1> HIDE DEF n
<1>3. ASSUME NEW i \in Index, NEW j \in Index
      PROVE  (IF OwningLoc(j) \in L \ {v} THEN Updated(n, OwningLoc(j))[i][j] ELSE n[i][j])
              = (IF OwningLoc(j) \in L THEN Updated(m, OwningLoc(j))[i][j] ELSE m[i][j])
  <2>1. CASE OwningLoc(j) = v
    BY <2>1 DEF n
  <2>2. CASE OwningLoc(j) # v
    BY <1>2, <2>2
  <2> QED
    BY <2>1, <2>2
<1>4. Completed(n, L \ {v}) = Completed(m, L)
  BY <1>3 DEF Completed
<1> QED
  BY <1>4 DEF n

LEMMA CompletedByAll ==
    ASSUME TypeOK, NEW m \in Matrices, NEW v \in Site,
           \A o \in Site : Place(o) = Place(v) /\ pulled[o] = pulled[v]
    PROVE  Completed(Updated(m, v), Site \ {v}) = RowsUpdated(m, v)
<1>1. Completed(Updated(m, v), Site \ {v}) = Completed(m, Site)
  BY CompletedAfter
<1>2. RowsUpdated(m, v) \in Matrices
  BY RowsUpdatedType
<1>3. ASSUME NEW i \in Index, NEW j \in Index
      PROVE  Completed(m, Site)[i][j] = RowsUpdated(m, v)[i][j]
  <2>1. OwningLoc(j) \in Site /\ j \in Columns(OwningLoc(j))
    BY OwnerType
  <2>2. Completed(m, Site)[i][j] = Updated(m, OwningLoc(j))[i][j]
    BY <2>1 DEF Completed
  <2>3. Updated(m, OwningLoc(j))[i][j] = RowsUpdated(m, OwningLoc(j))[i][j]
    BY <2>1, UpdatedIsRows
  <2>4. RowsUpdated(m, OwningLoc(j)) = RowsUpdated(m, v)
    BY <2>1, SameRows
  <2> QED
    BY <2>2, <2>3, <2>4
<1>4. Completed(m, Site) \in Matrices
  <2>1. \A i, j \in Index : RowsUpdated(m, v)[i][j] \in Elem
    BY <1>2 DEF Matrices
  <2>2. \A i, j \in Index : Completed(m, Site)[i][j] \in Elem
    BY <1>3, <2>1
  <2> QED
    BY <2>2 DEF Completed, Matrices
<1> QED
  BY <1>1, <1>2, <1>3, <1>4, MatrixEqual

LEMMA CaughtUpCompleted ==
    ASSUME NEW m
    PROVE  CaughtUp(m) = Completed(m, {s \in Site : Late(s)})
  BY OwnerType DEF CaughtUp, Completed

LEMMA UpdateCaughtUp ==
    ASSUME NEW v \in Site, TypeOK, Paced, FetchedTheSame, Update(v),
           Place(v)' = Successor(v),
           \A p \in Site : p # v => /\ loop'[p] = loop[p]
                                    /\ current'[p] = current[p]
                                    /\ row'[p] = row[p]
    PROVE  /\ Late(v) => /\ CaughtUp(lhs)' = CaughtUp(lhs)
                         /\ CaughtUp(inverse)' = CaughtUp(inverse)
           /\ ~Late(v) => /\ CaughtUp(lhs) = lhs
                          /\ CaughtUp(inverse) = inverse
                          /\ CaughtUp(lhs)' = RowsUpdated(lhs, v)
                          /\ CaughtUp(inverse)' = RowsUpdated(inverse, v)
<1> DEFINE L == {s \in Site : Late(s)}
           N == {s \in Site : Late(s)'}
<1>1. /\ ~Late(v)'
      /\ Late(v) => \A o \in Site : o # v => (Late(o)' <=> Late(o))
      /\ ~Late(v) => \A o \in Site : /\ ~Late(o) /\ SamePass(v, o)
                                     /\ o # v => Late(o)'
  BY UpdateLate
<1>2. /\ lhs' = Updated(lhs, v) /\ inverse' = Updated(inverse, v)
      /\ \A p \in Site : p # v => Unmoved(p)
      /\ lhs \in Matrices /\ inverse \in Matrices
  BY DEF Update, TypeOK, Unmoved
<1>3. /\ CaughtUp(lhs)' = Completed(Updated(lhs, v), N)
      /\ CaughtUp(inverse)' = Completed(Updated(inverse, v), N)
  <2>1. \A u \in Site : Late(u)' => /\ Updated(lhs, u)' = Updated(Updated(lhs, v), u)
                                    /\ Updated(inverse, u)' = Updated(Updated(inverse, v), u)
    BY <1>1, <1>2, UnmovedUpdate, UnmovedInverse
  <2>2. \A k \in Index : OwningLoc(k) \in Site
    BY OwnerType
  <2>3. CaughtUp(lhs)' = Completed(Updated(lhs, v), N)
    BY <1>2, <2>1, <2>2 DEF CaughtUp, Completed
  <2>4. CaughtUp(inverse)' = Completed(Updated(inverse, v), N)
    BY <1>2, <2>1, <2>2 DEF CaughtUp, Completed
  <2> QED
    BY <2>3, <2>4
<1>4. ASSUME Late(v)
      PROVE  /\ CaughtUp(lhs)' = CaughtUp(lhs)
             /\ CaughtUp(inverse)' = CaughtUp(inverse)
  <2>1. v \in L /\ N = L \ {v}
    BY <1>1, <1>4
  <2> HIDE DEF N, L
  <2>2. /\ Completed(Updated(lhs, v), L \ {v}) = Completed(lhs, L)
        /\ Completed(Updated(inverse, v), L \ {v}) = Completed(inverse, L)
    BY <1>2, <2>1, CompletedAfter
  <2> QED
    BY <1>3, <2>1, <2>2, CaughtUpCompleted DEF L
<1>5. ASSUME ~Late(v)
      PROVE  /\ CaughtUp(lhs) = lhs
             /\ CaughtUp(inverse) = inverse
             /\ CaughtUp(lhs)' = RowsUpdated(lhs, v)
             /\ CaughtUp(inverse)' = RowsUpdated(inverse, v)
  <2>1. N = Site \ {v}
    BY <1>1, <1>5
  <2>2. \A o \in Site : Place(o) = Place(v) /\ pulled[o] = pulled[v]
    BY <1>1, <1>5, UpdateAhead DEF SamePass
  <2> HIDE DEF N
  <2>3. /\ Completed(Updated(lhs, v), Site \ {v}) = RowsUpdated(lhs, v)
        /\ Completed(Updated(inverse, v), Site \ {v}) = RowsUpdated(inverse, v)
    BY <1>2, <2>2, CompletedByAll
  <2>4. CaughtUp(lhs) = lhs /\ CaughtUp(inverse) = inverse
    BY <1>1, <1>2, <1>5, NobodyLate
  <2> QED
    BY <1>3, <2>1, <2>3, <2>4
<1> QED
  BY <1>4, <1>5

-----------------------------------------------------------------------------
(* How far the elimination has come: columns left of n are those of an      *)
(* upper triangular matrix with a unit diagonal,                            *)
Triangular(m, n) ==
    \A j \in Index : j < n =>
        m[j][j] = 1 /\ \A i \in Index : i > j => m[i][j] = 0

(* columns right of c are zero above the diagonal,                          *)
Cleared(m, c) == \A i, j \in Index : i < j /\ j > c => m[i][j] = 0

(* and part of column c is zero.                                            *)
ZeroBetween(m, c, low, high) ==
    \A i \in Index : low < i /\ i < high => m[i][c] = 0

Stage(m, place) ==
    LET c == place[2]
        r == place[3]
    IN  CASE place[1] = "pivot" -> Triangular(m, c)
          [] place[1] = "eliminate" ->
                Triangular(m, c) /\ m[c][c] = 1 /\ ZeroBetween(m, c, c, r)
          [] place[1] = "substitute" ->
                Triangular(m, Rows) /\ Cleared(m, c) /\ ZeroBetween(m, c, r, c)
          [] place[1] = "returned" -> Triangular(m, Rows) /\ Cleared(m, 0)
          [] OTHER -> Triangular(m, c) /\ ZeroBetween(m, c, c - 1, Rows)

LEMMA StageByLoop ==
    ASSUME NEW m, NEW c, NEW r
    PROVE  /\ Stage(m, <<"pivot", c, r>>) <=> Triangular(m, c)
           /\ Stage(m, <<"eliminate", c, r>>) <=>
                Triangular(m, c) /\ m[c][c] = 1 /\ ZeroBetween(m, c, c, r)
           /\ Stage(m, <<"substitute", c, r>>) <=>
                Triangular(m, Rows) /\ Cleared(m, c) /\ ZeroBetween(m, c, r, c)
           /\ Stage(m, <<"returned", c, r>>) <=> Triangular(m, Rows) /\ Cleared(m, 0)
           /\ Stage(m, <<"thrown", c, r>>) <=>
                Triangular(m, c) /\ ZeroBetween(m, c, c - 1, Rows)
  BY DEF Stage

LEMMA IndexFacts ==
    /\ Rows \in Nat \ {0} /\ Rows - 1 \in Index /\ 0 \in Index
    /\ \A k \in Index : k \in Int /\ 0 <= k /\ k < Rows
  BY DistInverseAssumption, SMT DEF Index

(* Back substitution begins.                                                *)
LEMMA StageSubstitution ==
    ASSUME NEW m, NEW c \in Index, Triangular(m, Rows), Cleared(m, c)
    PROVE  Stage(m, Substitution(c))
<1>1. CASE c = 0
  BY <1>1, StageByLoop DEF Substitution
<1>2. CASE c # 0
  <2>1. ZeroBetween(m, c, c - 1, c)
    BY IndexFacts, SMT DEF ZeroBetween
  <2> QED
    BY <1>2, <2>1, StageByLoop DEF Substitution
<1> QED
  BY <1>1, <1>2

LEMMA ZeroTimes ==
    /\ \A x \in Elem : (0 * x) % P = 0
    /\ \A x \in Elem : (0 - x * 0) % P = 0
    /\ \A x \in Elem : (x - x * 1) % P = 0
    /\ \A x, y \in Elem : (y - x * 0) % P = y
<1>1. 0 % P = 0
  BY DistInverseAssumption, ModUnique, SMT
<1>2. ASSUME NEW x \in Elem
      PROVE  0 * x = 0 /\ 0 - x * 0 = 0 /\ x - x * 1 = 0
             /\ \A y \in Elem : y - x * 0 = y
  <2>1. x \in Int /\ \A y \in Elem : y \in Int
    BY ElemInt
  <2> QED
    BY <2>1, SMT
<1> QED
  BY <1>1, <1>2, ModOfElem

(* What is fetched of the matrix.                                           *)
LEMMA PulledIs ==
    ASSUME TypeOK, NEW m, NEW s \in Site, pulled[s] = Column(m, s)
    PROVE  /\ loop[s] \in {"eliminate", "substitute"} =>
                pulled[s][row[s]] = m[row[s]][current[s]]
           /\ loop[s] = "pivot" =>
                \A k \in Index : k >= current[s] => pulled[s][k] = m[k][current[s]]
<1>1. current[s] \in Index /\ row[s] \in Index
  BY DEF TypeOK
<1>2. /\ row[s] \in row[s] .. row[s]
      /\ \A k \in Index : k >= current[s] => k \in current[s] .. (Rows - 1)
  BY <1>1, IndexFacts, SMT
<1> QED
  BY <1>1, <1>2 DEF Column, Wanted

LEMMA StageDivide ==
    ASSUME TypeOK, NEW m \in Matrices, NEW s \in Site, loop[s] = "pivot",
           Pivot(s) # 0, Stage(m, Place(s)), pulled[s] = Column(m, s)
    PROVE  Stage(RowsUpdated(m, s), Successor(s))
<1> DEFINE c == current[s]
           x == Pivot(s)
           n == RowsUpdated(m, s)
<1>1. c \in Index /\ x \in Elem /\ Reciprocal(x) \in Elem
  BY UpdateTypes
<1>2. n = [m EXCEPT ![c] = RowTimes(m[c], Reciprocal(x))]
  BY RowsByLoop
<1>3. x = m[c][c]
  BY <1>1, PulledIs, IndexFacts, SMT DEF Pivot
<1>4. Triangular(m, c)
  BY StageByLoop DEF Place
<1>5. Successor(s) = IF c < Rows - 1 THEN <<"eliminate", c, c + 1>>
                     ELSE Substitution(Rows - 1)
  BY SuccessorByLoop
<1> HIDE DEF n, c, x
<1>6. \A k, j \in Index : n[k][j] = IF k = c THEN (m[c][j] * Reciprocal(x)) % P
                                    ELSE m[k][j]
  BY <1>1, <1>2 DEF Matrices, RowTimes
<1>7. n[c][c] = 1
  BY <1>1, <1>3, <1>6, ReciprocalTimes DEF x
<1>8. Triangular(n, c)
  <2>1. SUFFICES ASSUME NEW j \in Index, j < c
                 PROVE  n[j][j] = 1 /\ \A i \in Index : i > j => n[i][j] = 0
    BY DEF Triangular
  <2>2. m[j][j] = 1 /\ \A i \in Index : i > j => m[i][j] = 0
    BY <1>4, <2>1 DEF Triangular
  <2>3. j # c /\ c > j
    BY <1>1, <2>1, IndexFacts, SMT
  <2>4. (m[c][j] * Reciprocal(x)) % P = 0
    BY <1>1, <2>2, <2>3, ZeroTimes
  <2> QED
    BY <1>1, <1>6, <2>2, <2>3, <2>4
<1>9. CASE c < Rows - 1
  <2>1. ZeroBetween(n, c, c, c + 1)
    BY <1>1, IndexFacts, SMT DEF ZeroBetween
  <2> QED
    BY <1>5, <1>7, <1>8, <1>9, <2>1, StageByLoop DEF n
<1>10. CASE ~(c < Rows - 1)
  <2>1. c = Rows - 1 /\ Rows - 1 \in Index
    BY <1>1, <1>10, IndexFacts, SMT
  <2>2. Triangular(n, Rows)
    <3>1. \A i \in Index : ~(i > c) /\ (i < Rows => i < c \/ i = c)
      BY <1>1, <2>1, IndexFacts, SMT
    <3> QED
      BY <1>7, <1>8, <3>1 DEF Triangular
  <2>3. Cleared(n, Rows - 1)
    BY IndexFacts, SMT DEF Cleared
  <2> QED
    BY <1>5, <1>10, <2>1, <2>2, <2>3, StageSubstitution DEF n
<1> QED
  BY <1>9, <1>10

LEMMA StageSwap ==
    ASSUME TypeOK, NEW m \in Matrices, NEW s \in Site, loop[s] = "pivot",
           Pivot(s) = 0, Candidates(s) # {}, Stage(m, Place(s))
    PROVE  Stage(RowsUpdated(m, s), Successor(s))
<1> DEFINE c == current[s]
           r == CheckRow(s)
           n == RowsUpdated(m, s)
<1>1. c \in Index /\ r \in Index
  BY UpdateTypes
<1>2. n = [m EXCEPT ![c] = m[r], ![r] = m[c]]
  BY RowsByLoop
<1>3. r > c
  BY CheckRowType DEF Candidates
<1>4. Triangular(m, c)
  BY StageByLoop DEF Place
<1>5. Successor(s) = <<"pivot", c, row[s]>>
  BY SuccessorByLoop DEF Place
<1> HIDE DEF n, c, r
<1>6. Triangular(n, c)
  <2>1. SUFFICES ASSUME NEW j \in Index, j < c
                 PROVE  n[j][j] = 1 /\ \A i \in Index : i > j => n[i][j] = 0
    BY DEF Triangular
  <2>2. m[j][j] = 1 /\ \A i \in Index : i > j => m[i][j] = 0
    BY <1>4, <2>1 DEF Triangular
  <2>3. j # c /\ j # r /\ c > j /\ r > j
    BY <1>1, <1>3, <2>1, IndexFacts, SMT
  <2>4. n[j] = m[j]
    BY <1>1, <1>2, <2>3 DEF Matrices
  <2>5. \A i \in Index : n[i] = m[i] \/ n[i] = m[c] \/ n[i] = m[r]
    BY <1>1, <1>2 DEF Matrices
  <2> QED
    BY <1>1, <2>2, <2>3, <2>4, <2>5
<1> QED
  BY <1>5, <1>6, StageByLoop DEF n

LEMMA StageThrow ==
    ASSUME TypeOK, NEW m \in Matrices, NEW s \in Site, loop[s] = "pivot",
           Pivot(s) = 0, Candidates(s) = {}, Stage(m, Place(s)),
           pulled[s] = Column(m, s)
    PROVE  Stage(RowsUpdated(m, s), Successor(s))
<1>1. current[s] \in Index
  BY UpdateTypes
<1>2. RowsUpdated(m, s) = m
  BY DEF RowsUpdated
<1>3. Triangular(m, current[s])
  BY StageByLoop DEF Place
<1>4. Successor(s) = <<"thrown", current[s], row[s]>>
  BY SuccessorByLoop
<1>5. ZeroBetween(m, current[s], current[s] - 1, Rows)
  <2>1. SUFFICES ASSUME NEW i \in Index, i > current[s] - 1
                 PROVE  m[i][current[s]] = 0
    BY <1>1, IndexFacts, SMT DEF ZeroBetween
  <2>2. i >= current[s] /\ (i = current[s] \/ i > current[s])
    BY <1>1, <2>1, IndexFacts, SMT
  <2>3. pulled[s][i] = m[i][current[s]]
    BY <2>2, PulledIs
  <2>4. pulled[s][i] = 0
    BY <2>2 DEF Pivot, Candidates
  <2> QED
    BY <2>3, <2>4
<1>6. Stage(m, <<"thrown", current[s], row[s]>>)
  BY <1>3, <1>5, StageByLoop
<1> QED
  BY <1>2, <1>4, <1>6

LEMMA StageEliminate ==
    ASSUME TypeOK, NEW m \in Matrices, NEW s \in Site, loop[s] = "eliminate",
           current[s] < row[s], Stage(m, Place(s)), pulled[s] = Column(m, s)
    PROVE  Stage(RowsUpdated(m, s), Successor(s))
<1> DEFINE c == current[s]
           r == row[s]
           x == pulled[s][r]
           n == RowsUpdated(m, s)
<1>1. c \in Index /\ r \in Index /\ x \in Elem
  BY UpdateTypes
<1>2. n = [m EXCEPT ![r] = RowMinus(m[r], x, m[c])]
  BY RowsByLoop
<1>3. x = m[r][c]
  BY PulledIs
<1>4. Triangular(m, c) /\ m[c][c] = 1 /\ ZeroBetween(m, c, c, r)
  BY StageByLoop DEF Place
<1>5. Successor(s) = IF r < Rows - 1 THEN <<"eliminate", c, r + 1>>
                     ELSE <<"pivot", c + 1, r>>
  BY SuccessorByLoop
<1>6. c < r
  OBVIOUS
<1> HIDE DEF n, c, r, x
<1>7. \A k, j \in Index : n[k][j] = IF k = r THEN (m[r][j] - x * m[c][j]) % P
                                    ELSE m[k][j]
  BY <1>1, <1>2 DEF Matrices, RowMinus
<1>8. n[c][c] = 1
  BY <1>1, <1>4, <1>6, <1>7, IndexFacts, SMT
<1>9. n[r][c] = 0
  BY <1>1, <1>3, <1>4, <1>7, ZeroTimes
<1>10. Triangular(n, c)
  <2>1. SUFFICES ASSUME NEW j \in Index, j < c
                 PROVE  n[j][j] = 1 /\ \A i \in Index : i > j => n[i][j] = 0
    BY DEF Triangular
  <2>2. m[j][j] = 1 /\ \A i \in Index : i > j => m[i][j] = 0
    BY <1>4, <2>1 DEF Triangular
  <2>3. j # r /\ c > j /\ r > j
    BY <1>1, <1>6, <2>1, IndexFacts, SMT
  <2>4. (m[r][j] - x * m[c][j]) % P = 0
    BY <1>1, <2>2, <2>3, ZeroTimes
  <2> QED
    BY <1>1, <1>7, <2>2, <2>3, <2>4
<1>11. ZeroBetween(n, c, c, r + 1)
  <2>1. SUFFICES ASSUME NEW i \in Index, c < i, i < r + 1 PROVE n[i][c] = 0
    BY DEF ZeroBetween
  <2>2. i = r \/ i < r
    BY <1>1, <2>1, IndexFacts, SMT
  <2>3. i < r => i # r
    BY <1>1, IndexFacts, SMT
  <2> QED
    BY <1>1, <1>4, <1>7, <1>9, <2>1, <2>2, <2>3 DEF ZeroBetween
<1>12. CASE r < Rows - 1
  BY <1>5, <1>8, <1>10, <1>11, <1>12, StageByLoop DEF n
<1>13. CASE ~(r < Rows - 1)
  <2>1. \A i \in Index : /\ i > c => c < i /\ i < r + 1
                         /\ i < c + 1 => i < c \/ i = c
    BY <1>1, <1>13, IndexFacts, SMT
  <2>2. Triangular(n, c + 1)
    BY <1>8, <1>10, <1>11, <2>1 DEF Triangular, ZeroBetween
  <2> QED
    BY <1>5, <1>13, <2>2, StageByLoop DEF n
<1> QED
  BY <1>12, <1>13

LEMMA StageSubstitute ==
    ASSUME TypeOK, NEW m \in Matrices, NEW s \in Site, loop[s] = "substitute",
           row[s] < current[s], Stage(m, Place(s)), pulled[s] = Column(m, s)
    PROVE  Stage(RowsUpdated(m, s), Successor(s))
<1> DEFINE c == current[s]
           r == row[s]
           x == pulled[s][r]
           n == RowsUpdated(m, s)
<1>1. c \in Index /\ r \in Index /\ x \in Elem
  BY UpdateTypes
<1>2. n = [m EXCEPT ![r] = RowMinus(m[r], x, m[c])]
  BY RowsByLoop
<1>3. x = m[r][c]
  BY PulledIs
<1>4. Triangular(m, Rows) /\ Cleared(m, c) /\ ZeroBetween(m, c, r, c)
  BY StageByLoop DEF Place
<1>5. Successor(s) = IF r > 0 THEN <<"substitute", c, r - 1>>
                     ELSE Substitution(c - 1)
  BY SuccessorByLoop
<1>6. r < c
  OBVIOUS
<1> HIDE DEF n, c, r, x
<1>7. \A k, j \in Index : n[k][j] = IF k = r THEN (m[r][j] - x * m[c][j]) % P
                                    ELSE m[k][j]
  BY <1>1, <1>2 DEF Matrices, RowMinus
<1>8. ASSUME NEW j \in Index, j # c PROVE m[c][j] = 0
  <2>1. j < c \/ c < j
    BY <1>1, <1>8, IndexFacts, SMT
  <2>2. ASSUME j < c PROVE m[c][j] = 0
    <3>1. j < Rows /\ c > j
      BY <1>1, <2>2, IndexFacts, SMT
    <3> QED
      BY <1>1, <1>4, <3>1 DEF Triangular
  <2>3. ASSUME c < j PROVE m[c][j] = 0
    <3>1. j > c
      BY <1>1, <2>3, IndexFacts, SMT
    <3> QED
      BY <1>1, <1>4, <2>3, <3>1 DEF Cleared
  <2> QED
    BY <2>1, <2>2, <2>3
<1>9. \A k, j \in Index : j # c => n[k][j] = m[k][j]
  <2>1. \A j \in Index : m[r][j] \in Elem
    BY <1>1 DEF Matrices
  <2>2. \A j \in Index : j # c => (m[r][j] - x * m[c][j]) % P = m[r][j]
    BY <1>1, <1>8, <2>1, ZeroTimes
  <2> QED
    BY <1>7, <2>2
<1>10. \A k \in Index : k # r => n[k] [c] = m[k][c]
  BY <1>1, <1>7
<1>11. m[c][c] = 1
  BY <1>1, <1>4, IndexFacts DEF Triangular
<1>12. n[r][c] = 0
  BY <1>1, <1>3, <1>7, <1>11, ZeroTimes
<1>13. r # c /\ ~(r > c)
  BY <1>1, <1>6, IndexFacts, SMT
<1>14. Triangular(n, Rows)
  <2>1. SUFFICES ASSUME NEW j \in Index, j < Rows
                 PROVE  n[j][j] = 1 /\ \A i \in Index : i > j => n[i][j] = 0
    BY DEF Triangular
  <2>2. m[j][j] = 1 /\ \A i \in Index : i > j => m[i][j] = 0
    BY <1>4, <2>1 DEF Triangular
  <2>3. CASE j = c
    BY <1>10, <1>13, <2>2, <2>3
  <2>4. CASE j # c
    BY <1>9, <2>2, <2>4
  <2> QED
    BY <2>3, <2>4
<1>15. Cleared(n, c)
  <2>1. \A j \in Index : j > c => j # c
    BY <1>1, IndexFacts, SMT
  <2> QED
    BY <1>4, <1>9, <2>1 DEF Cleared
<1>16. ZeroBetween(n, c, r - 1, c)
  <2>1. SUFFICES ASSUME NEW i \in Index, r - 1 < i, i < c PROVE n[i][c] = 0
    BY DEF ZeroBetween
  <2>2. i = r \/ (r < i /\ i # r)
    BY <1>1, <2>1, IndexFacts, SMT
  <2> QED
    BY <1>4, <1>10, <1>12, <2>1, <2>2 DEF ZeroBetween
<1>17. CASE r > 0
  BY <1>5, <1>14, <1>15, <1>16, <1>17, StageByLoop DEF n
<1>18. CASE ~(r > 0)
  <2>1. c - 1 \in Index
    BY <1>1, <1>6, DistInverseAssumption, SMT DEF Index
  <2>2. Cleared(n, c - 1)
    <3>1. SUFFICES ASSUME NEW i \in Index, NEW j \in Index, i < j, j > c - 1
                   PROVE  n[i][j] = 0
      BY DEF Cleared
    <3>2. (j > c) \/ (j = c /\ r - 1 < i /\ i < c)
      BY <1>1, <1>18, <3>1, IndexFacts, SMT
    <3> QED
      BY <1>15, <1>16, <3>1, <3>2 DEF Cleared, ZeroBetween
  <2> QED
    BY <1>5, <1>14, <1>18, <2>1, <2>2, StageSubstitution DEF n
<1> QED
  BY <1>17, <1>18

LEMMA StageOfRows ==
    ASSUME TypeOK, Ranges, NEW m \in Matrices, NEW s \in Site, loop[s] \in Loops,
           Stage(m, Place(s)), pulled[s] = Column(m, s)
    PROVE  Stage(RowsUpdated(m, s), Successor(s))
  BY StageDivide, StageSwap, StageThrow, StageEliminate, StageSubstitute
     DEF Ranges, Loops

LEMMA StageReturned ==
    ASSUME NEW m \in Matrices, NEW c, NEW r, Stage(m, <<"returned", c, r>>)
    PROVE  m = Unit
<1>1. Triangular(m, Rows) /\ Cleared(m, 0)
  BY StageByLoop
<1>2. ASSUME NEW i \in Index, NEW j \in Index PROVE m[i][j] = Unit[i][j]
  <2>1. i = j \/ (i > j /\ i # j) \/ (i < j /\ j > 0 /\ i # j)
    BY IndexFacts, SMT
  <2>2. j < Rows
    BY IndexFacts
  <2> QED
    BY <1>1, <2>1, <2>2 DEF Triangular, Cleared, Unit
<1> QED
  BY <1>2, UnitType, MatrixEqual

-----------------------------------------------------------------------------
(* A matrix whose elimination ended at a column without a pivot is          *)
(* singular: back substitution gives a vector that it takes to zero.        *)
SolvesFrom(m, c, x, n) ==
    /\ x \in [Index -> Elem]
    /\ x[c] = 1
    /\ \A j \in Index : j > c => x[j] = 0
    /\ \A i \in Index : i >= n => Dot(m[i], x) % P = 0

LEMMA SolvesLast ==
    ASSUME NEW m \in Matrices, NEW c \in Index,
           Triangular(m, c), ZeroBetween(m, c, c - 1, Rows)
    PROVE  SolvesFrom(m, c, [k \in Index |-> IF k = c THEN 1 ELSE 0], c)
<1> DEFINE x == [k \in Index |-> IF k = c THEN 1 ELSE 0]
<1>1. x \in [Index -> Elem]
  BY DistInverseAssumption, SMT DEF Elem
<1>2. \A j \in Index : j > c => x[j] = 0
  BY IndexFacts, SMT
<1>3. ASSUME NEW i \in Index, i >= c PROVE Dot(m[i], x) % P = 0
  <2> DEFINE f == [k \in Index |-> m[i][k] * x[k]]
  <2>1. m[i] \in [Index -> Int] /\ x \in [Index -> Int]
    BY <1>1, MatrixRow, RowInt
  <2>2. f \in [Index -> Int]
    BY <2>1
  <2>3. m[i][c] = 0
    BY <1>3, IndexFacts, SMT DEF ZeroBetween
  <2>4. \A k \in Index : m[i][k] \in Int
    BY <2>1
  <2>5. \A k \in Index : f[k] = 0
    BY <2>3, <2>4, SMT
  <2> HIDE DEF f
  <2>6. Total(f) = f[c]
    BY <2>2, <2>5, TotalSingle
  <2>7. Dot(m[i], x) = 0
    BY <2>5, <2>6 DEF Dot, f
  <2>8. 0 % P = 0
    BY DistInverseAssumption, ModUnique, SMT
  <2> QED
    BY <2>7, <2>8
<1> QED
  BY <1>1, <1>2, <1>3 DEF SolvesFrom

(* A change of one element.                                                 *)
LEMMA DotChanged ==
    ASSUME NEW r \in [Index -> Int], NEW x \in [Index -> Int],
           NEW y \in [Index -> Int], NEW l \in Index,
           \A k \in Index : k # l => y[k] = x[k]
    PROVE  Dot(r, y) = Dot(r, x) + r[l] * (y[l] - x[l])
<1> DEFINE f == [k \in Index |-> r[k] * x[k]]
           g == [k \in Index |-> r[k] * (y[k] - x[k])]
           h == [k \in Index |-> r[k] * y[k]]
<1>1. f \in [Index -> Int] /\ g \in [Index -> Int] /\ h \in [Index -> Int]
  OBVIOUS
<1>2. \A k \in Index : h[k] = 1 * f[k] + 1 * g[k]
  <2>1. \A a, b, d \in Int : a * d = 1 * (a * b) + 1 * (a * (d - b))
    BY SMT
  <2>2. \A k \in Index : r[k] \in Int /\ x[k] \in Int /\ y[k] \in Int
    OBVIOUS
  <2> QED
    BY <2>1, <2>2
<1>3. \A k \in Index : k # l => g[k] = 0
  <2>1. \A a, b \in Int : a * (b - b) = 0
    BY SMT
  <2> QED
    BY <2>1
<1>4. h = Combined(1, f, 1, g)
  BY <1>2 DEF Combined
<1>5. g[l] = r[l] * (y[l] - x[l])
  OBVIOUS
<1>6. Dot(r, y) = Total(h) /\ Dot(r, x) = Total(f)
  BY DEF Dot
<1> HIDE DEF f, g, h
<1>7. Total(h) = 1 * Total(f) + 1 * Total(g)
  BY <1>1, <1>4, TotalLinear
<1>8. Total(g) = g[l]
  BY <1>1, <1>3, TotalSingle
<1>9. Total(f) \in Int /\ g[l] \in Int
  BY <1>1, TotalInt
<1>10. Total(h) = Total(f) + g[l]
  BY <1>7, <1>8, <1>9, SMT
<1> QED
  BY <1>5, <1>6, <1>10

LEMMA SolvesMore ==
    ASSUME NEW m \in Matrices, NEW c \in Index, Triangular(m, c),
           NEW x, NEW n \in Nat, 0 < n, n <= c, SolvesFrom(m, c, x, n)
    PROVE  \E y : SolvesFrom(m, c, y, n - 1)
<1> DEFINE l == n - 1
           d == Dot(m[l], x) % P
           y == [x EXCEPT ![l] = (@ - d) % P]
<1>1. l \in Index /\ l < c
  BY IndexFacts, DistInverseAssumption, SMT DEF Index
<1>2. /\ x \in [Index -> Elem] /\ x[c] = 1
      /\ \A j \in Index : j > c => x[j] = 0
      /\ \A i \in Index : i >= n => Dot(m[i], x) % P = 0
  BY DEF SolvesFrom
<1>3. m[l][l] = 1 /\ \A i \in Index : i > l => m[i][l] = 0
  BY <1>1 DEF Triangular
<1>4. /\ x \in [Index -> Int] /\ \A i \in Index : m[i] \in [Index -> Int]
  BY <1>2, MatrixRow, RowInt
<1>5. \A i \in Index : Dot(m[i], x) \in Int
  BY <1>4, DotInt
<1>6. d \in Elem /\ d \in Int /\ x[l] \in Int
  BY <1>1, <1>4, <1>5, Residue, ElemInt
<1>7. (x[l] - d) % P \in Elem
  BY <1>6, Residue
<1>8. /\ y \in [Index -> Elem] /\ y[l] = (x[l] - d) % P
      /\ \A k \in Index : k # l => y[k] = x[k]
  BY <1>1, <1>2, <1>7
<1> HIDE DEF y, d, l
<1>9. y \in [Index -> Int]
  BY <1>8, RowInt
<1>10. \A i \in Index : Dot(m[i], y) = Dot(m[i], x) + m[i][l] * (y[l] - x[l])
  BY <1>1, <1>4, <1>8, <1>9, DotChanged
<1>11. ASSUME NEW i \in Index, i >= n PROVE Dot(m[i], y) % P = 0
  <2>1. m[i][l] = 0
    BY <1>3, <1>11, IndexFacts, SMT DEF l
  <2>2. Dot(m[i], x) \in Int /\ y[l] \in Int /\ x[l] \in Int
    BY <1>1, <1>5, <1>6, <1>9
  <2>3. Dot(m[i], y) = Dot(m[i], x)
    BY <1>10, <2>1, <2>2, SMT
  <2> QED
    BY <1>2, <1>11, <2>3
<1>12. Dot(m[l], y) % P = 0
  <2> DEFINE D == Dot(m[l], x)
             a == x[l]
  <2>1. D \in Int /\ a \in Int /\ y[l] \in Int
    BY <1>1, <1>5, <1>6, <1>9
  <2>2. d = D % P /\ y[l] = (a - d) % P
    BY <1>8 DEF d
  <2>3. Dot(m[l], y) = D + 1 * (y[l] - a)
    BY <1>1, <1>3, <1>10
  <2> HIDE DEF D, a
  <2> DEFINE q == D \div P
             p == (a - d) \div P
  <2>4. q \in Int /\ D = P * q + d
    BY <2>1, <2>2, Mod
  <2>5. p \in Int /\ a - d = P * p + y[l]
    BY <1>6, <2>1, <2>2, Mod
  <2> HIDE DEF q, p
  <2>6. Dot(m[l], y) = P * (q - p) + 0 /\ P \in Nat /\ 0 < P
    BY <1>6, <2>1, <2>3, <2>4, <2>5, DistInverseAssumption, SMT
  <2>7. q - p \in Int
    BY <2>4, <2>5
  <2> QED
    BY <2>6, <2>7, ModUnique
<1>13. \A i \in Index : i >= l => i >= n \/ i = l
  BY <1>1, IndexFacts, SMT DEF l
<1>14. y[c] = 1 /\ \A j \in Index : j > c => y[j] = 0
  <2>1. c # l /\ \A j \in Index : j > c => j # l
    BY <1>1, IndexFacts, SMT
  <2> QED
    BY <1>2, <1>8, <2>1
<1>15. SolvesFrom(m, c, y, l)
  BY <1>8, <1>11, <1>12, <1>13, <1>14 DEF SolvesFrom
<1> QED
  BY <1>15 DEF l

LEMMA StageThrown ==
    ASSUME NEW m \in Matrices, NEW c \in Index, NEW r, Stage(m, <<"thrown", c, r>>)
    PROVE  \E x \in Kernel(m) : x[c] # 0
<1>1. Triangular(m, c) /\ ZeroBetween(m, c, c - 1, Rows)
  BY StageByLoop
<1> DEFINE Good == {n \in Nat : n <= c /\ \E x : SolvesFrom(m, c, x, n)}
<1>2. c \in Good
  <2>1. \E x : SolvesFrom(m, c, x, c)
    BY <1>1, SolvesLast
  <2>2. c \in Nat /\ c <= c
    BY IndexFacts, SMT
  <2> QED
    BY <2>1, <2>2
<1>3. PICK n \in Good : \A k \in Good : n <= k
  <2>1. Good \in SUBSET Nat /\ Good # {}
    BY <1>2
  <2> HIDE DEF Good
  <2> QED
    BY <2>1, LeastExists
<1>4. n = 0
  <2>1. SUFFICES ASSUME 0 < n PROVE FALSE
    BY <1>3, SMT
  <2>2. n \in Nat /\ n <= c /\ \E x : SolvesFrom(m, c, x, n)
    BY <1>3
  <2>3. \E y : SolvesFrom(m, c, y, n - 1)
    BY <1>1, <2>1, <2>2, SolvesMore
  <2>4. n - 1 \in Nat /\ n - 1 <= c /\ ~(n <= n - 1)
    BY <2>1, <2>2, IndexFacts, SMT
  <2>5. n - 1 \in Good
    BY <2>3, <2>4
  <2> QED
    BY <1>3, <2>4, <2>5
<1>5. PICK x : SolvesFrom(m, c, x, 0)
  BY <1>3, <1>4
<1>6. \A i \in Index : i >= 0
  BY IndexFacts, SMT
<1> QED
  BY <1>5, <1>6 DEF SolvesFrom, Kernel

LEMMA KernelSingular ==
    ASSUME NEW m \in Matrices, NEW x \in Kernel(m), NEW c \in Index, x[c] # 0
    PROVE  Singular(m)
<1>1. x \in [Index -> Elem] /\ \A i \in Index : Dot(m[i], x) % P = 0
  BY DEF Kernel
<1>2. \A i \in Index :
        FoldFunction(+, 0, [k \in Index |-> m[i][k] * x[k]]) % P = 0
  BY <1>1 DEF Dot, Total
<1> QED
  BY <1>1, <1>2 DEF Singular

-----------------------------------------------------------------------------
(* The elimination, as the whole matrix goes through it.                    *)

(* The rows of the result have seen the operations of those of the operand, *)
TracksInput == Product(CaughtUp(inverse), input) = CaughtUp(lhs)

(* which lose nothing: what is taken to zero now was so from the start,     *)
KeepsKernel == Kernel(CaughtUp(lhs)) \subseteq Kernel(input)

(* and the elimination has come where the first of the sites are.           *)
Staged == \A s \in Site : ~Late(s) => Stage(CaughtUp(lhs), Place(s))

Eliminated ==
    Agreed /\ FetchedInFront /\ TracksInput /\ KeepsKernel /\ Staged

WaitsInLoop == \A s \in Site : waiting[s] => loop[s] \in Loops

LEMMA EliminatedInit == Init => Eliminated
<1>1. SUFFICES ASSUME Init PROVE Eliminated
  OBVIOUS
<1>2. Agreed
  BY <1>1, AgreedInit
<1>3. \A s \in Site : ~waiting[s] /\ Place(s) = <<"pivot", 0, 0>>
  BY <1>1 DEF Init, Place
<1>4. \A s \in Site : ~Late(s)
  BY <1>3 DEF Late, Ahead
<1>5. input \in Matrices /\ lhs = input /\ inverse = Unit
  BY <1>1 DEF Init
<1>6. CaughtUp(lhs) = input /\ CaughtUp(inverse) = Unit
  BY <1>4, <1>5, UnitType, NobodyLate
<1>7. TracksInput
  BY <1>5, <1>6, ProductUnit DEF TracksInput
<1>8. Stage(input, <<"pivot", 0, 0>>)
  <2>1. Triangular(input, 0)
    BY IndexFacts, SMT DEF Triangular
  <2> QED
    BY <2>1, StageByLoop
<1> QED
  BY <1>2, <1>3, <1>6, <1>7, <1>8
     DEF Eliminated, FetchedInFront, KeepsKernel, Staged

LEMMA EliminatedFetch ==
    ASSUME NEW v \in Site, TypeOK, TypeOK', Agreed', Eliminated, raced' = FALSE,
           Fetches(v)
    PROVE  Eliminated'
<1>1. PICK i, j : Wanted(v) = i .. j /\ Fetch(v, current[v], i, j)
  BY DEF Fetches
<1>2. Paced
  BY DEF Eliminated, Agreed
<1>3. \A q \in Site : Late(q)' <=> Late(q)
  BY <1>1, <1>2, FetchLate
<1>4. CaughtUp(lhs)' = CaughtUp(lhs) /\ CaughtUp(inverse)' = CaughtUp(inverse)
  BY <1>1, <1>2, FetchCaughtUp
<1>5. /\ input' = input /\ lhs' = lhs
      /\ \A p \in Site : p # v => Unmoved(p)
      /\ loop' = loop /\ current' = current /\ row' = row
  BY <1>1 DEF Fetch, TypeOK, Unmoved
<1>6. /\ \A p \in Site : Place(p)' = Place(p)
      /\ \A p \in Site : Column(lhs, p)' = IF p = v THEN Column(lhs, v)
                                           ELSE Column(lhs, p)
  <2>1. Column(lhs, v)' = Column(lhs, v)
    BY <1>5 DEF Column, Wanted
  <2>2. \A p \in Site : p # v => Column(lhs, p)' = Column(lhs, p)
    BY <1>5, UnmovedColumn
  <2> QED
    BY <1>5, <2>1, <2>2 DEF Place
<1>7. pulled'[v] = Column(lhs, v)
  BY <1>1, FetchesColumn DEF TypeOK
<1>8. FetchedInFront'
  BY <1>3, <1>5, <1>6, <1>7 DEF Eliminated, FetchedInFront, Unmoved
<1>9. TracksInput'
  BY <1>4, <1>5 DEF Eliminated, TracksInput
<1>10. KeepsKernel'
  BY <1>4, <1>5 DEF Eliminated, KeepsKernel, Kernel
<1>11. Staged'
  <2>1. SUFFICES ASSUME NEW s \in Site, ~Late(s)'
                 PROVE  Stage(CaughtUp(lhs), Place(s))'
    BY DEF Staged
  <2>2. Stage(CaughtUp(lhs), Place(s))
    BY <1>3, <2>1 DEF Eliminated, Staged
  <2> QED
    BY <1>4, <1>6, <2>2 DEF Stage, Triangular, Cleared, ZeroBetween
<1> QED
  BY <1>8, <1>9, <1>10, <1>11 DEF Eliminated

LEMMA StageNext ==
    ASSUME NEW s, NEW m, NEW place, CaughtUp(lhs)' = m, Place(s)' = place,
           Stage(m, place)
    PROVE  Stage(CaughtUp(lhs), Place(s))'
  BY DEF Stage, Triangular, Cleared, ZeroBetween

LEMMA EliminatedUpdate ==
    ASSUME NEW v \in Site, IInv, Agreed', Eliminated, Proceeds(v),
           loop[v] \in Loops
    PROVE  Eliminated'
<1>1. /\ TypeOK /\ Ranges
      /\ Paced /\ FetchedTheSame /\ UpdatesElsewhere
  BY DEF IInv, Eliminated, Agreed
<1>2. /\ Update(v) /\ Place(v)' = Successor(v)
      /\ \A p \in Site : p # v => /\ loop'[p] = loop[p]
                                  /\ current'[p] = current[p]
                                  /\ row'[p] = row[p]
  BY DEF Proceeds
<1>3. /\ ~Late(v)'
      /\ Late(v) => \A o \in Site : o # v => (Late(o)' <=> Late(o))
      /\ ~Late(v) => \A o \in Site : o # v => Late(o)'
  BY <1>1, <1>2, UpdateLate
<1>4. /\ Late(v) => /\ CaughtUp(lhs)' = CaughtUp(lhs)
                    /\ CaughtUp(inverse)' = CaughtUp(inverse)
      /\ ~Late(v) => /\ CaughtUp(lhs) = lhs
                     /\ CaughtUp(inverse) = inverse
                     /\ CaughtUp(lhs)' = RowsUpdated(lhs, v)
                     /\ CaughtUp(inverse)' = RowsUpdated(inverse, v)
  BY <1>1, <1>2, UpdateCaughtUp
<1>5. /\ Released(v) /\ waiting[v] /\ ~waiting'[v]
      /\ input' = input /\ lhs' = Updated(lhs, v) /\ pulled' = pulled
      /\ \A p \in Site : p # v => Unmoved(p)
  BY <1>1, <1>2 DEF Update, Released, TypeOK, Unmoved
<1>6. \A p \in Site : p # v => Place(p)' = Place(p)
  BY <1>2 DEF Place
<1>7. lhs \in Matrices /\ inverse \in Matrices /\ input \in Matrices
  BY <1>1 DEF TypeOK
<1>8. FetchedInFront'
  <2>1. SUFFICES ASSUME NEW q \in Site, waiting'[q], ~Late(q)'
                 PROVE  pulled'[q] = Column(lhs, q)'
    BY DEF FetchedInFront
  <2>2. q # v /\ Late(v) /\ ~Late(q)
    BY <1>3, <1>5, <2>1
  <2>3. Ahead(q, v)
    <3>1. SUFFICES ASSUME SamePass(v, q) PROVE FALSE
      BY <1>1, <1>2, UpdateAhead
    <3>2. waiting[q] /\ entered[q] = entered[v] /\ Successor(q) = Successor(v)
      BY <1>1, <1>2, <3>1, UpdateAhead
    <3> QED
      BY <2>2, <3>2 DEF Late, Ahead
  <2>4. waiting[q] /\ pulled[q] = Column(Updated(lhs, v), q)
    BY <1>1, <1>5, <2>1, <2>2, <2>3 DEF UpdatesElsewhere, Unmoved
  <2>5. Column(lhs, q)' = Column(Updated(lhs, v), q)
    BY <1>5, <2>2, UnmovedColumn
  <2> QED
    BY <1>5, <2>4, <2>5
<1>9. TracksInput'
  <2>1. Product(CaughtUp(inverse), input) = CaughtUp(lhs)
    BY DEF Eliminated, TracksInput
  <2>2. Product(RowsUpdated(inverse, v), input) = RowsUpdated(Product(inverse, input), v)
    BY <1>1, <1>7, ProductOfRows
  <2>3. TracksInput' <=> Product(CaughtUp(inverse)', input) = CaughtUp(lhs)'
    BY <1>5 DEF TracksInput
  <2> QED
    BY <1>4, <2>1, <2>2, <2>3
<1>10. KeepsKernel'
  <2>1. Kernel(CaughtUp(lhs)) \subseteq Kernel(input)
    BY DEF Eliminated, KeepsKernel
  <2>2. Kernel(RowsUpdated(lhs, v)) \subseteq Kernel(lhs)
    <3>1. loop[v] \in {"eliminate", "substitute"} => row[v] # current[v]
      BY <1>1, UpdateTypes, IndexFacts, SMT DEF Ranges
    <3> QED
      BY <1>1, <1>7, <3>1, KernelOfRows
  <2>3. KeepsKernel' <=> Kernel(CaughtUp(lhs)') \subseteq Kernel(input)
    BY <1>5 DEF KeepsKernel, Kernel
  <2> QED
    BY <1>4, <2>1, <2>2, <2>3
<1>11. Staged'
  <2>1. SUFFICES ASSUME NEW s \in Site, ~Late(s)'
                 PROVE  Stage(CaughtUp(lhs), Place(s))'
    BY DEF Staged
  <2>2. CASE s # v
    <3>1. Late(v) /\ ~Late(s)
      BY <1>3, <2>1, <2>2
    <3>2. Stage(CaughtUp(lhs), Place(s))
      BY <3>1 DEF Eliminated, Staged
    <3> QED
      BY <1>4, <1>6, <2>2, <3>1, <3>2, StageNext
  <2>3. CASE s = v /\ Late(v)
    <3>1. PICK p \in Site : Ahead(p, v)
      BY <2>3 DEF Late
    <3>2. ~Late(p) /\ Place(p) = Successor(v)
      BY <1>1, <1>5, <3>1, AheadIsInFront DEF Ahead
    <3>3. Stage(CaughtUp(lhs), Successor(v))
      BY <3>2 DEF Eliminated, Staged
    <3> QED
      BY <1>2, <1>4, <2>3, <3>3, StageNext
  <2>4. CASE s = v /\ ~Late(v)
    <3>1. Stage(lhs, Place(v))
      BY <1>4, <2>4 DEF Eliminated, Staged
    <3>2. pulled[v] = Column(lhs, v)
      BY <1>5, <2>4 DEF Eliminated, FetchedInFront
    <3>3. Stage(RowsUpdated(lhs, v), Successor(v))
      BY <1>1, <1>7, <3>1, <3>2, StageOfRows
    <3> QED
      BY <1>2, <1>4, <2>4, <3>3, StageNext
  <2> QED
    BY <2>2, <2>3, <2>4
<1> QED
  BY <1>8, <1>9, <1>10, <1>11 DEF Eliminated

LEMMA EliminatedStutters ==
    ASSUME Eliminated, UNCHANGED vars
    PROVE  Eliminated'
<1>1. /\ \A s \in Site : Unmoved(s)
      /\ lhs' = lhs /\ inverse' = inverse /\ input' = input
  BY DEF vars, control, Unmoved
<1>2. Agreed' /\ \A s, p \in Site : Ahead(s, p)' <=> Ahead(s, p)
  BY AgreedStutters DEF Eliminated
<1>3. \A s \in Site : Late(s)' <=> Late(s)
  BY <1>2 DEF Late
<1>4. \A s \in Site : /\ Updated(lhs, s)' = Updated(lhs, s)
                      /\ Updated(inverse, s)' = Updated(inverse, s)
  BY <1>1, UnmovedUpdate, UnmovedInverse
<1>5. \A k \in Index : OwningLoc(k) \in Site
  BY OwnerType
<1>6. CaughtUp(lhs)' = CaughtUp(lhs)
  BY <1>1, <1>3, <1>4, <1>5 DEF CaughtUp
<1>7. CaughtUp(inverse)' = CaughtUp(inverse)
  BY <1>1, <1>3, <1>4, <1>5 DEF CaughtUp
<1>8. FetchedInFront'
  <2>1. \A s \in Site : /\ Column(lhs, s)' = Column(lhs, s)
                        /\ waiting'[s] = waiting[s] /\ pulled'[s] = pulled[s]
    BY <1>1, UnmovedColumn DEF Unmoved
  <2> QED
    BY <1>3, <2>1 DEF Eliminated, FetchedInFront
<1>9. TracksInput'
  BY <1>1, <1>6, <1>7 DEF Eliminated, TracksInput
<1>10. KeepsKernel'
  BY <1>1, <1>6 DEF Eliminated, KeepsKernel, Kernel
<1>11. Staged'
  <2>1. \A s \in Site : Place(s)' = Place(s)
    BY <1>1, UnmovedSuccessor
  <2>2. SUFFICES ASSUME NEW s \in Site, ~Late(s)'
                 PROVE  Stage(CaughtUp(lhs), Place(s))'
    BY DEF Staged
  <2> QED
    BY <1>3, <1>6, <2>1, <2>2, StageNext DEF Eliminated, Staged
<1> QED
  BY <1>2, <1>8, <1>9, <1>10, <1>11 DEF Eliminated

ElimInv == WaitsInLoop /\ (~raced => Eliminated)

LEMMA ElimInit == Init => ElimInv
<1>1. Init => WaitsInLoop
  BY DEF Init, WaitsInLoop
<1> QED
  BY <1>1, EliminatedInit DEF ElimInv

LEMMA ElimInductive == IInv /\ ElimInv /\ [Next]_vars => ElimInv'
<1>1. SUFFICES ASSUME IInv, ElimInv, [Next]_vars PROVE ElimInv'
  OBVIOUS
<1>2. TypeOK /\ IInv' /\ TypeOK'
  BY <1>1, Inductive DEF IInv
<1>3. CASE UNCHANGED vars
  <2>1. WaitsInLoop'
    BY <1>1, <1>3 DEF vars, control, ElimInv, WaitsInLoop
  <2>2. raced' = raced
    BY <1>3 DEF vars
  <2> QED
    BY <1>1, <1>3, <2>1, <2>2, EliminatedStutters DEF ElimInv
<1>4. ASSUME NEW s \in Site, Step(s) PROVE ElimInv'
  <2>1. loop[s] \in Loops /\ (Fetches(s) \/ Proceeds(s))
    BY <1>2, <1>4, StepKinds
  <2>2. WaitsInLoop'
    <3>1. CASE Fetches(s)
      BY <1>1, <1>2, <2>1, <3>1 DEF Fetches, Fetch, ElimInv, WaitsInLoop, TypeOK
    <3>2. CASE Proceeds(s)
      BY <1>1, <1>2, <3>2 DEF Proceeds, Update, ElimInv, WaitsInLoop, TypeOK
    <3> QED
      BY <2>1, <3>1, <3>2
  <2>3. SUFFICES ASSUME ~raced' PROVE Eliminated'
    BY <2>2 DEF ElimInv
  <2>4. raced' = FALSE /\ ~raced
    BY <1>2, <1>4, <2>3, RacedStays
  <2>5. Eliminated
    BY <1>1, <2>4 DEF ElimInv
  <2>6. Agreed'
    BY <1>2, <1>4, <2>4, <2>5, AgreedStep DEF Eliminated
  <2> QED
    BY <1>1, <1>2, <2>1, <2>4, <2>5, <2>6, EliminatedFetch, EliminatedUpdate
<1> QED
  BY <1>1, <1>3, <1>4 DEF Next

LEMMA TogetherNobodyLate ==
    ASSUME TypeOK, Together
    PROVE  \A s \in Site : ~Late(s)
<1>1. SUFFICES ASSUME NEW s \in Site, NEW p \in Site, Ahead(p, s) PROVE FALSE
  BY DEF Late
<1> DEFINE b == Barrier(p)
<1>2. b \in Barriers /\ waiting[p] /\ entered[p] = entered[s] /\ Base(p) = entered[s]
  BY <1>1, BarrierIsOne DEF Ahead, Together
<1>3. entered[p][b] \in Nat /\ Base(p)[b] = entered[p][b] - 1
  BY <1>2, BaseBelow
<1> QED
  BY <1>2, <1>3, SMT

(* Whenever the sites are at one point of one pass, the rows of the two     *)
(* matrices have gone through the same operations, at whatever site: what   *)
(* the result is by then takes the operand to what is left of it.           *)
THEOREM ResultTracks == Spec => []ResultTracksOperand
<1>1. IInv /\ ElimInv => ResultTracksOperand
  <2>1. SUFFICES ASSUME TypeOK, ElimInv, Together, ~raced
                 PROVE  Product(inverse, input) = lhs
    BY DEF IInv, ResultTracksOperand
  <2>2. CaughtUp(lhs) = lhs /\ CaughtUp(inverse) = inverse
    BY <2>1, TogetherNobodyLate, NobodyLate DEF TypeOK
  <2> QED
    BY <2>1, <2>2 DEF ElimInv, Eliminated, TracksInput
<1> QED
  BY <1>1, InvInit, Inductive, ElimInit, ElimInductive, PTL DEF Spec

(* If no fetch met a write to what it fetched, then what the sites return   *)
(* makes up the inverse of the operand, and they throw only if it has none: *)
(* for any number of rows and sites, any operand and any prime.             *)
THEOREM InverseFound == Spec => []InverseUnlessRaced
<1>1. IInv /\ ElimInv => InverseUnlessRaced
  <2>1. SUFFICES ASSUME TypeOK, ElimInv, ~raced PROVE InverseCorrect
    BY DEF IInv, InverseUnlessRaced
  <2>2. Eliminated /\ WaitsInLoop
    BY <2>1 DEF ElimInv
  <2>3. \A s \in Site : loop[s] \notin Loops => ~Late(s)
    BY <2>2 DEF WaitsInLoop, Late, Ahead
  <2>4. lhs \in Matrices /\ inverse \in Matrices /\ CaughtUp(lhs) \in Matrices
    BY <2>1, CaughtUpType DEF TypeOK
  <2>5. ASSUME AllReturned PROVE Product(inverse, input) = Unit
    <3>1. \A s \in Site : ~Late(s) /\ loop[s] = "returned"
      BY <2>3, <2>5 DEF AllReturned, Loops
    <3>2. CaughtUp(lhs) = lhs /\ CaughtUp(inverse) = inverse
      BY <2>4, <3>1, NobodyLate
    <3>3. 0 \in Site
      BY DistInverseAssumption, SMT DEF Site
    <3>4. Stage(lhs, <<"returned", current[0], row[0]>>)
      BY <2>2, <3>1, <3>2, <3>3 DEF Eliminated, Staged, Place
    <3>5. lhs = Unit
      BY <2>4, <3>4, StageReturned
    <3> QED
      BY <2>2, <3>2, <3>5 DEF Eliminated, TracksInput
  <2>6. ASSUME SomeThrown PROVE Singular(input)
    <3>1. PICK s \in Site : loop[s] = "thrown"
      BY <2>6 DEF SomeThrown
    <3>2. ~Late(s) /\ current[s] \in Index
      BY <2>1, <2>3, <3>1 DEF Loops, TypeOK
    <3>3. Stage(CaughtUp(lhs), <<"thrown", current[s], row[s]>>)
      BY <2>2, <3>1, <3>2 DEF Eliminated, Staged, Place
    <3>4. PICK x \in Kernel(CaughtUp(lhs)) : x[current[s]] # 0
      BY <2>4, <3>2, <3>3, StageThrown
    <3>5. x \in Kernel(input)
      BY <2>2, <3>4 DEF Eliminated, KeepsKernel
    <3> QED
      BY <2>1, <3>2, <3>4, <3>5, KernelSingular DEF TypeOK
  <2> QED
    BY <2>5, <2>6 DEF InverseCorrect
<1> QED
  BY <1>1, InvInit, Inductive, ElimInit, ElimInductive, PTL DEF Spec
=============================================================================
