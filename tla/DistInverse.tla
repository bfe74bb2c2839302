----------------------------- MODULE DistInverse -----------------------------
(***************************************************************************)
(* inverse_d: Gauss-Jordan elimination over a matrix whose columns are     *)
(* distributed (plugins/dist_matrixops/dist_inverse_operation.cpp).        *)
(*                                                                         *)
(* All sites run the same loops over their own columns.  In every pass a   *)
(* site fetches a column, or an element, from the site that owns it, waits *)
(* at a barrier, and updates its columns in place: the owner's array is    *)
(* the one the others fetch from.  There is one barrier in a pass, before  *)
(* the update, and none between the update and the next fetch.             *)
(*                                                                         *)
(* Matrix elements are residues of a prime: exact where doubles round.     *)
(***************************************************************************)
EXTENDS Integers, Functions

CONSTANTS
    Sites,      \* num_localities_
    Rows,       \* the matrix is Rows by Rows
    P           \* arithmetic is modulo the prime P

ASSUME DistInverseAssumption ==
    /\ Sites \in Nat \ {0}
    /\ Rows \in Nat \ {0}
    /\ P \in Nat \ {0, 1}
    /\ \A x \in 1..(P - 1) : \E y \in 0..(P - 1) : (x * y) % P = 1

Site == 0..(Sites - 1)
Index == 0..(Rows - 1)
Elem == 0..(P - 1)
Matrices == [Index -> [Index -> Elem]]

Barriers == {"barrierb", "barriere", "barrierg"}

(* The loops a site can be in: over the pivots, over the rows below a       *)
(* pivot, over the rows above one.                                          *)
Loops == {"pivot", "eliminate", "substitute"}

VARIABLES
    input,      \* the operand, as it was
    lhs,        \* lhs_data, in place of the operand
    inverse,    \* invMatrix
    loop,       \* [Site -> Loops \cup {"returned", "thrown"}]
    waiting,    \* [Site -> BOOLEAN]: at the barrier of this pass
    current,    \* [Site -> Index]: current_row, zeroCol when substituting
    row,        \* [Site -> Index]: nextRow, row when substituting
    pulled,     \* [Site -> [Index -> Elem]]: pulledColumn, pulledElement
    entered,    \* [Site -> [Barriers -> Nat]]: barriers constructed and waited
    raced       \* history: some fetch overlapped a write to what it fetched

control == <<loop, waiting, current, row>>
vars == <<input, lhs, inverse, control, pulled, entered, raced>>

-----------------------------------------------------------------------------
StartCol(s) ==
    LET more == Rows % Sites
    IN  s * (Rows \div Sites) + (IF s < more THEN s ELSE more)

EndCol(s) == IF s = Sites - 1 THEN Rows ELSE StartCol(s + 1)

Columns(s) == StartCol(s)..(EndCol(s) - 1)

OwningLoc(col) ==
    LET width == Rows \div Sites
        more == Rows % Sites
    IN  IF col < more * (width + 1) THEN col \div (width + 1)
        ELSE more + ((col - more * (width + 1)) \div width)

Reciprocal(x) == CHOOSE y \in Elem : (x * y) % P = 1

(* The barrier of the pass a site is in.                                    *)
Barrier(s) ==
    CASE loop[s] = "pivot" -> "barrierb"
      [] loop[s] = "eliminate" -> "barriere"
      [] OTHER -> "barrierg"

(* Mutant: "Removing this barrier causes errors".                           *)
ReleasedFromTwo(s) ==
    /\ waiting[s]
    /\ Barrier(s) # "barriere" =>
        \A p \in Site : entered[p][Barrier(s)] >= entered[s][Barrier(s)]

(* Everyone has come to the barrier site s waits at.                        *)
Released(s) ==
    /\ waiting[s]
    /\ \A p \in Site : entered[p][Barrier(s)] >= entered[s][Barrier(s)]

-----------------------------------------------------------------------------
(* The updates, of one row or two in the columns of one site.               *)

WithRow(m, s, i, value(_)) ==
    [m EXCEPT ![i] = [j \in Index |-> IF j \in Columns(s) THEN value(j) ELSE @[j]]]

Swapped(m, s, i, k) ==
    LET above(j) == m[k][j]
        below(j) == m[i][j]
    IN  WithRow(WithRow(m, s, i, above), s, k, below)

Divided(m, s, i, pivot) ==
    LET value(j) == (m[i][j] * Reciprocal(pivot)) % P
    IN  WithRow(m, s, i, value)

Subtracted(m, s, i, factor, k) ==
    LET value(j) == (m[i][j] - factor * m[k][j]) % P
    IN  WithRow(m, s, i, value)

(* Mutant: the search skips the row below the pivot.                        *)
LaterRows(s) == {k \in Index : k > current[s] + 1 /\ pulled[s][k] # 0}

(* Mutant: the search looks at the first column of the site.                *)
LocalRows(s) == {k \in Index : k > current[s] /\ lhs[k][StartCol(s)] # 0}

(* The rows the search for a pivot can end at.                              *)
Candidates(s) == {k \in Index : k > current[s] /\ pulled[s][k] # 0}

CheckRow(s) == CHOOSE k \in Candidates(s) : \A l \in Candidates(s) : k <= l

Pivot(s) == pulled[s][current[s]]

(* What matrix m is after the update site s is about to make.               *)
Updated(m, s) ==
    CASE loop[s] \in {"eliminate", "substitute"} ->
            Subtracted(m, s, row[s], pulled[s][row[s]], current[s])
      [] loop[s] = "pivot" /\ Pivot(s) # 0 ->
            Divided(m, s, current[s], Pivot(s))
      [] loop[s] = "pivot" /\ Pivot(s) = 0 /\ Candidates(s) # {} ->
            Swapped(m, s, current[s], CheckRow(s))
      [] OTHER -> m

-----------------------------------------------------------------------------
(* distributed_matrix::fetch of the rows from i to j of a column, and the   *)
(* barrier behind it.  An owner that has been released is updating its      *)
(* columns: every element comes from before or after its write.             *)
Fetch(s, col, i, j) ==
    LET owner == OwningLoc(col)
        old == [k \in Index |-> IF k \in i..j THEN lhs[k][col] ELSE 0]
        new == IF owner # s /\ Released(owner)
               THEN [k \in Index |->
                        IF k \in i..j THEN Updated(lhs, owner)[k][col] ELSE 0]
               ELSE old
    IN  /\ ~waiting[s]
        /\ \E late \in SUBSET {k \in i..j : new[k] # old[k]} :
            pulled' = [pulled EXCEPT ![s] =
                [k \in Index |-> IF k \in late THEN new[k] ELSE old[k]]]
        /\ raced' = (raced \/ new # old)
        /\ waiting' = [waiting EXCEPT ![s] = TRUE]
        /\ entered' = IF Sites = 1 THEN entered
                      ELSE [entered EXCEPT ![s][Barrier(s)] = @ + 1]
        /\ UNCHANGED <<input, lhs, inverse, loop, current, row>>

FetchPivot(s) ==
    /\ loop[s] = "pivot"
    /\ Fetch(s, current[s], current[s], Rows - 1)

FetchFactor(s) ==
    /\ loop[s] \in {"eliminate", "substitute"}
    /\ Fetch(s, current[s], row[s], row[s])

-----------------------------------------------------------------------------
(* Behind the barrier.                                                      *)

Update(s) ==
    /\ Released(s)
    /\ waiting' = [waiting EXCEPT ![s] = FALSE]
    /\ lhs' = Updated(lhs, s)
    /\ inverse' = Updated(inverse, s)
    /\ UNCHANGED <<input, pulled, entered, raced>>

Goto(s, l, c, r) ==
    /\ loop' = [loop EXCEPT ![s] = l]
    /\ current' = [current EXCEPT ![s] = c]
    /\ row' = [row EXCEPT ![s] = r]

(* Mutant: the rows of the result stay as they were.                        *)
SwapOperandOnly(s) ==
    /\ loop[s] = "pivot" /\ Pivot(s) = 0
    /\ Candidates(s) # {}
    /\ Released(s)
    /\ waiting' = [waiting EXCEPT ![s] = FALSE]
    /\ lhs' = Updated(lhs, s)
    /\ UNCHANGED <<input, inverse, pulled, entered, raced, loop, current, row>>

(* "After swapping, make sure to retry this row".                           *)
Swap(s) ==
    /\ loop[s] = "pivot" /\ Pivot(s) = 0
    /\ Candidates(s) # {}
    /\ Update(s)
    /\ UNCHANGED <<loop, current, row>>

(* "inverse does not exist"                                                 *)
Throw(s) ==
    /\ loop[s] = "pivot" /\ Pivot(s) = 0
    /\ Candidates(s) = {}
    /\ Update(s)
    /\ Goto(s, "thrown", current[s], row[s])

(* Back substitution begins at the last column, if there is a row above.    *)
GotoSubstitute(s, col) ==
    IF col = 0 THEN Goto(s, "returned", 0, 0)
    ELSE Goto(s, "substitute", col, col - 1)

Divide(s) ==
    /\ loop[s] = "pivot" /\ Pivot(s) # 0
    /\ Update(s)
    /\ IF current[s] < Rows - 1
       THEN Goto(s, "eliminate", current[s], current[s] + 1)
       ELSE GotoSubstitute(s, Rows - 1)

(* Mutant: the loop goes one row too far.                                   *)
EliminateTooFar(s) ==
    /\ loop[s] = "eliminate"
    /\ Update(s)
    /\ IF row[s] < Rows
       THEN Goto(s, "eliminate", current[s], row[s] + 1)
       ELSE Goto(s, "pivot", current[s] + 1, row[s])

Eliminate(s) ==
    /\ loop[s] = "eliminate"
    /\ Update(s)
    /\ IF row[s] < Rows - 1
       THEN Goto(s, "eliminate", current[s], row[s] + 1)
       ELSE Goto(s, "pivot", current[s] + 1, row[s])

Substitute(s) ==
    /\ loop[s] = "substitute"
    /\ Update(s)
    /\ IF row[s] > 0
       THEN Goto(s, "substitute", current[s], row[s] - 1)
       ELSE GotoSubstitute(s, current[s] - 1)

-----------------------------------------------------------------------------
Unit == [i \in Index |-> [j \in Index |-> IF i = j THEN 1 ELSE 0]]

Init ==
    /\ input \in Matrices
    /\ lhs = input
    /\ inverse = Unit
    /\ loop = [s \in Site |-> "pivot"]
    /\ waiting = [s \in Site |-> FALSE]
    /\ current = [s \in Site |-> 0]
    /\ row = [s \in Site |-> 0]
    /\ pulled = [s \in Site |-> [k \in Index |-> 0]]
    /\ entered = [s \in Site |-> [b \in Barriers |-> 0]]
    /\ raced = FALSE

Step(s) ==
    \/ FetchPivot(s) \/ FetchFactor(s)
    \/ Swap(s) \/ Throw(s) \/ Divide(s)
    \/ Eliminate(s) \/ Substitute(s)

Next == \E s \in Site : Step(s)

Spec == Init /\ [][Next]_vars

FairSpec == Spec /\ \A s \in Site : WF_vars(Step(s))

-----------------------------------------------------------------------------
(* Every component of the state is of its type.                             *)
TypeOK ==
    /\ {input, lhs, inverse} \subseteq Matrices
    /\ loop \in [Site -> Loops \cup {"returned", "thrown"}]
    /\ waiting \in [Site -> BOOLEAN]
    /\ current \in [Site -> Index]
    /\ row \in [Site -> Index]
    /\ pulled \in [Site -> [Index -> Elem]]
    /\ entered \in [Site -> [Barriers -> Nat]]
    /\ raced \in BOOLEAN

Product(a, b) ==
    [i \in Index |-> [j \in Index |->
        FoldFunction(+, 0, [k \in Index |-> a[i][k] * b[k][j]]) % P]]

Singular(m) ==
    \E v \in [Index -> Elem] :
        /\ \E k \in Index : v[k] # 0
        /\ \A i \in Index :
            FoldFunction(+, 0, [k \in Index |-> m[i][k] * v[k]]) % P = 0

AllReturned == \A s \in Site : loop[s] = "returned"

SomeThrown == \E s \in Site : loop[s] = "thrown"

(* "Returns: the inverse of the matrix".                                    *)
InverseCorrect ==
    /\ AllReturned => Product(inverse, input) = Unit
    /\ SomeThrown => Singular(input)

(* All sites are at the same point of the same pass.                        *)
Together ==
    \A s, p \in Site :
        <<loop[s], waiting[s], current[s], row[s], entered[s]>>
            = <<loop[p], waiting[p], current[p], row[p], entered[p]>>

(* The rows of both matrices have seen the same operations, at every site:  *)
(* whenever the sites are at one point, and no fetch met a write, the       *)
(* result so far takes the operand to what is left of it.                   *)
ResultTracksOperand ==
    Together /\ ~raced => Product(inverse, input) = lhs

(* If no fetch met a write to what it fetched, the tiles of the sites make  *)
(* up the inverse.                                                          *)
InverseUnlessRaced == ~raced => InverseCorrect

(* The elimination below a pivot never fetches what is being written: of    *)
(* all fetches only those of a pivot and the last one of the substitution   *)
(* do.                                                                      *)
RacesAtPivots ==
    [][raced' # raced => \E s \in Site :
        /\ ~waiting[s] /\ waiting'[s]
        /\ \/ loop[s] = "pivot"
           \/ loop[s] = "substitute" /\ current[s] = 1]_vars

(* Two sites wait at the barrier of one pass.                               *)
AtOneBarrier(s, p) ==
    /\ waiting[s] /\ waiting[p]
    /\ <<loop[s], current[s], row[s], entered[s]>>
            = <<loop[p], current[p], row[p], entered[p]>>

(* Behind its barrier, a site finds no pivot.                               *)
AboutToThrow(s) ==
    /\ waiting[s] /\ loop[s] = "pivot"
    /\ Pivot(s) = 0 /\ Candidates(s) = {}

(* Every site decides for itself, from a column it has fetched in its own   *)
(* time while others update theirs, whether to divide, to swap, with which  *)
(* row, or to throw.  Unless a fetch met a write, they decide together: what *)
(* sites at one barrier have fetched is the same, and if one has thrown, no *)
(* other goes on to a barrier at which it would wait for that one.          *)
DecideTogether ==
    ~raced => \A s, p \in Site :
        /\ AtOneBarrier(s, p) => pulled[s] = pulled[p]
        /\ loop[s] = "thrown" => loop[p] = "thrown" \/ AboutToThrow(p)

(* Swapping, and retrying the row, comes to an end, at every site, unless a *)
(* fetch met a write.                                                       *)
AllFinish ==
    (<>raced) \/ <>(\A s \in Site : loop[s] \in {"returned", "thrown"})
=============================================================================
