-------------------------------- MODULE Lists --------------------------------
(***************************************************************************)
(* Lists (ir/ranges.cpp) and what programs do with them: range             *)
(* (range_operation.cpp), cdr (car_cdr_operation.cpp), append, prepend,    *)
(* slices and assignments to slices (slice_range.cpp,                      *)
(* util/slicing_helpers.cpp).                                              *)
(*                                                                         *)
(* A list is a vector of values, an integer range, or a pair of iterators  *)
(* into either.  Which of them it is depends on the operations it has been *)
(* through, and every operation has code of its own for each.  A program   *)
(* works on one list; values are integers.                                 *)
(***************************************************************************)
EXTENDS Integers, Sequences, FiniteSets

CONSTANTS
    Literals,         \* lists a program writes down
    Ranges,         \* <<start, stop, step>> of its ranges
    Inserted,       \* values it inserts and assigns
    Slicings,       \* <<start, stop, step>>, or fewer of them, that it writes
    RangeSlicings,  \* ranges it uses as indices
    None,           \* nil, where a start, stop or step is left out
    MaxLength,      \* bound on the length of a list
    MaxListSteps    \* bound on the operations on a list

ASSUME ListsAssumption ==
    /\ Literals \subseteq Seq(Int) /\ Inserted \subseteq Int
    /\ Ranges \cup RangeSlicings \subseteq Int \X Int \X Int
    /\ \A r \in Ranges \cup RangeSlicings : r[3] # 0
    /\ None \notin Int
    /\ \A x \in Slicings : x \in Seq(Int \cup {None})
    /\ MaxLength \in Nat /\ MaxListSteps \in Nat

VARIABLES
    list,           \* the list, as the code represents it
    refused,        \* the last operation threw
    listSteps,      \* operations so far
    contents,       \* what the program takes the list for (history),
    senseless,      \* and whether the last operation was an error (history)
    regular         \* none of the operations was one of those below that are
                    \* answered differently (history)

listVars == <<list, refused, listSteps, contents, senseless, regular>>

-----------------------------------------------------------------------------
(* Division in C++ rounds towards zero.                                     *)
Magnitude(a) == IF a < 0 THEN -a ELSE a
Quotient(a, b) ==
    LET q == Magnitude(a) \div Magnitude(b)
    IN  IF (a < 0) = (b < 0) THEN q ELSE -q
Remainder(a, b) == a - Quotient(a, b) * b

(* wrapped_args_type, int_range_type and arg_pair_type of range.  An        *)
(* iterator is a number with a step, or the index of an element.            *)
Args(s) == [kind |-> "args", elements |-> s]
Xrange(start, stop, step) ==
    [kind |-> "xrange", start |-> start, stop |-> stop, step |-> step]
Pair(of, first, second) ==
    [kind |-> "pair", of |-> of, first |-> first, second |-> second]

Iterator(at, step) == [at |-> at, step |-> step]
Owner(l) == IF l.kind = "pair" THEN l.of ELSE l

IsRef(l) == l.kind # "args"
CountsIn(l) == Owner(l).kind = "xrange"
Deref(l, it) == IF CountsIn(l) THEN it.at ELSE Owner(l).elements[it.at + 1]
Equal(x, y) == x.at = y.at
Increment(it) == Iterator(it.at + it.step, it.step)
Decrement(it) == Iterator(it.at - it.step, it.step)

Begin(l) ==
    CASE l.kind = "args" -> Iterator(0, 1)
      [] l.kind = "xrange" -> Iterator(l.start, l.step)
      [] l.kind = "pair" -> l.first

End(l) ==
    CASE l.kind = "args" -> Iterator(Len(l.elements), 1)
      [] l.kind = "xrange" ->
            LET distance == l.stop - l.start
                remaining == IF Remainder(distance, l.step) # 0
                             THEN l.step ELSE 0
            IN  Iterator(l.start + Quotient(distance, l.step) * l.step
                            + remaining, l.step)
      [] l.kind = "pair" -> l.second

(* invert: an iterator keeps its step where the range keeps its stop, and   *)
(* the step of the reverse iterator is taken from there, so it is 0.        *)
Invert(l, it) == IF CountsIn(l) THEN Iterator(it.at, 0) ELSE Decrement(it)

RBegin(l) ==
    CASE l.kind = "args" -> Iterator(Len(l.elements) - 1, 1)
      [] l.kind = "xrange" ->
            LET distance == l.stop - l.start
                remaining == IF Remainder(distance, l.step) # 0
                             THEN 0 ELSE -l.step
            IN  Iterator(l.start + Quotient(distance, l.step) * l.step
                            + remaining, l.step)
      [] l.kind = "pair" -> Invert(l, l.second)

(* std::distance and std::advance.  Iterators that do not meet are          *)
(* incremented for ever.                                                    *)
Meet(x, y) ==
    \/ Equal(x, y)
    \/ /\ x.step # 0
       /\ Remainder(y.at - x.at, x.step) = 0
       /\ (y.at > x.at) = (x.step > 0)
Distance(x, y) == IF Equal(x, y) THEN 0 ELSE Quotient(y.at - x.at, x.step)
Moved(it, n) == Iterator(it.at + n * it.step, it.step)
MovedBack(it, n) == Iterator(it.at - n * it.step, it.step)

Ends(l) == Meet(Begin(l), End(l))

ListSize(l) ==
    CASE l.kind = "args" -> Len(l.elements)
      [] l.kind = "xrange" ->
            LET distance == l.stop - l.start
            IN  IF (distance > 0) # (l.step > 0) THEN 0
                ELSE Quotient(distance, l.step)
                        + (IF Remainder(distance, l.step) > 0 THEN 1 ELSE 0)
      [] l.kind = "pair" -> Distance(l.first, l.second)

(* Mutant: only a vector can be empty.                                      *)
EmptyVector(l) == l.kind = "args" /\ l.elements = << >>

Empty(l) ==
    IF l.kind = "xrange" THEN l.start = l.stop ELSE Equal(Begin(l), End(l))

(* What iterating over a list gives, if it ends.                            *)
Copy(l) ==
    [i \in 1 .. Distance(Begin(l), End(l)) |->
        Deref(l, Moved(Begin(l), i - 1))]

-----------------------------------------------------------------------------
(* slicing_indices: one index is a slice of one element.                    *)
Indices(start, stop, step, single_value) ==
    [start |-> start, stop |-> stop, step |-> step, single |-> single_value]

(* Mutant: a slice with negative step is not begun at the end.              *)
ExtractSlicingForward(x, size) ==
    LET FromEnd(i) == IF i < 0 THEN size + i ELSE i
        Given(i, default) ==
            IF i \in DOMAIN x /\ x[i] # None THEN x[i] ELSE default
        start == FromEnd(Given(1, 0))
    IN  IF Len(x) = 1 /\ x # <<None>> THEN Indices(start, start + 1, 1, TRUE)
        ELSE Indices(start, FromEnd(Given(2, size)), Given(3, 1), FALSE)

(* extract_slicing: start, stop and step of a list of up to three numbers,  *)
(* or one index.  Negative ones count from the end.                         *)
ExtractSlicing(x, size) ==
    LET FromEnd(i) == IF i < 0 THEN size + i ELSE i
        Given(i, default) ==
            IF i \in DOMAIN x /\ x[i] # None THEN x[i] ELSE default
        back == Given(3, 1) < 0
        start == FromEnd(Given(1, IF back THEN -1 ELSE 0))
    IN  IF Len(x) = 1 /\ x # <<None>> THEN Indices(start, start + 1, 1, TRUE)
        ELSE Indices(start, FromEnd(Given(2, IF back THEN -size - 1 ELSE size)),
                     Given(3, 1), FALSE)

(* create_list_slice: the indices, in the order in which they are listed.   *)
IndexList(ix) ==
    LET span == IF ix.step > 0 THEN ix.stop - ix.start ELSE ix.start - ix.stop
        count == IF span <= 0 \/ ix.step = 0 THEN 0
                 ELSE (span - 1) \div Magnitude(ix.step) + 1
    IN  [i \in 1 .. count |-> ix.start + (i - 1) * ix.step]

(* What the code takes for granted or asserts: an index, and the ends of a  *)
(* slice with step 1, are in the list, no index is negative.                *)
Granted(ix, size) ==
    IF ix.single THEN ix.start \in 0 .. (size - 1)
    ELSE /\ ix.step = 1 /\ ix.start <= ix.stop =>
                ix.start >= 0 /\ ix.stop <= size
         /\ \A i \in 1 .. Len(IndexList(ix)) : IndexList(ix)[i] >= 0

(* slice_list.  A slice with step 1 is copied, room for stop - start        *)
(* elements being made first.  Otherwise a loop goes through the list, from *)
(* the end if the slice does, and takes an element when it comes to the     *)
(* next index; it finds no index that comes after one that is not there.    *)
Throws(ix) ==
    ~ix.single /\ (ix.step = 0 \/ (ix.step = 1 /\ ix.start > ix.stop))

Backward(ix) == ix.start > ix.stop \/ ix.step < 0

(* The number of indices before the first that is not there.                *)
Found(indexes, size) ==
    CHOOSE n \in 0 .. Len(indexes) :
        /\ \A i \in 1 .. n : indexes[i] < size
        /\ n < Len(indexes) => indexes[n + 1] >= size

Taken(l, ix) ==
    LET indexes == IndexList(ix)
        size == ListSize(l)
    IN  [i \in 1 .. Found(indexes, size) |->
            Deref(l, IF ix.step # 1 /\ Backward(ix)
                     THEN MovedBack(RBegin(l), size - 1 - indexes[i])
                     ELSE Moved(Begin(l), indexes[i]))]

(* slice_list with a function: slices with other steps are not implemented, *)
(* and a list must have the size of the slice.                              *)
(* Mutant: the sizes are not compared.                                      *)
StoreThrowsByStep(ix, values) == ~ix.single /\ ix.step # 1

StoreThrows(ix, values) ==
    ~ix.single /\ (ix.step # 1 \/ Len(values) # ix.stop - ix.start)

(* The elements at some indices replaced, by values in the same order.      *)
Replaced(s, indexes, values) ==
    LET Replaces(n, i) == n \in DOMAIN indexes /\ indexes[n] = i - 1
    IN  [i \in DOMAIN s |->
            IF \E n \in DOMAIN values : Replaces(n, i)
            THEN values[CHOOSE n \in DOMAIN values : Replaces(n, i)]
            ELSE s[i]]

-----------------------------------------------------------------------------
(* What the program takes these for: Python's lists.  A range lists its     *)
(* numbers upwards or downwards, a slice those that are indices of the list.*)
Numbers(start, stop, step) ==
    IF step > 0 THEN {i \in start .. (stop - 1) : (i - start) % step = 0}
    ELSE {i \in (stop + 1) .. start : (start - i) % -step = 0}

Listed(S, step) ==
    LET Before(i) == {j \in S : IF step > 0 THEN j < i ELSE j > i}
    IN  [n \in 1 .. Cardinality(S) |->
            CHOOSE i \in S : Cardinality(Before(i)) = n - 1]

Counted(start, stop, step) == Listed(Numbers(start, stop, step), step)
Within(start, stop, step, size) ==
    Listed(Numbers(start, stop, step) \cap (0 .. (size - 1)), step)

Step(x) == IF 3 \notin DOMAIN x \/ x[3] = None THEN 1 ELSE x[3]

(* The indices of a slice of a list of some size.                           *)
Meant(x, size) ==
    LET At(i) == IF x[i] < 0 THEN x[i] + size ELSE x[i]
        Left(i) == i \notin DOMAIN x \/ x[i] = None
        Or(i, up, down) ==
            IF ~Left(i) THEN At(i) ELSE IF Step(x) > 0 THEN up ELSE down
    IN  CASE Step(x) = 0 -> << >>
          [] Len(x) = 1 /\ ~Left(1) -> Within(At(1), At(1) + 1, 1, size)
          [] OTHER -> Within(Or(1, 0, size - 1), Or(2, size, -1), Step(x), size)

(* A range from which its stop is reached, exactly if the step is negative. *)
Leads(start, stop, step) ==
    \/ start = stop
    \/ IF step > 0 THEN stop > start
       ELSE stop < start /\ (start - stop) % -step = 0

-----------------------------------------------------------------------------
Results(l, meaning) ==
    /\ list' = l
    /\ contents' = meaning
    /\ refused' = FALSE

Throw ==
    /\ refused' = TRUE
    /\ UNCHANGED <<list, contents>>

Operation(sensible) ==
    /\ listSteps < MaxListSteps
    /\ listSteps' = listSteps + 1
    /\ senseless' = ~sensible

MakeList ==
    /\ listSteps = 0
    /\ Operation(TRUE)
    /\ \E s \in Literals : Results(Args(s), s)
    /\ UNCHANGED regular

MakeRange ==
    /\ listSteps = 0
    /\ Operation(TRUE)
    /\ \E r \in Ranges :
        /\ Results(Xrange(r[1], r[2], r[3]), Counted(r[1], r[2], r[3]))
        /\ regular' = Leads(r[1], r[2], r[3])

(* The list is put into a variable, and read from there (extract_ref_value).*)
Refer ==
    /\ ~IsRef(list)
    /\ Operation(TRUE)
    /\ Results(Pair(list, Begin(list), End(list)), contents)
    /\ UNCHANGED regular

Cdr ==
    /\ Operation(contents # << >>)
    /\ IF Empty(list) THEN Throw
       ELSE Results(IF IsRef(list)
                    THEN Pair(Owner(list), Increment(Begin(list)), End(list))
                    ELSE Args(Tail(list.elements)),
                    IF contents = << >> THEN << >> ELSE Tail(contents))
    /\ UNCHANGED regular

(* append, prepend: a list that refers to another one is copied.            *)
Insert ==
    /\ Ends(list) /\ Len(Copy(list)) < MaxLength
    /\ Operation(TRUE)
    /\ \E v \in Inserted :
        \/ Results(Args(Append(Copy(list), v)), Append(contents, v))
        \/ Results(Args(<<v>> \o Copy(list)), <<v>> \o contents)
    /\ UNCHANGED regular

(* A slice is not what it means if the step is 1 and it begins behind its   *)
(* end (which throws), and if it goes backwards from behind the list (it is *)
(* empty) or through what cdr leaves of a range (every element is the stop).*)
TakenAsMeant(l, ix) ==
    /\ ix.step = 1 => ix.start <= ix.stop
    /\ ix.step < 0 =>
        /\ IndexList(ix) # << >> => ix.start < ListSize(l)
        /\ ~(l.kind = "pair" /\ CountsIn(l))

SliceAt(ix, indexes) ==
    /\ ~ix.single
    /\ Granted(ix, ListSize(list))
    /\ Operation(ix.step # 0)
    /\ IF Throws(ix) THEN Throw
       ELSE Results(Args(Taken(list, ix)),
                    [i \in DOMAIN indexes |-> contents[indexes[i] + 1]])
    /\ regular' = (regular /\ TakenAsMeant(list, ix))

Slice ==
    /\ Ends(list)
    /\ \/ \E x \in Slicings :
            SliceAt(ExtractSlicing(x, ListSize(list)), Meant(x, Len(contents)))
       \/ \E r \in RangeSlicings :
            SliceAt(Indices(r[1], r[2], r[3], FALSE),
                    Within(r[1], r[2], r[3], Len(contents)))

(* Values are stored into a slice: one into each of its elements, or those  *)
(* of a list one by one.                                                    *)
StoreAt(x, given, meant) ==
    LET ix == ExtractSlicing(x, ListSize(list))
        indexes == Meant(x, Len(contents))
    IN  /\ Granted(ix, ListSize(list))
        /\ ix.step = 1 => ix.start <= ix.stop
        /\ Operation(Step(x) = 1 /\ Len(meant) = Len(indexes))
        /\ IF StoreThrows(ix, given) THEN Throw
           ELSE Results(Args(Replaced(Copy(list), IndexList(ix), given)),
                        Replaced(contents, indexes, meant))

StoreSlice ==
    /\ Ends(list)
    /\ \E x \in Slicings :
        \/ \E v \in Inserted :
            LET Repeat(n) == [i \in 1 .. n |-> v]
            IN  StoreAt(x, Repeat(Len(IndexList(ExtractSlicing(x, ListSize(list))))),
                        Repeat(Len(Meant(x, Len(contents)))))
        \/ \E s \in Literals : Len(x) # 1 /\ StoreAt(x, s, s)
    /\ UNCHANGED regular

ListsInit ==
    /\ list = Args(<< >>)
    /\ contents = << >>
    /\ refused = FALSE
    /\ senseless = FALSE
    /\ regular = TRUE
    /\ listSteps = 0

ListsNext ==
    MakeList \/ MakeRange \/ Refer \/ Cdr \/ Insert \/ Slice \/ StoreSlice

ListsSpec == ListsInit /\ [][ListsNext]_listVars

-----------------------------------------------------------------------------
(* Iterators stay within what they go through, and elements are copied only *)
(* where there are some.                                                    *)
ListsTypeOK ==
    /\ list.kind = "args" => list.elements \in Seq(Int)
    /\ list.kind = "pair" =>
        /\ ~IsRef(list.of) \/ CountsIn(list)
        /\ ~CountsIn(list) =>
            0 <= list.first.at /\ list.first.at <= list.second.at
                /\ list.second.at <= Len(list.of.elements)
    /\ contents \in Seq(Int)
    /\ listSteps \in 0 .. MaxListSteps

(* A list has the elements the program has put there, in their order, and   *)
(* as many as it says, whatever it is made of and whichever operations have *)
(* copied, referred to or cut it; counted from the end, they are the same.  *)
ListHoldsItsElements ==
    regular =>
        /\ Ends(list)
        /\ Copy(list) = contents
        /\ ListSize(list) = Len(contents)
        /\ Empty(list) <=> contents = << >>
        /\ \A i \in 1 .. Len(contents) :
            LET ix == ExtractSlicing(<<-i>>, ListSize(list))
            IN  Deref(list, Moved(Begin(list), ix.start)) =
                    contents[Len(contents) + 1 - i]

(* An operation is refused if it has no meaning, or none that is supported, *)
(* for the elements the program takes the list to have, and only then.      *)
RefusesOnlyNonsense == regular => refused = senseless
=============================================================================
