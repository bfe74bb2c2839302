------------------------------ MODULE TiledAnswers ------------------------------
(***************************************************************************)
(* What the sites answer together when they are asked for something that   *)
(* is computed from a distributed array: argmax_d and argmin_d             *)
(* (dist_argminmax_impl.hpp, common/argminmax_nd_impl.hpp), dot_d          *)
(* (dist_dot_operation_impl.hpp), all_gather_d (all_gather.cpp), and rows  *)
(* and columns (slice_node_data_2d.hpp).  They are functions of a state.   *)
(***************************************************************************)
EXTENDS TiledArrays, Functions

Holders(a, g) == {s \in Sites : Holds(a.tiles[s], g)}
Element(a, g) == At(a, CHOOSE s \in Sites : Holds(a.tiles[s], g), g)

(* The array the tiles make up together.                                    *)
Held(a) ==
    UNION {{ToGlobal(a.tiles[s], c) : c \in DOMAIN a.data[s]} : s \in Sites}

Whole(a) == [g \in Held(a) |-> Element(a, g)]

(* Every element is there and has been written.                             *)
Complete(a) ==
    Held(a) = Box(Dims(a)) /\ \A g \in Held(a) : Element(a, g) # Junk

Disjoint(a) == \A g \in Box(Dims(a)) : Cardinality(Holders(a, g)) <= 1

(* dim_tiled: every tile has the whole extent of this dimension.            *)
DimTiled(a, d) == \A s \in Sites : Size(a.tiles[s][d]) = Dims(a)[d]

-----------------------------------------------------------------------------
(* Mutant: only the values are compared.                                    *)
PrecedesByValue(op, x, y) ==
    IF op = "argmax" THEN x.value > y.value ELSE x.value < y.value

(* index_compare: "we seek for the smallest index that has the maximum      *)
(* value".                                                                  *)
Precedes(op, x, y) ==
    IF x.value = y.value THEN x.index < y.index
    ELSE IF op = "argmax" THEN x.value > y.value ELSE x.value < y.value

First(op, candidates) ==
    CHOOSE x \in candidates :
        \A y \in candidates :
            /\ y.value = x.value => x.index <= y.index
            /\ op = "argmax" => x.value >= y.value
            /\ op = "argmin" => x.value <= y.value

(* all_reduce_op_0d, all_reduce_op_1d, applied in the order of arrival.     *)
AllReduce(op, best, order) ==
    LET reduced[i \in 1 .. NumSites] ==
            LET current == best[order[i]]
                before == reduced[i - 1]
            IN  IF i > 1 /\ Precedes(op, before, current) THEN before
                ELSE current
    IN  reduced[NumSites]

Orders == {o \in [1 .. NumSites -> Sites] :
            \A i, j \in 1 .. NumSites : o[i] = o[j] => i = j}

Sizes(tile) == [d \in DOMAIN tile |-> Size(tile[d])]

(* get_global_flatten_index: from the index in the flattened tile.          *)
GlobalFlatIndex(tile, dims, index) ==
    IF Len(dims) = 1 THEN index + tile[1].start
    ELSE LET index_row == index \div Size(tile[2])
             index_col == index - index_row * Size(tile[2])
         IN  index_col + tile[2].start
                + dims[2] * (index_row + tile[1].start)

(* argmax1d, argmax2d of a flattened array.                                 *)
LocalFirst(op, a, s) ==
    LET tile == a.tiles[s]
        best == First(op, {[value |-> a.data[s][c],
                            index |-> Flat(Sizes(tile), c)] :
                           c \in DOMAIN a.data[s]})
    IN  [best EXCEPT !.index = GlobalFlatIndex(tile, Dims(a), @)]

ArgFlat(op, a, order) ==
    AllReduce(op, [s \in Sites |-> LocalFirst(op, a, s)], order).index

(* argmax2d along an axis: the line at position i of the tile of site s.    *)
LineFirst(op, a, s, axis, i) ==
    First(op, {[value |-> a.data[s][c], index |-> c[axis]] :
               c \in {e \in DOMAIN a.data[s] : e[3 - axis] = i}})

(* Tiles that hold whole lines answer for their lines, and the answer is a  *)
(* distributed vector.                                                      *)
ArgLine(op, a, s, axis, line) ==
    LineFirst(op, a, s, axis, line - a.tiles[s][3 - axis].start).index

(* Otherwise the answers are combined, position by position.                *)
ArgLines(op, a, axis, line, order) ==
    AllReduce(op,
        [s \in Sites |->
            LET best == LineFirst(op, a, s, axis, line)
            IN  [best EXCEPT !.index = @ + a.tiles[s][axis].start]],
        order).index

-----------------------------------------------------------------------------
(* dot1d1d .. dot2d2d, of distributed operands.                             *)
Contracted(a, s) == a.tiles[s][Rank(a)]

(* The product of the tile of site s with every tile of the right hand side *)
(* that has some of its indices.  The result has the local rows of the left *)
(* hand side and all columns of the right hand side.                        *)
Row(x, c) == IF Rank(x) = 2 THEN <<c[1]>> ELSE << >>
Column(y, c) == IF Rank(y) = 2 THEN <<c[Len(c)]>> ELSE << >>

HasColumn(y, w, column) ==
    \A i \in DOMAIN column : InSpan(column[i], y.tiles[w][2])

PartialProduct(x, y, s, w, c) ==
    LET common == Intersection(Contracted(x, s), y.tiles[w][1])
        lhs == ProjectCoords(common, Contracted(x, s))
        rhs == ProjectCoords(common, y.tiles[w][1])
        column == Column(y, c)
    IN  IF Intersects(Contracted(x, s), y.tiles[w][1]) /\ HasColumn(y, w, column)
        THEN SumFunction(
                [i \in 0 .. (Size(common) - 1) |->
                    x.data[s][Row(x, c) \o <<lhs.start + i>>]
                  * y.data[w][<<rhs.start + i>> \o
                        [j \in DOMAIN column |->
                            column[j] - y.tiles[w][2].start]]])
        ELSE 0

LocalProduct(x, y, s, c) ==
    SumFunction([w \in Sites |-> PartialProduct(x, y, s, w, c)])

(* Whole rows give rows of the result, everything else is added up.  Block  *)
(* tiling is refused, by every site for its own tiles, if both are matrices.*)
HasWholeRows(x, s) == Rank(x) = 2 /\ Size(x.tiles[s][2]) = Dims(x)[2]
HasWholeColumns(x, s) == Size(x.tiles[s][1]) = Dims(x)[1]

RefusesDot(x, y, s) ==
    /\ Rank(x) = 2 /\ Rank(y) = 2
    /\ \/ ~HasWholeRows(x, s) /\ ~HasWholeColumns(x, s)
       \/ ~HasWholeRows(y, s) /\ ~HasWholeColumns(y, s)

DotStuck(x, y) ==
    LET refusing == {s \in Sites : RefusesDot(x, y, s)}
        reducing == {s \in Sites : ~HasWholeRows(x, s)}
    IN  \/ refusing \notin {{}, Sites}
        \/ refusing = {} /\ reducing \notin {{}, Sites}

(* The element of the result that site s has at c: the row is a local one.  *)
DotAt(x, y, s, c) ==
    IF HasWholeRows(x, s) THEN LocalProduct(x, y, s, c)
    ELSE SumFunction([t \in Sites |-> LocalProduct(x, y, t, c)])

-----------------------------------------------------------------------------
(* all_gather2d: the tiles of all sites joined in the order of the sites.   *)
GatherAxis(a, s) ==
    IF Size(a.tiles[s][1]) = Dims(a)[1] THEN 2 ELSE 1

RefusesGather(a, s) ==
    \A d \in 1 .. 2 : Size(a.tiles[s][d]) # Dims(a)[d]

GatheredAt(a, s, c) ==
    LET axis == GatherAxis(a, s)
        Before(w) == SumFunction([v \in 0 .. (w - 1) |-> Size(a.tiles[v][axis])])
        from == CHOOSE w \in Sites :
                    Before(w) <= c[axis] /\ c[axis] < Before(w + 1)
    IN  a.data[from][[c EXCEPT ![axis] = @ - Before(from)]]

-----------------------------------------------------------------------------
(* slice_row_d (axis 1) and slice_column_d (axis 2): a distributed vector,  *)
(* empty on sites that do not have the line.  The tests take the end of a   *)
(* tile for its last index: such a site looks for a line it does not have,  *)
(* and throws.                                                              *)
WithoutLine(tile, axis, index) ==
    index < tile[axis].start \/ index > tile[axis].stop

RefusesLine(tile, axis, index) ==
    ~WithoutLine(tile, axis, index) /\ index = tile[axis].stop

SliceOf(a, axis, index) ==
    LET SpanAt(s) == IF WithoutLine(a.tiles[s], axis, index)
                     THEN Span(0, 0) ELSE a.tiles[s][3 - axis]
        LineAt(s, i) ==
            LET line == index - a.tiles[s][axis].start
            IN  a.data[s][IF axis = 1 THEN <<line, i>> ELSE <<i, line>>]
    IN  [tiles |-> [s \in Sites |-> <<SpanAt(s)>>],
         data |-> [s \in Sites |->
                    [c \in LocalIndices(<<SpanAt(s)>>) |-> LineAt(s, c[1])]]]

(* A vector is stored into a row.  A site asks the others for what it needs *)
(* of the vector, as retile_d does.  The first row of a tile is taken for   *)
(* one before it, and not stored into.                                      *)
RowStored(a, v, s, row) ==
    LET tile == a.tiles[s]
        stored == Retiled(v, s, <<tile[2]>>)
    IN  [c \in DOMAIN a.data[s] |->
            IF row > tile[1].start /\ row < tile[1].stop
                /\ c[1] = row - tile[1].start
            THEN stored[<<c[2]>>]
            ELSE a.data[s][c]]

-----------------------------------------------------------------------------
(* The best element of an array: the first one in row-major order.          *)
WholeFirst(op, a, Elems) ==
    First(op, {[value |-> Element(a, g), index |-> Flat(Dims(a), g)] : g \in Elems})

(* argmax and argmin answer for the whole array, on all sites the same and  *)
(* in whatever order the answers of the sites are combined, overlapping     *)
(* tiles or not; along an axis if the tiles are rows or columns.            *)
ArgAgrees(op, a) ==
    /\ Rank(a) < 3 => \A order \in Orders :
        ArgFlat(op, a, order) = WholeFirst(op, a, Box(Dims(a))).index
    /\ Rank(a) = 2 => \A axis \in 1 .. 2 : \A line \in 0 .. (Dims(a)[3 - axis] - 1) :
        LET elems == {g \in Box(Dims(a)) : g[3 - axis] = line}
            best == First(op, {[value |-> Element(a, g), index |-> g[axis]] :
                               g \in elems})
        IN  IF DimTiled(a, axis)
            THEN \A s \in Sites :
                    InSpan(line, a.tiles[s][3 - axis]) =>
                        ArgLine(op, a, s, axis, line) = best.index
            ELSE DimTiled(a, 3 - axis) => \A order \in Orders :
                    ArgLines(op, a, axis, line, order) = best.index

(* Tiles that are rows or columns, each element on one site.                *)
Regular(a) ==
    /\ Complete(a)
    /\ Disjoint(a)
    /\ Rank(a) < 3
    /\ Rank(a) = 2 => DimTiled(a, 1) \/ DimTiled(a, 2)

(* The product of two arrays that are tiled regularly, each in its own way, *)
(* is that of the whole arrays: every pair of elements is multiplied once.  *)
DotAgrees(x, y) ==
    Dims(x)[Rank(x)] = Dims(y)[1] =>
        /\ ~DotStuck(x, y)
        /\ \A s \in Sites :
            ~RefusesDot(x, y, s) =>
                \A g \in Box((IF Rank(x) = 2 THEN <<Dims(x)[1]>> ELSE << >>) \o
                             (IF Rank(y) = 2 THEN <<Dims(y)[2]>> ELSE << >>)) :
                    LET mine == ~HasWholeRows(x, s)
                                    \/ InSpan(g[1], x.tiles[s][1])
                        c == IF HasWholeRows(x, s)
                             THEN [g EXCEPT ![1] = @ - x.tiles[s][1].start]
                             ELSE g
                    IN  mine => DotAt(x, y, s, c) =
                            SumFunction(
                                [i \in 0 .. (Dims(y)[1] - 1) |->
                                    Element(x, Row(x, g) \o <<i>>) *
                                    Element(y, <<i>> \o Column(y, g))])

(* Gathering gives the whole array to every site if the tiles are in the    *)
(* order of the sites.                                                      *)
InOrder(a) ==
    \A s \in Sites \ {0}, d \in 1 .. Rank(a) :
        a.tiles[s - 1][d].start <= a.tiles[s][d].start

GatherAgrees(a) ==
    \A s \in Sites :
        /\ ~RefusesGather(a, s)
        /\ \A g \in Box(Dims(a)) : GatheredAt(a, s, g) = Element(a, g)

(* A line of an array is that line of the whole array, and storing it into  *)
(* a row changes this row on every site that has it and nothing else:       *)
(* except for lines at which a tile ends, and rows at which one begins.     *)
SliceAgrees(a, axis, index) ==
    LET slice == SliceOf(a, axis, index)
    IN  /\ Complete(slice)
        /\ Dims(slice) = <<Dims(a)[3 - axis]>>
        /\ Agree(slice)
        /\ \A i \in 0 .. (Dims(a)[3 - axis] - 1) :
            Element(slice, <<i>>) =
                Element(a, IF axis = 1 THEN <<index, i>> ELSE <<i, index>>)

StoreAgrees(a, from, row) ==
    \A s \in Sites :
        LET stored == RowStored(a, SliceOf(a, 1, from), s, row)
        IN  \A c \in DOMAIN a.data[s] :
                LET g == ToGlobal(a.tiles[s], c)
                IN  stored[c] =
                        Element(a, IF g[1] = row THEN <<from, g[2]>> ELSE g)

SlicesAgree(a) ==
    LET Sliceable(axis) ==
            {i \in 0 .. (Dims(a)[axis] - 1) :
                \A s \in Sites : ~RefusesLine(a.tiles[s], axis, i)}
        Stored ==
            {i \in 0 .. (Dims(a)[1] - 1) :
                \A s \in Sites : i # a.tiles[s][1].start}
    IN  /\ \A axis \in 1 .. 2 : \A i \in Sliceable(axis) :
            SliceAgrees(a, axis, i)
        /\ \A from \in Sliceable(1), row \in Stored : StoreAgrees(a, from, row)

(* Whatever is asked of an array, the sites answer as one would that has    *)
(* the whole array, as far as the operations above are good for its tiles.  *)
AnswersAgree ==
    \A x \in Operands :
        /\ Complete(x) => \A op \in {"argmax", "argmin"} : ArgAgrees(op, x)
        /\ Regular(x) => \A y \in Operands : Regular(y) => DotAgrees(x, y)
        /\ Rank(x) = 2 /\ Regular(x) /\ InOrder(x) => GatherAgrees(x)
        /\ Rank(x) = 2 /\ Complete(x) => SlicesAgree(x)

(* The sites together implement one array: whatever its tiles, an operation *)
(* has the effect it has on a whole array.                                  *)
OneArray == INSTANCE WholeArray WITH whole <- Whole(cur)

ActsAsOneArray == OneArray!WholeSpec
=============================================================================
