-------------------------------- MODULE Tiling --------------------------------
(***************************************************************************)
(* How a distributed array is cut into tiles, and how pieces of tiles are  *)
(* found again (plugins/dist_matrixops/tile_calculation_helper.hpp,        *)
(* util/index_calculation_helper.hpp, execution_tree/tiling_annotations).  *)
(*                                                                         *)
(* A span is a half open interval of indices of one dimension, a tile a    *)
(* sequence of spans, the slowest dimension first.                         *)
(***************************************************************************)
EXTENDS Integers, Sequences, FiniteSets

Span(start, stop) == [start |-> start, stop |-> stop]
Size(span) == span.stop - span.start
InSpan(i, span) == span.start <= i /\ i < span.stop

Least(a, b) == IF a < b THEN a ELSE b
Greatest(a, b) == IF a < b THEN b ELSE a
Largest(S) == CHOOSE x \in S : \A y \in S : y <= x

-----------------------------------------------------------------------------
(* tile_calculation_1d: the first dim % n tiles are one longer.             *)
TileSize(idx, dim, n) == (dim \div n) + (IF idx < (dim % n) THEN 1 ELSE 0)

(* Mutant: as if all tiles before this one had its size.                    *)
TileStartEven(idx, dim, n) == TileSize(idx, dim, n) * idx

TileStart(idx, dim, n) ==
    LET size == TileSize(idx, dim, n)
        remainder == dim % n
    IN  IF remainder # 0 /\ idx >= remainder
        THEN (size + 1) * remainder + size * (idx - remainder)
        ELSE size * idx

EvenTile(idx, dim, n) ==
    Span(TileStart(idx, dim, n), TileStart(idx, dim, n) + TileSize(idx, dim, n))

(* tile_calculation_overlap_1d: k more indices on every side that has a     *)
(* neighbour; the caller refuses a result that is not WithinArray.          *)
OverlapAllSides(span, dim, k) == Span(span.start - k, span.stop + k)

Overlap(span, dim, k) ==
    Span(IF span.stop # dim /\ span.start = 0 THEN 0 ELSE span.start - k,
         IF span.stop = dim THEN dim ELSE span.stop + k)

WithinArray(span, dim) == span.start >= 0 /\ span.stop <= dim

-----------------------------------------------------------------------------
(* The divisors of a number of tiles: as close to each other as they get.   *)
DivisorsOf(n) == {f \in 1 .. n : (n % f) = 0}

MiddleDivisors(n) ==
    LET first == Largest({f \in DivisorsOf(n) : f * f <= n})
    IN  <<first, n \div first>>

ThreeMiddleDivisors(n) ==
    LET first == Largest({f \in DivisorsOf(n) : f * f * f <= n})
    IN  CASE n \in {2, 3, 5} -> <<1, 1, n>>
          [] n = 4 -> <<1, 2, 2>>
          [] OTHER -> <<first>> \o MiddleDivisors(n \div first)

(* The dimensions of a tensor in ascending order, as tile_calculation_3d    *)
(* breaks ties: the first of these that fits.                               *)
AscendingOrders ==
    << <<3, 2, 1>>, <<3, 1, 2>>, <<2, 1, 3>>, <<2, 3, 1>>, <<1, 3, 2>>,
       <<1, 2, 3>> >>

Ascending(dims) ==
    LET Fits(o) == dims[o[1]] <= dims[o[2]] /\ dims[o[2]] <= dims[o[3]]
        first == CHOOSE i \in 1 .. 6 :
                    /\ Fits(AscendingOrders[i]) \/ i = 6
                    /\ \A j \in 1 .. (i - 1) : ~Fits(AscendingOrders[j])
    IN  AscendingOrders[first]

(* In how many tiles "sym" cuts every dimension.                            *)
SymDivisors(dims, n) ==
    CASE Len(dims) = 1 -> <<n>>
      [] Len(dims) = 2 ->
            LET d == MiddleDivisors(n)
            IN  IF dims[1] > dims[2] THEN <<d[2], d[1]>> ELSE d
      [] Len(dims) = 3 ->
            [d \in 1 .. 3 |->
                ThreeMiddleDivisors(n)[CHOOSE r \in 1 .. 3 :
                                            Ascending(dims)[r] = d]]

(* The dimension that is tiled alone, or 0: a vector has only one, and two  *)
(* tiles of a matrix are its longer dimension's whatever "sym" says.        *)
TiledDimension(type, dims, n) ==
    IF Len(dims) = 1 THEN 1
    ELSE CASE type = "page" -> 1
           [] type = "row" -> Len(dims) - 1
           [] type = "column" -> Len(dims)
           [] type = "sym" /\ Len(dims) = 2 /\ n = 2 ->
                IF dims[1] >= dims[2] THEN 1 ELSE 2
           [] OTHER -> 0

Divisors(type, dims, n) ==
    LET only == TiledDimension(type, dims, n)
    IN  IF only = 0 THEN SymDivisors(dims, n)
        ELSE [d \in 1 .. Len(dims) |-> IF d = only THEN n ELSE 1]

(* Every dimension has room for its tiles, or tile_calculation_1d throws.   *)
Tileable(type, dims, n) ==
    \A d \in 1 .. Len(dims) : dims[d] >= Divisors(type, dims, n)[d]

(* The place of a tile among the tiles of a dimension: tiles are numbered   *)
(* in row-major order.                                                      *)
Digit(idx, divisors, d) ==
    LET N == Len(divisors)
        behind == CASE d = N -> 1
                    [] d = N - 1 -> divisors[N]
                    [] OTHER -> divisors[N - 1] * divisors[N]
    IN  IF d = 1 THEN idx \div behind
        ELSE (idx \div behind) % divisors[d]

(* tile_calculation_2d, tile_calculation_3d.                                *)
TileCalculation(idx, type, dims, n) ==
    LET divisors == Divisors(type, dims, n)
        only == TiledDimension(type, dims, n)
    IN  [d \in 1 .. Len(dims) |->
            CASE only = d -> EvenTile(idx, dims[d], n)
              [] only = 0 ->
                    EvenTile(Digit(idx, divisors, d), dims[d], divisors[d])
              [] OTHER -> Span(0, dims[d])]

-----------------------------------------------------------------------------
Intersects(a, b) == a.start < b.stop /\ a.stop > b.start

Intersection(a, b) ==
    Span(Greatest(a.start, b.start), Least(a.stop, b.stop))

(* Where a piece of the result comes from: size indices from projected in   *)
(* the result, from local in the tile.                                      *)
Piece(size, projected, local) ==
    [size |-> size, projected |-> projected, local |-> local]

(* index_calculation_1d, for the tile of the site itself.                   *)
IndexCalculation(des, cur) ==
    LET rel_start == des.start - cur.start
    IN  Piece(Least(des.stop, cur.stop) - Greatest(des.start, cur.start),
              Greatest(0, -rel_start), Greatest(0, rel_start))

(* retile_calculation_1d, for the tiles of other sites.                     *)
RetileCalculation(loc, des) ==
    LET common == Intersection(des, loc)
    IN  IF Intersects(des, loc)
        THEN Piece(Size(common), common.start - des.start,
                   common.start - loc.start)
        ELSE Piece(0, 0, 0)

InPiece(c, piece) == piece.projected <= c /\ c < piece.projected + piece.size

(* localities_information::project_coords.                                  *)
ProjectCoords(span, tile_span) ==
    Span(span.start - tile_span.start, span.stop - tile_span.start)

-----------------------------------------------------------------------------
(* tile_extraction_2d, tile_extraction_3d: the spans a user lists with      *)
(* their names, exchanged until they are in the order of the dimensions.    *)
Exchanges(names) ==
    CASE names = <<"columns", "rows">> -> << <<1, 2>> >>
      [] names = <<"pages", "columns", "rows">> -> << <<2, 3>> >>
      [] names = <<"rows", "columns", "pages">> -> << <<1, 2>>, <<1, 3>> >>
      [] names = <<"rows", "pages", "columns">> -> << <<1, 2>> >>
      [] names = <<"columns", "pages", "rows">> -> << <<1, 2>>, <<2, 3>> >>
      [] names = <<"columns", "rows", "pages">> -> << <<1, 3>> >>
      [] OTHER -> << >>

Exchange(s, x) == [s EXCEPT ![x[1]] = s[x[2]], ![x[2]] = s[x[1]]]

(* Mutant: the second exchange is forgotten.                                *)
ExchangeOnce(s, xs) == IF Len(xs) = 0 THEN s ELSE Exchange(s, xs[1])

ExchangeAll(s, xs) ==
    CASE Len(xs) = 0 -> s
      [] Len(xs) = 1 -> Exchange(s, xs[1])
      [] Len(xs) = 2 -> Exchange(Exchange(s, xs[1]), xs[2])

TileExtraction(named) ==
    LET names == [i \in DOMAIN named |-> named[i].name]
        listed == ExchangeAll(named, Exchanges(names))
    IN  [d \in DOMAIN named |-> Span(listed[d].start, listed[d].stop)]

-----------------------------------------------------------------------------
(* validate_dimension: the spans of one dimension begin at 0 and leave no   *)
(* gap; they may overlap.                                                   *)
ValidDimension(spans) ==
    LET end == Largest({s.stop : s \in spans})
    IN  /\ \E s \in spans : s.start = 0
        /\ \A s \in spans :
            s.stop = end \/ \E t \in spans : s.stop < t.stop /\ s.stop >= t.start
=============================================================================
