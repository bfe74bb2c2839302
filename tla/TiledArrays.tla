------------------------------ MODULE TiledArrays ------------------------------
(***************************************************************************)
(* An array that is spread over the sites, and the collective operations   *)
(* that change its tiles or compute from it (plugins/dist_matrixops:       *)
(* annotate_d and the primitives that create arrays, retile_d, transpose_d,*)
(* diag_d, argmax_d, argmin_d, dot_d, all_gather_d).                       *)
(*                                                                         *)
(* Operands are not changed while an operation fetches from them (that the *)
(* right ones are found is DistributedData's subject), so an operation is  *)
(* one step of all sites.  A site that throws leaves the others waiting.   *)
(***************************************************************************)
EXTENDS Tiling

CONSTANTS
    NumSites,
    Shapes,         \* the dimensions of the arrays that are created
    Elements,       \* their elements, in row-major order
    UserTiles,      \* tiles a user may ask for: sequences of named spans
    Overlaps,       \* intersections a user may ask for, by dimension
    TileNumbers,    \* numbers of tiles a user may ask for
    Diagonals,      \* diagonals a user may ask for
    Junk,           \* what uninitialized memory holds
    MaxSteps        \* bound on the operations

(* Tiles a user lists name every dimension once (tile_extraction_2d and     *)
(* tile_extraction_3d throw otherwise) and are not empty.                   *)
ASSUME TiledArraysAssumption ==
    /\ NumSites \in Nat \ {0}
    /\ \A dims \in Shapes : dims \in Seq(Nat \ {0}) /\ Len(dims) \in 1 .. 3
    /\ \A named \in UserTiles :
        /\ named \in Seq([name : {"pages", "rows", "columns"},
                          start : Nat, stop : Nat])
        /\ Len(named) \in 1 .. 3
        /\ \A i \in 1 .. Len(named) : named[i].start < named[i].stop
        /\ Len(named) = 2 =>
            {named[i].name : i \in 1 .. 2} = {"rows", "columns"}
        /\ Len(named) = 3 =>
            {named[i].name : i \in 1 .. 3} = {"pages", "rows", "columns"}
    /\ \A ks \in Overlaps : ks \in Seq(Nat)
    /\ TileNumbers \subseteq Nat \ {0}
    /\ Diagonals \subseteq Int
    /\ MaxSteps \in Nat

Sites == 0 .. (NumSites - 1)

VARIABLES
    cur,            \* the array: [tiles, data], by site
    kept,           \* an operand that was put aside, or NoArray
    verdict,        \* of the last operation: "fine", "refused" or "stuck"
    request,        \* the last operation asked for
    steps

tiledVars == <<cur, kept, verdict, request, steps>>

(* The types of tiling an array of this rank has; for a vector they only    *)
(* say whether it counts as a row or a column.                              *)
Types(rank) ==
    CASE rank = 1 -> {"sym"}
      [] rank = 2 -> {"row", "column", "sym"}
      [] rank = 3 -> {"page", "row", "column", "sym"}
      [] OTHER -> {}

NoArray == [tiles |-> [s \in Sites |-> << >>], data |-> [s \in Sites |-> << >>]]

-----------------------------------------------------------------------------
(* The indices of an array with these spans, from 0 in each dimension.      *)
LocalIndices(tile) ==
    {c \in [DOMAIN tile ->
                UNION {0 .. (Size(tile[d]) - 1) : d \in DOMAIN tile}] :
        \A d \in DOMAIN tile : c[d] < Size(tile[d])}

(* Global indices and local ones.                                           *)
Holds(tile, g) == \A d \in DOMAIN tile : InSpan(g[d], tile[d])
ToLocal(tile, g) == [d \in DOMAIN tile |-> g[d] - tile[d].start]
ToGlobal(tile, c) == [d \in DOMAIN tile |-> c[d] + tile[d].start]

At(a, s, g) == a.data[s][ToLocal(a.tiles[s], g)]

(* localities_information::size, rows, columns, pages: where the last tile  *)
(* of a dimension ends.                                                     *)
Extent(tiles, d) == Largest({tiles[s][d].stop : s \in Sites})

Dims(a) == [d \in DOMAIN a.tiles[0] |-> Extent(a.tiles, d)]
Box(dims) == LocalIndices([d \in DOMAIN dims |-> Span(0, dims[d])])
Rank(a) == Len(a.tiles[0])

(* The place of an element when the array is flattened.                     *)
Flat(dims, g) ==
    CASE Len(dims) = 1 -> g[1]
      [] Len(dims) = 2 -> g[1] * dims[2] + g[2]
      [] Len(dims) = 3 -> (g[1] * dims[2] + g[2]) * dims[3] + g[3]

(* Arrays are created with numbers.                                         *)
ASSUME ElementsAssumption ==
    \A dims \in Shapes : \A g \in Box(dims) :
        Elements[1 + Flat(dims, g)] \in Int \ {Junk}

-----------------------------------------------------------------------------
(* What site s writes to local index c of a tile des it asks for: the piece *)
(* of its own tile, overwritten by those of the others in their order.      *)
Pieces(a, s, w, des) ==
    [d \in DOMAIN des |->
        IF w = s THEN IndexCalculation(des[d], a.tiles[s][d])
        ELSE RetileCalculation(a.tiles[w][d], des[d])]

Writes(a, s, w, des, c) ==
    /\ \A d \in DOMAIN des : Intersects(des[d], a.tiles[w][d])
    /\ \A d \in DOMAIN des : InPiece(c[d], Pieces(a, s, w, des)[d])

Copied(a, s, w, des, c) ==
    a.data[w][[d \in DOMAIN des |->
        LET piece == Pieces(a, s, w, des)[d]
        IN  c[d] - piece.projected + piece.local]]

(* Mutant: the tiles of others count, but not the site's own.               *)
FetchedFromOthers(a, s, des, c) ==
    LET others == {w \in Sites \ {s} : Writes(a, s, w, des, c)}
        last == Largest(others)
    IN  IF others # {} THEN Copied(a, s, last, des, c) ELSE Junk

Fetched(a, s, des, c) ==
    LET others == {w \in Sites \ {s} : Writes(a, s, w, des, c)}
        last == Largest(others)
    IN  CASE others # {} -> Copied(a, s, last, des, c)
          [] Writes(a, s, s, des, c) /\ others = {} -> Copied(a, s, s, des, c)
          [] OTHER -> Junk

(* "the new array is a subset of the original array", or it must be fetched *)
Retiled(a, s, des) ==
    LET own == a.tiles[s]
        subset == \A d \in DOMAIN des :
                    des[d].start >= own[d].start /\ des[d].stop <= own[d].stop
    IN  [c \in LocalIndices(des) |->
            IF subset
            THEN a.data[s][[d \in DOMAIN des |->
                                c[d] + (des[d].start - own[d].start)]]
            ELSE Fetched(a, s, des, c)]

Become(tiles, data) ==
    /\ cur' = [tiles |-> tiles, data |-> data]
    /\ verdict' = "fine"

(* The sites that throw do so before the others can fetch from them or meet *)
(* them in a collective operation.                                          *)
Refuse(throwing) ==
    /\ verdict' = IF throwing = Sites THEN "refused" ELSE "stuck"
    /\ UNCHANGED cur

Ask(r) ==
    /\ cur # NoArray
    /\ verdict # "stuck"
    /\ steps < MaxSteps
    /\ steps' = steps + 1
    /\ request' = r
    /\ UNCHANGED kept

-----------------------------------------------------------------------------
(* retile1d, retile2d, retile3d with a tiling type: the desired tile of     *)
(* site s.  A dimension that is not tiled gets no overlap, but a vector     *)
(* does, even if it is one tile.                                            *)
Overlapped(tile, dims, ks) ==
    {d \in DOMAIN tile :
        ks[d] # 0 /\ (Len(dims) = 1 \/ Size(tile[d]) # dims[d])}

DesiredTile(s, type, dims, n, ks) ==
    LET tile == TileCalculation(s, type, dims, n)
    IN  [d \in DOMAIN tile |->
            IF d \in Overlapped(tile, dims, ks)
            THEN Overlap(tile[d], dims[d], ks[d]) ELSE tile[d]]

(* Sites whose overlap would leave the array throw.                         *)
Throwing(type, dims, n, ks) ==
    {s \in Sites :
        \/ ~Tileable(type, dims, n)
        \/ LET tile == TileCalculation(s, type, dims, n)
               desired == DesiredTile(s, type, dims, n, ks)
           IN  \E d \in Overlapped(tile, dims, ks) :
                ~WithinArray(desired[d], dims[d])}

RetileTo(desired) ==
    Become(desired, [s \in Sites |-> Retiled(cur, s, desired[s])])

Retile(type, n, ks) ==
    LET dims == Dims(cur)
        throwing == Throwing(type, dims, n, ks)
    IN  /\ Ask([op |-> "retile", type |-> type, n |-> n, ks |-> ks])
        /\ IF throwing = {}
           THEN RetileTo([s \in Sites |-> DesiredTile(s, type, dims, n, ks)])
           ELSE Refuse(throwing)

(* The user lists the tile of every site.  Some tile must begin at 0 in     *)
(* each dimension (asserted when the extent is asked for); nothing else is  *)
(* tested.                                                                  *)
RetileUser(named) ==
    LET desired == [s \in Sites |-> TileExtraction(named[s])]
    IN  /\ \A d \in 1 .. Rank(cur) : \E s \in Sites : desired[s][d].start = 0
        /\ Ask([op |-> "user", tiles |-> {named[s] : s \in Sites}])
        /\ RetileTo(desired)

(* transpose_d: every site transposes its tile and its spans.               *)
Axes(rank) ==
    {axes \in [1 .. rank -> 1 .. rank] :
        \A i, j \in 1 .. rank : axes[i] = axes[j] => i = j}

Transposed(tile, axes) == [i \in DOMAIN tile |-> tile[axes[i]]]

TransposedData(data, tile, axes) ==
    [c \in LocalIndices(Transposed(tile, axes)) |->
        data[[d \in DOMAIN c |-> c[CHOOSE i \in DOMAIN c : axes[i] = d]]]]

(* Mutant: the data is transposed, the annotation is not.                   *)
TransposeDataOnly(axes) ==
    /\ Ask([op |-> "transpose", axes |-> axes])
    /\ Become(cur.tiles,
              [s \in Sites |-> TransposedData(cur.data[s], cur.tiles[s], axes)])

Transpose(axes) ==
    /\ Ask([op |-> "transpose", axes |-> axes])
    /\ Become([s \in Sites |-> Transposed(cur.tiles[s], axes)],
              [s \in Sites |-> TransposedData(cur.data[s], cur.tiles[s], axes)])

-----------------------------------------------------------------------------
(* dist_diag1d_helper: which band of its tile a site fills, and the span of *)
(* the vector that goes there.                                              *)
NumBand(type, tile, k) ==
    CASE type = "row" -> tile[1].start + k
      [] type = "column" -> k - tile[2].start
      [] type = "sym" -> k - (tile[2].start - tile[1].start)

HasBand(tile, band) ==
    /\ band <= Greatest(0, Size(tile[2]) - 1)
    /\ band >= Least(0, 1 - Size(tile[1]))

(* Mutant: as if the tile began on the diagonal.                            *)
BandStartOfRow(type, tile, k) == tile[1].start

BandStart(type, tile, k) ==
    LET row == tile[1].start
        column == tile[2].start
        band == NumBand(type, tile, k)
    IN  CASE type = "row" -> IF k < 0 THEN Greatest(0, band) ELSE row
          [] type = "column" -> IF k < 0 THEN column ELSE Greatest(0, -band)
          [] type = "sym" -> IF k < 0 THEN Greatest(column, column + band)
                             ELSE Greatest(row, row - band)

BandSize(tile, band) ==
    IF band < 0 THEN Least(Size(tile[2]), Size(tile[1]) + band)
    ELSE Least(Size(tile[1]), Size(tile[2]) - band)

DiagTile(a, s, type, tile, k) ==
    LET band == NumBand(type, tile, k)
        start == BandStart(type, tile, k)
        des == <<Span(start, start + BandSize(tile, band))>>
        piece == Retiled(a, s, des)
    IN  [c \in LocalIndices(tile) |->
            IF HasBand(tile, band) /\ c[2] - c[1] = band
            THEN piece[<<Least(c[1], c[2])>>] ELSE 0]

Diag(type, n, k) ==
    LET size == Extent(cur.tiles, 1) + (IF k < 0 THEN -k ELSE k)
        dims == <<size, size>>
        desired == [s \in Sites |-> TileCalculation(s, type, dims, n)]
        throwing == {s \in Sites : s >= n \/ ~Tileable(type, dims, n)}
    IN  /\ Rank(cur) = 1
        /\ Ask([op |-> "diag", type |-> type, n |-> n, k |-> k])
        /\ IF throwing = {}
           THEN Become(desired, [s \in Sites |->
                                    DiagTile(cur, s, type, desired[s], k)])
           ELSE Refuse(throwing)

(* The array is bound to another variable (a bound: before it is changed).  *)
Keep ==
    /\ steps = 0
    /\ cur # NoArray
    /\ kept = NoArray
    /\ kept' = cur
    /\ UNCHANGED <<cur, verdict, request, steps>>

-----------------------------------------------------------------------------
(* Arrays are created with tiles of a type (constant_d, random_d), or given *)
(* the tiles a user lists, if they are valid (annotate_d).                  *)
Valid(tiles) ==
    \A d \in DOMAIN tiles[0] : ValidDimension({tiles[s][d] : s \in Sites})

Tilings(dims) ==
    {[s \in Sites |-> TileCalculation(s, type, dims, NumSites)] :
        type \in {t \in Types(Len(dims)) : Tileable(t, dims, NumSites)}}
    \cup {[s \in Sites |-> TileExtraction(named[s])] :
            named \in [Sites -> {u \in UserTiles : Len(u) = Len(dims)}]}

TiledInit ==
    /\ cur = NoArray
    /\ kept = NoArray
    /\ verdict = "fine"
    /\ request = [op |-> "none"]
    /\ steps = 0

NewArray(dims, tiles) ==
    /\ cur = NoArray
    /\ Valid(tiles)
    /\ [d \in DOMAIN dims |-> Extent(tiles, d)] = dims
    /\ request' = [op |-> "create"]
    /\ Become(tiles, [s \in Sites |->
                        [c \in LocalIndices(tiles[s]) |->
                            Elements[1 + Flat(dims, ToGlobal(tiles[s], c))]]])
    /\ UNCHANGED <<kept, steps>>

NewArrayAny == \E dims \in Shapes : \E tiles \in Tilings(dims) : NewArray(dims, tiles)

RetileAny ==
    \E type \in Types(Rank(cur)), n \in TileNumbers :
        \E ks \in {k \in Overlaps : Len(k) = Rank(cur)} : Retile(type, n, ks)

RetileAsListed ==
    \E named \in [Sites -> {u \in UserTiles : Len(u) = Rank(cur)}] :
        RetileUser(named)

TransposeAny == \E axes \in Axes(Rank(cur)) : Transpose(axes)

DiagAny ==
    \E type \in Types(2), n \in TileNumbers, k \in Diagonals : Diag(type, n, k)

TiledNext ==
    NewArrayAny \/ RetileAny \/ RetileAsListed \/ TransposeAny \/ DiagAny \/ Keep

TiledSpec == TiledInit /\ [][TiledNext]_tiledVars

-----------------------------------------------------------------------------
Operands == {cur, kept} \ {NoArray}

IsArray(a) ==
    /\ a.tiles \in [Sites -> Seq([start : Nat, stop : Nat])]
    /\ \A s \in Sites :
        /\ Len(a.tiles[s]) = Rank(a)
        /\ \A d \in 1 .. Rank(a) : Size(a.tiles[s][d]) > 0
        /\ DOMAIN a.data[s] = LocalIndices(a.tiles[s])

(* The annotation of an array fits the array: every tile has the dimensions *)
(* its spans say, on every site the same number of them.                    *)
TiledTypeOK ==
    /\ \A a \in Operands : IsArray(a)
    /\ verdict \in {"fine", "refused", "stuck"}
    /\ steps \in 0 .. MaxSteps

(* Tiles may overlap.  Whatever the sites do, an element that several of    *)
(* them hold has the same value on all, so no operation's result depends on *)
(* which site a piece was fetched from.                                     *)
Agree(a) ==
    \A s, t \in Sites : \A c \in LocalIndices(a.tiles[s]) :
        LET g == ToGlobal(a.tiles[s], c)
        IN  Holds(a.tiles[t], g) => a.data[s][c] = At(a, t, g)

TilesAgree == \A a \in Operands : Agree(a)

(* The sites refuse an operation together or not at all, so none waits for  *)
(* one that threw: as long as there are tiles for all sites and an overlap  *)
(* is not larger than the smallest tile.                                    *)
Reasonable ==
    CASE request.op = "retile" ->
            /\ request.n >= NumSites
            /\ \A d \in 1 .. Rank(cur) :
                LET dims == Dims(cur)
                IN  request.ks[d] <=
                        dims[d] \div Divisors(request.type, dims, request.n)[d]
      [] request.op = "diag" -> request.n >= NumSites
      [] OTHER -> TRUE

NobodyWaits == verdict = "stuck" => ~Reasonable
=============================================================================
