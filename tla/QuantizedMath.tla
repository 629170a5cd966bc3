---------------------------- MODULE QuantizedMath ----------------------------
(***************************************************************************)
(* The arithmetic of a quantized decoder layer on one block of token rows, *)
(* kept symbolic: a row of a bank is the term of the operations applied to *)
(* it.  Integer matrix work quantizes a whole block with one symmetric     *)
(* scale, the maximum over the valid rows, so a row's result names every   *)
(* row of its block.  A block is a function from 0..n-1 to rows.           *)
(***************************************************************************)
EXTENDS Naturals, Sequences

NormWeight(which) == <<"norm weight", which>>
Norm(weight, row) == <<"norm", weight, row>>
Rope(position, row) == <<"rope", position, row>>
Binary(op, a, b) == <<op, a, b>>
Unary(op, a) == <<op, a>>
ScaleOf(block) == <<"scale", block>>
Project(n, row, scale) == <<"project", n, row, scale>>

(* An attention tile holds the positions begin..end-1 of the cache: every  *)
(* one enters the scales of the tile, the masked ones too.                 *)
TileOf(cache, begin, end) == <<"tile", [p \in begin..(end - 1) |-> cache[p]]>>

(* contexts: the tiles every head has merged, in order, as a set.          *)
Attend(row, position, queries, contexts) ==
    <<"attend", row, position, queries, contexts>>

-----------------------------------------------------------------------------
(* The layer as a function of a block of input rows and the cache. *)
EachRow(block, Op(_)) == [t \in DOMAIN block |-> Op(block[t])]

Projected(n, block) ==
    LET scale == ScaleOf(block) IN EachRow(block, LAMBDA row : Project(n, row, scale))

Normed(which, block) == EachRow(block, LAMBDA row : Norm(NormWeight(which), row))

Rotated(position, block) ==
    [t \in DOMAIN block |-> Rope(position + t, block[t])]

(* The cache entries of a block, by row. *)
Entries(position, x) ==
    LET normed == Normed(0, x)
        k == Rotated(position, Projected(1, normed))
        v == Projected(2, normed)
    IN  [t \in DOMAIN x |-> [k |-> k[t], v |-> v[t]]]

(* The result rows of a block, given the tiles of the cache it attends. *)
LayerBlock(position, x, tiles) ==
    LET queries == Rotated(position, Projected(0, Normed(0, x)))
        context == [t \in DOMAIN x |-> Attend(t, position, queries, {tiles})]
        attended == Projected(3, context)
        h == [t \in DOMAIN x |-> Binary("RESIDUAL_ADD", x[t], attended[t])]
        normed == Normed(1, h)
        gate == Projected(4, normed)
        up == Projected(5, normed)
        product == [t \in DOMAIN x |->
                       Binary("MUL", Unary("SILU", gate[t]), up[t])]
        down == Projected(6, product)
    IN  [t \in DOMAIN x |-> Binary("RESIDUAL_ADD", h[t], down[t])]
=============================================================================
