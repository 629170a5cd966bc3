--------------------------- MODULE QuantizedBlocks ---------------------------
(***************************************************************************)
(* What a layer request of the quantized case promises, block by block:    *)
(* the K and V of the block's rows are in the cache before any of them is  *)
(* attended to, and the rows of the result are the layer's function of the *)
(* block's input rows and of the cache up to the end of the block -- not   *)
(* only up to the row's own position, because the scales of a tile and of  *)
(* a block cover the later rows of the block as well.                      *)
(***************************************************************************)
EXTENDS QuantizedMath, QuantizedTasks

CONSTANTS
    Requests,       \* [decode, tokens, position, blockSize]
    MaxSeq,         \* MAX_SEQ_LEN
    Nothing,
    FirstEntry      \* the content of the cache before the first request

VARIABLES
    req,        \* the request at work, or Nothing
    block,      \* its block
    appended,   \* whether the block's entries are in the cache
    filled,     \* positions of the sequence that are in the cache
    kv,         \* position -> [k, v]
    output      \* the rows of hidden_output

vars == <<req, block, appended, filled, kv, output>>

Input(r, row) == <<"x", r.position, row>>
InputBlock(r, b) ==
    [t \in 0..(BlockTokens(r, b) - 1) |-> Input(r, BlockBegin(r, b) + t)]

TilesOf(cache, context) ==
    [i \in 1..Tiles(context) |->
        TileOf(cache, (i - 1) * PositionTile, AtMost(i * PositionTile, context))]

Init ==
    /\ req = Nothing
    /\ block = 0
    /\ appended = FALSE
    /\ filled = 0
    /\ kv = [p \in 0..(MaxSeq - 1) |-> FirstEntry]
    /\ output = [row \in 0..(MaxSeq - 1) |-> Nothing]

Begin(r) ==
    /\ req = Nothing
    /\ r.position = filled
    /\ req' = r
    /\ block' = 0
    /\ appended' = FALSE
    /\ UNCHANGED <<filled, kv, output>>

AppendBlock ==
    /\ req # Nothing /\ ~appended
    /\ LET position == BlockPosition(req, block)
           entries == Entries(position, InputBlock(req, block))
       IN  kv' = [p \in DOMAIN kv |->
                    IF p - position \in DOMAIN entries /\ p >= position
                    THEN entries[p - position] ELSE kv[p]]
    /\ appended' = TRUE
    /\ UNCHANGED <<req, block, filled, output>>

EmitBlock ==
    /\ req # Nothing /\ appended
    /\ LET position == BlockPosition(req, block)
           x == InputBlock(req, block)
           begin == BlockBegin(req, block)
           tiles == TilesOf(kv, position + BlockTokens(req, block))
           rows == LayerBlock(position, x, tiles)
           last == block + 1 = BlockCount(req)
       IN  /\ output' = [row \in DOMAIN output |->
                           IF row >= begin /\ row - begin \in DOMAIN rows
                           THEN rows[row - begin] ELSE output[row]]
           /\ req' = IF last THEN Nothing ELSE req
           /\ block' = IF last THEN 0 ELSE block + 1
           /\ filled' = IF last THEN req.position + req.tokens ELSE filled
    /\ appended' = FALSE
    /\ UNCHANGED kv

Next == (\E r \in Requests : Begin(r)) \/ AppendBlock \/ EmitBlock

Spec == Init /\ [][Next]_vars
=============================================================================
