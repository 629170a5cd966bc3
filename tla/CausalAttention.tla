--------------------------- MODULE CausalAttention ---------------------------
(***************************************************************************)
(* What the attention operators promise: a cache of one entry per          *)
(* position, and rows whose output is the softmax over the entries of the  *)
(* positions up to the row's own.                                          *)
(***************************************************************************)
EXTENDS AttentionMath

CONSTANTS
    MaxSeq,
    TileSize,   \* columns of the widest panel of the host
    Entries,
    NoRows

VARIABLES
    kv,         \* position -> entry
    output      \* the rows stored last: <<core, head, token>> -> row

vars == <<kv, output>>

Positions == 0..(MaxSeq - 1)

Init ==
    /\ kv \in [Positions -> Entries]
    /\ output = NoRows

Clear == output' = NoRows /\ UNCHANGED kv

Append(position, entry) ==
    /\ kv' = [kv EXCEPT ![position] = entry]
    /\ output' = NoRows

(* Token t of a launch at a position sees the entries up to position + t.  *)
Context(last) == [p \in 0..last |-> kv[p]]
AttendedRow(position, c, h, t) ==
    WholeRow(Context(position + t), c, Query(c, h, t))

Attend(position, tokens) ==
    /\ position + Max(tokens) < MaxSeq
    /\ output' = [row \in Cores \X Heads \X tokens |->
                    AttendedRow(position, row[1], row[2], row[3])]
    /\ UNCHANGED kv

(* One tile the host supplies: its scores, or values weighted by given     *)
(* weights, column by column.                                              *)
ScoreTile(tile) ==
    /\ output' = [row \in Cores \X Heads \X {0} |->
                    Whole(ScoresOf(tile, row[1], Query(row[1], row[2], 0)))]
    /\ UNCHANGED kv

HostWeight(h, p) == 1 + h + p
HostSum(tile, c, h, w) ==
    MapThenSumSet(LAMBDA p : HostWeight(h, p) * ValueOf(tile[p], c, w), DOMAIN tile)

WeightTile(tile) ==
    /\ output' = [row \in Cores \X Heads \X {0} |->
                    Whole([w \in Waves |-> HostSum(tile, row[1], row[2], w)])]
    /\ UNCHANGED kv

Next ==
    \/ Clear
    \/ \E position \in Positions, entry \in Entries : Append(position, entry)
    \/ \E position \in Positions, first \in Positions, last \in Positions :
         first <= last /\ Attend(position, first..last)
    \/ \E n \in 1..TileSize : \E tile \in [0..(n - 1) -> Entries] :
         ScoreTile(tile) \/ WeightTile(tile)

Spec == Init /\ [][Next]_vars
=============================================================================
