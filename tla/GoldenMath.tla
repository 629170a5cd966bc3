----------------------------- MODULE GoldenMath -----------------------------
(***************************************************************************)
(* The CPU goldens of the host and the device operators they stand for, on *)
(* symbolic rows: a term names an operator and its operands, so two terms  *)
(* are equal when the same operators were applied to the same data.  The   *)
(* roundings of an operator are its own on both sides; only attention is   *)
(* computed with different ones (RoundingOf).                              *)
(*                                                                         *)
(* Every operator takes the set of operators that are broken: {} for the   *)
(* host, the fault of the device otherwise.                                *)
(***************************************************************************)
EXTENDS Integers, Sequences

CONSTANT TileSize   \* kAttentionTile

Heads == 0..1
Projections == {"Q", "K", "V", "O", "GATE", "UP", "DOWN"}
PairOps == {"ADD", "SILU"}

Op(broken, op, operands) ==
    IF op \in broken THEN <<"wrong " \o op, operands>> ELSE <<op, operands>>

Random(name, i) == <<"random", <<name, i>>>>
NormWeight(index) == <<"norm weight", <<index>>>>
Nothing == <<"nothing", <<>>>>

(* Head h of a row; a row put together from heads gives them back.         *)
Join(h) == <<"join", <<h[0], h[1]>>>>
HeadOf(row, c) ==
    IF row[1] = "join" THEN row[2][c + 1] ELSE <<"head", <<c, row>>>>

Feature(broken, op, layer, x, aux) ==
    CASE op \in Projections -> Op(broken, op, <<layer, x>>)
      [] op = "FINAL" -> Op(broken, op, <<x, NormWeight("final")>>)
      [] OTHER -> Op(broken, op, <<x, aux>>)

RmsNorm(broken, index, x) == Feature(broken, "NORM", 0, x, NormWeight(index))
Rope(broken, position, head) == Op(broken, "ROPE", <<position, head>>)

(* Where the softmax of a context is rounded:                              *)
(*   "tile"    probabilities, rescale and values of each tile in Q8.8,     *)
(*   "whole"   the same with one maximum and one sum of values,            *)
(*   "wide .." as "tile", the rescale, the values of a tile or both wide,  *)
(*   "q2.14"   probabilities in Q2.14, the values of a tile in Q8.8,       *)
(*   "direct"  the same without the four banks' raw payload,               *)
(*   "double"  the result only.                                            *)
(* In a context of one tile nothing is rescaled and values narrow once.    *)
RoundingOf(rounding, n) ==
    IF rounding \in {"whole", "wide rescale"} /\ n <= TileSize THEN "tile" ELSE rounding

Scores(broken, query, keys) == Op(broken, "SCORE", <<query, keys>>)
(* The softmax over one key is exactly one: the row is the value.          *)
Attended(broken, rounding, query, keys, values) ==
    IF Len(keys) = 1 /\ "VALUE" \notin broken THEN values[1]
    ELSE Op(broken, "VALUE",
            <<IF Len(keys) = 1 THEN Nothing
              ELSE <<RoundingOf(rounding, Len(keys)), Scores(broken, query, keys)>>,
              values>>)

(* context: one entry [k, v] of both heads per position.                   *)
AttendedRow(broken, rounding, query, context) ==
    [c \in Heads |->
       Attended(broken, rounding, query[c], [p \in DOMAIN context |-> context[p].k[c]],
                [p \in DOMAIN context |-> context[p].v[c]])]

-----------------------------------------------------------------------------
(* One row through a decoder layer.                                        *)
QueryOf(broken, layer, x, position) ==
    [c \in Heads |->
       Rope(broken, position, HeadOf(Feature(broken, "Q", layer, x, Nothing), c))]
EntryOf(broken, layer, x, position) ==
    [k |-> [c \in Heads |->
              Rope(broken, position, HeadOf(Feature(broken, "K", layer, x, Nothing), c))],
     v |-> [c \in Heads |-> HeadOf(Feature(broken, "V", layer, x, Nothing), c)]]

AfterAttention(broken, layer, x, attended) ==
    Feature(broken, "ADD", layer, x,
            Feature(broken, "O", layer, Join(attended), Nothing))

AfterFfn(broken, layer, h) ==
    LET n == RmsNorm(broken, (2 * layer) + 1, h)
        product == Feature(broken, "SILU", layer, Feature(broken, "GATE", layer, n, Nothing),
                           Feature(broken, "UP", layer, n, Nothing))
    IN  Feature(broken, "ADD", layer, h, Feature(broken, "DOWN", layer, product, Nothing))

-----------------------------------------------------------------------------
(* The host's goldens of a whole sequence from position 0.                 *)
GoldenPostAttention(rounding, layer, hidden) ==
    LET n == [i \in DOMAIN hidden |-> RmsNorm({}, 2 * layer, hidden[i])]
        cache == [i \in DOMAIN hidden |-> EntryOf({}, layer, n[i], i - 1)]
    IN  [i \in DOMAIN hidden |->
           AfterAttention({}, layer, hidden[i],
             AttendedRow({}, rounding, QueryOf({}, layer, n[i], i - 1),
                         SubSeq(cache, 1, i)))]

GoldenLayer(rounding, layer, hidden) ==
    LET post == GoldenPostAttention(rounding, layer, hidden)
    IN  [i \in DOMAIN hidden |-> AfterFfn({}, layer, post[i])]

(* The golden of one row at position 0 attends nothing: V goes through.    *)
GoldenSingleEntry(layer, x) ==
    LET v == Feature({}, "V", layer, RmsNorm({}, 2 * layer, x), Nothing)
    IN  AfterFfn({}, layer,
          AfterAttention({}, layer, x, [c \in Heads |-> HeadOf(v, c)]))

GoldenStack(rounding, hidden, count) ==
    LET after[k \in 0..count] ==
          IF k = 0 THEN hidden ELSE GoldenLayer(rounding, k - 1, after[k - 1])
    IN  after[count]

GoldenSingleStack(x, count) ==
    LET after[k \in 0..count] ==
          IF k = 0 THEN x ELSE GoldenSingleEntry(k - 1, after[k - 1])
    IN  after[count]

FinalNorm(broken, hidden) ==
    [i \in DOMAIN hidden |-> Feature(broken, "FINAL", 0, hidden[i], Nothing)]

Embedding(token) == <<"embedding", <<token>>>>
ArgMax(row) == <<"argmax", <<row>>>>
=============================================================================
