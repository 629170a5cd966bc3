---------------------------- MODULE AttentionMath ----------------------------
(***************************************************************************)
(* The numbers of an attention row, small and exact: scores are integers,  *)
(* 2 stands for e, and a probability is a multiple of 2^-Unit, so that     *)
(* carrying a sum from one maximum to the next loses nothing.  Rounding    *)
(* and saturation of fm_t and attention_prob_t are abstracted.             *)
(***************************************************************************)
EXTENDS Integers, FiniteSetsExt

CONSTANTS
    GqaGroup,       \* GQA_GROUP_SIZE, query heads that share a K/V head
    PvWaves         \* output waves of a P*V product (head elements)

ASSUME AttentionMathAssumption == GqaGroup \in Nat \ {0} /\ PvWaves \in Nat \ {0}

Cores == 0..1           \* core c holds K/V head c and its group of queries
Heads == 0..(GqaGroup - 1)
Waves == 0..(PvWaves - 1)

(* Both heads' keys and values of one position; Zero is a cleared panel.   *)
KeyOf(entry, c) == entry.k - c
ValueOf(entry, c, w) == entry.v + (2 * c) + w

(* The query row of a head and a token.                                    *)
Query(c, h, token) == <<-1, 2, 1>>[((c + h + token) % 3) + 1]
Score(query, key) == query * key

Unit == 8
ExpFloor == -8
Lowest == -128          \* fm_t(-128), the maximum before the first tile
Power(x) == IF x < ExpFloor THEN ExpFloor ELSE IF x > 0 THEN 0 ELSE x
Exp(x) == 2 ^ (Unit + Power(x))
Scaled(x, factor) == (x * factor) \div (2 ^ Unit)

(* An output row stays a fraction; the divisor is kept off zero.           *)
SmallestSum == 1
Row(weighted, total) ==
    [num |-> weighted, den |-> IF total < SmallestSum THEN SmallestSum ELSE total]

Whole(values) == [num |-> values, den |-> 1]

(***************************************************************************)
(* The softmax of a whole row at once: the host's golden attention.        *)
(***************************************************************************)
TopScore(scores) == Max({Lowest} \cup {scores[p] : p \in DOMAIN scores})
TotalWeight(scores) ==
    LET top == TopScore(scores)
    IN  MapThenSumSet(LAMBDA p : Exp(scores[p] - top), DOMAIN scores)
WaveSum(scores, values, w) ==
    LET top == TopScore(scores)
    IN  MapThenSumSet(LAMBDA p : Exp(scores[p] - top) * values[p][w], DOMAIN scores)
WeightedSum(scores, values) == [w \in Waves |-> WaveSum(scores, values, w)]

ScoresOf(context, c, query) ==
    [p \in DOMAIN context |-> Score(query, KeyOf(context[p], c))]
ValuesOf(context, c) ==
    [p \in DOMAIN context |-> [w \in Waves |-> ValueOf(context[p], c, w)]]

WholeRow(context, c, query) ==
    LET scores == ScoresOf(context, c, query)
    IN  Row(WeightedSum(scores, ValuesOf(context, c)), TotalWeight(scores))
=============================================================================
