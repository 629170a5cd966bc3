------------------------------ MODULE LayerMath ------------------------------
(***************************************************************************)
(* The arithmetic of a decoder layer, kept symbolic: a row of a tensor is  *)
(* a sequence of slices (one slice is what one projection wave produces),  *)
(* a slice is a term that names the operation and its operands.  Two terms *)
(* are equal when the same operations were applied to the same operands.   *)
(***************************************************************************)
EXTENDS Naturals, Sequences

CONSTANTS
    HiddenSlices,   \* waves of a hidden-size row (Q, O, down)
    KvSlices,       \* waves of a K or V row
    WideSlices      \* waves of an intermediate-size row (gate, up)

ASSUME SlicesAssumption ==
    /\ HiddenSlices \in Nat \ {0}
    /\ KvSlices \in 1..HiddenSlices
    /\ WideSlices \in Nat \ {0}

(* get_mm_projection_spec: Q, K, V, O, gate, up, down are 0..6. *)
OutSlices(n) ==
    CASE n \in {1, 2} -> KvSlices
      [] n \in {4, 5} -> WideSlices
      [] OTHER -> HiddenSlices
InSlices(n) == IF n = 6 THEN WideSlices ELSE HiddenSlices

NormWeight(index) == <<"norm weight", index>>

NormSlice(weight, row, s) ==
    <<"norm", weight, SubSeq(row, 1, HiddenSlices), s>>
ProjectionSlice(layer, n, row, s) ==
    <<"project", layer, n, SubSeq(row, 1, InSlices(n)), s>>
BinarySlice(op, a, b) == <<op, a, b>>
Rope(position, row, slices) == <<"rope", position, SubSeq(row, 1, slices)>>
AttendSlice(query, context, s) == <<"attend", query, context, s>>

-----------------------------------------------------------------------------
(***************************************************************************)
(* The layer as a function of its input row: the cache entry a row leaves  *)
(* behind, the attention sublayer given the entries of positions 0 to its  *)
(* own, the FFN sublayer, the final norm.                                  *)
(***************************************************************************)
Norm(index, x) ==
    [s \in 1..HiddenSlices |-> NormSlice(NormWeight(index), x, s)]
Project(layer, n, x) ==
    [s \in 1..OutSlices(n) |-> ProjectionSlice(layer, n, x, s)]
Binary(op, a, b) == [s \in 1..Len(a) |-> BinarySlice(op, a[s], b[s])]

CacheEntry(layer, x, position) ==
    LET n == Norm(2 * layer, x)
    IN  [k |-> Rope(position, Project(layer, 1, n), KvSlices),
         v |-> Project(layer, 2, n)]

AttentionSublayer(layer, x, position, context) ==
    LET query == Rope(position, Project(layer, 0, Norm(2 * layer, x)),
                      HiddenSlices)
        attended == [s \in 1..HiddenSlices |-> AttendSlice(query, context, s)]
    IN  Binary("RESIDUAL_ADD", x, Project(layer, 3, attended))

FfnSublayer(layer, h) ==
    LET n == Norm(2 * layer + 1, h)
        product == Binary("SILU_MUL", Project(layer, 4, n), Project(layer, 5, n))
    IN  Binary("RESIDUAL_ADD", Project(layer, 6, product), h)
=============================================================================
