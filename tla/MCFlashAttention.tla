-------------------------- MODULE MCFlashAttention --------------------------
(* Small instances of FlashAttention. *)
EXTENDS FlashAttention

(* A run of the diagnostic operators; a run of the layer operators.        *)
AllSessions == {{"FLASH", "SMOKE", "QK", "PV"}, {"LAYER", "BLOCK"}}

(* Keys of both signs, so that the maximum moves in either direction.      *)
TwoEntries == {[k |-> -1, v |-> 1], [k |-> 2, v |-> -1]}
=============================================================================
