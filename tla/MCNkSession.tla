---------------------------- MODULE MCNkSession ----------------------------
(* Small instances of NkSession: the launches of each run. *)
EXTENDS NkSession

Request(op, tokens, position, waves, mask, layerOk) ==
    [op |-> op, tokens |-> tokens, position |-> position, waves |-> waves,
     mask |-> mask, layerOk |-> layerOk]

(* Vector operators with no, few and many rows, softmax, NOP, rejects. *)
VectorRequests ==
    { Request(op, n, 0, 0, Cores, TRUE) :
        op \in {"RMSNORM", "SILU_MUL"}, n \in {0, 2, 3} }
      \cup { Request("FINAL_NORM", n, 0, 0, Cores, TRUE) : n \in {0, 4} }
      \cup { Request("NOP", 0, 0, 0, Cores, TRUE),
             Request("RMSNORM", 5, 0, 0, Cores, TRUE),
             Request("SOFTMAX", 2, 0, 0, Cores, TRUE),
             Request("UNKNOWN", 1, 0, 0, Cores, TRUE),
             Request("RESIDUAL_ADD", 1, 0, 0, Cores, FALSE) }

ProjectionRequests ==
    { Request("PROJECTION", 1, 0, w, m, TRUE) :
        w \in {0, 1, 2}, m \in {{0}, {1}, {0, 1}} }

(* Resident layers on one and on both cores' token rows, with a context of  *)
(* one tile, of a full tile and a partial one; a block prefill; positions   *)
(* at the end of the cache.                                                 *)
ResidentRequests ==
    { Request("DECODER_LAYER", 3, 1, 0, Cores, TRUE),
      Request("ATTENTION_SUBLAYER", 1, 2, 0, Cores, TRUE),
      Request("FFN_SUBLAYER", 1, 3, 0, Cores, TRUE),
      Request("ATTN_PREFILL_BLOCK", 1, 2, 0, Cores, TRUE),
      Request("DECODER_LAYER", 2, 3, 0, Cores, TRUE),
      Request("FFN_SUBLAYER", 0, 0, 0, Cores, TRUE) }

LaunchRequests == VectorRequests \cup ProjectionRequests \cup ResidentRequests

(* The waves of the FFN half, for the variants of the projection engine. *)
FfnRequests ==
    { Request("FFN_SUBLAYER", 1, 0, 0, Cores, TRUE) }
      \cup { Request("PROJECTION", 1, 0, w, m, TRUE) : w \in {0, 2}, m \in {{1}, {0, 1}} }

OneWave == [s \in 0..6 |-> 1]
MixedWaves == [s \in 0..6 |-> IF s = 4 THEN 2 ELSE 1]
=============================================================================
