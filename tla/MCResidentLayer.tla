--------------------------- MODULE MCResidentLayer ---------------------------
(* Tasks on two layers and six positions (three words of the K^T cache):    *)
(* blocks of rows for one and for both cores, contexts that end inside, at  *)
(* and after a tile, a later task that rewrites an earlier one's positions. *)
EXTENDS ResidentLayer

Task(op, layer, position, tokens, src) ==
    [op |-> op, layer |-> layer, position |-> position, tokens |-> tokens,
     src |-> src]

McTasks ==
    { Task("DECODER_LAYER", 0, 0, 2, "a"),
      Task("ATTENTION_SUBLAYER", 0, 1, 3, "b"),
      Task("DECODER_LAYER", 1, 3, 1, "b"),
      Task("ATTENTION_SUBLAYER", 1, 4, 2, "a"),
      Task("FFN_SUBLAYER", 1, 0, 3, "b"),
      Task("FINAL_NORM", 0, 0, 2, "a"),
      Task("ATTENTION_SUBLAYER", 0, 5, 2, "a") }
=============================================================================
