---------------------------- MODULE MCDecodeLoop ----------------------------
(* Small instances of DecodeLoop. *)
EXTENDS DecodeLoop

CONSTANTS a, b      \* two tokens

Tokens == {a, b}
Prompts == {<<a>>, <<b, a>>, <<a, b, b>>, <<b, a, a, b>>, <<a, a, b, a, b>>}

(* Block sizes below, at and above the limit; lengths up to and past the   *)
(* end of the cache.                                                       *)
SmallCommands ==
    [prompt : Prompts, maxNew : 0..3, block : 0..4, coarse : BOOLEAN,
     generate : BOOLEAN]
=============================================================================
