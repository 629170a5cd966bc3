--------------------------- MODULE MCQuantizedLayer ---------------------------
(* Toy sizes on three units: a hidden row takes a full wave and a partial  *)
(* one, a K or V row one partial wave, a wide row two full waves and a      *)
(* partial one; a hidden row has two packets, which leaves the third unit   *)
(* out of a split row; the attention units of a decode fill two waves.     *)
EXTENDS QuantizedLayer
===============================================================================
