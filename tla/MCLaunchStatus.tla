--------------------------- MODULE MCLaunchStatus ---------------------------
(* LaunchStatus at the built size of the default Qwen shape. *)
EXTENDS LaunchStatus

(* The ends of the cache, of a tile, and of what the fields can hold. *)
Positions == {0, 1, 63, 64, 575, 576, 639, 640, 1023, 2040, 2041, 2047, 2048}

AllRequests ==
    [op : Ops, tokens : 0..9, position : Positions]
=============================================================================
