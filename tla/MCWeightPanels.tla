-------------------------- MODULE MCWeightPanels ----------------------------
(* Small instances of WeightPanels. *)
EXTENDS WeightPanels

(* Tiles of 2 inputs by 4 outputs, waves of 8 outputs: two projections of  *)
(* two and one input tiles; the second wave of the first is half empty, and *)
(* the layer's nine tiles make layer 1 start in the odd shards.            *)
TwoProjections == <<[in |-> 4, out |-> 12], [in |-> 2, out |-> 12]>>

AllTasks == [layer : 0..1, p : 1..2]

(* Wave ranges inside, at and past the last wave; K limits off the tile    *)
(* grid; every mask; zero streams.                                         *)
SomeOperators ==
    [layer : {1}, p : 1..2, position : 0..2, count : {0, 1, 3},
     kLimit : {0, 1, 3}, mask : {0, 1, 2}, zero : BOOLEAN]
=============================================================================
