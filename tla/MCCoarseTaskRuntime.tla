------------------------ MODULE MCCoarseTaskRuntime ------------------------
(* A model of two layers and three positions; two inputs; every kind of     *)
(* call, accepted or not.                                                   *)
EXTENDS CoarseTaskRuntime

Stack(x, begin, count, norm, materialize, checkpoint, position, rows) ==
    [kind |-> "stack", op |-> "ATTENTION", src |-> x, begin |-> begin,
     count |-> count, position |-> position, rows |-> rows, norm |-> norm,
     materialize |-> materialize, checkpoint |-> checkpoint]

Single(kind, op, x, layer, position, rows) ==
    [kind |-> kind, op |-> op, src |-> x, begin |-> layer, count |-> 0,
     position |-> position, rows |-> rows, norm |-> FALSE,
     materialize |-> TRUE, checkpoint |-> FALSE]

StackCalls ==
    { Stack(x, b, n, norm, m, k, 0, 1) :
        x \in Inputs, b \in 0..1, n \in 0..2, norm \in BOOLEAN,
        m \in BOOLEAN, k \in BOOLEAN }
      \cup { Stack(x, 0, 2, TRUE, TRUE, FALSE, p, 2) : x \in Inputs, p \in 0..3 }

SingleCalls ==
    { Single("task", op, x, 1, 1, 1) : op \in TaskOps, x \in Inputs }
      \cup { Single("launch", op, x, l, 2, r) :
               op \in LaunchOps, x \in Inputs, l \in 1..2, r \in {0, 1} }

McCalls == StackCalls \cup SingleCalls
=============================================================================
