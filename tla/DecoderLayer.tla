----------------------------- MODULE DecoderLayer -----------------------------
(***************************************************************************)
(* What one resident task promises: the K and V of its rows are appended   *)
(* to the layer's cache, row by row, and every row of the result is the    *)
(* layer's function of the input row and of the cache entries up to its    *)
(* own position.                                                           *)
(***************************************************************************)
EXTENDS LayerMath

CONSTANTS
    Tasks,          \* [op, layer, position, tokens, src]
    NumLayers,
    Nothing,
    FirstKv         \* the content of the caches before the first task

VARIABLES
    phase,      \* "idle" or "busy"
    task,       \* the task at work, or the last one
    row,        \* how many of its rows are in the cache
    kv,         \* layer -> position -> [k, v]
    output      \* the result of the last task: row -> slices

vars == <<phase, task, row, kv, output>>

Attends(r) == r.op \in {"DECODER_LAYER", "ATTENTION_SUBLAYER"}
Input(r, t) == [s \in 1..HiddenSlices |-> <<r.src, t, s>>]

(* Position p, 0 <= p <= last, is the p+1st entry of the context. *)
Context(layer, last) == [i \in 1..(last + 1) |-> kv[layer][i - 1]]

Result(r, t) ==
    LET x == Input(r, t)
        h == IF Attends(r)
             THEN AttentionSublayer(r.layer, x, r.position + t,
                                    Context(r.layer, r.position + t))
             ELSE x
    IN  CASE r.op = "ATTENTION_SUBLAYER" -> h
          [] r.op = "FINAL_NORM" -> Norm(2 * NumLayers, x)
          [] OTHER -> FfnSublayer(r.layer, h)

Init ==
    /\ phase = "idle"
    /\ task = Nothing
    /\ row = 0
    /\ kv = FirstKv
    /\ output = Nothing

Begin(r) ==
    /\ phase = "idle"
    /\ phase' = "busy"
    /\ task' = r
    /\ row' = 0
    /\ output' = Nothing
    /\ UNCHANGED kv

AppendRow ==
    /\ phase = "busy" /\ Attends(task) /\ row < task.tokens
    /\ LET position == task.position + row
       IN  kv' = [kv EXCEPT ![task.layer][position] =
                    CacheEntry(task.layer, Input(task, row), position)]
    /\ row' = row + 1
    /\ UNCHANGED <<phase, task, output>>

Return ==
    /\ phase = "busy"
    /\ Attends(task) => row = task.tokens
    /\ phase' = "idle"
    /\ output' = [t \in 0..(task.tokens - 1) |-> Result(task, t)]
    /\ UNCHANGED <<task, row, kv>>

Next == (\E r \in Tasks : Begin(r)) \/ AppendRow \/ Return

Spec == Init /\ [][Next]_vars
=============================================================================
