---------------------------- MODULE QuantizedLayer ----------------------------
(***************************************************************************)
(* The quantized layer controller and the host program that calls it: one  *)
(* prefill request cut into blocks of token rows, then one decode request. *)
(* A block runs through working banks of Rows rows.  The builds differ in  *)
(* what overlaps a projection: with QUANTIZED_BLOCK_PIPELINE the Down      *)
(* region also normalises the rows of the next block into two banks that   *)
(* outlive the block; with QUANTIZED_PREFILL_FFN_OVERLAP the Up region     *)
(* also applies SiLU to a copy of the gate.  The processes of a region     *)
(* interleave; a bank's content is the symbolic term of QuantizedMath.     *)
(***************************************************************************)
EXTENDS QuantizedMath, QuantizedTasks

CONSTANTS
    MaxPrompt,      \* bound: rows of the prefill request
    MaxSeq,         \* MAX_SEQ_LEN; the host's prompt leaves one position
    Nothing, FirstEntry,
    Junk            \* what a bank holds before it is written

ASSUME PromptAssumption ==
    {MaxPrompt, MaxSeq} \subseteq Nat /\ MaxPrompt < MaxSeq

Requests == [decode : BOOLEAN, tokens : 1..MaxPrompt,
             position : 0..MaxPrompt, blockSize : 1..Rows]
ASSUME NothingAssumption ==
    Nothing \notin Requests /\ Nothing \notin {"SILU_ONLY", "RMSNORM"}

VARIABLES
    build,      \* [pipeline, overlap, blockSize]: macros and --block-size
    req,        \* the request the controller serves, or Nothing
    block,      \* loop variable of the request loop
    at,         \* where the host or the controller is
    kind,       \* the projection of the step
    bank,       \* working banks: name -> row -> term
    scale,      \* projection_scale
    sent,       \* [vector, matrix]: results on their way in the region
    done,       \* the processes of the region that have finished
    att,        \* [tile, wave, merged: head -> tiles merged]
    issued,     \* unit -> tasks sent to it in this request
    bound,      \* unit -> its task count, an argument the host set
    filled, kv, output

layerVars == <<build, req, block, at, kind, bank, scale, sent, done, att,
               issued, bound, filled, kv, output>>

Banks == {"residual", "hidden0", "hidden1", "norm_weight", "key", "value",
          "gate", "up", "scratch", "gate_for_silu"}
Lookahead == {"next_source", "next_normalized"}
Heads == (0..(KvHeads - 1)) \X (0..(GqaGroup - 1))

Begin == BlockBegin(req, block)
Tokens == BlockTokens(req, block)
Position == BlockPosition(req, block)
ContextBefore == Position                                           \* fault
Context == Position + Tokens
Active == 0..(Tokens - 1)
HasNext == build.pipeline /\ ~req.decode /\ block + 1 < BlockCount(req)
Silu == build.overlap /\ ~req.decode
Input(r, row) == <<"x", r.position, row>>

(* The rows of a bank a vector operation or a projection takes part in. *)
Valid(name) == [t \in Active |-> bank[name][t]]

(* Only the rows given are written: the others keep their content. *)
With(banks, name, rows) ==
    [banks EXCEPT ![name] = [t \in 0..(Rows - 1) |->
                                IF t \in DOMAIN rows THEN rows[t] ELSE @[t]]]

Loaded(r, b) ==
    [t \in 0..(Rows - 1) |->
        IF t < BlockTokens(r, b) THEN Input(r, BlockBegin(r, b) + t) ELSE "zero"]

Weight(which) == [t \in 0..0 |-> NormWeight(which)]

Vector(count, cus) ==
    [cu \in CuSet |-> count[cu] + (IF cu \in cus THEN 1 ELSE 0)]
VectorRows(count, rows, mode) == Vector(count, VectorCus(rows, mode, build.overlap))

-----------------------------------------------------------------------------
Init ==
    /\ build \in [pipeline : BOOLEAN, overlap : BOOLEAN, blockSize : 1..Rows]
    /\ build.overlap => build.pipeline
    /\ req = Nothing
    /\ block = 0
    /\ at = "start"
    /\ kind = 0
    /\ bank = [name \in Banks \cup Lookahead |-> [t \in 0..(Rows - 1) |-> Junk]]
    /\ scale = Nothing
    /\ sent = [vector |-> Nothing, matrix |-> Nothing]
    /\ done = {}
    /\ att = [tile |-> 0, wave |-> 0, merged |-> [h \in Heads |-> <<>>]]
    /\ issued = [cu \in CuSet |-> 0]
    /\ bound = [cu \in CuSet |-> 0]
    /\ filled = 0
    /\ kv = [p \in 0..(MaxSeq - 1) |-> FirstEntry]
    /\ output = [row \in 0..(MaxSeq - 1) |-> Nothing]

(* The host's run_request: it sets every unit's task count, then starts. *)
RunRequest(r) ==
    /\ req' = r
    /\ block' = 0
    /\ at' = "open"
    /\ issued' = [cu \in CuSet |-> 0]
    /\ bound' = [cu \in CuSet |-> HostTasksForCu(r, cu, build.overlap)]
    /\ UNCHANGED <<build, kind, bank, scale, sent, done, att, filled, kv, output>>

Request(decode, tokens, position, blockSize) ==
    [decode |-> decode, tokens |-> tokens, position |-> position,
     blockSize |-> blockSize]

RunPrefill(n) ==
    at = "start" /\ RunRequest(Request(FALSE, n, 0, build.blockSize))
RunDecode ==
    at = "prefilled" /\ RunRequest(Request(TRUE, 1, filled, build.blockSize))

-----------------------------------------------------------------------------
(* A block opens with the rows it normalises itself, or with the rows the  *)
(* previous block's Down region prepared.  Its other banks are fresh.      *)
Opened(fresh) ==
    /\ bank' = fresh
    /\ scale' = ScaleOf([t \in Active |-> fresh["hidden0"][t]])
    /\ kind' = 0
    /\ at' = "step"
    /\ UNCHANGED <<build, req, block, sent, done, att, bound, filled, kv, output>>

Fresh == [name \in DOMAIN bank |->
            IF name \in Lookahead THEN bank[name] ELSE [t \in 0..(Rows - 1) |-> Junk]]
Prepared == build.pipeline /\ ~req.decode /\ block # 0

LoadBlock ==
    /\ at = "open" /\ ~Prepared
    /\ LET x == Loaded(req, block)
           loaded == With(With(Fresh, "residual", x), "norm_weight", Weight(0))
       IN  Opened(With(loaded, "hidden0",
                       [t \in Active |-> Norm(NormWeight(0), x[t])]))
    /\ issued' = VectorRows(issued, Tokens, "RMSNORM")

AdoptPrepared ==
    /\ at = "open" /\ Prepared
    /\ Opened(With(With(Fresh, "residual", Valid("next_source")),
                   "hidden0", Valid("next_normalized")))
    /\ UNCHANGED issued

-----------------------------------------------------------------------------
(* What a step does before its projection. *)
ToRegion(banks) ==
    /\ bank' = banks
    /\ at' = "region"
    /\ sent' = [vector |-> Nothing, matrix |-> Nothing]
    /\ done' = {}
    /\ UNCHANGED <<build, req, block, kind, bound, filled, output>>

(* Q, K, V and UP project the rows and the scale already there; the Up      *)
(* step of the overlap build first copies the gate for the SiLU process.   *)
GoOn ==
    /\ at = "step" /\ kind \in {0, 1, 2, 5}
    /\ ToRegion(IF kind = 5 /\ Silu
                THEN With(bank, "gate_for_silu", Valid("gate")) ELSE bank)
    /\ UNCHANGED <<scale, att, issued, kv>>

(* Before O: rotate the queries and keys, append the block to the cache. *)
AppendToCache ==
    /\ at = "step" /\ kind = 3
    /\ LET rotated(name) == [t \in Active |-> Rope(Position + t, bank[name][t])]
       IN  /\ bank' = With(With(bank, "hidden1", rotated("hidden1")),
                           "key", rotated("key"))
           /\ kv' = [p \in DOMAIN kv |->
                        IF p >= Position /\ p - Position \in Active
                        THEN [k |-> rotated("key")[p - Position],
                              v |-> bank["value"][p - Position]]
                        ELSE kv[p]]
    /\ at' = "attend"
    /\ att' = [tile |-> 0, wave |-> 0, merged |-> [h \in Heads |-> <<>>]]
    /\ UNCHANGED <<build, req, block, kind, scale, sent, done, issued, bound,
                   filled, output>>

(* The QK and the PV task of the units of a wave on one tile.  A head takes *)
(* its result from the panel of the unit that worked on it in this wave.   *)
AttendWave ==
    /\ at = "attend" /\ att.tile < Tiles(Context)
    /\ LET begin == att.tile * PositionTile
           tile == TileOf(kv, begin, AtMost(begin + PositionTile, Context))
           worked == UNION { UnitHeads(req.decode, att.wave, cu) :
                                cu \in UnitCus(req.decode, att.wave) }
           last == att.wave + 1 = AttentionWaves(req.decode)
       IN  att' = [tile |-> IF last THEN att.tile + 1 ELSE att.tile,
                   wave |-> IF last THEN 0 ELSE att.wave + 1,
                   merged |-> [h \in Heads |->
                       IF WaveOfHead(req.decode, h) = att.wave
                       THEN Append(att.merged[h], IF h \in worked THEN tile ELSE Junk)
                       ELSE att.merged[h]]]
    /\ LET cus == UnitCus(req.decode, att.wave)
       IN  issued' = Vector(Vector(issued, cus), cus)
    /\ UNCHANGED <<build, req, block, at, kind, bank, scale, sent, done, bound,
                   filled, kv, output>>

FinishAttention ==
    /\ at = "attend" /\ att.tile = Tiles(Context)
    /\ LET attended(t) == Attend(t, Position, Valid("hidden1"),
                                 { att.merged[h] : h \in Heads })
           rows == [t \in 0..(Rows - 1) |-> IF t \in Active THEN attended(t) ELSE "zero"]
       IN  /\ ToRegion(With(bank, "hidden0", rows))
           /\ scale' = ScaleOf([t \in Active |-> rows[t]])
    /\ UNCHANGED <<att, issued, kv>>

NormalizeFfn ==
    /\ at = "step" /\ kind = 4
    /\ LET h == [t \in Active |->
                    Binary("RESIDUAL_ADD", bank["residual"][t], bank["hidden1"][t])]
           normed == [t \in Active |-> Norm(NormWeight(1), h[t])]
       IN  /\ ToRegion(With(With(With(bank, "residual", h),
                                 "norm_weight", Weight(1)), "hidden0", normed))
           /\ scale' = ScaleOf(normed)
    /\ issued' = VectorRows(VectorRows(issued, Tokens, "RESIDUAL_ADD"), Tokens, "RMSNORM")
    /\ UNCHANGED <<att, kv>>

(* Before DOWN: the product, and the next block's rows for its RMSNorm. *)
Multiply ==
    /\ at = "step" /\ kind = 6
    /\ LET product == [t \in Active |->
                IF Silu THEN Binary("MUL", bank["up"][t], bank["scratch"][t])
                ELSE Binary("MUL", Unary("SILU", bank["gate"][t]), bank["up"][t])]
           multiplied == With(bank, "gate", product)
       IN  /\ ToRegion(IF HasNext
                       THEN With(With(multiplied, "next_source", Loaded(req, block + 1)),
                                 "norm_weight", Weight(0))
                       ELSE multiplied)
           /\ scale' = ScaleOf(product)
    /\ issued' = VectorRows(issued, Tokens, IF Silu THEN "MUL" ELSE "SILU_MUL")
    /\ UNCHANGED <<att, kv>>

-----------------------------------------------------------------------------
(***************************************************************************)
(* The region of a projection: driver, operand emitter, collector and      *)
(* commit run at once.  The vector exchange that may ride along has its    *)
(* tasks before the matrix tasks and its results collected before theirs.  *)
(***************************************************************************)
NextTokens == BlockTokens(req, block + 1)
RidingOp ==
    IF kind = 5 /\ Silu THEN "SILU_ONLY" ELSE
    IF kind = 6 /\ HasNext THEN "RMSNORM" ELSE Nothing
RidingRows == IF RidingOp = "RMSNORM" THEN 0..(NextTokens - 1) ELSE Active
InRegion(process) == at = "region" /\ process \notin done

RegionStep(process) ==
    /\ done' = done \cup {process}
    /\ UNCHANGED <<build, req, block, scale, att, bound, filled, kv, output>>

IssueRidingTasks ==
    /\ InRegion("tasks") /\ RidingOp # Nothing
    /\ issued' = VectorRows(issued, Cardinality(RidingRows), RidingOp)
    /\ RegionStep("tasks")
    /\ UNCHANGED <<at, kind, bank, sent>>

DriveWaves ==
    /\ InRegion("waves")
    /\ RidingOp # Nothing => "tasks" \in done
    /\ LET source == IF kind = 6 THEN "gate" ELSE "hidden0"
       IN  sent' = [sent EXCEPT !.matrix =
                       [t \in Active |-> Project(kind, bank[source][t], scale)]]
    /\ issued' = [cu \in CuSet |->
                    issued[cu] + Cardinality({ w \in 0..(WaveCount(kind) - 1) :
                                                cu \in ActiveCus(kind, w) })]
    /\ RegionStep("waves")
    /\ UNCHANGED <<at, kind, bank>>

EmitRidingOperands ==
    /\ InRegion("operands") /\ RidingOp # Nothing
    /\ sent' = [sent EXCEPT !.vector =
                    [t \in RidingRows |->
                        IF RidingOp = "SILU_ONLY"
                        THEN Unary("SILU", bank["gate_for_silu"][t])
                        ELSE Norm(bank["norm_weight"][0], bank["next_source"][t])]]
    /\ RegionStep("operands")
    /\ UNCHANGED <<at, kind, bank, issued>>

CollectRiding ==
    /\ InRegion("vector") /\ {"tasks", "operands"} \subseteq done
    /\ bank' = With(bank, IF RidingOp = "SILU_ONLY" THEN "up" ELSE "next_normalized",
                    sent.vector)
    /\ RegionStep("vector")
    /\ UNCHANGED <<at, kind, sent, issued>>

(* Commit ends the region; the copy out of the scratch follows it. *)
Destination ==
    CASE kind \in {0, 3, 6} -> "hidden1" [] kind = 1 -> "key" [] kind = 2 -> "value"
      [] kind = 4 -> "gate" [] OTHER -> IF Silu THEN "scratch" ELSE "up"

CommitAndCopy ==
    /\ InRegion("results") /\ "waves" \in done
    /\ RidingOp # Nothing => "vector" \in done
    /\ bank' = With(With(bank, "scratch", sent.matrix), Destination, sent.matrix)
    /\ kind' = IF kind = 6 THEN 0 ELSE kind + 1
    /\ at' = IF kind = 6 THEN "close" ELSE "step"
    /\ RegionStep("results")
    /\ UNCHANGED <<sent, issued>>

-----------------------------------------------------------------------------
CloseBlock ==
    /\ at = "close"
    /\ LET rows == [t \in Active |->
                Binary("RESIDUAL_ADD", bank["residual"][t], bank["hidden1"][t])]
           last == block + 1 = BlockCount(req)
       IN  /\ bank' = With(bank, "residual", rows)
           /\ output' = [row \in DOMAIN output |->
                            IF row >= Begin /\ row - Begin \in Active
                            THEN rows[row - Begin] ELSE output[row]]
           /\ at' = IF ~last THEN "open"
                    ELSE IF req.decode THEN "finished" ELSE "prefilled"
           /\ block' = IF last THEN 0 ELSE block + 1
           /\ req' = IF last THEN Nothing ELSE req
           /\ filled' = IF last THEN req.position + req.tokens ELSE filled
    /\ issued' = VectorRows(issued, Tokens, "RESIDUAL_ADD")
    /\ UNCHANGED <<build, kind, scale, sent, done, att, bound, kv>>

Region == IssueRidingTasks \/ DriveWaves \/ EmitRidingOperands
            \/ CollectRiding \/ CommitAndCopy

Next ==
    \/ \E n \in 1..MaxPrompt : RunPrefill(n)
    \/ RunDecode
    \/ LoadBlock
    \/ AdoptPrepared
    \/ GoOn
    \/ AppendToCache
    \/ AttendWave
    \/ FinishAttention
    \/ NormalizeFfn
    \/ Multiply
    \/ Region
    \/ CloseBlock

Spec == Init /\ [][Next]_layerVars

-----------------------------------------------------------------------------
(***************************************************************************)
(* The number of tasks the host lets a compute unit serve is exactly what  *)
(* the controller sends it over the blocks of the request: one too few     *)
(* leaves the controller waiting for results, one too many leaves the unit *)
(* waiting for a task, and either way the host never returns from finish.  *)
(***************************************************************************)
TasksAsCounted ==
    /\ \A cu \in CuSet : issued[cu] <= bound[cu]
    /\ req = Nothing => issued = bound

(***************************************************************************)
(* Whatever overlaps, every block leaves in hidden_output the layer's      *)
(* function of its own input rows and of the cache up to its end: no row   *)
(* of a bank comes from a block before, from an unwritten bank or from the *)
(* lookahead of another block, and the cache is appended to in order.      *)
(***************************************************************************)
Abstract == INSTANCE QuantizedBlocks WITH
    appended <- req # Nothing /\ (kind > 3 \/ at = "close"
                    \/ (kind = 3 /\ at \in {"attend", "region"}))

ImplementsQuantizedBlocks == Abstract!Spec
===============================================================================
