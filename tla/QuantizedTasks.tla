---------------------------- MODULE QuantizedTasks ----------------------------
(***************************************************************************)
(* The schedule of the quantized layer case: which tasks a layer request   *)
(* sends to which of the compute units, where a weight lies in the memory  *)
(* shard of a unit, and how many tasks the host tells each unit to serve.  *)
(* The controller and the host compute the two sides apart.                *)
(* Projections are numbered as quantized_projection_t: Q, K, V, O, GATE,   *)
(* UP, DOWN are 0..6.  A request is [decode, tokens, position, blockSize]. *)
(***************************************************************************)
EXTENDS Naturals, FiniteSets

CONSTANTS
    Cus,            \* QUANTIZED_LAYER_COMPUTE_CUS (4)
    OutputsPerCu,   \* QUANTIZED_LAYER_OUTPUTS_PER_CU (128)
    HiddenDim, KvDim, WideDim,  \* HIDDEN_SIZE, KV_CHANNELS, INTERMEDIATE_SIZE
    KvHeads,        \* NUM_KEY_VALUE_HEADS
    GqaGroup,       \* GQA_GROUP_SIZE
    Lanes,          \* CU_VEC_LANES: elements of a vector packet (16)
    Rows,           \* token rows of the compute unit: 8 (W4) or 4 (W8)
    PositionTile    \* positions of an attention tile (128)

ASSUME QuantizedAssumption ==
    /\ {Cus, OutputsPerCu, HiddenDim, KvDim, WideDim, KvHeads, GqaGroup,
        Lanes, Rows, PositionTile} \subseteq Nat \ {0}

CeilDiv(a, b) == (a + b - 1) \div b
AtMost(a, b) == IF a < b THEN a ELSE b

CuSet == 0..(Cus - 1)
Kinds == 0..6

-----------------------------------------------------------------------------
(* Projections: waves, the units a wave uses, the words of a shard. *)
OutputsPerWave == Cus * OutputsPerCu
OutDim(n) ==
    CASE n \in {1, 2} -> KvDim [] n \in {4, 5} -> WideDim [] OTHER -> HiddenDim
InDim(n) == IF n = 6 THEN WideDim ELSE HiddenDim

WaveCount(n) == CeilDiv(OutDim(n), OutputsPerWave)
ActiveInLastWave(n) ==
    CeilDiv(OutDim(n) - (WaveCount(n) - 1) * OutputsPerWave, OutputsPerCu)

(* quantized_projection_active_cu_mask, as the set of units. *)
ActiveCus(n, wave) ==
    { cu \in CuSet :
        wave < WaveCount(n)
          /\ (wave + 1 = WaveCount(n) => cu < ActiveInLastWave(n)) }

OffsetWithoutUp(n) ==                                             \* fault
    LET hidden == CeilDiv(HiddenDim, OutputsPerWave)
        kv == CeilDiv(KvDim, OutputsPerWave)
        wide == CeilDiv(WideDim, OutputsPerWave)
    IN  CASE n = 0 -> 0
          [] n = 1 -> hidden * HiddenDim
          [] n = 2 -> (hidden + kv) * HiddenDim
          [] n = 3 -> (hidden + 2 * kv) * HiddenDim
          [] n = 4 -> (2 * hidden + 2 * kv) * HiddenDim
          [] OTHER -> (2 * hidden + 2 * kv + wide) * HiddenDim

ShardOffset(n) ==
    LET hidden == CeilDiv(HiddenDim, OutputsPerWave)
        kv == CeilDiv(KvDim, OutputsPerWave)
        wide == CeilDiv(WideDim, OutputsPerWave)
    IN  CASE n = 0 -> 0
          [] n = 1 -> hidden * HiddenDim
          [] n = 2 -> (hidden + kv) * HiddenDim
          [] n = 3 -> (hidden + 2 * kv) * HiddenDim
          [] n = 4 -> (2 * hidden + 2 * kv) * HiddenDim
          [] n = 5 -> (2 * hidden + 2 * kv + wide) * HiddenDim
          [] OTHER -> (2 * hidden + 2 * kv + 2 * wide) * HiddenDim

LayerWords == ShardOffset(6) + CeilDiv(HiddenDim, OutputsPerWave) * WideDim

(* make_quantized_projection_dispatch: what the controller knows of a wave. *)
Dispatch(n, wave, cu, layer) ==
    LET base == wave * OutputsPerWave + cu * OutputsPerCu
    IN  [elemBase |-> base,
         outputs |-> IF base < OutDim(n)
                     THEN AtMost(OutDim(n) - base, OutputsPerCu) ELSE 0,
         firstWord |-> layer * LayerWords + ShardOffset(n) + wave * InDim(n)]

(* get_quantized_w8_weight_location: where the host puts a weight.          *)
WeightLocation(n, output, input, layer) ==
    LET wave == output \div OutputsPerWave
    IN  [cu |-> (output % OutputsPerWave) \div OutputsPerCu,
         lane |-> output % OutputsPerCu,
         word |-> layer * LayerWords + ShardOffset(n) + wave * InDim(n) + input]

-----------------------------------------------------------------------------
(***************************************************************************)
(* Vector operations: rows go round robin to the units, except that a      *)
(* single row of an elementwise operation is split by columns.  The two    *)
(* overlap modes split only in the builds that use them.                   *)
(***************************************************************************)
SplitColumns(rows, mode, overlap) ==
    /\ rows = 1
    /\ mode \in {"SILU_MUL", "RESIDUAL_ADD"}
                  \cup (IF overlap THEN {"SILU_ONLY", "MUL"} ELSE {})

Elements(mode) ==
    IF mode \in {"RMSNORM", "RESIDUAL_ADD"} THEN HiddenDim ELSE WideDim

RowsForCu(rows, cu) ==
    LET held == AtMost(rows, Rows)
    IN  IF cu >= held THEN 0 ELSE (held - cu + Cus - 1) \div Cus

BlocksForCu(elements, cu) ==
    LET blocks == CeilDiv(elements, Lanes)
    IN  IF cu >= blocks THEN 0 ELSE (blocks - cu + Cus - 1) \div Cus

TaskRows(rows, cu, mode, overlap) ==
    IF SplitColumns(rows, mode, overlap)
    THEN IF BlocksForCu(Elements(mode), cu) # 0 THEN 1 ELSE 0
    ELSE RowsForCu(rows, cu)

VectorCus(rows, mode, overlap) ==
    { cu \in CuSet : TaskRows(rows, cu, mode, overlap) # 0 }

-----------------------------------------------------------------------------
(***************************************************************************)
(* Attention: a unit of work is one query head (prefill) or the heads of a *)
(* KV group that fit the rows of a compute unit (decode).  Units are       *)
(* interleaved over the compute units wave by wave; each runs a QK and a   *)
(* PV task for every tile of positions.                                    *)
(***************************************************************************)
HeadsPerUnit(decode) == IF decode THEN Rows ELSE 1
AttentionUnits(decode) == KvHeads * CeilDiv(GqaGroup, HeadsPerUnit(decode))
AttentionWaves(decode) == CeilDiv(AttentionUnits(decode), Cus)

UnitCus(decode, wave) ==
    { cu \in CuSet : wave * Cus + cu < AttentionUnits(decode) }

(* The heads of a unit, as <<KV head, head within its group>>. *)
UnitHeads(decode, wave, cu) ==
    LET index == wave * Cus + cu
        first == (index \div KvHeads) * HeadsPerUnit(decode)
    IN  { <<index % KvHeads, h>> : h \in
            { g \in 0..(GqaGroup - 1) :
                first <= g /\ g < first + HeadsPerUnit(decode) } }

(* The wave whose drain updates the softmax state of a head. *)
WaveOfHead(decode, head) ==
    (head[1] + (head[2] \div HeadsPerUnit(decode)) * KvHeads) \div Cus

Tiles(context) == CeilDiv(context, PositionTile)

-----------------------------------------------------------------------------
(***************************************************************************)
(* Blocks of a request, as the controller computes them.  A block size of  *)
(* 0, or above the rows of the unit, is the default of the format.         *)
(***************************************************************************)
BlockSize(r) == IF r.blockSize = 0 \/ r.blockSize > Rows THEN Rows ELSE r.blockSize
BlockCount(r) == IF r.decode THEN 1 ELSE CeilDiv(r.tokens, BlockSize(r))
BlockBegin(r, b) == b * BlockSize(r)
BlockTokens(r, b) ==
    IF r.decode THEN 1 ELSE AtMost(r.tokens - BlockBegin(r, b), BlockSize(r))
BlockPosition(r, b) == r.position + (IF r.decode THEN 0 ELSE BlockBegin(r, b))

(***************************************************************************)
(* quantized_w4_layer_tasks_for_cu and its W8 twin: the number of tasks    *)
(* the host sets as the loop bound of a compute unit before it starts the  *)
(* controller.  It counts from the arguments of the request alone.         *)
(***************************************************************************)
ProjectionTasksPerBlock(cu) ==
    Cardinality({ s \in Kinds \X (0..(HiddenDim + KvDim + WideDim)) :
                    cu \in ActiveCus(s[1], s[2]) })

AttentionTasksForCu(decode, cu, context) ==
    LET units == AttentionUnits(decode)
        assigned == IF cu < units THEN 1 + ((units - 1 - cu) \div Cus) ELSE 0
    IN  2 * assigned * Tiles(context)

VectorTasksPerBlock(rows, cu, overlap) ==
    LET has(mode) == IF TaskRows(rows, cu, mode, overlap) # 0 THEN 1 ELSE 0
    IN  2 * has("RMSNORM") + 2 * has("RESIDUAL_ADD") + has("SILU_MUL")

SiluTaskForgotten(r, b, cu, overlap) == 0                         \* fault
SiluTask(r, b, cu, overlap) ==
    IF overlap /\ ~r.decode
         /\ TaskRows(BlockTokens(r, b), cu, "SILU_ONLY", overlap) # 0
    THEN 1 ELSE 0

BlockTasksForCu(r, b, cu, overlap) ==
    ProjectionTasksPerBlock(cu)
      + AttentionTasksForCu(r.decode, cu, BlockPosition(r, b) + BlockTokens(r, b))
      + VectorTasksPerBlock(BlockTokens(r, b), cu, overlap)
      + SiluTask(r, b, cu, overlap)

HostTasksForCu(r, cu, overlap) ==
    LET sum[b \in 0..BlockCount(r)] ==
            IF b = 0 THEN 0 ELSE sum[b - 1] + BlockTasksForCu(r, b - 1, cu, overlap)
    IN  sum[BlockCount(r)]
=============================================================================
