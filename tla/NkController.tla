---------------------------- MODULE NkController ----------------------------
(***************************************************************************)
(* What control_cache_8x64_dual_core sends to and reads from the two       *)
(* compute cores for one launch.  A launch is a sequence of exchanges; an  *)
(* exchange is a sequence of blocks; a block is an HLS dataflow region or  *)
(* a sequential call, [emit, collect], whose two sides run side by side    *)
(* and must both finish before the next block starts.                      *)
(***************************************************************************)
EXTENDS NkTask, FiniteSets

CONSTANTS
    TokensPerPort,      \* CC8_TOKENS_PER_DATA_PORT: rows core 0 serves first
    ActiveTokens,       \* LINEAR_TOKEN_TILE_ACTIVE, CC8_GBUF_TOKEN_ROWS
    GqaGroup,           \* GQA_GROUP_SIZE: query heads of one KV head
    KCount,             \* k_count of every wave (HIDDEN_SIZE, HEAD_DIM, tile)
    Waves,              \* output waves of projection steps 0..6
    PvWaves,            \* CC8_ATTN_PV_WAVES
    AttnTile,           \* CC8_ATTN_TILE: positions of one attention tile
    MaxSeq,             \* MAX_SEQ_LEN
    MaxTasks,           \* CU8_MAX_TASKS_PER_LAUNCH
    WaveRepeat,         \* CC8_ENABLE_MM_WAVE_REPEAT
    CrossWaveDataflow   \* CC8_ENABLE_MM_CROSS_WAVE_DATAFLOW

ASSUME TokenAssumption ==
    /\ TokensPerPort \in Nat \ {0}
    /\ ActiveTokens = 2 * TokensPerPort
ASSUME FlagAssumption ==
    WaveRepeat \in BOOLEAN /\ CrossWaveDataflow \in BOOLEAN
ASSUME ShapeAssumption ==
    /\ {KCount, MaxSeq, MaxTasks} \subseteq Nat
    /\ {GqaGroup, PvWaves, AttnTile} \subseteq Nat \ {0}
    /\ Waves \in [0..6 -> Nat \ {0}]

Cores == 0..1
AllCores == Cores

CeilDiv(a, b) == (a + b - 1) \div b

(***************************************************************************)
(* The tasks a resident layer sends a core fit into one run of its task    *)
(* loop: control_cache_8x64.hpp:167-173 asserts as much, for the attention *)
(* of ActiveTokens rows at the longest context, in tiles no larger than    *)
(* these, for these projections and one more, and for five vector tasks.   *)
(***************************************************************************)
ProjectionBudget ==
    Waves[0] + Waves[1] + Waves[2] + Waves[3] + Waves[4] + Waves[5] + Waves[6]
AttentionBudget == ActiveTokens * (CeilDiv(MaxSeq, AttnTile) * (1 + PvWaves))
Core0TasksMax == AttentionBudget + ProjectionBudget + 5

ASSUME BudgetAssumption == Core0TasksMax <= MaxTasks

(***************************************************************************)
(* Channels are <<kind, core>> on the controller's side of the links.      *)
(***************************************************************************)
Send(c, kind, word) == [do |-> "put", kind |-> kind, core |-> c, word |-> word]
Receive(c, word) == [do |-> "take", kind |-> "out", core |-> c, word |-> word]
ForCores(Body(_)) == Body(0) \o Body(1)

Block(emit, collect) == [emit |-> emit, collect |-> collect]
Stops == ForCores(LAMBDA c : <<Send(c, "task", StopTask)>>)

(***************************************************************************)
(* Token rows of a vector operation: core 0 takes up to TokensPerPort of   *)
(* them, core 1 the rest.                                                  *)
(***************************************************************************)
CoreRows(tokens) ==
    [c \in Cores |->
        IF c = 0 THEN (IF tokens < TokensPerPort THEN tokens ELSE TokensPerPort)
        ELSE IF tokens > TokensPerPort THEN tokens - TokensPerPort ELSE 0]

MostOf(rows) == IF rows[0] > rows[1] THEN rows[0] ELSE rows[1]

(***************************************************************************)
(* emit_cc8_vec_dual_range_from_gbuf and emit_cc8_vec_pair_dual_from_gbuf: *)
(* local token by local token, block by block, core 0 then core 1, with    *)
(* the kinds of one slot sent back to back.                                *)
(***************************************************************************)
EmitRowsOfCore0(x, kinds, rows) ==                                \* fault
    Times(rows[0] * Blocks, LAMBDA i :
        ForCores(LAMBDA c :
            [j \in 1..Len(kinds) |-> Send(c, kinds[j], <<x, 0, i>>)]))

EmitRows(x, kinds, rows) ==
    Times(MostOf(rows) * Blocks, LAMBDA i :
        ForCores(LAMBDA c :
            IF i <= rows[c] * Blocks
            THEN [j \in 1..Len(kinds) |-> Send(c, kinds[j], <<x, 0, i>>)]
            ELSE << >>))

EmitVectorInputs(x, mode, rows) ==
    IF mode = "RMSNORM"
    THEN EmitRows(x, <<"v1">>, [c \in Cores |-> IF rows[c] # 0 THEN 1 ELSE 0])
           \o EmitRows(x, <<"v0">>, rows)
    ELSE EmitRows(x, <<"v0", "v1">>, rows)

CollectRowsOfCore1(x, rows) ==                                    \* fault
    Times(rows[1] * Blocks, LAMBDA i :
        ForCores(LAMBDA c :
            IF i <= rows[c] * Blocks THEN <<Receive(c, <<x, 0, i>>)>> ELSE << >>))

CollectVector(x, rows) ==
    Times(MostOf(rows) * Blocks, LAMBDA i :
        ForCores(LAMBDA c :
            IF i <= rows[c] * Blocks THEN <<Receive(c, <<x, 0, i>>)>> ELSE << >>))

(***************************************************************************)
(* run_cc8_vector_gbuf_task, its in-place binary twin, and the tail of the *)
(* generic vector operator: a core without rows gets a STOP when the       *)
(* session ends here, and nothing otherwise.                               *)
(***************************************************************************)
VectorTasks(x, mode, rows, endSession) ==
    ForCores(LAMBDA c :
        IF rows[c] # 0
        THEN <<Send(c, "task", VectorTask(x, mode, rows[c], endSession))>>
        ELSE IF endSession THEN <<Send(c, "task", StopTask)>>
        ELSE << >>)

VectorExchange(x, mode, tokens, endSession) ==
    LET rows == CoreRows(tokens)
    IN  << Block(VectorTasks(x, mode, rows, endSession), << >>),
           Block(EmitVectorInputs(x, mode, rows), CollectVector(x, rows)) >>

(***************************************************************************)
(* One projection wave on the cores of mask.  A core outside the mask gets *)
(* a STOP with the last wave when the session ends here.                   *)
(***************************************************************************)
StopWithEveryWave(x, w, reps, mask, last) ==                      \* fault
    ForCores(LAMBDA c :
        IF c \in mask THEN <<Send(c, "task", MmTask(x, w, KCount, reps, last))>>
        ELSE <<Send(c, "task", StopTask)>>)

WaveTasks(x, w, reps, mask, last) ==
    ForCores(LAMBDA c :
        IF c \in mask THEN <<Send(c, "task", MmTask(x, w, KCount, reps, last))>>
        ELSE IF last THEN <<Send(c, "task", StopTask)>>
        ELSE << >>)

EmitWave(x, w, k, mask) ==
    Times(k, LAMBDA i : ForCores(LAMBDA c :
        IF c \in mask THEN <<Send(c, "mm", <<x, w, i>>)>> ELSE << >>))

CollectWave(x, w, mask) ==
    Times(Packets, LAMBDA i : ForCores(LAMBDA c :
        IF c \in mask THEN <<Receive(c, <<x, w, i>>)>> ELSE << >>))

(***************************************************************************)
(* run_cc8_projection_wave_range_overlapped: tasks and beats of every wave *)
(* in the driver, results of every wave in the collector, no barrier       *)
(* between waves.                                                          *)
(***************************************************************************)
OverlappedWaves(x, waves, mask, endSession) ==
    << Block(
         (IF WaveRepeat /\ waves # 0
          THEN WaveTasks(x, 1, waves, mask, endSession) ELSE << >>)
           \o Times(waves, LAMBDA w :
                (IF WaveRepeat THEN << >>
                 ELSE WaveTasks(x, w, 1, mask, endSession /\ w = waves))
                  \o EmitWave(x, w, KCount, mask)),
         Times(waves, LAMBDA w : CollectWave(x, w, mask))) >>

(***************************************************************************)
(* run_cc8_projection_waves_flat and the banked variant without the        *)
(* cross-wave dataflow: a barrier after the results of each wave.          *)
(***************************************************************************)
WaveByWave(x, waves, mask, endSession) ==
    (IF WaveRepeat
     THEN <<Block(WaveTasks(x, 1, waves, mask, endSession), << >>)>> ELSE << >>)
      \o Times(waves, LAMBDA w :
           (IF WaveRepeat THEN << >>
            ELSE <<Block(WaveTasks(x, w, 1, mask, endSession /\ w = waves), << >>)>>)
             \o <<Block(EmitWave(x, w, KCount, mask), CollectWave(x, w, mask))>>)

BankedWaves(x, waves, endSession) ==
    IF CrossWaveDataflow THEN OverlappedWaves(x, waves, AllCores, endSession)
    ELSE WaveByWave(x, waves, AllCores, endSession)

(***************************************************************************)
(* Attention tasks of one tile.  The QK exchange of the resident path is a *)
(* dataflow region; its PV waves, and both steps of the block-prefill      *)
(* path, send every beat to both cores and only then read core 0, core 1.  *)
(***************************************************************************)
AttnTask(x, w, k, last) ==
    Block(ForCores(LAMBDA c : <<Send(c, "task", MmTask(x, w, k, 1, last))>>),
          << >>)

PvWave(x, w, k, last) ==
    << AttnTask(x, w, k, last),
       Block(EmitWave(x, w, k, AllCores), << >>),
       Block(<< >>, CollectWave(x, w, {0}) \o CollectWave(x, w, {1})) >>

ResidentTile(x, k) ==
    << AttnTask(x, 0, KCount, FALSE),
       Block(EmitWave(x, 0, KCount, AllCores), CollectWave(x, 0, AllCores)) >>
      \o Times(PvWaves, LAMBDA w : PvWave(x, w, k, FALSE))

PrefillTileHead(x, k, last) ==
    << AttnTask(x, 0, KCount, FALSE),
       Block(EmitWave(x, 0, KCount, AllCores), << >>),
       Block(<< >>, CollectWave(x, 0, AllCores)) >>
      \o Times(PvWaves, LAMBDA w : PvWave(x, w, k, last /\ w = PvWaves))

(***************************************************************************)
(* The diagnostic softmax: all rows to core 0, all rows to core 1, then    *)
(* all results of core 0, all results of core 1.                           *)
(***************************************************************************)
SoftmaxExchange(x) ==
    LET each(Body(_)) == Times(GqaGroup * Blocks, LAMBDA i : <<Body(i)>>)
    IN  <<Block(VectorTasks(x, "SOFTMAX", [c \in Cores |-> GqaGroup], TRUE), << >>)>>
          \o ForCores(LAMBDA c :
               <<Block(each(LAMBDA i : Send(c, "v0", <<x, 0, i>>)), << >>)>>)
          \o ForCores(LAMBDA c :
               <<Block(<< >>, each(LAMBDA i : Receive(c, <<x, 0, i>>)))>>)

(***************************************************************************)
(* Requests: the scalar arguments of one launch.  waves and mask are the   *)
(* active output waves and the core mask a profiling launch selects.       *)
(***************************************************************************)
ProjectionOps == {"PROJECTION"}
VectorOps == {"RMSNORM", "SILU_MUL", "RESIDUAL_ADD"}
ResidentOps == {"DECODER_LAYER", "ATTENTION_SUBLAYER", "FFN_SUBLAYER"}
KnownOps == {"NOP", "FINAL_NORM", "ATTN_PREFILL_BLOCK", "SOFTMAX"}
              \cup ProjectionOps \cup VectorOps \cup ResidentOps

TileCount(context) == CeilDiv(context, AttnTile)
TileLength(context, i) ==
    IF i * AttnTile > context THEN context - (i - 1) * AttnTile ELSE AttnTile

PrefillTasksPerCore(r) ==
    TileCount(r.position + r.tokens) * GqaGroup * (1 + PvWaves)

BadPosition(r) == r.position >= MaxSeq \/ r.position + r.tokens > MaxSeq

(***************************************************************************)
(* The argument checks, in the order the controller makes them.  tile_len  *)
(* is taken to be in range: BAD_TILE_LENGTH stops both cores as the other  *)
(* rejections do.                                                          *)
(***************************************************************************)
StatusCode(r) ==
    LET op == r.op IN
    IF r.tokens > ActiveTokens THEN "BAD_TOKEN_COUNT"
    ELSE IF op \notin KnownOps THEN "BAD_OPERATOR"
    ELSE IF op = "NOP" THEN "OK"
    ELSE IF ~r.layerOk THEN "BAD_LAYER"
    ELSE IF op \in ResidentOps \cup {"FINAL_NORM", "ATTN_PREFILL_BLOCK"}
              /\ r.tokens = 0 THEN "BAD_TOKEN_COUNT"
    ELSE IF op \in ResidentOps \cup {"ATTN_PREFILL_BLOCK"} /\ BadPosition(r)
    THEN "BAD_POSITION"
    ELSE IF op = "ATTN_PREFILL_BLOCK" /\ PrefillTasksPerCore(r) > MaxTasks
    THEN "BAD_POSITION"
    ELSE "OK"

(***************************************************************************)
(* Resident layers.  Attention: RMSNorm, Q, K, V, the causal walk token by *)
(* token over the tiles, O, residual.  FFN: RMSNorm, gate, up, SILU_MUL,   *)
(* down, residual.  The session ends with the residual of the last half.   *)
(***************************************************************************)
TokenWalk(x, context) ==
    Times(TileCount(context), LAMBDA i :
        ResidentTile(x + i, TileLength(context, i)))

AttentionWalk(r) ==
    Times(r.tokens, LAMBDA t : TokenWalk(100 * t, r.position + t))

AttentionHalf(r) ==
    VectorExchange(1, "RMSNORM", r.tokens, FALSE)
      \o Times(3, LAMBDA s : BankedWaves(1 + s, Waves[s - 1], FALSE))
      \o AttentionWalk(r)
      \o BankedWaves(5, Waves[3], FALSE)
      \o VectorExchange(6, "RESIDUAL_ADD", r.tokens,
                        r.op = "ATTENTION_SUBLAYER")

FfnHalf(r) ==
    VectorExchange(7, "RMSNORM", r.tokens, FALSE)
      \o BankedWaves(8, Waves[4], FALSE)
      \o BankedWaves(9, Waves[5], FALSE)
      \o VectorExchange(10, "SILU_MUL", r.tokens, FALSE)
      \o BankedWaves(11, Waves[6], FALSE)
      \o VectorExchange(12, "RESIDUAL_ADD", r.tokens, TRUE)

PrefillTile(i, context, last) ==
    Times(GqaGroup, LAMBDA h :
        PrefillTileHead(100 * h + i, TileLength(context, i), last /\ h = GqaGroup))

PrefillBlock(r) ==
    Times(TileCount(r.position + r.tokens), LAMBDA i :
        PrefillTile(i, r.position + r.tokens,
                    i = TileCount(r.position + r.tokens)))

(* A projection with no active wave stops both cores. *)
EmptyRangeRuns(r) == WaveByWave(1, r.waves, r.mask, TRUE)         \* fault
ProjectionWaves(r) ==
    IF r.waves = 0 THEN <<Block(Stops, << >>)>>
    ELSE WaveByWave(1, r.waves, r.mask, TRUE)

(***************************************************************************)
(* The blocks of a launch; every rejected or empty launch stops both cores.*)
(***************************************************************************)
Script(r) ==
    LET op == r.op IN
    IF StatusCode(r) # "OK" \/ op = "NOP" THEN <<Block(Stops, << >>)>>
    ELSE CASE op = "FINAL_NORM" -> VectorExchange(1, "RMSNORM", r.tokens, TRUE)
      [] op = "ATTENTION_SUBLAYER" -> AttentionHalf(r)
      [] op = "FFN_SUBLAYER" -> FfnHalf(r)
      [] op = "DECODER_LAYER" -> AttentionHalf(r) \o FfnHalf(r)
      [] op = "ATTN_PREFILL_BLOCK" -> PrefillBlock(r)
      [] op = "SOFTMAX" -> SoftmaxExchange(1)
      [] op \in ProjectionOps -> ProjectionWaves(r)
      [] OTHER -> VectorExchange(1, op, r.tokens, TRUE)

(***************************************************************************)
(* The counters the controller puts in the status packet.                  *)
(***************************************************************************)
CoresWithRows(tokens) == Cardinality({c \in Cores : CoreRows(tokens)[c] # 0})

SumOf(f, lo, hi) ==
    LET sum[n \in (lo - 1)..hi] == IF n < lo THEN 0 ELSE sum[n - 1] + f[n]
    IN  sum[hi]

AttentionTasksOfLastToken(r) ==                                   \* fault
    2 * (1 + PvWaves) * r.tokens * TileCount(r.position + r.tokens)

AttentionTasks(r) ==
    2 * (1 + PvWaves)
      * SumOf([t \in 1..r.tokens |-> TileCount(r.position + t)], 1, r.tokens)

Counters(mm, vec, packets) == [mm |-> mm, vec |-> vec, packets |-> packets]

ResidentCounters(r) ==
    LET attn == r.op # "FFN_SUBLAYER"
        ffn == r.op # "ATTENTION_SUBLAYER"
        first == IF attn THEN 0 ELSE 4
        end == IF ffn THEN 6 ELSE 3
        mm == (IF attn THEN AttentionTasks(r) ELSE 0)
                + 2 * SumOf(Waves, first, end)
        vectors == (IF attn THEN 2 ELSE 0) + (IF ffn THEN 3 ELSE 0)
    IN  Counters(mm, vectors * CoresWithRows(r.tokens),
                 mm * Packets + vectors * r.tokens * Blocks)

ProjectionTasks(r) == r.waves * Cardinality(r.mask)

StatusCounters(r) ==
    LET op == r.op IN
    IF StatusCode(r) # "OK" \/ op = "NOP" THEN Counters(0, 0, 0)
    ELSE CASE op \in ResidentOps -> ResidentCounters(r)
      [] op = "ATTN_PREFILL_BLOCK" ->
           Counters(2 * PrefillTasksPerCore(r), 0,
                    2 * PrefillTasksPerCore(r) * Packets)
      [] op = "SOFTMAX" -> Counters(0, 2, 2 * GqaGroup * Blocks)
      [] op \in ProjectionOps ->
           Counters(ProjectionTasks(r), 0, ProjectionTasks(r) * Packets)
      [] OTHER -> Counters(0, CoresWithRows(r.tokens), r.tokens * Blocks)
=============================================================================
