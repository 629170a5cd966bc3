--------------------------- MODULE FlashAttention ---------------------------
(***************************************************************************)
(* The attention operators of the controller, tile by tile: scores of a    *)
(* tile, online softmax with a running maximum and sum, rescale of the     *)
(* accumulator, P*V by output waves.  The streams to the compute cores are *)
(* NkController's; here a product is one step.                             *)
(*                                                                         *)
(* SMOKE stores the current K/V row and bypasses it into its tile, FLASH   *)
(* attends over the cache as it is, LAYER walks the tokens of a resident   *)
(* layer one by one, BLOCK keeps the state of every query head and token   *)
(* of a prefill block while it walks the tiles once; QK and PV are one     *)
(* product over a panel of the host.                                       *)
(***************************************************************************)
EXTENDS AttentionMath, Sequences

CONSTANTS
    MaxSeq,         \* MAX_SEQ_LEN
    TileSize,       \* CC8_ATTN_TILE
    RowCount,       \* MM_STREAM_8X64_TOKENS
    Entries,        \* K/V entries
    Sessions,       \* the sets of operators one host run uses
    NoRows

(* control_cache_8x64.hpp asserts GqaGroup <= RowCount; the block operator *)
(* needs them equal, because the P*V emitter masks rows by GqaGroup.       *)
ASSUME FlashAssumption ==
    /\ MaxSeq \in Nat \ {0} /\ TileSize \in Nat \ {0}
    /\ RowCount = GqaGroup

(* A run uses the operators of one K image: SMOKE leaves the transposed    *)
(* one stale.                                                              *)
ASSUME SessionAssumption ==
    \A s \in Sessions : s \subseteq {"FLASH", "SMOKE", "QK", "PV"} \/ s \subseteq {"LAYER", "BLOCK"}

(* The scores of a row stay within the clamp of cc8_exp_xilinx, so that a  *)
(* sum carried to a new maximum loses nothing, and above fm_t(-128).       *)
ASSUME EntryAssumption ==
    /\ Entries \subseteq [k : Int, v : Int]
    /\ \A e \in Entries, c \in Cores, query \in {-1, 1, 2} :
         /\ Score(query, KeyOf(e, c)) >= Lowest
         /\ \A f \in Entries :
              Score(query, KeyOf(e, c)) - Score(query, KeyOf(f, c)) >= ExpFloor

VARIABLES
    ops,        \* the operators of this run
    kRow,       \* position -> entry whose K the row-major image holds
    kTr,        \* the same for the transposed image
    v,          \* the same for V
    job,        \* the launch: [op, tokens, position, tile], or NoJob
    pc,         \* the controller's place in it
    token,      \* the token a resident layer walks
    tile, slot, wave,   \* tile index, prefill head, output wave
    panelK, panelV,     \* per core, the loaded tile
    scores,     \* per core, row and column
    probs,      \* per core, row and column: raw bits
    oldScale,   \* per core and row
    state,      \* per core, slot and row: [max, sum, acc]
    output

scratch == <<panelK, panelV, scores, probs, oldScale, state>>
caches == <<kRow, kTr, v>>
vars == <<ops, caches, job, pc, token, tile, slot, wave, scratch, output>>

Positions == 0..(MaxSeq - 1)
Columns == 0..(TileSize - 1)
Rows == 0..(RowCount - 1)
NoJob == [op |-> "none", tokens |-> 0, position |-> 0, tile |-> <<>>]

-----------------------------------------------------------------------------
(***************************************************************************)
(* Launches.  tile holds what comes with the launch: the panel of QK and   *)
(* PV, the current entry of SMOKE, the entries a layer computes.           *)
(***************************************************************************)
PanelOps == {"QK", "PV"}

Accepted(j) ==
    CASE j.op \in {"FLASH", "SMOKE"} -> j.position < MaxSeq
      [] j.op \in PanelOps -> Len(j.tile) \in 1..TileSize
      [] OTHER -> j.tokens \in 1..RowCount /\ j.position + j.tokens <= MaxSeq

Launches(op) ==
    CASE op = "FLASH" ->
           [op : {op}, tokens : {GqaGroup}, position : Positions, tile : {<<>>}]
      [] op = "SMOKE" ->
           [op : {op}, tokens : {GqaGroup}, position : Positions,
            tile : [1..1 -> Entries]]
      [] op \in PanelOps ->
           [op : {op}, tokens : {GqaGroup}, position : {0},
            tile : UNION {[1..n -> Entries] : n \in 1..TileSize}]
      [] op = "BLOCK" ->
           [op : {op}, tokens : 0..RowCount, position : Positions, tile : {<<>>}]
      [] op = "LAYER" ->
           UNION {[op : {op}, tokens : {n}, position : Positions,
                   tile : [1..n -> Entries]] : n \in 1..RowCount}

Slots == IF job.op = "BLOCK" THEN Heads ELSE {0}
QueryOf(c, s, row) ==
    IF job.op = "BLOCK" THEN Query(c, s, row) ELSE Query(c, row, token)
LiveRows == 0..((IF job.op = "BLOCK" THEN job.tokens ELSE GqaGroup) - 1)

Position == job.position + token
ContextLen ==
    CASE job.op = "BLOCK" -> job.position + job.tokens
      [] job.op \in PanelOps -> Len(job.tile)
      [] OTHER -> Position + 1
TileBegin == tile * TileSize
TileLen ==
    IF TileBegin + TileSize > ContextLen THEN ContextLen - TileBegin ELSE TileSize
LastTile == TileBegin + TileSize >= ContextLen

-----------------------------------------------------------------------------
FirstRow == [max |-> Lowest, sum |-> 0, acc |-> [w \in Waves |-> 0]]
EmptyPanel(zero) == [c \in Cores |-> [col \in Columns |-> zero]]
EmptyRows == [c \in Cores |-> [r \in Rows |-> [col \in Columns |-> 0]]]
NoState == [c \in Cores |-> [s \in Heads |-> [r \in Rows |-> FirstRow]]]

(* The local buffers of a launch, before it or after it.                   *)
AtRest ==
    /\ panelK' = EmptyPanel(0)
    /\ panelV' = EmptyPanel([w \in Waves |-> 0])
    /\ scores' = EmptyRows
    /\ probs' = EmptyRows
    /\ oldScale' = [c \in Cores |-> [r \in Rows |-> 0]]
    /\ state' = NoState

Init ==
    /\ ops \in Sessions
    /\ kRow \in [Positions -> Entries]
    /\ kTr = kRow /\ v = kRow
    /\ job = NoJob /\ pc = "idle"
    /\ token = 0 /\ tile = 0 /\ slot = 0 /\ wave = 0
    /\ panelK = EmptyPanel(0)
    /\ panelV = EmptyPanel([w \in Waves |-> 0])
    /\ scores = EmptyRows /\ probs = EmptyRows
    /\ oldScale = [c \in Cores |-> [r \in Rows |-> 0]]
    /\ state = NoState
    /\ output = NoRows

Start ==
    /\ pc = "idle"
    /\ \E op \in ops : \E j \in Launches(op) :
         /\ Accepted(j)
         /\ job' = j
         /\ pc' = CASE op \in {"SMOKE", "LAYER"} -> "store current"
                    [] op \in PanelOps -> "panel"
                    [] OTHER -> "load"
    /\ output' = NoRows
    /\ UNCHANGED <<ops, caches, token, tile, slot, wave, scratch>>

(***************************************************************************)
(* The current K/V row goes to the cache before any tile is loaded: the    *)
(* diagnostic operator writes the row-major image only, a resident layer   *)
(* both images of K.                                                       *)
(***************************************************************************)
StoreCurrent ==
    LET entry == job.tile[token + 1]
    IN /\ pc = "store current"
       /\ kRow' = [kRow EXCEPT ![Position] = entry]
       /\ v' = [v EXCEPT ![Position] = entry]
       /\ kTr' = IF job.op = "LAYER" THEN [kTr EXCEPT ![Position] = entry] ELSE kTr
       /\ pc' = "load"
       /\ output' = NoRows
       /\ UNCHANGED <<ops, job, token, tile, slot, wave, scratch>>

(***************************************************************************)
(* A tile is loaded once for all slots: columns past its length are zero,  *)
(* and so is the current position of SMOKE, which is read from registers.  *)
(***************************************************************************)
CurrentInTile ==
    job.op = "SMOKE" /\ Position >= TileBegin /\ Position < TileBegin + TileLen
CurrentColumn == Position - TileBegin
LoadLen == IF CurrentInTile THEN CurrentColumn ELSE TileLen

KeyImage == IF job.op \in {"LAYER", "BLOCK"} THEN kTr ELSE kRow

LoadTile ==
    /\ pc = "load"
    /\ panelK' = [c \in Cores |-> [col \in Columns |->
           IF col < LoadLen THEN KeyOf(KeyImage[TileBegin + col], c) ELSE 0]]
    /\ panelV' = [c \in Cores |-> [col \in Columns |-> [w \in Waves |->
           IF col < LoadLen THEN ValueOf(v[TileBegin + col], c, w) ELSE 0]]]
    /\ pc' = "scores"
    /\ UNCHANGED <<ops, caches, job, token, tile, slot, wave, scores, probs,
                   oldScale, state, output>>

(* QK and PV: the panel from the aux ports; PV's rows are host weights.    *)
LoadPanel ==
    /\ pc = "panel"
    /\ panelK' = [c \in Cores |-> [col \in Columns |->
           IF col < TileLen THEN KeyOf(job.tile[col + 1], c) ELSE 0]]
    /\ panelV' = [c \in Cores |-> [col \in Columns |-> [w \in Waves |->
           IF col < TileLen THEN ValueOf(job.tile[col + 1], c, w) ELSE 0]]]
    /\ probs' = IF job.op = "QK" THEN probs
                ELSE [c \in Cores |-> [r \in Rows |-> [col \in Columns |-> 1 + r + col]]]
    /\ pc' = IF job.op = "QK" THEN "scores" ELSE "values"
    /\ UNCHANGED <<ops, caches, job, token, tile, slot, wave, scores, oldScale,
                   state, output>>

(* The panel, or the current row where the bypass says so.                 *)
Bypassed(col) == CurrentInTile /\ col = CurrentColumn
KeyAt(c, col) ==
    IF Bypassed(col) THEN KeyOf(job.tile[1], c) ELSE panelK[c][col]
ValueAt(c, col, w) ==
    IF Bypassed(col) THEN ValueOf(job.tile[1], c, w) ELSE panelV[c][col][w]

Scores ==
    /\ pc = "scores"
    /\ scores' = [c \in Cores |-> [r \in Rows |-> [col \in Columns |->
           IF r \in LiveRows THEN Score(QueryOf(c, slot, r), KeyAt(c, col)) ELSE 0]]]
    /\ pc' = IF job.op = "QK" THEN "output" ELSE "softmax"
    /\ UNCHANGED <<ops, caches, job, token, tile, slot, wave, panelK, panelV,
                   probs, oldScale, state, output>>

-----------------------------------------------------------------------------
(***************************************************************************)
(* Online softmax of one row over one tile.  A prefill row also masks the  *)
(* columns after its own position; probabilities of attention_prob_t have  *)
(* 64 times the raw bits of fm_t.                                          *)
(***************************************************************************)
StrictlyBefore(row, col) ==                                         \* fault
    /\ col < TileLen
    /\ job.op = "BLOCK" => TileBegin + col < job.position + row
Visible(row, col) ==
    /\ col < TileLen
    /\ job.op = "BLOCK" => TileBegin + col <= job.position + row

RawPerUnit == IF job.op \in {"LAYER", "BLOCK"} THEN 64 ELSE 1
OutputScale == IF job.op \in {"LAYER", "BLOCK"} THEN 64 ELSE 1

RowMax(c, s, r) ==
    Max({state[c][s][r].max}
          \cup {scores[c][r][col] : col \in {x \in Columns : Visible(r, x)}})
Probability(c, s, r, col) ==
    IF Visible(r, col) THEN Exp(scores[c][r][col] - RowMax(c, s, r)) ELSE 0
RescaleOf(c, s, r) == Exp(state[c][s][r].max - RowMax(c, s, r))

TileSum(c, s, r) == MapThenSumSet(LAMBDA col : Probability(c, s, r, col), Columns)

SumKept(total, factor, more) == total + more                        \* fault
SumAfter(total, factor, more) == Scaled(total, factor) + more

SoftmaxRow(c, s, r) ==
    [state[c][s][r] EXCEPT
       !.max = RowMax(c, s, r),
       !.sum = SumAfter(@, RescaleOf(c, s, r), TileSum(c, s, r))]

Softmax ==
    /\ pc = "softmax"
    /\ probs' = [c \in Cores |-> [r \in Rows |-> [col \in Columns |->
           IF r \in LiveRows THEN RawPerUnit * Probability(c, slot, r, col) ELSE 0]]]
    /\ oldScale' = [c \in Cores |-> [r \in Rows |->
           IF r \in LiveRows THEN RescaleOf(c, slot, r) ELSE 0]]
    /\ state' = [c \in Cores |-> [state[c] EXCEPT ![slot] = [r \in Rows |->
           IF r \in LiveRows THEN SoftmaxRow(c, slot, r) ELSE @[r]]]]
    /\ pc' = "rescale"
    /\ UNCHANGED <<ops, caches, job, token, tile, slot, wave, panelK, panelV,
                   scores, output>>

RescaledRow(c, s, r) ==
    [state[c][s][r] EXCEPT !.acc = [w \in Waves |-> Scaled(@[w], oldScale[c][r])]]

Rescale ==
    /\ pc = "rescale"
    /\ state' = [c \in Cores |-> [state[c] EXCEPT ![slot] = [r \in Rows |->
           IF r \in LiveRows THEN RescaledRow(c, slot, r) ELSE @[r]]]]
    /\ pc' = "values"
    /\ UNCHANGED <<ops, caches, job, token, tile, slot, wave, panelK, panelV,
                   scores, probs, oldScale, output>>

(* One output wave of P*V: K is the tile length, rows past the query group *)
(* stream zeros, the result is scaled back.                                *)
Product(c, r, w) ==
    IF r >= GqaGroup THEN 0
    ELSE MapThenSumSet(LAMBDA col : probs[c][r][col] * ValueAt(c, col, w),
                       0..(TileLen - 1)) \div OutputScale

AccumulatedRow(c, s, r) ==
    [state[c][s][r] EXCEPT !.acc[wave] = @ + Product(c, r, wave)]

Values ==
    /\ pc = "values"
    /\ state' = [c \in Cores |-> [state[c] EXCEPT ![slot] = [r \in Rows |->
           IF r \in LiveRows THEN AccumulatedRow(c, slot, r) ELSE @[r]]]]
    /\ IF wave + 1 < PvWaves
       THEN wave' = wave + 1 /\ pc' = pc
       ELSE wave' = 0 /\ pc' = "next"
    /\ UNCHANGED <<ops, caches, job, token, tile, slot, panelK, panelV, scores,
                   probs, oldScale, output>>

(* The next slot of the tile, the next tile, or the output.                *)
Advance ==
    /\ pc = "next"
    /\ CASE slot + 1 \in Slots ->
              slot' = slot + 1 /\ tile' = tile /\ pc' = "scores"
         [] slot + 1 \notin Slots /\ ~ LastTile ->
              slot' = 0 /\ tile' = tile + 1 /\ pc' = "load"
         [] OTHER -> slot' = 0 /\ tile' = 0 /\ pc' = "output"
    /\ UNCHANGED <<ops, caches, job, token, wave, scratch, output>>

(***************************************************************************)
(* The accumulator times the reciprocal of the sum.                        *)
(***************************************************************************)
Stored(c, h, t) ==
    IF job.op = "BLOCK" THEN Row(state[c][h][t].acc, state[c][h][t].sum)
    ELSE Row(state[c][0][h].acc, state[c][0][h].sum)
StoredTokens ==
    IF job.op = "BLOCK" THEN 0..(job.tokens - 1) ELSE {token}

StoreOutput ==
    /\ pc = "output" /\ job.op \notin PanelOps
    /\ output' = [row \in Cores \X Heads \X StoredTokens |->
                    Stored(row[1], row[2], row[3])]
    /\ IF job.op = "LAYER" /\ token + 1 < job.tokens
       THEN token' = token + 1 /\ pc' = "store current" /\ job' = job
       ELSE token' = 0 /\ pc' = "idle" /\ job' = NoJob
    /\ AtRest
    /\ UNCHANGED <<ops, caches, tile, slot, wave>>

(* The rows of QK (the zeros after its columns say nothing) and of PV.     *)
StorePanelRows ==
    /\ pc = "output" /\ job.op \in PanelOps
    /\ output' = [row \in Cores \X Heads \X {0} |->
          Whole(IF job.op = "QK"
                THEN [col \in 0..(TileLen - 1) |-> scores[row[1]][row[2]][col]]
                ELSE state[row[1]][0][row[2]].acc)]
    /\ pc' = "idle" /\ job' = NoJob
    /\ AtRest
    /\ UNCHANGED <<ops, caches, token, tile, slot, wave>>

Next ==
    \/ Start \/ StoreCurrent \/ LoadTile \/ LoadPanel \/ Scores \/ Softmax
    \/ Rescale \/ Values \/ Advance \/ StoreOutput \/ StorePanelRows

Spec == Init /\ [][Next]_vars

-----------------------------------------------------------------------------
(***************************************************************************)
(* Whatever tiles a row has been through, its maximum, sum and accumulator *)
(* are those of one softmax over all the positions it has seen, so that    *)
(* the host's whole-row golden applies: a sum or an accumulator that is    *)
(* not carried over to the new maximum shows only when a later tile holds  *)
(* a larger score (compute_cc8_*_flash_probabilities_one_core).            *)
(***************************************************************************)
TilesSeen(s) == IF s < slot \/ (pc = "next" /\ s = slot) THEN tile + 1 ELSE tile
Seen(s, row) ==
    {p \in 0..(ContextLen - 1) :
       /\ p < TilesSeen(s) * TileSize
       /\ job.op = "BLOCK" => p <= job.position + row}

CachedEntry(p) == [k |-> KeyImage[p].k, v |-> v[p].v]

OnlineStateExact ==
    (pc \in {"load", "scores", "next"} /\ job.op \notin PanelOps) =>
      \A c \in Cores, s \in Slots, r \in LiveRows :
        LET context == [p \in Seen(s, r) |-> CachedEntry(p)]
            reach == ScoresOf(context, c, QueryOf(c, s, r))
        IN state[c][s][r] =
             [max |-> TopScore(reach), sum |-> TotalWeight(reach),
              acc |-> WeightedSum(reach, ValuesOf(context, c))]

(***************************************************************************)
(* Every operator implements causal attention over the cache: its rows are *)
(* those of the entries up to the row's own position, the current one      *)
(* included whether it is bypassed or read back, and no later one.         *)
(***************************************************************************)
CacheView ==
    [p \in Positions |->
       [k |-> IF "LAYER" \in ops THEN kTr[p].k ELSE kRow[p].k, v |-> v[p].v]]
Attention == INSTANCE CausalAttention WITH kv <- CacheView
ImplementsAttention == Attention!Spec
=============================================================================
