---------------------------- MODULE ResidentLayer ----------------------------
(***************************************************************************)
(* The data path of a resident task in control_cache_8x64_dual_core: the   *)
(* four on-chip banks, the query and K buffers, the K and V caches, and    *)
(* the exchanges with the compute cores that move data between them.  In   *)
(* an exchange the driver reads the source banks unit by unit while the    *)
(* collector writes the results of earlier units (an HLS dataflow region); *)
(* the words in between are in flight.  NkSession models the same launch   *)
(* word by word, without the data.                                         *)
(***************************************************************************)
EXTENDS LayerMath

CONSTANTS
    Tasks,          \* [op, layer, position, tokens, src]
    NumLayers, MaxSeq,
    Rows,           \* CC8_GBUF_TOKEN_ROWS
    RowsPerCore,    \* CC8_TOKENS_PER_DATA_PORT
    WordPositions,  \* FM_BLOCK_SIZE: positions in a word of the K^T cache
    AttnTile,       \* CC8_ATTN_TILE
    InFlight,       \* units the streams and cores hold between the two sides
    Nothing

ASSUME RowAssumption ==
    /\ {Rows, RowsPerCore, InFlight} \subseteq Nat \ {0}
    /\ Rows <= 2 * RowsPerCore
ASSUME TileAssumption ==
    /\ {WordPositions, AttnTile} \subseteq Nat \ {0} /\ MaxSeq \in Nat
    /\ AttnTile % WordPositions = 0 /\ MaxSeq % WordPositions = 0
ASSUME TaskAssumption ==
    /\ NumLayers \in Nat
    /\ \A r \in Tasks :
         /\ r.op \in {"DECODER_LAYER", "ATTENTION_SUBLAYER", "FFN_SUBLAYER",
                     "FINAL_NORM"}
         /\ {r.layer, r.position, r.tokens} \subseteq Nat
    /\ Nothing \notin Tasks

VARIABLES
    overlap,    \* the build's CC8_ENABLE_MM_CROSS_WAVE_DATAFLOW
    pc,         \* "idle", "begin", "run", "walk", "tiles" or "store"
    task,       \* the task at work, or the last one
    step,       \* index of its exchange
    bank,       \* hidden0, hidden1, wide0 (gbuf0), wide1 (gbuf1)
    query,      \* query_block0/1: the Q rows
    currentK,   \* current_k: the K rows
    exch,       \* the exchange: units sent, units stored, in flight, scratch
    walk,       \* the walk: rows stored, next tile, query, context so far
    cache,      \* K row-major, K transposed by position words, V
    output      \* the rows stored to the output ports

vars == <<overlap, pc, task, step, bank, query, currentK, exch, walk, cache,
          output>>

Banks == {"hidden0", "hidden1", "wide0", "wide1"}
RowSet == 0..(Rows - 1)
Slices == IF HiddenSlices > WideSlices THEN HiddenSlices ELSE WideSlices
Junk == <<"uninitialised">>
Zero == <<"zero">>
FilledRows(value) == [t \in RowSet |-> [s \in 1..Slices |-> value]]

Input(r, t) == [s \in 1..HiddenSlices |-> <<r.src, t, s>>]
Accepted(r) ==
    /\ r.tokens \in 1..Rows
    /\ r.layer < NumLayers
    /\ r.op = "FINAL_NORM" \/ (r.position < MaxSeq /\ r.position + r.tokens <= MaxSeq)

-----------------------------------------------------------------------------
(***************************************************************************)
(* The exchanges of a task and the banks each one uses.  A norm reads a    *)
(* and the weight row in b; a projection reads a; a binary operation reads *)
(* a and b, and goes through a scratch buffer when dst is a.               *)
(***************************************************************************)
NormStep(index, a, b, dst) ==
    [do |-> "norm", n |-> index, op |-> "RMSNORM", a |-> a, b |-> b, dst |-> dst]
ProjectStep(n, a, dst) ==
    [do |-> "project", n |-> n, op |-> "MM", a |-> a, b |-> a, dst |-> dst]
BinaryStep(op, a, b, dst) ==
    [do |-> "binary", n |-> 0, op |-> op, a |-> a, b |-> b, dst |-> dst]
WalkStep == [do |-> "walk", n |-> 0, op |-> "", a |-> "wide0", b |-> "wide0",
             dst |-> "wide0"]

OutputOverContext(layer) ==                                       \* fault
    << NormStep(2 * layer, "hidden0", "wide0", "hidden1"),
       ProjectStep(0, "hidden1", "wide0"),
       ProjectStep(1, "hidden1", "wide0"),
       ProjectStep(2, "hidden1", "wide0"),
       WalkStep,
       ProjectStep(3, "wide0", "wide0"),
       BinaryStep("RESIDUAL_ADD", "hidden0", "wide0", "hidden1") >>

AttentionSteps(layer) ==
    << NormStep(2 * layer, "hidden0", "wide0", "hidden1"),
       ProjectStep(0, "hidden1", "wide0"),
       ProjectStep(1, "hidden1", "wide0"),
       ProjectStep(2, "hidden1", "wide0"),
       WalkStep,
       ProjectStep(3, "wide0", "wide1"),
       BinaryStep("RESIDUAL_ADD", "hidden0", "wide1", "hidden1") >>

FfnSteps(layer) ==
    << NormStep(2 * layer + 1, "hidden1", "wide1", "hidden0"),
       ProjectStep(4, "hidden0", "wide0"),
       ProjectStep(5, "hidden0", "wide1"),
       BinaryStep("SILU_MUL", "wide0", "wide1", "wide0"),
       ProjectStep(6, "wide0", "hidden0"),
       BinaryStep("RESIDUAL_ADD", "hidden0", "hidden1", "hidden0") >>

Steps(r) ==
    CASE r.op = "ATTENTION_SUBLAYER" -> AttentionSteps(r.layer)
      [] r.op = "FFN_SUBLAYER" -> FfnSteps(r.layer)
      [] r.op = "FINAL_NORM" ->
           << NormStep(2 * NumLayers, "hidden0", "wide0", "hidden1") >>
      [] OTHER -> AttentionSteps(r.layer) \o FfnSteps(r.layer)

InputBank(r) == IF r.op = "FFN_SUBLAYER" THEN "hidden1" ELSE "hidden0"
ResultBank(r) ==
    IF r.op \in {"ATTENTION_SUBLAYER", "FINAL_NORM"} THEN "hidden1" ELSE "hidden0"

Now == Steps(task)[step]
RowsOf(r) == 0..(r.tokens - 1)

-----------------------------------------------------------------------------
(***************************************************************************)
(* Units of an exchange, in order.  A unit of a vector exchange is one     *)
(* local token of both cores (a row of a norm, a slice of a row of a       *)
(* binary operation); a unit of a projection is one output wave.           *)
(***************************************************************************)
LocalTokens(r) == IF r.tokens < RowsPerCore THEN r.tokens ELSE RowsPerCore
Width(e) ==
    CASE e.do = "project" -> OutSlices(e.n)
      [] e.op = "SILU_MUL" -> WideSlices
      [] OTHER -> HiddenSlices
Units(e, r) ==
    CASE e.do = "project" -> OutSlices(e.n)
      [] e.do = "norm" -> LocalTokens(r)
      [] OTHER -> LocalTokens(r) * Width(e)

(* The rows and slices unit u of an exchange produces. *)
Cells(e, r, u) ==
    LET lane(i) == {i, i + RowsPerCore} \cap RowsOf(r)
    IN  CASE e.do = "project" -> RowsOf(r) \X {u}
          [] e.do = "norm" -> lane(u - 1) \X (1..HiddenSlices)
          [] OTHER -> lane((u - 1) \div Width(e)) \X {1 + ((u - 1) % Width(e))}

(* The value a core computes for row t, slice s, from the banks as they are. *)
Value(e, r, t, s) ==
    CASE e.do = "project" -> ProjectionSlice(r.layer, e.n, bank[e.a][t], s)
      [] e.do = "norm" -> NormSlice(bank[e.b][0][s], bank[e.a][t], s)
      [] OTHER -> BinarySlice(e.op, bank[e.a][t][s], bank[e.b][t][s])

Stored(rows, cells) ==
    [t \in RowSet |-> [s \in 1..Slices |->
        IF <<t, s>> \in DOMAIN cells THEN cells[<<t, s>>] ELSE rows[t][s]]]

InPlace(e) == e.do = "binary" /\ e.dst = e.a
ThroughScratch(e) == InPlace(e) \/ (e.do = "project" /\ overlap)
(* Without the cross-wave dataflow, a wave is committed before the next. *)
BarrierPerUnit(e) == e.do = "project" /\ ~overlap

-----------------------------------------------------------------------------
(***************************************************************************)
(* The caches.  K is stored twice: row-major, and transposed so that one   *)
(* word holds WordPositions positions and is updated lane by lane.         *)
(***************************************************************************)
CacheWords == 0..(MaxSeq \div WordPositions - 1)
StaleEntry(layer, p) == [k |-> <<"old k", layer, p>>, v |-> <<"old v", layer, p>>]

FirstCache ==
    [layer \in 0..(NumLayers - 1) |->
        [k |-> [p \in 0..(MaxSeq - 1) |-> StaleEntry(layer, p).k],
         kt |-> [w \in CacheWords |-> [i \in 0..(WordPositions - 1) |->
                    StaleEntry(layer, w * WordPositions + i).k]],
         v |-> [p \in 0..(MaxSeq - 1) |-> StaleEntry(layer, p).v]]]

LaneOfRow(c, p, k, v) ==                                          \* fault
    [c EXCEPT !.k[p] = k, !.v[p] = v,
              !.kt[p \div WordPositions][walk.rows % WordPositions] = k]

StoreEntry(c, p, k, v) ==
    [c EXCEPT !.k[p] = k, !.v[p] = v,
              !.kt[p \div WordPositions][p % WordPositions] = k]

(* A tile: K from the transposed words, V row-major, tileLen positions. *)
TileEntries(c, tileBegin, tileLen) ==
    [i \in 1..tileLen |->
        LET local == i - 1
        IN  [k |-> c.kt[tileBegin \div WordPositions + local \div WordPositions]
                      [local % WordPositions],
             v |-> c.v[tileBegin + local]]]

-----------------------------------------------------------------------------
NoExchange == [sent |-> 0, got |-> 0, flight |-> << >>, scratch |-> FilledRows(Junk)]
NoWalk == [rows |-> 0, tile |-> 0, query |-> Nothing, context |-> << >>]

Init ==
    /\ overlap \in BOOLEAN
    /\ pc = "idle"
    /\ task = Nothing
    /\ step = 1
    /\ bank = [b \in Banks |-> FilledRows(Junk)]
    /\ query = FilledRows(Junk)
    /\ currentK = FilledRows(Junk)
    /\ exch = NoExchange
    /\ walk = NoWalk
    /\ cache = FirstCache
    /\ output = Nothing

(***************************************************************************)
(* A launch: the local buffers hold nothing defined; load_cc8_feature_gbuf *)
(* fills the input bank, with zero rows after the valid ones.              *)
(***************************************************************************)
LoadedRows(r) ==
    [t \in RowSet |-> [s \in 1..Slices |->
        IF s > HiddenSlices THEN Junk
        ELSE IF t \in RowsOf(r) THEN Input(r, t)[s] ELSE Zero]]

Launch(r) ==
    /\ pc = "idle"
    /\ Accepted(r)
    /\ pc' = "begin"
    /\ task' = r
    /\ step' = 1
    /\ bank' = [b \in Banks |->
                  IF b = InputBank(r) THEN LoadedRows(r) ELSE FilledRows(Junk)]
    /\ query' = FilledRows(Junk)
    /\ currentK' = FilledRows(Junk)
    /\ walk' = NoWalk
    /\ UNCHANGED <<overlap, exch, cache, output>>

(***************************************************************************)
(* Before an exchange: the norm's weight row goes to row 0 of bank b; the  *)
(* destination of a projection is cleared (of the O projection, after the  *)
(* walk).                                                                  *)
(***************************************************************************)
Prepared(e) ==
    CASE e.do = "norm" ->
           [bank EXCEPT ![e.b][0] = [s \in 1..Slices |->
                IF s <= HiddenSlices THEN NormWeight(e.n) ELSE @[s]]]
      [] e.do = "project" ->
           [bank EXCEPT ![e.dst] = [t \in RowSet |-> [s \in 1..Slices |->
                IF s <= OutSlices(e.n) THEN Zero ELSE @[t][s]]]]
      [] OTHER -> bank

BeginStep ==
    /\ pc = "begin"
    /\ bank' = Prepared(Now)
    /\ pc' = IF Now.do = "walk" THEN "walk" ELSE "run"
    /\ exch' = NoExchange
    /\ UNCHANGED <<overlap, task, step, query, currentK, walk, cache, output>>

Drive ==
    /\ pc = "run"
    /\ exch.sent < Units(Now, task)
    /\ Len(exch.flight) < InFlight
    /\ BarrierPerUnit(Now) => exch.got = exch.sent
    /\ LET cells == Cells(Now, task, exch.sent + 1)
           unit == [c \in cells |-> Value(Now, task, c[1], c[2])]
       IN  exch' = [exch EXCEPT !.sent = @ + 1, !.flight = Append(@, unit)]
    /\ UNCHANGED <<overlap, pc, task, step, bank, query, currentK, walk, cache,
                   output>>

Collect ==
    /\ pc = "run"
    /\ exch.flight # << >>
    /\ LET unit == Head(exch.flight)
           rest == [exch EXCEPT !.got = @ + 1, !.flight = Tail(@)]
       IN  IF ThroughScratch(Now)
           THEN /\ exch' = [rest EXCEPT !.scratch = Stored(@, unit)]
                /\ UNCHANGED bank
           ELSE /\ bank' = [bank EXCEPT ![Now.dst] = Stored(@, unit)]
                /\ exch' = rest
    /\ UNCHANGED <<overlap, pc, task, step, query, currentK, walk, cache, output>>

(***************************************************************************)
(* After an exchange: the scratch is copied to the destination; Q and K    *)
(* rows are taken out of wide0 before the next projection reuses it.       *)
(***************************************************************************)
Copied(e) ==
    [c \in RowsOf(task) \X (1..Width(e)) |-> exch.scratch[c[1]][c[2]]]

KeptAfter(n, rows, old) ==
    IF Now.do = "project" /\ Now.n = n THEN rows ELSE old

Advance ==
    IF step = Len(Steps(task)) THEN pc' = "store" /\ UNCHANGED step
    ELSE pc' = "begin" /\ step' = step + 1

KeyAfterValue == 2                                                \* fault
KeyStep == 1

EndStep ==
    /\ pc = "run"
    /\ exch.got = Units(Now, task)
    /\ bank' = IF ThroughScratch(Now)
               THEN [bank EXCEPT ![Now.dst] = Stored(@, Copied(Now))] ELSE bank
    /\ query' = KeptAfter(0, bank'["wide0"], query)
    /\ currentK' = KeptAfter(KeyStep, bank'["wide0"], currentK)
    /\ Advance
    /\ UNCHANGED <<overlap, task, exch, walk, cache, output>>

(***************************************************************************)
(* The causal walk.  For the next row: rotate its query and K, store its K *)
(* and V in the cache; read the context tile by tile, its own position     *)
(* last; overwrite its V row in wide0 with the attended row.               *)
(***************************************************************************)
Position == task.position + walk.rows

StoreCurrent ==
    /\ pc = "walk"
    /\ walk.rows < task.tokens
    /\ pc' = "tiles"
    /\ LET k == Rope(Position, currentK[walk.rows], KvSlices)
           v == SubSeq(bank["wide0"][walk.rows], 1, KvSlices)
           q == Rope(Position, query[walk.rows], HiddenSlices)
       IN  /\ cache' = [cache EXCEPT ![task.layer] = StoreEntry(@, Position, k, v)]
           /\ walk' = [rows |-> walk.rows + 1, tile |-> 0, query |-> q,
                       context |-> << >>]
    /\ UNCHANGED <<overlap, task, step, bank, query, currentK, exch, output>>

(* walk.rows now counts the row at work: its position is Position - 1. *)
ContextLen == Position
FullTile(tileBegin) == AttnTile                                   \* fault
TileLen(tileBegin) ==
    IF tileBegin + AttnTile > ContextLen THEN ContextLen - tileBegin ELSE AttnTile

LoadTile ==
    /\ pc = "tiles"
    /\ walk.tile < ContextLen
    /\ walk' = [walk EXCEPT
         !.tile = @ + AttnTile,
         !.context = @ \o TileEntries(cache[task.layer], walk.tile,
                                      TileLen(walk.tile))]
    /\ UNCHANGED <<overlap, pc, task, step, bank, query, currentK, exch, cache,
                   output>>

EndRow ==
    /\ pc = "tiles"
    /\ walk.tile >= ContextLen
    /\ pc' = "walk"
    /\ bank' = [bank EXCEPT !["wide0"][walk.rows - 1] = [s \in 1..Slices |->
                  IF s <= HiddenSlices
                  THEN AttendSlice(walk.query, walk.context, s) ELSE @[s]]]
    /\ UNCHANGED <<overlap, task, step, query, currentK, exch, walk, cache, output>>

EndWalk ==
    /\ pc = "walk"
    /\ walk.rows = task.tokens
    /\ Advance
    /\ UNCHANGED <<overlap, task, bank, query, currentK, exch, walk, cache, output>>

(* store_cc8_gbuf_to_hbm, then the status. *)
Store ==
    /\ pc = "store"
    /\ pc' = "idle"
    /\ output' = bank[ResultBank(task)]
    /\ UNCHANGED <<overlap, task, step, bank, query, currentK, exch, walk, cache>>

Next ==
    \/ \E r \in Tasks : Launch(r)
    \/ BeginStep
    \/ Drive
    \/ Collect
    \/ EndStep
    \/ StoreCurrent
    \/ LoadTile
    \/ EndRow
    \/ EndWalk
    \/ Store

Spec == Init /\ [][Next]_vars

-----------------------------------------------------------------------------
(***************************************************************************)
(* A source bank of a projection or norm never changes while its driver    *)
(* still has units to read: no result is written over operands in use.     *)
(***************************************************************************)
SourceStable ==
    [][pc = "run" /\ Now.do # "binary" /\ exch.sent < Units(Now, task)
         => bank'[Now.a] = bank[Now.a]]_vars

(***************************************************************************)
(* The two layouts of the K cache hold the same rows: the QK path, which   *)
(* reads the transposed one, sees what diagnostics read row-major.         *)
(***************************************************************************)
LayoutsAgree ==
    \A layer \in DOMAIN cache : \A p \in 0..(MaxSeq - 1) :
        cache[layer].kt[p \div WordPositions][p % WordPositions]
            = cache[layer].k[p]

(***************************************************************************)
(* The context a row has read is a prefix of the cache from position 0,    *)
(* each position once and in order, and never a position after the row's.  *)
(***************************************************************************)
CausalContext ==
    pc = "tiles" =>
        /\ Len(walk.context) <= ContextLen
        /\ \A i \in 1..Len(walk.context) :
             walk.context[i] = [k |-> cache[task.layer].k[i - 1],
                                v |-> cache[task.layer].v[i - 1]]

(* The cache as the QK and PV paths see it, and the rows of a result. *)
KvOf(c) ==
    [layer \in DOMAIN c |-> [p \in 0..(MaxSeq - 1) |->
        [k |-> c[layer].kt[p \div WordPositions][p % WordPositions],
         v |-> c[layer].v[p]]]]

Valid(rows) ==
    [t \in RowsOf(task) |-> SubSeq(rows[t], 1, HiddenSlices)]

Abstract ==
    INSTANCE DecoderLayer WITH
        FirstKv <- KvOf(FirstCache),
        phase <- IF pc = "idle" THEN "idle" ELSE "busy",
        row <- walk.rows,
        kv <- KvOf(cache),
        output <- IF pc = "idle" /\ task # Nothing THEN Valid(output)
                  ELSE Nothing

(***************************************************************************)
(* The controller implements DecoderLayer: whatever the banks, the build   *)
(* option and the interleaving of driver and collector, a task appends the *)
(* K and V of its rows and returns the layer's function of its input.      *)
(***************************************************************************)
ImplementsDecoderLayer == Abstract!Spec
=============================================================================
