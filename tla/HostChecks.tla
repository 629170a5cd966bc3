----------------------------- MODULE HostChecks -----------------------------
(***************************************************************************)
(* The checks of the host: one mode of the command line per process, run   *)
(* on a fresh accelerator.  Each check is a program of launches, of host   *)
(* computations and of comparisons with a golden; the golden is computed   *)
(* from what the host knows, never from the caches of the device.          *)
(*                                                                         *)
(* The device is right except for one fault: an operator that computes the *)
(* wrong result, a K/V row that is not stored (STORE), weights that were   *)
(* not preloaded (WEIGHTS), wrong counters (COUNTS) or a failed status     *)
(* word (STATUS).  What a PASS says about the device is the question.      *)
(*                                                                         *)
(* The goldens of attention do not all round where the device does.  Where *)
(* they differ it depends on the data whether the results part by more     *)
(* than the tolerance of the comparison: drift.                            *)
(***************************************************************************)
EXTENDS GoldenMath, FiniteSets, SequencesExt, TLC

CONSTANTS
    MaxSeq,         \* max_seq_len
    MaxTokens,      \* kMaxTokensPerLaunch
    OutputWaves,    \* attention_output_waves
    TotalWaves,     \* output waves of the profiled projection
    Runs,           \* command lines
    Faults          \* "none" and the faults of the device

VARIABLES
    run,        \* the command line
    fault,
    drift,      \* the data make different roundings part
    step,       \* place in Program(run)
    reg,        \* the host's tensors by name
    kRow, kTr, v,   \* device caches: layer -> position -> head -> term
    hostAux, deviceAux, auxValid,   \* ports 4 and 5: host image, device, flag
    status,     \* counters of the last launch
    pass,       \* the conjunction of the gating comparisons
    verdict     \* "running", "PASS", "FAIL", "throw"

caches == <<kRow, kTr, v>>
aux == <<hostAux, deviceAux, auxValid>>
vars == <<run, fault, drift, step, reg, caches, aux, status, pass, verdict>>

Layers == 0..1
Positions == 0..(MaxSeq - 1)
Cleared == [c \in Heads |-> Nothing]
NoCache == [layer \in Layers |-> [p \in Positions |-> Cleared]]

-----------------------------------------------------------------------------
(***************************************************************************)
(* Steps.  A field a step does not use keeps its default.                  *)
(***************************************************************************)
Step(r) == r @@ [do |-> "", out |-> "", op |-> "", x |-> "", y |-> "",
                 layer |-> 0, at |-> 0, n |-> 0, golden |-> "",
                 rounding |-> "q2.14", gating |-> TRUE, stop |-> FALSE]

Make(name, rows) == <<Step([do |-> "make", out |-> name, n |-> rows])>>
MakeCache(rows) == <<Step([do |-> "make cache", out |-> "cache", n |-> rows])>>
MakeQuery(position, rows) ==
    <<Step([do |-> "make query", out |-> "query", at |-> position, n |-> rows])>>
Preload(rows) == <<Step([do |-> "preload", n |-> rows])>>

(* A launch of one operator, compared with the golden of the same inputs.  *)
Checked(out, op, x, y, index) ==
    <<Step([do |-> "feature", out |-> out, op |-> op, x |-> x, y |-> y, n |-> index]),
      Step([do |-> "check", golden |-> "feature", out |-> out, op |-> op, x |-> x,
            y |-> y, n |-> index])>>
Projected(out, op, x) == Checked(out, op, x, "", 0)

(* DECODE_SMOKE at a position, its status and both ports.                  *)
Smoke(position, count) ==
    <<Step([do |-> "smoke", out |-> "context", at |-> position])>>
    \o (IF count THEN <<Step([do |-> "count", op |-> "SMOKE", at |-> position, n |-> 1])>>
        ELSE << >>)
    \o <<Step([do |-> "check", golden |-> "attended", rounding |-> "whole",
               out |-> "context", at |-> position])>>

(* Host RoPE, query groups and K/V payload; the context as an O row.       *)
RopeOnHost(position) == <<Step([do |-> "rope", at |-> position])>>
Scatter == <<Step([do |-> "scatter", out |-> "attention", x |-> "context"])>>

(* A coarse program: two tasks per layer and the final norm on request.    *)
Task(op, layer, position) ==
    <<Step([do |-> "task", out |-> "state", op |-> op, layer |-> layer, at |-> position])>>
Stack(x, count, position, final) ==
    <<Step([do |-> "stack", out |-> "state", x |-> x])>>
    \o FlattenSeq([l \in 1..count |->
           Task("ATTENTION", l - 1, position) \o Task("FFN", l - 1, position)])
    \o (IF final THEN Task("FINAL", 0, position) ELSE << >>)

CheckState(golden, x, layers, rest) ==
    <<Step([do |-> "check", golden |-> golden, out |-> "state", x |-> x, n |-> layers] @@ rest)>>

BlockLen(begin, size, total) == IF begin + size > total THEN total - begin ELSE size
Blocks(total, size) == (total + size - 1) \div size

-----------------------------------------------------------------------------
(***************************************************************************)
(* The programs, one per mode.                                             *)
(***************************************************************************)
RandomVerification ==
    Make("hidden", MaxTokens)
    \o Projected("q", "Q", "hidden") \o Projected("k", "K", "hidden")
    \o Projected("gate", "GATE", "hidden")
    \o Make("intermediate", MaxTokens) \o Projected("down", "DOWN", "intermediate")
    \o Make("rhs", MaxTokens) \o Checked("sum", "ADD", "hidden", "rhs", 0)
    \o Checked("normalized", "NORM", "hidden", "", 0)
    \o Make("gate", MaxTokens) \o Make("up", MaxTokens)
    \o Checked("product", "SILU", "gate", "up", 0)
    \o MakeQuery(0, 1) \o MakeCache(2)
    \o <<Step([do |-> "panel", out |-> "context", op |-> "QK"]),
         Step([do |-> "check", golden |-> "panel", out |-> "context", op |-> "QK"]),
         Step([do |-> "panel", out |-> "context", op |-> "PV"]),
         Step([do |-> "check", golden |-> "panel", out |-> "context", op |-> "PV"])>>
    \o MakeQuery(0, 1) \o Smoke(0, FALSE) \o MakeQuery(1, 1) \o Smoke(1, FALSE)

DecodeSmokeVerification == MakeQuery(0, 1) \o MakeCache(1) \o Smoke(0, FALSE)

ResidentLayerVerification ==
    Make("hidden", 1)
    \o <<Step([do |-> "layer", out |-> "state", x |-> "hidden"])>>
    \o CheckState("single", "hidden", 1, [op |-> ""])

ComposedLayerVerification ==
    Make("hidden", 1) \o Stack("hidden", 1, 0, FALSE)
    \o CheckState("single", "hidden", 1, [op |-> ""])

ComposedStackVerification(layers) ==
    Make("hidden", 1) \o Stack("hidden", layers, 0, TRUE)
    \o CheckState("single", "hidden", layers, [op |-> "FINAL"])

(* The attention sublayer alone; its q8.8 golden does not gate.            *)
PrefillAttentionVerification(tokens) ==
    Make("hidden", tokens)
    \o <<Step([do |-> "stack", out |-> "state", x |-> "hidden"])>>
    \o Task("ATTENTION", 0, 0)
    \o CheckState("post", "hidden", 0, [op |-> ""])
    \o CheckState("post", "hidden", 0, [rounding |-> "tile", gating |-> FALSE])

PrefillStackVerification(tokens, layers) ==
    Make("hidden", tokens) \o Stack("hidden", layers, 0, TRUE)
    \o CheckState("stack", "hidden", layers, [op |-> "FINAL"])

PrefillBlockVerification(tokens) == PrefillStackVerification(tokens, 1)

(* Blocks of a sequence; only the rows of the last one are compared.       *)
PrefillSequenceVerification(total, size, layers) ==
    LET count == Blocks(total, size)
        Begin(b) == (b - 1) * size
    IN  Make("hidden", total)
        \o FlattenSeq([b \in 1..count |->
             <<Step([do |-> "rows", out |-> "block", x |-> "hidden", at |-> Begin(b),
                     n |-> BlockLen(Begin(b), size, total)])>>
             \o Stack("block", layers, Begin(b), b = count)])
        \o CheckState("stack", "hidden", layers, [op |-> "FINAL", at |-> Begin(count)])

(* The checkpoint callback compares after every task; a mismatch stops the *)
(* program unless the command line says to go on.                          *)
PrefillCheckpoints(tokens, layers, goOn) ==
    Make("hidden", tokens)
    \o <<Step([do |-> "stack", out |-> "state", x |-> "hidden"])>>
    \o FlattenSeq([l \in 1..layers |->
           Task("ATTENTION", l - 1, 0)
           \o CheckState("post", "hidden", l - 1, [stop |-> ~goOn])
           \o Task("FFN", l - 1, 0)
           \o CheckState("stack", "hidden", l, [stop |-> ~goOn])])
    \o Task("FINAL", 0, 0)
    \o CheckState("stack", "hidden", layers, [op |-> "FINAL", stop |-> ~goOn])

AttentionProfile(position) ==
    MakeQuery(position, 1) \o MakeCache(position + 1) \o Preload(position)
    \o Smoke(position, TRUE)

(* Prefill rows one by one, then one decode row; decode alone preloads.    *)
PdDecode(len, prefill) ==
    (IF prefill THEN << >> ELSE Preload(len)) \o MakeQuery(len, 1) \o Smoke(len, TRUE)
AttentionPdProfile(len, start, prefill, decode) ==
    MakeCache(len + 1)
    \o (IF prefill
        THEN Preload(start)
             \o FlattenSeq([i \in 1..(len - start) |->
                  MakeQuery(start + i - 1, 1) \o Smoke(start + i - 1, TRUE)])
        ELSE << >>)
    \o (IF decode THEN PdDecode(len, prefill) ELSE << >>)

QkvOf(x) == Projected("q", "Q", x) \o Projected("k", "K", x) \o Projected("v", "V", x)

AttentionBlockProfile(position) ==
    Make("hidden", 1) \o QkvOf("hidden")
    \o MakeCache(position) \o RopeOnHost(position) \o Preload(position)
    \o Smoke(position, TRUE) \o Scatter \o Projected("projected", "O", "attention")

AttentionSublayerProfile(position) ==
    Make("hidden", 1) \o Checked("normalized", "NORM", "hidden", "", 0)
    \o QkvOf("normalized")
    \o MakeCache(position) \o RopeOnHost(position) \o Preload(position)
    \o Smoke(position, TRUE) \o Scatter \o Projected("projected", "O", "attention")
    \o Checked("sum", "ADD", "hidden", "projected", 0)

FfnFrom(x, index) ==
    Checked("normalized", "NORM", x, "", index)
    \o Projected("gate", "GATE", "normalized") \o Projected("up", "UP", "normalized")
    \o Checked("product", "SILU", "gate", "up", 0)
    \o Projected("down", "DOWN", "product")
    \o Checked("sum", "ADD", x, "down", 0)

FfnSublayerProfile == Make("hidden", 1) \o FfnFrom("hidden", 1)

PrefillVectorProfile(tokens) ==
    Make("hidden", tokens) \o Checked("normalized", "NORM", "hidden", "", 0)
    \o Make("gate", tokens) \o Make("up", tokens)
    \o Checked("product", "SILU", "gate", "up", 0)
    \o Make("rhs", tokens) \o Checked("sum", "ADD", "hidden", "rhs", 0)

(* One golden against another.                                             *)
Goldens(first, second, gating, r) ==
    <<Step([do |-> "oracle", out |-> "golden", rounding |-> first] @@ r),
      Step([do |-> "check", out |-> "golden", rounding |-> second, gating |-> gating] @@ r)>>
SoftmaxPairs ==
    <<<<"tile", "whole">>, <<"wide rescale", "whole">>, <<"wide value", "whole">>,
      <<"wide both", "whole">>, <<"q2.14", "whole">>, <<"whole", "double">>,
      <<"tile", "double">>, <<"q2.14", "double">>>>
SoftmaxDiagnostic(len, start) ==
    Make("q", len - start) \o Make("k", len - start) \o Make("v", len - start)
    \o MakeCache(start) \o RopeOnHost(start)
    \o FlattenSeq([i \in DOMAIN SoftmaxPairs |->
         Goldens(SoftmaxPairs[i][1], SoftmaxPairs[i][2], FALSE,
                 [golden |-> "attended", at |-> start])])
PayloadDiagnostic(tokens) ==
    Make("hidden", tokens)
    \o Goldens("q2.14", "direct", FALSE,
               [golden |-> "stack", x |-> "hidden", n |-> 1, op |-> "FINAL"])

(* Every operator of a layer over blocks of a sequence; the K/V rows of a  *)
(* block reach the device by a preload of the whole prefix.                *)
PrefillBlock(begin, tokens) ==
    <<Step([do |-> "rows", out |-> "block", x |-> "hidden", at |-> begin, n |-> tokens])>>
    \o Checked("normalized", "NORM", "block", "", 0) \o QkvOf("normalized")
    \o RopeOnHost(begin) \o Preload(begin + tokens)
    \o <<Step([do |-> "block attention", out |-> "context", at |-> begin, n |-> tokens]),
         Step([do |-> "count", op |-> "BLOCK", at |-> begin, n |-> tokens]),
         Step([do |-> "check", golden |-> "attended", out |-> "context", at |-> begin]),
         Step([do |-> "check", golden |-> "attended", rounding |-> "double",
               out |-> "context", at |-> begin])>>
    \o Goldens("q2.14", "double", TRUE, [golden |-> "attended", at |-> begin])
    \o <<Step([do |-> "check", golden |-> "attended", rounding |-> "whole",
               out |-> "context", at |-> begin, gating |-> FALSE])>>
    \o Scatter \o Projected("projected", "O", "attention")
    \o Checked("after", "ADD", "block", "projected", 0) \o FfnFrom("after", 1)
PrefillBlockProfile(len, start) ==
    Make("hidden", len) \o MakeCache(start) \o Preload(start)
    \o FlattenSeq([b \in 1..Blocks(len - start, MaxTokens) |->
         LET begin == start + ((b - 1) * MaxTokens)
         IN  PrefillBlock(begin, BlockLen(begin, MaxTokens, len))])

(* Waves of one projection; only the status word is looked at.             *)
WaveLaunch(first, count, r) ==
    <<Step([do |-> "waves", at |-> first, n |-> count, op |-> r.debug, layer |-> r.mask]),
      Step([do |-> "count", golden |-> "waves", at |-> first, n |-> count, op |-> r.debug,
            layer |-> r.mask])>>
MmWaveProfile(r) ==
    LET asked == IF r.count = 0 THEN TotalWaves - r.first ELSE r.count
        bounded == BlockLen(r.first, asked, TotalWaves)
    IN  IF r.single THEN WaveLaunch(r.first, bounded, r)
        ELSE FlattenSeq([w \in 1..bounded |-> WaveLaunch(r.first + w - 1, 1, r)])

(* generate --coarse-tasks --verify-e2e-golden: prompt blocks, token       *)
(* passes, and after inference the goldens of every prefix in turn.        *)
PrefixName(s) == "hidden of step " \o ToString(s)
Sample(s) == <<Step([do |-> "sample", out |-> PrefixName(s), x |-> "state"])>>
TokenBlock(at, n) == <<Step([do |-> "embed", out |-> "block", at |-> at, n |-> n])>>
GenerateVerified(prompt, size, new, layers) ==
    LET count == Blocks(prompt, size)
        Begin(b) == (b - 1) * size
    IN  <<Step([do |-> "prompt", out |-> "sequence", n |-> prompt])>>
        \o FlattenSeq([b \in 1..count |->
             TokenBlock(Begin(b), BlockLen(Begin(b), size, prompt))
             \o Stack("block", layers, Begin(b), b = count)])
        \o FlattenSeq([s \in 1..new |->
             Sample(s)
             \o (IF s < new
                 THEN TokenBlock(prompt + s - 1, 1)
                      \o Stack("block", layers, prompt + s - 1, TRUE)
                 ELSE << >>)])
        \o [s \in 1..new |->
              Step([do |-> "check", golden |-> "prefix", out |-> PrefixName(s),
                    at |-> prompt + s - 1, n |-> layers, stop |-> TRUE])]

NopLaunch(way) == <<Step([do |-> "nop", op |-> way])>>

(* Modes that need projections refuse a device without weights.            *)
NeedsWeights ==
    {"profile-attention-block", "profile-attention-sublayer", "profile-ffn-sublayer",
     "profile-prefill-block"}

Program(r) ==
    CASE r.mode = "verify-random" -> RandomVerification
      [] r.mode = "verify-decode-smoke" -> DecodeSmokeVerification
      [] r.mode = "verify-resident-layer" -> ResidentLayerVerification
      [] r.mode = "verify-composed-layer" -> ComposedLayerVerification
      [] r.mode = "verify-composed-stack" -> ComposedStackVerification(r.layers)
      [] r.mode = "verify-composed-prefill-attention" -> PrefillAttentionVerification(r.tokens)
      [] r.mode = "verify-composed-prefill-block" -> PrefillBlockVerification(r.tokens)
      [] r.mode = "verify-composed-prefill-stack" -> PrefillStackVerification(r.tokens, r.layers)
      [] r.mode = "verify-composed-prefill-sequence" ->
           PrefillSequenceVerification(r.len, r.tokens, r.layers)
      [] r.mode = "verify-composed-prefill-checkpoints" ->
           PrefillCheckpoints(r.tokens, r.layers, r.goOn)
      [] r.mode = "profile-attention" -> AttentionProfile(r.position)
      [] r.mode = "profile-attention-pd" ->
           AttentionPdProfile(r.len, r.start, r.prefill, r.decode)
      [] r.mode = "profile-attention-block" -> AttentionBlockProfile(r.position)
      [] r.mode = "profile-attention-sublayer" -> AttentionSublayerProfile(r.position)
      [] r.mode = "profile-ffn-sublayer" -> FfnSublayerProfile
      [] r.mode = "profile-prefill-vector" -> PrefillVectorProfile(r.tokens)
      [] r.mode = "profile-prefill-block" -> PrefillBlockProfile(r.len, r.start)
      [] r.mode = "profile-mm-wave" -> MmWaveProfile(r)
      [] r.mode = "diagnose-prefill-softmax" -> SoftmaxDiagnostic(r.len, r.start)
      [] r.mode = "diagnose-q214-payload-golden" -> PayloadDiagnostic(r.tokens)
      [] r.mode = "generate" -> GenerateVerified(r.len, r.tokens, r.new, r.layers)
      [] OTHER -> NopLaunch(r.mode)

(* What a check throws on before its first launch.                         *)
Refused(r) ==
    \/ r.mode \in NeedsWeights /\ fault = "WEIGHTS"
    \/ "tokens" \in DOMAIN r /\ r.tokens \notin 1..MaxTokens
    \/ "position" \in DOMAIN r
         /\ \/ r.position >= MaxSeq
            \/ r.position # 0 /\ r.mode \notin {"profile-attention", "profile-attention-block",
                                                "profile-attention-sublayer"}
    \/ "len" \in DOMAIN r /\ r.len \notin 1..MaxSeq
    \/ "start" \in DOMAIN r /\ r.start >= r.len
    \/ r.mode = "profile-attention-pd" /\ (r.len >= MaxSeq \/ ~(r.prefill \/ r.decode))
    \/ r.mode = "diagnose-prefill-softmax" /\ r.len - r.start > MaxTokens
    \/ r.mode = "generate" /\ r.len + r.new > MaxSeq
    \/ r.mode = "profile-mm-wave" /\ (r.first >= TotalWaves \/ r.mask \notin 1..3)

-----------------------------------------------------------------------------
(***************************************************************************)
(* The device.                                                             *)
(***************************************************************************)
Broken ==
    IF fault = "WEIGHTS" THEN Projections ELSE {fault}
BrokenWithTables ==
    Broken \cup (IF deviceAux' = "tables" THEN {} ELSE {"NORM", "ROPE", "FINAL"})

(* A tolerance covers any difference of roundings unless the data drift.   *)
Rounded(rounding) == IF drift THEN rounding ELSE "any"

(* Contexts as a launch sees them: K of one image, V.                      *)
Context(image, layer, last) ==
    [p \in 1..(last + 1) |-> [k |-> image[layer][p - 1], v |-> v'[layer][p - 1]]]

StoreRows(cache, layer, at, rows) ==
    IF fault = "STORE" THEN cache
    ELSE [cache EXCEPT ![layer] = [p \in Positions |->
            IF p \in at..(at + Len(rows) - 1) THEN rows[p - at + 1] ELSE @[p]]]

(* A resident sublayer over the rows of a block, token by token.           *)
AttentionTask(layer, x, at) ==
    LET n == [i \in DOMAIN x |-> RmsNorm(BrokenWithTables, 2 * layer, x[i])]
        entries == [i \in DOMAIN x |->
                      EntryOf(BrokenWithTables, layer, n[i], at + i - 1)]
        keys == [i \in DOMAIN x |-> entries[i].k]
    IN  /\ kRow' = StoreRows(kRow, layer, at, keys)
        /\ kTr' = StoreRows(kTr, layer, at, keys)
        /\ v' = StoreRows(v, layer, at, [i \in DOMAIN x |-> entries[i].v])
AttentionResult(layer, x, at) ==
    [i \in DOMAIN x |->
       LET n == RmsNorm(BrokenWithTables, 2 * layer, x[i])
       IN  AfterAttention(BrokenWithTables, layer, x[i],
             AttendedRow(BrokenWithTables, Rounded("q2.14"),
                         QueryOf(BrokenWithTables, layer, n, at + i - 1),
                         Context(kTr', layer, at + i - 1)))]
FfnResult(layer, x) == [i \in DOMAIN x |-> AfterFfn(BrokenWithTables, layer, x[i])]

(* Counters: two cores, one scores task and OutputWaves value tasks per    *)
(* tile, and per query head where a block of tokens shares the tile.       *)
GroupSize == 2
TilesOf(contextLen) == {p \div TileSize : p \in 0..(contextLen - 1)}
MmTasks(op, at, n) ==
    2 * Cardinality(TilesOf(at + n)) * (1 + OutputWaves)
      * (IF op = "BLOCK" THEN GroupSize ELSE 1)
WaveTasks(first, count, debug, mask) ==
    IF debug \in {"1", "2"} THEN 0
    ELSE Cardinality({w \in first..(first + count - 1) : w < TotalWaves})
           * (IF mask = 3 THEN 2 ELSE 1)
Counted(n) == IF fault = "COUNTS" THEN n + 1 ELSE n

-----------------------------------------------------------------------------
Init ==
    /\ run \in Runs
    /\ fault \in Faults
    /\ drift \in BOOLEAN
    /\ step = 1
    /\ reg = << >>
    /\ kRow = NoCache /\ kTr = NoCache /\ v = NoCache
    /\ hostAux = "tables" /\ deviceAux = "tables" /\ auxValid = TRUE
    /\ status = 0
    /\ pass = TRUE
    /\ verdict = IF Refused(run) THEN "throw" ELSE "running"

Current == Program(run)[step]
At(do) == verdict = "running" /\ step <= Len(Program(run)) /\ Current.do = do

Write(name, value) == reg' = (name :> value) @@ reg
Forward == step' = step + 1 /\ UNCHANGED <<run, fault, drift>>
HostOnly == Forward /\ UNCHANGED <<caches, aux, status, pass, verdict>>

(* Every launch with a status word throws when the word says so.           *)
Launched == verdict' = IF fault = "STATUS" THEN "throw" ELSE verdict
DeviceStep == Forward /\ Launched /\ UNCHANGED pass

(* An operator launch writes its operands over the tables of ports 4, 5.   *)
OperandsOnAux ==
    /\ hostAux' = "operands"
    /\ deviceAux' = "operands"
    /\ auxValid' = FALSE
TablesOnAux ==
    IF auxValid THEN UNCHANGED aux
    ELSE hostAux' = "tables" /\ deviceAux' = "tables" /\ auxValid' = TRUE

-----------------------------------------------------------------------------
(* Host computations.                                                      *)
Entries(n) ==
    [i \in 1..n |-> [k |-> [c \in Heads |-> Random("key", <<i, c>>)],
                     v |-> [c \in Heads |-> Random("value", <<i, c>>)]]]

MakeRandom ==
    LET s == Current IN
    /\ \/ At("make") /\ Write(s.out, [i \in 1..s.n |-> Random(s.out, i)])
       \/ At("make cache") /\ Write(s.out, Entries(s.n))
       \/ /\ At("make query")
          /\ Write(s.out, [i \in 1..s.n |->
                [c \in Heads |-> Random("query", <<s.at, i, c>>)]])
       \/ At("prompt") /\ Write(s.out, [i \in 1..s.n |-> Random("prompt", i)])
    /\ HostOnly

Rows ==
    LET s == Current IN
    /\ \/ At("rows") /\ Write(s.out, SubSeq(reg[s.x], s.at + 1, s.at + s.n))
       \/ /\ At("embed")
          /\ Write(s.out, [i \in 1..s.n |-> Embedding(reg["sequence"][s.at + i])])
       \/ At("scatter") /\ Write(s.out, [i \in DOMAIN reg[s.x] |-> Join(reg[s.x][i])])
    /\ HostOnly

HostRope ==
    LET s == Current
        queries == [i \in DOMAIN reg["q"] |-> [c \in Heads |->
                      Rope({}, s.at + i - 1, HeadOf(reg["q"][i], c))]]
        entries == [i \in DOMAIN reg["k"] |->
                      [k |-> [c \in Heads |-> Rope({}, s.at + i - 1, HeadOf(reg["k"][i], c))],
                       v |-> [c \in Heads |-> HeadOf(reg["v"][i], c)]]]
    IN /\ At("rope")
       /\ reg' = ("query" :> queries)
                   @@ ("cache" :> (SubSeq(reg["cache"], 1, s.at) \o entries)) @@ reg
       /\ HostOnly

(* The next token is the argmax of the last row the device produced.       *)
SampleToken ==
    LET s == Current
        row == Last(reg[s.x])
    IN /\ At("sample")
       /\ reg' = (s.out :> <<row>>)
                   @@ ("sequence" :> Append(reg["sequence"], ArgMax(row))) @@ reg
       /\ HostOnly

-----------------------------------------------------------------------------
(* Launches.                                                               *)
AuxRow(s, i) ==
    IF s.op = "NORM" THEN NormWeight(s.n)
    ELSE IF s.op \in PairOps THEN reg[s.y][i] ELSE Nothing

RunFeature ==
    LET s == Current IN
    /\ At("feature")
    /\ Write(s.out, [i \in DOMAIN reg[s.x] |->
                       Feature(Broken, s.op, s.layer, reg[s.x][i], AuxRow(s, i))])
    /\ OperandsOnAux /\ DeviceStep
    /\ UNCHANGED <<caches, status>>

PanelRow(broken, op) ==
    [c \in Heads |->
       LET keys == [p \in DOMAIN reg["cache"] |-> reg["cache"][p].k[c]]
           values == [p \in DOMAIN reg["cache"] |-> reg["cache"][p].v[c]]
       IN  IF op = "QK" THEN Scores(broken, reg["query"][1][c], keys)
           ELSE Op(broken, "VALUE", <<Random("probabilities", c), values>>)]

RunPanel ==
    LET s == Current IN
    /\ At("panel")
    /\ Write(s.out, <<PanelRow(Broken, s.op)>>)
    /\ OperandsOnAux /\ DeviceStep
    /\ UNCHANGED <<caches, status>>

(* initialize_kv_cache_heads: both host images cleared, the first rows of  *)
(* one layer filled in both layouts of K, everything migrated.             *)
InitializeKvCache ==
    LET s == Current
        Filled(Pick(_)) == [NoCache EXCEPT ![s.layer] = [p \in Positions |->
                              IF p < s.n THEN Pick(reg["cache"][p + 1]) ELSE Cleared]]
    IN /\ At("preload")
       /\ kRow' = Filled(LAMBDA e : e.k)
       /\ kTr' = Filled(LAMBDA e : e.k)
       /\ v' = Filled(LAMBDA e : e.v)
       /\ Forward
       /\ UNCHANGED <<reg, aux, status, pass, verdict>>

(* DECODE_SMOKE stores its row in the row-major image and bypasses it.     *)
RunSmoke ==
    LET s == Current
        entry == reg["cache"][s.at + 1]
        before == Context(kRow', s.layer, s.at - 1)
    IN /\ At("smoke")
       /\ kRow' = StoreRows(kRow, s.layer, s.at, <<entry.k>>)
       /\ v' = StoreRows(v, s.layer, s.at, <<entry.v>>)
       /\ kTr' = kTr
       /\ Write(s.out, <<AttendedRow(Broken, Rounded("tile"), reg["query"][1],
                                      Append(before, entry))>>)
       /\ OperandsOnAux /\ DeviceStep
       /\ status' = Counted(MmTasks("SMOKE", s.at, 1))

RunPrefillAttentionBlock ==
    LET s == Current IN
    /\ At("block attention")
    /\ UNCHANGED caches
    /\ Write(s.out, [i \in 1..s.n |->
                AttendedRow(Broken, Rounded("q2.14"), reg["query"][i],
                            Context(kTr, s.layer, s.at + i - 1))])
    /\ OperandsOnAux /\ DeviceStep
    /\ status' = Counted(MmTasks("BLOCK", s.at, s.n))

(* A resident layer reads the tables its own launch migrates again.        *)
RunDecoderLayer ==
    LET s == Current IN
    /\ At("layer")
    /\ hostAux' = (IF auxValid THEN hostAux ELSE "tables")
    /\ deviceAux' = hostAux' /\ auxValid' = FALSE
    /\ AttentionTask(s.layer, reg[s.x], s.at)
    /\ Write(s.out, FfnResult(s.layer, AttentionResult(s.layer, reg[s.x], s.at)))
    /\ DeviceStep /\ UNCHANGED status

StartStack ==
    LET s == Current IN
    /\ At("stack")
    /\ Write(s.out, reg[s.x])
    /\ TablesOnAux /\ Forward
    /\ UNCHANGED <<caches, status, pass, verdict>>

RunTask ==
    LET s == Current IN
    /\ At("task")
    /\ UNCHANGED aux
    /\ IF s.op = "ATTENTION"
       THEN /\ AttentionTask(s.layer, reg["state"], s.at)
            /\ Write("state", AttentionResult(s.layer, reg["state"], s.at))
       ELSE /\ UNCHANGED caches
            /\ Write("state", IF s.op = "FFN" THEN FfnResult(s.layer, reg["state"])
                              ELSE FinalNorm(BrokenWithTables, reg["state"]))
    /\ DeviceStep /\ UNCHANGED status

RunMmWaves ==
    LET s == Current IN
    /\ At("waves")
    /\ status' = Counted(WaveTasks(s.at, s.n, s.op, s.layer))
    /\ OperandsOnAux /\ DeviceStep
    /\ UNCHANGED <<reg, caches>>

(* The controller-only launches migrate cleared ports and leave the flag;  *)
(* without the status kernel the host makes up the word it checks.         *)
RunNop ==
    LET s == Current IN
    /\ At("nop")
    /\ hostAux' = "operands" /\ deviceAux' = "operands"
    /\ auxValid' = IF s.op = "verify-nop" THEN FALSE ELSE auxValid
    /\ Forward
    /\ verdict' = IF fault = "STATUS" /\ s.op # "verify-nop-ctrl-enqueue-only"
                  THEN "throw" ELSE verdict
    /\ UNCHANGED <<reg, caches, status, pass>>

-----------------------------------------------------------------------------
(* Goldens and verdict.                                                    *)
From(at, rows) == SubSeq(rows, at + 1, Len(rows))
Finally(s, rows) == IF s.op = "FINAL" THEN FinalNorm({}, rows) ELSE rows

PrefixOneShort(cache, rows) == SubSeq(cache, 1, rows - 1)           \* fault
PrefixRows(cache, rows) == SubSeq(cache, 1, rows)

Expected(s) ==
    CASE s.golden = "feature" ->
           [i \in DOMAIN reg[s.x] |-> Feature({}, s.op, s.layer, reg[s.x][i], AuxRow(s, i))]
      [] s.golden = "panel" -> <<PanelRow({}, s.op)>>
      [] s.golden = "attended" ->
           [i \in DOMAIN reg["query"] |->
              AttendedRow({}, Rounded(s.rounding), reg["query"][i],
                          PrefixRows(reg["cache"], s.at + i))]
      [] s.golden = "post" ->
           GoldenPostAttention(Rounded(s.rounding), s.n,
                               GoldenStack(Rounded("q2.14"), reg[s.x], s.n))
      [] s.golden = "single" -> Finally(s, <<GoldenSingleStack(reg[s.x][1], s.n)>>)
      [] s.golden = "stack" ->
           From(s.at, Finally(s, GoldenStack(Rounded(s.rounding), reg[s.x], s.n)))
      [] s.golden = "prefix" ->
           LET rows == [i \in 1..s.at |-> Embedding(reg["sequence"][i])]
           IN  <<Last(FinalNorm({}, GoldenStack(Rounded(s.rounding), rows, s.n)))>>

RunOracle ==
    /\ At("oracle")
    /\ Write(Current.out, Expected(Current))
    /\ HostOnly

(* The token of a step is checked with its hidden row.                     *)
Agrees(s) ==
    /\ reg[s.out] = Expected(s)
    /\ s.golden = "prefix" => reg["sequence"][s.at + 1] = ArgMax(Expected(s)[1])

LastWins(before, ok) == ok                                          \* fault
Both(before, ok) == ok /\ before

Compare ==
    LET s == Current
        ok == Agrees(s) \/ ~s.gating
    IN /\ At("check")
       /\ pass' = Both(pass, ok)
       /\ verdict' = IF s.stop /\ ~ok THEN "FAIL" ELSE verdict
       /\ Forward /\ UNCHANGED <<reg, caches, aux, status>>

CeilDiv(a, b) == (a + b - 1) \div b
ExpectedTasks(s) ==
    IF s.golden = "waves"
    THEN IF s.op \in {"1", "2"} THEN 0
         ELSE s.n * Cardinality({c \in Heads : (s.layer \div (c + 1)) % 2 = 1})
    ELSE 2 * CeilDiv(s.at + s.n, TileSize) * (1 + OutputWaves)
           * (IF s.op = "BLOCK" THEN GroupSize ELSE 1)

CheckCounts ==
    /\ At("count")
    /\ pass' = Both(pass, status = ExpectedTasks(Current))
    /\ Forward /\ UNCHANGED <<reg, caches, aux, status, verdict>>

Report ==
    /\ verdict = "running" /\ step > Len(Program(run))
    /\ verdict' = IF pass THEN "PASS" ELSE "FAIL"
    /\ UNCHANGED <<run, fault, drift, step, reg, caches, aux, status, pass>>

Next ==
    \/ MakeRandom \/ Rows \/ HostRope \/ SampleToken
    \/ RunFeature \/ RunPanel \/ InitializeKvCache \/ RunSmoke
    \/ RunPrefillAttentionBlock \/ RunDecoderLayer \/ StartStack \/ RunTask
    \/ RunMmWaves \/ RunNop \/ RunOracle \/ Compare \/ CheckCounts \/ Report

Spec == Init /\ [][Next]_vars

-----------------------------------------------------------------------------
(***************************************************************************)
(* What a PASS vouches for: the faults a check cannot pass with.  One row  *)
(* at position 0 has one cache entry, its softmax is one, so neither the   *)
(* query nor the keys reach the result.                                    *)
(***************************************************************************)
Unseen(rows) == IF rows > 1 THEN {} ELSE {"Q", "K", "ROPE", "SCORE"}
AttentionOps == {"NORM", "Q", "K", "V", "O", "ADD", "ROPE", "SCORE", "VALUE", "STORE"}
LayerOps == AttentionOps \cup {"GATE", "UP", "DOWN", "SILU"}
SmokeOps(last) == {"VALUE", "COUNTS"} \cup (IF last > 0 THEN {"SCORE"} ELSE {})

ComparedOps(r) ==
    CASE r.mode = "verify-random" ->
           {"Q", "K", "GATE", "DOWN", "ADD", "NORM", "SILU", "SCORE", "VALUE", "STORE"}
      [] r.mode = "verify-decode-smoke" -> {"VALUE"}
      [] r.mode \in {"verify-resident-layer", "verify-composed-layer"} ->
           LayerOps \ Unseen(1)
      [] r.mode = "verify-composed-stack" -> (LayerOps \ Unseen(1)) \cup {"FINAL"}
      [] r.mode = "verify-composed-prefill-attention" -> AttentionOps \ Unseen(r.tokens)
      [] r.mode \in {"verify-composed-prefill-block", "verify-composed-prefill-stack",
                     "verify-composed-prefill-checkpoints"} ->
           (LayerOps \ Unseen(r.tokens)) \cup {"FINAL"}
      [] r.mode = "verify-composed-prefill-sequence" ->
           (LayerOps \ Unseen(r.len)) \cup {"FINAL"}
      [] r.mode = "generate" ->
           IF r.new = 0 THEN {} ELSE (LayerOps \ Unseen(r.len + r.new - 1)) \cup {"FINAL"}
      [] r.mode = "profile-attention" -> SmokeOps(r.position)
      [] r.mode = "profile-attention-pd" ->
           SmokeOps(IF r.decode THEN r.len ELSE r.len - 1)
           \cup (IF r.prefill /\ (r.decode \/ r.len - r.start > 1) THEN {"STORE"} ELSE {})
      [] r.mode = "profile-attention-block" ->
           SmokeOps(r.position) \cup {"Q", "K", "V", "O"}
      [] r.mode = "profile-attention-sublayer" ->
           SmokeOps(r.position) \cup {"NORM", "Q", "K", "V", "O", "ADD"}
      [] r.mode = "profile-ffn-sublayer" -> {"NORM", "GATE", "UP", "SILU", "DOWN", "ADD"}
      [] r.mode = "profile-prefill-block" ->
           SmokeOps(r.len - 1) \cup (LayerOps \ {"ROPE", "SCORE", "STORE"})
      [] r.mode = "profile-prefill-vector" -> {"NORM", "SILU", "ADD"}
      [] r.mode = "profile-mm-wave" -> {"COUNTS"}
      [] OTHER -> {}

Launches(r) ==
    r.mode \notin {"diagnose-prefill-softmax", "diagnose-q214-payload-golden",
                   "verify-nop-ctrl-enqueue-only"}

Vouched(r) ==
    ComparedOps(r)
    \cup (IF ComparedOps(r) \cap Projections # {} THEN {"WEIGHTS"} ELSE {})
    \cup (IF Launches(r) THEN {"STATUS"} ELSE {})

(* A check that passes has excluded every fault it vouches for: no later   *)
(* comparison hides an earlier mismatch, and no golden repeats the fault   *)
(* it is there to find.                                                    *)
PassExcludesFaults == verdict = "PASS" => fault \notin Vouched(run)

(* The modes whose verdict depends on a golden that rounds elsewhere than  *)
(* the device, on a context long enough to tell the two apart.  The golden *)
(* of the whole context is the one that the block profile keeps as a       *)
(* diagnostic only, "not a valid accuracy oracle" for long contexts.       *)
RoundsApart(r) ==
    \/ r.mode \in {"profile-attention", "profile-attention-block",
                    "profile-attention-sublayer"}
         /\ r.position >= TileSize
    \/ r.mode = "profile-attention-pd"
         /\ (IF r.decode THEN r.len ELSE r.len - 1) >= TileSize
    \/ r.mode = "profile-prefill-block" /\ r.len > 1

(* A right device, or one with a fault the check cannot see, fails a check *)
(* only for a rounding: never for data that keep the roundings together,   *)
(* and whatever the data in no mode but those of RoundsApart.  The goldens *)
(* computed from the host's own copy of the cache agree with what launches *)
(* left in the caches of the device, block by block and row by row.  The   *)
(* exception is real: where data make the roundings of those modes part,   *)
(* no device passes.                                                       *)
NoFalseAlarm ==
    /\ verdict \in {"FAIL", "throw"} =>
           fault \in Vouched(run) \/ Refused(run) \/ (drift /\ RoundsApart(run))
    /\ verdict = "PASS" => ~(drift /\ RoundsApart(run))
=============================================================================
