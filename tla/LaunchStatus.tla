---------------------------- MODULE LaunchStatus ----------------------------
(***************************************************************************)
(* The work of one coarse launch and the report of it: the controller      *)
(* sends the stages of an operator to the two compute services, whose task *)
(* loops are statically bounded; it counts what it dispatched; the counts  *)
(* travel to the host in a packed 64-bit status word.  NkSession models    *)
(* the streams inside a stage; here a stage is one step, so that launches  *)
(* of the built size (hundreds of tasks, thousands of packets) fit.        *)
(***************************************************************************)
EXTENDS Integers, Sequences

CONSTANTS
    HiddenWaves,     \* ceildiv(HIDDEN_SIZE, CC8_OUTPUTS_PER_WAVE)
    KvWaves,         \* ceildiv(KV_CHANNELS, CC8_OUTPUTS_PER_WAVE)
    WideWaves,       \* ceildiv(INTERMEDIATE_SIZE, CC8_OUTPUTS_PER_WAVE)
    HiddenBlocks,    \* ceildiv(HIDDEN_SIZE, CU_VEC_LANES)
    WideBlocks,      \* ceildiv(INTERMEDIATE_SIZE, CU_VEC_LANES)
    Packets,         \* MM_STREAM_8X64_PACKETS_PER_BLOCK
    GqaGroup,        \* GQA_GROUP_SIZE
    PvWaves,         \* CC8_ATTN_PV_WAVES
    AttnTile,        \* CC8_ATTN_TILE, the tile the controller walks
    BudgetTile,      \* ATTENTION_TILE_SIZE, the tile the static limits count
    MaxSeq,          \* MAX_SEQ_LEN
    ActiveTokens,    \* LINEAR_TOKEN_TILE_ACTIVE, CC8_GBUF_TOKEN_ROWS
    TokensPerPort,   \* CC8_TOKENS_PER_DATA_PORT
    Requests         \* the launches: [op, tokens, position]

ASSUME ShapeAssumption ==
    /\ {HiddenWaves, KvWaves, WideWaves, HiddenBlocks, WideBlocks, PvWaves}
         \subseteq Nat
    /\ {Packets, GqaGroup, AttnTile, BudgetTile, MaxSeq, TokensPerPort}
         \subseteq Nat \ {0}
    /\ ActiveTokens = 2 * TokensPerPort
    /\ BudgetTile <= AttnTile

VARIABLES
    phase,      \* idle, running, sent, accepted or thrown
    request,    \* the launch under way
    todo,       \* stages the controller has not sent
    stage,      \* the stage whose results it collects, or NoStage
    sent,       \* per core, the tasks of that stage not yet served
    service,    \* per core: task_idx, the work done, whether the loop runs
    status,     \* the controller's status packet
    word,       \* the status stream: a packed word or NoWord
    report      \* what the host decodes from status_output, or NoWord

vars == <<phase, request, todo, stage, sent, service, status, word, report>>

Cores == 0..1
Ops == {"NOP", "DECODER_LAYER", "ATTENTION_SUBLAYER", "FFN_SUBLAYER",
        "FINAL_NORM", "ATTN_PREFILL_BLOCK"}
ResidentOps == {"DECODER_LAYER", "ATTENTION_SUBLAYER", "FFN_SUBLAYER"}

(* The host's arguments are unsigned; launch gives one of the operators.    *)
ASSUME RequestAssumption ==
    Requests \subseteq [op : Ops, tokens : Nat, position : Nat]

CeilDiv(a, b) == (a + b - 1) \div b
PacketTiles(context) == CeilDiv(context, AttnTile \div 4)          \* fault
Tiles(context) == CeilDiv(context, AttnTile)

(* Output waves of the projections Q, K, V, O, gate, up and down. *)
Waves ==
    [step \in 0..6 |-> IF step \in {0, 3, 6} THEN HiddenWaves
                       ELSE IF step \in {1, 2} THEN KvWaves ELSE WideWaves]

(***************************************************************************)
(* The task loop of a compute service reads at most this many tasks, and   *)
(* the static budget of the descriptors a resident launch sends core 0.    *)
(***************************************************************************)
MaxTasks ==
    LET coarse == CeilDiv(MaxSeq, BudgetTile) * GqaGroup * (1 + PvWaves) + 256
    IN  IF coarse > 256 THEN coarse ELSE 256

AttentionBudgetOf(rows) ==
    rows * CeilDiv(MaxSeq, BudgetTile) * (1 + PvWaves)
ProjectionBudget == 4 * HiddenWaves + 2 * KvWaves + 2 * WideWaves
OneRowBudget == ProjectionBudget + AttentionBudgetOf(1) + 5       \* fault
Core0TasksMax == ProjectionBudget + AttentionBudgetOf(ActiveTokens) + 5

(* control_cache_8x64.hpp:168-173 asserts it of the resident-layer build.   *)
ASSUME BudgetAssumption == Core0TasksMax <= MaxTasks

(***************************************************************************)
(* Argument checks, in the controller's order.                             *)
(***************************************************************************)
PrefillTasksPerCore(r) ==
    Tiles(r.position + r.tokens) * GqaGroup * (1 + PvWaves)

BadPosition(r) == r.position >= MaxSeq \/ r.position + r.tokens > MaxSeq

StatusCode(r) ==
    IF r.tokens > ActiveTokens THEN "BAD_TOKEN_COUNT"
    ELSE IF r.op = "NOP" THEN "OK"
    ELSE IF r.tokens = 0 THEN "BAD_TOKEN_COUNT"
    ELSE IF r.op # "FINAL_NORM" /\ BadPosition(r) THEN "BAD_POSITION"
    ELSE IF r.op = "ATTN_PREFILL_BLOCK" /\ PrefillTasksPerCore(r) > MaxTasks
         THEN "BAD_POSITION"
    ELSE "OK"

(***************************************************************************)
(* Stages: a projection step, the attention walk of one query token, a     *)
(* vector operation, the tiles of a prefill block, or the two STOP tasks.  *)
(***************************************************************************)
Stage(kind, n, last) == [kind |-> kind, n |-> n, last |-> last]
NoStage == Stage("none", 0, FALSE)
Project(step) == Stage("project", step, FALSE)
Vector(blocks, last) == Stage("vector", blocks, last)

AttentionStages(r) ==
    <<Vector(HiddenBlocks, FALSE), Project(0), Project(1), Project(2)>>
      \o [t \in 1..r.tokens |-> Stage("walk", r.position + t, FALSE)]
      \o <<Project(3), Vector(HiddenBlocks, r.op = "ATTENTION_SUBLAYER")>>

FfnStages ==
    <<Vector(HiddenBlocks, FALSE), Project(4), Project(5),
      Vector(WideBlocks, FALSE), Project(6), Vector(HiddenBlocks, TRUE)>>

Stages(r) ==
    IF StatusCode(r) # "OK" \/ r.op = "NOP" THEN <<Stage("stop", 0, TRUE)>>
    ELSE
    CASE r.op = "FINAL_NORM" -> <<Vector(HiddenBlocks, TRUE)>>
      [] r.op = "ATTN_PREFILL_BLOCK" ->
           <<Stage("block", r.position + r.tokens, TRUE)>>
      [] r.op = "ATTENTION_SUBLAYER" -> AttentionStages(r)
      [] r.op = "FFN_SUBLAYER" -> FfnStages
      [] r.op = "DECODER_LAYER" -> AttentionStages(r) \o FfnStages

(* The token rows of a vector operation: core 1 takes those past port 0.   *)
CoreRows(tokens) ==
    [c \in Cores |->
        IF c = 0 THEN (IF tokens < TokensPerPort THEN tokens ELSE TokensPerPort)
        ELSE IF tokens > TokensPerPort THEN tokens - TokensPerPort ELSE 0]

(***************************************************************************)
(* The descriptors a stage sends core c and the result packets they return.*)
(***************************************************************************)
Tasks(mm, vec, stop, packets) ==
    [mm |-> mm, vec |-> vec, stop |-> stop, packets |-> packets]
Count(tasks) == tasks.mm + tasks.vec + tasks.stop
NoTasks == Tasks(0, 0, 0, 0)
MmTasks(n) == Tasks(n, 0, 0, n * Packets)

CoreTasks(s, c, tokens) ==
    CASE s.kind = "none" -> NoTasks
      [] s.kind = "stop" -> Tasks(0, 0, 1, 0)
      [] s.kind = "project" -> MmTasks(Waves[s.n])
      [] s.kind = "walk" -> MmTasks(Tiles(s.n) * (1 + PvWaves))
      [] s.kind = "block" -> MmTasks(Tiles(s.n) * GqaGroup * (1 + PvWaves))
      [] s.kind = "vector" ->
           LET rows == CoreRows(tokens)[c] IN
           IF rows # 0 THEN Tasks(0, 1, 0, rows * s.n)
           ELSE Tasks(0, 0, IF s.last THEN 1 ELSE 0, 0)

(***************************************************************************)
(* What the controller adds to its counters once a stage is collected.     *)
(***************************************************************************)
Counts(waves, mm, vec, packets) ==
    [waves |-> waves, mm |-> mm, vec |-> vec, packets |-> packets]
MmCounts(waves, perCore) == Counts(waves, 2 * perCore, 0, 2 * perCore * Packets)
CoresWithRows(tokens) == IF CoreRows(tokens)[1] # 0 THEN 2 ELSE 1

CountedBeforeAppend(s, tokens) ==                                 \* fault
    CASE s.kind = "stop" -> Counts(0, 0, 0, 0)
      [] s.kind = "project" -> MmCounts(Waves[s.n], Waves[s.n])
      [] s.kind = "walk" ->
           MmCounts(Tiles(s.n) * (1 + PvWaves), Tiles(s.n - 1) * (1 + PvWaves))
      [] s.kind = "block" ->
           MmCounts(PvWaves, Tiles(s.n) * GqaGroup * (1 + PvWaves))
      [] s.kind = "vector" ->
           Counts(0, 0, CoresWithRows(tokens), tokens * s.n)
Counted(s, tokens) ==
    CASE s.kind = "stop" -> Counts(0, 0, 0, 0)
      [] s.kind = "project" -> MmCounts(Waves[s.n], Waves[s.n])
      [] s.kind = "walk" ->
           MmCounts(Tiles(s.n) * (1 + PvWaves), Tiles(s.n) * (1 + PvWaves))
      [] s.kind = "block" ->
           MmCounts(PvWaves, Tiles(s.n) * GqaGroup * (1 + PvWaves))
      [] s.kind = "vector" ->
           Counts(0, 0, CoresWithRows(tokens), tokens * s.n)

(***************************************************************************)
(* The compact status word: field by field the bits kept of it.  The bit   *)
(* ranges are disjoint, so that packing cuts each field to its width.      *)
(***************************************************************************)
OldLayout ==                                                      \* fault
    [op |-> <<0, 4>>, code |-> <<5, 8>>, last |-> <<9, 9>>,
     tokens |-> <<10, 16>>, waves |-> <<17, 24>>, mm |-> <<25, 36>>,
     vec |-> <<37, 44>>, packets |-> <<45, 58>>]
Layout ==
    [op |-> <<0, 4>>, code |-> <<5, 8>>, last |-> <<9, 9>>,
     tokens |-> <<10, 16>>, waves |-> <<17, 24>>, mm |-> <<25, 36>>,
     vec |-> <<37, 44>>, packets |-> <<45, 61>>]
Fields == DOMAIN Layout
Width(f) == Layout[f][2] - Layout[f][1] + 1

ASSUME LayoutAssumption ==
    \A f, g \in Fields : f # g => \/ Layout[f][2] < Layout[g][1]
                                  \/ Layout[g][2] < Layout[f][1]

(***************************************************************************)
(* The fields are wide enough: the host gives a launch no more rows than   *)
(* 7 bits count (kMaxTokensPerLaunch is 8); both services together read    *)
(* fewer tasks (vitis_stream_8x64.hpp:173); and the packets of that many   *)
(* matrix tasks (:175-179) leave room for those of the vector operations   *)
(* of a layer, which the assertion does not count.                         *)
(***************************************************************************)
LayerVectorPackets == ActiveTokens * (4 * HiddenBlocks + WideBlocks)

ASSUME FieldAssumption ==
    /\ \A r \in Requests : r.tokens < 128
    /\ 2 * MaxTasks < 4096
    /\ 2 * MaxTasks * Packets + LayerVectorPackets < 131072

Pack(s) == [f \in Fields |-> s[f] % (2 ^ Width(f))]

(* cc8_status_sink_nk unpacks the word into 32-bit fields of status_output, *)
(* which decode_status reads: wider than every field, they cut nothing.     *)
Decode(w) == w

OpNumber(op) ==
    CASE op = "NOP" -> 0
      [] op = "DECODER_LAYER" -> 16
      [] op = "ATTN_PREFILL_BLOCK" -> 17
      [] op = "ATTENTION_SUBLAYER" -> 18
      [] op = "FFN_SUBLAYER" -> 19
      [] op = "FINAL_NORM" -> 20

CodeNumber(code) ==
    CASE code = "OK" -> 0
      [] code = "BAD_TOKEN_COUNT" -> 2
      [] code = "BAD_POSITION" -> 4

(* The token check comes before the operator is copied into the packet.    *)
FirstStatus(r) ==
    [op |-> IF r.tokens > ActiveTokens THEN 0 ELSE OpNumber(r.op),
     code |-> CodeNumber(StatusCode(r)), last |-> 1, tokens |-> r.tokens,
     waves |-> 0, mm |-> 0, vec |-> 0, packets |-> 0]

NoWord == [f \in Fields |-> -1]

(***************************************************************************)
(* Actions.  The host starts both services and the controller; the task    *)
(* streams are empty then (NkSession).                                     *)
(***************************************************************************)
NotStarted == [index |-> 0, running |-> FALSE, ended |-> TRUE, done |-> NoTasks]
Started == [index |-> 0, running |-> TRUE, ended |-> FALSE, done |-> NoTasks]

Begin(r) ==
    /\ request' = r
    /\ todo' = Stages(r)
    /\ stage' = NoStage
    /\ sent' = [c \in Cores |-> NoTasks]
    /\ service' = [c \in Cores |-> Started]
    /\ status' = FirstStatus(r)
    /\ word' = NoWord
    /\ report' = NoWord

Init ==
    /\ phase = "idle"
    /\ request \in Requests
    /\ todo = << >>
    /\ stage = NoStage
    /\ sent = [c \in Cores |-> NoTasks]
    /\ service = [c \in Cores |-> NotStarted]
    /\ status = FirstStatus(request)
    /\ word = NoWord
    /\ report = NoWord

Launch ==
    /\ phase \in {"idle", "accepted"}
    /\ phase' = "running"
    /\ \E r \in Requests : Begin(r)

(* The controller dispatches the next stage to both cores ...              *)
Emit ==
    /\ phase = "running"
    /\ stage = NoStage
    /\ todo # << >>
    /\ stage' = Head(todo)
    /\ todo' = Tail(todo)
    /\ sent' = [c \in Cores |-> CoreTasks(Head(todo), c, request.tokens)]
    /\ UNCHANGED <<phase, request, service, status, word, report>>

(* ... a service runs them, as far as its loop bound lets it ...           *)
Sum(a, b) == Tasks(a.mm + b.mm, a.vec + b.vec, a.stop + b.stop, a.packets + b.packets)
Readable(c) ==
    LET room == MaxTasks - service[c].index
    IN  IF Count(sent[c]) <= room THEN sent[c] ELSE MmTasks(room)

Serve(c) ==
    LET run == Readable(c)
        index == service[c].index + Count(run)
        ended == stage.last /\ run = sent[c]
    IN
    /\ service[c].running
    /\ Count(sent[c]) > 0
    /\ service' = [service EXCEPT ![c] =
           [index |-> index, ended |-> ended,
            running |-> ~ended /\ index < MaxTasks,
            done |-> Sum(service[c].done, run)]]
    /\ sent' = [sent EXCEPT ![c] =
           Tasks(@.mm - run.mm, @.vec - run.vec, @.stop - run.stop,
                 @.packets - run.packets)]
    /\ UNCHANGED <<phase, request, todo, stage, status, word, report>>

(* ... and once all their results are back it counts them.                 *)
Collect ==
    LET more == Counted(stage, request.tokens) IN
    /\ phase = "running"
    /\ stage # NoStage
    /\ \A c \in Cores : sent[c] = NoTasks
    /\ stage' = NoStage
    /\ status' = [status EXCEPT !.waves = @ + more.waves, !.mm = @ + more.mm,
                               !.vec = @ + more.vec, !.packets = @ + more.packets]
    /\ UNCHANGED <<phase, request, todo, sent, service, word, report>>

SendStatus ==
    /\ phase = "running"
    /\ todo = << >>
    /\ stage = NoStage
    /\ phase' = "sent"
    /\ word' = Pack(status)
    /\ UNCHANGED <<request, todo, stage, sent, service, status, report>>

(* The host waits for the controller and both services, runs the status    *)
(* kernel and checks what it reports.                                      *)
AcceptsAnyCode(op, decoded) ==                                    \* fault
    decoded.op = OpNumber(op) /\ decoded.last = 1
Accepts(op, decoded) ==
    decoded.op = OpNumber(op) /\ decoded.code = 0 /\ decoded.last = 1

CheckStatus ==
    /\ phase = "sent"
    /\ \A c \in Cores : ~service[c].running
    /\ report' = Decode(word)
    /\ word' = NoWord
    /\ phase' = IF Accepts(request.op, Decode(word)) THEN "accepted" ELSE "thrown"
    /\ UNCHANGED <<request, todo, stage, sent, service, status>>

(* check_status throws: no launch follows. *)
Exited == phase = "thrown" /\ UNCHANGED vars

Next ==
    \/ Launch \/ Emit \/ Collect \/ SendStatus \/ CheckStatus \/ Exited
    \/ \E c \in Cores : Serve(c)

Spec == Init /\ [][Next]_vars

(***************************************************************************)
(* Properties.                                                             *)
(***************************************************************************)

(* The service loop is long enough: a compute unit stops reading tasks     *)
(* only after the task that ends the session, for every operator, block    *)
(* and position the controller accepts (compute_core_8x64_unified.hpp:7).  *)
ServiceEndsOnLastTask ==
    \A c \in Cores : ~service[c].running => service[c].ended

(* The descriptors core 0 gets in a resident launch stay within the static *)
(* budget the build asserts, although that budget counts tiles of another  *)
(* size than the controller walks (control_cache_8x64.hpp:124-133).        *)
WithinStaticBudget ==
    request.op \in ResidentOps /\ StatusCode(request) = "OK"
        => service[0].index <= Core0TasksMax

(* When the host reads the report, the counts in the controller's packet   *)
(* are the tasks the services ran and the packets they returned.           *)
CountsAreWorkDone ==
    phase \in {"accepted", "thrown"} =>
        /\ status.mm = service[0].done.mm + service[1].done.mm
        /\ status.vec = service[0].done.vec + service[1].done.vec
        /\ status.packets = service[0].done.packets + service[1].done.packets

(* Every count but the wave count reaches the host as the controller put   *)
(* it in the packet, whatever operator, block and position: the fields of  *)
(* the compact word are wide enough (vitis_stream_8x64.hpp:163-179).       *)
CountsArrive ==
    phase \in {"accepted", "thrown"} =>
        \A f \in Fields \ {"waves"} : report[f] = status[f]

(* The wave count too reaches the host unchanged: the round trip that      *)
(* control_cache_8x64_nk_tb.cpp:685-712 asserts of one packet.             *)
StatusRoundTrip ==
    phase \in {"accepted", "thrown"} => report = status

(* The host takes a launch for done exactly when the controller accepted   *)
(* its arguments, and then every stage of it ran on both cores.            *)
AcceptedLaunchesRan ==
    /\ phase = "accepted" =>
          /\ StatusCode(request) = "OK"
          /\ todo = << >> /\ stage = NoStage
          /\ \A c \in Cores : sent[c] = NoTasks /\ service[c].ended
          /\ request.op # "NOP" => service[0].done.vec + service[0].done.mm > 0
    /\ phase = "thrown" =>
          /\ StatusCode(request) # "OK"
          /\ \A c \in Cores : service[c].done.mm = 0 /\ service[c].done.vec = 0
=============================================================================
