--------------------------- MODULE QuantizedStreams ---------------------------
(***************************************************************************)
(* The stream network of the quantized layer: the controller's dataflow    *)
(* regions - projections with riding vector tasks, vector exchanges,       *)
(* attention exchanges and the attention wave pipeline - and the compute   *)
(* units they drive, over blocking FIFOs of small depth.                   *)
(*                                                                         *)
(* Every process runs a straight program of takes and puts.  A region      *)
(* opens when the processes of the previous one have all returned; a unit  *)
(* learns its program from the task it takes.  A word names what it        *)
(* carries, so that a taker can be asked whether it got what it takes the  *)
(* word for; the code's words carry data and are paired by counting.       *)
(***************************************************************************)
EXTENDS QuantizedTasks, Sequences, SequencesExt

CONSTANTS
    HeadDim,        \* HEAD_DIM: beats of a QK task
    Heads,          \* NUM_ATTENTION_HEADS
    Packets,        \* result packets of a matrix task, words of a score frame
    Layer,          \* the layer of the launch
    Launches        \* [async, overlap, regions]: builds and what they run

(***************************************************************************)
(* A region is [kind |-> "project", n, rows, silu, ahead], with the rows   *)
(* of the next block in ahead (0: no lookahead); [kind |-> "vector", mode, *)
(* rows]; [kind |-> "exchange", decode, wave, pv, length] or               *)
(* [kind |-> "pipeline", decode, length], for one tile of positions.       *)
(***************************************************************************)

VARIABLES
    launch,         \* the launch that runs
    region,         \* number of regions opened
    proc,           \* per process: [todo, left]
    chan            \* per FIFO: the words in it

vars == <<launch, region, proc, chan>>

(* A FIFO or a process has a name and the number of its unit, or 0.        *)
ControllerNames == {"load", "drive", "emit", "collect", "commit"}
Controller == ControllerNames \X {0}
UnitNames == IF launch.async THEN {"dispatch", "matrix", "vector", "merge"}
             ELSE {"unit"}
Units == UnitNames \X CuSet
Processes == Controller \cup Units

OperandNames == {"matrix", "vector", "weights", "scales", "probability"}
ResultNames == {"out", "results", "scores", "attended"}
ChannelNames == OperandNames \cup ResultNames
                  \cup {"task", "turn", "mtask", "vtask", "order", "mres", "vres"}
Channels == ChannelNames \X CuSet

(***************************************************************************)
(* Every FIFO holds one word, fewer than the code gives it, but the score  *)
(* pipe: it must take the whole frame of a wave, since the nonlinear stage *)
(* empties it before it waits for the PV task that comes after.            *)
(***************************************************************************)
DepthOneShort(c) == IF c[1] = "scores" THEN Packets - 1 ELSE 1      \* fault
Depth(c) == IF c[1] = "scores" THEN Packets ELSE 1

-----------------------------------------------------------------------------
(* Programs. *)
AnyWord == <<>>
Stop == [op |-> "STOP"]
(* A process takes a word, which it takes to be the given one, puts a word, *)
(* or moves one on; a beat of the driver adds the activation to the weight. *)
Take(c, word) == << [act |-> "take", from |-> c, word |-> word] >>
Put(c, word) == << [act |-> "put", to |-> c, word |-> word] >>
Move(c, d, word) == << [act |-> "move", from |-> c, to |-> d, word |-> word] >>
Beat(c, d, word, activation) ==
    << [act |-> "beat", from |-> c, to |-> d, word |-> word,
        activation |-> activation] >>

For(n, body(_)) == FlattenSeq([i \in 1..n |-> body(i - 1)])
ForCus(set, body(_)) ==
    LET cus == SetToSortSeq(set, <)
    IN  FlattenSeq([i \in DOMAIN cus |-> body(cus[i])])

-----------------------------------------------------------------------------
(***************************************************************************)
(* Vector exchanges.  Rows go round robin to the units, or the blocks of a *)
(* single row; a unit sees its packets in order without their addresses.   *)
(***************************************************************************)
Blocks(mode) == CeilDiv(Elements(mode), Lanes)
Split(rows, mode) == SplitColumns(rows, mode, launch.overlap)
RowTask(id, mode, rows, cu) ==
    [op |-> mode, id |-> id, split |-> Split(rows, mode),
     rows |-> TaskRows(rows, cu, mode, launch.overlap),
     blocks |-> IF Split(rows, mode) THEN BlocksForCu(Elements(mode), cu)
                ELSE Blocks(mode)]

EmitVectorTasks(id, mode, rows) ==
    ForCus(VectorCus(rows, mode, launch.overlap),
           LAMBDA cu : Put(<<"task", cu>>, RowTask(id, mode, rows, cu)))

Packet(id, mode, row, block) == <<id, mode, row, block>>

SharedWeightRow(id, rows, mode) ==
    IF mode # "RMSNORM" THEN <<>>
    ELSE For(Blocks(mode), LAMBDA block :
           ForCus({ cu \in CuSet : RowsForCu(rows, cu) # 0 }, LAMBDA cu :
             Put(<<"vector", cu>>, Packet(id, "WEIGHT", 0, block))))

(* The unit a packet goes to and comes from, slot by slot.                  *)
SlotsFull(rows) == rows \div Cus                                    \* fault
Slots(rows) == CeilDiv(rows, Cus)
EachPacket(mode, rows, slots, body(_, _, _)) ==
    IF Split(rows, mode)
    THEN For(Blocks(mode), LAMBDA block : body(0, block, block % Cus))
    ELSE For(slots, LAMBDA slot : For(Blocks(mode), LAMBDA block :
           ForCus({ cu \in CuSet : slot * Cus + cu < rows }, LAMBDA cu :
             body(slot * Cus + cu, block, cu))))

EmitVectorOperands(id, mode, rows) ==
    SharedWeightRow(id, rows, mode)
      \o EachPacket(mode, rows, CeilDiv(rows, Cus),
           LAMBDA row, block, cu :
             Put(<<"vector", cu>>, Packet(id, mode, row, block)))

CollectVector(id, mode, rows) ==
    EachPacket(mode, rows, Slots(rows), LAMBDA row, block, cu :
      Take(<<"out", cu>>, Packet(id, mode, row, block)))

-----------------------------------------------------------------------------
(***************************************************************************)
(* Projections: the loader reads the shards of the active units word by    *)
(* word, the driver pairs each word with the activations of its beat, the  *)
(* collector and the commit empty the result streams wave by wave.         *)
(***************************************************************************)
EachWave(n, body(_)) == For(WaveCount(n), body)

(* What the host put into a word of a unit's shard.                        *)
WeightWord(weights) == <<Layer, "WEIGHT", weights>>
HostWeights(cu, word) == WeightWord(
    { w \in { <<l, n, wave, k>> : l \in 0..Layer, n \in Kinds,
                wave \in 0..(CeilDiv(WideDim + HiddenDim, OutputsPerWave)),
                k \in 0..(WideDim + HiddenDim) } :
        LET n == w[2]
            output == w[3] * OutputsPerWave + cu * OutputsPerCu
        IN  /\ output < OutDim(n) /\ w[4] < InDim(n)
            /\ WeightLocation(n, output, w[4], w[1]).word = word })

LoadWeights(n) ==
    EachWave(n, LAMBDA wave : For(InDim(n), LAMBDA k :
      ForCus(ActiveCus(n, wave), LAMBDA cu :
        Put(<<"weights", cu>>,
            HostWeights(cu, Dispatch(n, wave, 0, Layer).firstWord + k)))))

WaveTask(id, n, wave, cu) ==
    [op |-> "LINEAR", id |-> id, n |-> n, k |-> InDim(n),
     elemBase |-> Dispatch(n, wave, cu, Layer).elemBase]

DriveWaves(id, n) ==
    EachWave(n, LAMBDA wave :
      ForCus(ActiveCus(n, wave), LAMBDA cu :
        Put(<<"task", cu>>, WaveTask(id, n, wave, cu)))
      \o For(InDim(n), LAMBDA k : ForCus(ActiveCus(n, wave), LAMBDA cu :
           Beat(<<"weights", cu>>, <<"matrix", cu>>,
                WeightWord({ <<Layer, n, wave, k>> }), <<id, "LINEAR", k>>))))

EachResult(n, body(_, _, _)) ==
    EachWave(n, LAMBDA wave : For(Packets, LAMBDA packet :
      ForCus(ActiveCus(n, wave), LAMBDA cu : body(wave, packet, cu))))

ElemBase(wave, cu) == (wave * Cus + cu) * OutputsPerCu
CollectWaves(id, n) ==
    EachResult(n, LAMBDA wave, packet, cu :
      Move(<<"out", cu>>, <<"results", cu>>,
           <<id, "LINEAR", ElemBase(wave, cu), packet>>))
CommitWaves(id, n) ==
    EachResult(n, LAMBDA wave, packet, cu :
      Take(<<"results", cu>>, <<id, "LINEAR", ElemBase(wave, cu), packet>>))

(* The vector work that rides on a projection: the SiLU of Gate beside Up, *)
(* the RMSNorm of the next block beside Down.  It is issued, fed and       *)
(* collected before the projection's waves.                                *)
Riding(r, body(_, _)) ==
    (IF r.silu THEN body("SILU_ONLY", r.rows) ELSE <<>>)
      \o (IF r.ahead # 0 THEN body("RMSNORM", r.ahead) ELSE <<>>)

IssueWavesFirst(id, r) ==                                           \* fault
    DriveWaves(id, r.n)
      \o Riding(r, LAMBDA mode, rows : EmitVectorTasks(id, mode, rows))
DriveProjection(id, r) ==
    Riding(r, LAMBDA mode, rows : EmitVectorTasks(id, mode, rows))
      \o DriveWaves(id, r.n)
EmitRiding(id, r) ==
    Riding(r, LAMBDA mode, rows : EmitVectorOperands(id, mode, rows))
CollectProjection(id, r) ==
    Riding(r, LAMBDA mode, rows : CollectVector(id, mode, rows))
      \o CollectWaves(id, r.n)

-----------------------------------------------------------------------------
(***************************************************************************)
(* Attention: emit_quantized_attention_wave and drain_..._wave, serially   *)
(* for QK and PV of a wave.                                                *)
(***************************************************************************)
Op(pv) == IF pv THEN "PV" ELSE "QK"
EmitAttentionTasks(id, r, wave, pv) ==
    ForCus(UnitCus(r.decode, wave), LAMBDA cu :
      Put(<<"task", cu>>, [op |-> Op(pv), id |-> id, wave |-> wave,
                           k |-> IF pv THEN r.length ELSE HeadDim]))

EmitBeat(id, r, wave, pv, k) ==
    ForCus(UnitCus(r.decode, wave), LAMBDA cu :
      Put(<<"matrix", cu>>, <<id, Op(pv), wave, k>>))

EmitAttentionWave(id, r, wave, pv) ==
    EmitAttentionTasks(id, r, wave, pv)
      \o For(IF pv THEN r.length ELSE HeadDim,
             LAMBDA k : EmitBeat(id, r, wave, pv, k))

DrainPacket(id, r, wave, pv, packet) ==
    ForCus(UnitCus(r.decode, wave), LAMBDA cu :
      Take(<<"out", cu>>, <<id, Op(pv), wave, packet>>))

DrainAttentionWave(id, r) ==
    For(Packets, LAMBDA packet : DrainPacket(id, r, r.wave, r.pv, packet))

(***************************************************************************)
(* The wave pipeline: the matrix stage runs QK(0), QK(1), PV(0), QK(2),    *)
(* PV(1), ..., each step an emit and a drain side by side; the nonlinear   *)
(* stage turns the scores of a wave into the activations of its PV task.   *)
(* The turn is the end of a step's region: the next step starts after it.  *)
(***************************************************************************)
StepIsPv(step, waves) == step = 2 * waves - 1 \/ (step > 0 /\ step % 2 = 0)
StepWave(step, waves) ==
    IF step = 0 THEN 0
    ELSE IF step = 2 * waves - 1 THEN waves - 1
    ELSE IF step % 2 = 1 THEN (step + 1) \div 2
    ELSE (step \div 2) - 1

EachStep(r, body(_, _)) ==
    LET waves == AttentionWaves(r.decode)
    IN  For(2 * waves, LAMBDA step :
          (IF step = 0 THEN <<>> ELSE body(-1, FALSE))
            \o body(StepWave(step, waves), StepIsPv(step, waves)))

Turn == <<"turn", 0>>
EmitPvFromPipe(id, r, wave) ==
    For(Heads, LAMBDA head : Take(<<"scales", 0>>, <<id, wave, head>>))
      \o EmitAttentionTasks(id, r, wave, TRUE)
      \o For(r.length, LAMBDA k :
           Take(<<"probability", 0>>, <<id, wave, k>>)
             \o EmitBeat(id, r, wave, TRUE, k))

EmitSteps(id, r) ==
    EachStep(r, LAMBDA wave, pv :
      IF wave = -1 THEN Take(Turn, AnyWord)
      ELSE IF pv THEN EmitPvFromPipe(id, r, wave)
      ELSE EmitAttentionWave(id, r, wave, FALSE))

DrainSteps(id, r) ==
    EachStep(r, LAMBDA wave, pv :
      IF wave = -1 THEN Put(Turn, AnyWord)
      ELSE For(Packets, LAMBDA packet :
             DrainPacket(id, r, wave, pv, packet)
               \o Put(<<IF pv THEN "attended" ELSE "scores", 0>>,
                      <<id, Op(pv), wave, packet>>)))

NonlinearWaves(id, r) ==
    For(AttentionWaves(r.decode), LAMBDA wave :
      For(Packets, LAMBDA p : Take(<<"scores", 0>>, <<id, "QK", wave, p>>))
        \o For(Heads, LAMBDA head : Put(<<"scales", 0>>, <<id, wave, head>>))
        \o For(r.length, LAMBDA k : Put(<<"probability", 0>>, <<id, wave, k>>))
        \o For(Packets, LAMBDA p : Take(<<"attended", 0>>, <<id, "PV", wave, p>>)))

-----------------------------------------------------------------------------
(* The programs of the processes of a region. *)
Idle == [name \in ControllerNames |-> <<>>]
RegionPrograms(id, r) ==
    CASE r.kind = "project" ->
           [load |-> LoadWeights(r.n), drive |-> DriveProjection(id, r),
            emit |-> EmitRiding(id, r), collect |-> CollectProjection(id, r),
            commit |-> CommitWaves(id, r.n)]
      [] r.kind = "vector" ->
           [Idle EXCEPT
              !.emit = EmitVectorTasks(id, r.mode, r.rows)
                         \o EmitVectorOperands(id, r.mode, r.rows),
              !.collect = CollectVector(id, r.mode, r.rows)]
      [] r.kind = "exchange" ->
           [Idle EXCEPT !.emit = EmitAttentionWave(id, r, r.wave, r.pv),
                        !.collect = DrainAttentionWave(id, r)]
      [] r.kind = "pipeline" ->
           [Idle EXCEPT !.drive = EmitSteps(id, r),
                        !.collect = DrainSteps(id, r),
                        !.commit = NonlinearWaves(id, r)]

-----------------------------------------------------------------------------
(* What a unit does for a task it took. *)
IsVector(task) == task.op \notin {"LINEAR", "QK", "PV"}
PacketCount(task) == IF IsVector(task) THEN task.rows * task.blocks ELSE Packets

(* The row and block of the i-th packet of a vector task.                  *)
RowBlock(task, cu, i) ==
    IF task.split THEN <<0, i * Cus + cu>>
    ELSE <<(i \div task.blocks) * Cus + cu, i % task.blocks>>

VectorProgram(task, cu, out) ==
    LET packet(i) == Packet(task.id, task.op, RowBlock(task, cu, i)[1],
                            RowBlock(task, cu, i)[2])
    IN  IF task.op = "RMSNORM"
        THEN For(task.blocks, LAMBDA b :
                 Take(<<"vector", cu>>, Packet(task.id, "WEIGHT", 0, b)))
             \o For(task.rows, LAMBDA row :
                  For(task.blocks, LAMBDA b :
                      Take(<<"vector", cu>>, packet(row * task.blocks + b)))
                  \o For(task.blocks, LAMBDA b :
                      Put(<<out, cu>>, packet(row * task.blocks + b))))
        ELSE For(PacketCount(task), LAMBDA i :
                 Take(<<"vector", cu>>, packet(i)) \o Put(<<out, cu>>, packet(i)))

(* What a beat of a matrix task brings, and the task's result packets.      *)
BeatOperands(task, k) ==
    IF task.op = "LINEAR"
    THEN <<<<task.id, task.op, k>>,
           WeightWord({ <<Layer, task.n, task.elemBase \div OutputsPerWave, k>> })>>
    ELSE <<task.id, task.op, task.wave, k>>
MatrixResult(task, packet) ==
    <<task.id, task.op,
      IF task.op = "LINEAR" THEN task.elemBase ELSE task.wave, packet>>

MatrixProgram(task, cu, out) ==
    For(task.k, LAMBDA k : Take(<<"matrix", cu>>, BeatOperands(task, k)))
      \o For(Packets, LAMBDA p : Put(<<out, cu>>, MatrixResult(task, p)))

(***************************************************************************)
(* The asynchronous unit: the dispatcher hands a task to its worker and    *)
(* the number of its packets to the merge, before it reads the next task;  *)
(* after the last task it stops the workers.                               *)
(***************************************************************************)
DispatchProgram(task, cu, last) ==
    Put(<<IF IsVector(task) THEN "vtask" ELSE "mtask", cu>>, task)
      \o Put(<<"order", cu>>, [vector |-> IsVector(task),
                               packets |-> PacketCount(task)])
      \o (IF last THEN Put(<<"mtask", cu>>, Stop) \o Put(<<"vtask", cu>>, Stop)
          ELSE <<>>)

MergeProgram(order, cu) ==
    For(order.packets, LAMBDA p :
      Move(<<IF order.vector THEN "vres" ELSE "mres", cu>>, <<"out", cu>>, AnyWord))

UnitProgram(name, cu, word, left) ==
    CASE name = "unit" -> IF IsVector(word) THEN VectorProgram(word, cu, "out")
                          ELSE MatrixProgram(word, cu, "out")
      [] name = "dispatch" -> DispatchProgram(word, cu, left = 1)
      [] name = "matrix" -> MatrixProgram(word, cu, "mres")
      [] name = "vector" -> VectorProgram(word, cu, "vres")
      [] name = "merge" -> MergeProgram(word, cu)

Source(name) ==
    CASE name \in {"unit", "dispatch"} -> "task"
      [] name = "matrix" -> "mtask"
      [] name = "vector" -> "vtask"
      [] name = "merge" -> "order"

(* task_count: the tasks of all regions for the unit; a worker has no count *)
(* and runs until it is stopped.                                           *)
TasksOf(program, cu) ==
    Len(SelectSeq(program, LAMBDA op : op.act = "put" /\ op.to = <<"task", cu>>))
TaskCount(cu) ==
    LET tasks[i \in 0..Len(launch.regions)] ==
            IF i = 0 THEN 0
            ELSE LET programs == RegionPrograms(i, launch.regions[i])
                 IN  tasks[i - 1] + TasksOf(programs.drive, cu)
                                  + TasksOf(programs.emit, cu)
    IN  tasks[Len(launch.regions)]

-----------------------------------------------------------------------------
Init ==
    /\ launch \in Launches
    /\ region = 0
    /\ chan = [c \in Channels |-> <<>>]
    /\ proc = [p \in Processes |->
                 [todo |-> <<>>,
                  left |-> IF p \in Controller THEN 0
                           ELSE IF p[1] \in {"matrix", "vector"} THEN 1
                           ELSE TaskCount(p[2])]]

RegionDone == \A p \in Controller : proc[p].todo = <<>>

OpenRegion ==
    /\ RegionDone
    /\ region < Len(launch.regions)
    /\ region' = region + 1
    /\ LET programs == RegionPrograms(region + 1, launch.regions[region + 1])
       IN  proc' = [p \in Processes |->
                      IF p \in Controller
                      THEN [proc[p] EXCEPT !.todo = programs[p[1]]] ELSE proc[p]]
    /\ UNCHANGED <<launch, chan>>

Room(c) == Len(chan[c]) < Depth(c)
Advance(p) == proc' = [proc EXCEPT ![p].todo = Tail(@)]

TakeWord(p) ==
    LET op == Head(proc[p].todo)
    IN  /\ proc[p].todo # <<>> /\ op.act = "take"
        /\ chan[op.from] # <<>>
        /\ chan' = [chan EXCEPT ![op.from] = Tail(@)]
        /\ Advance(p)
        /\ UNCHANGED <<launch, region>>

PutWord(p) ==
    LET op == Head(proc[p].todo)
    IN  /\ proc[p].todo # <<>> /\ op.act = "put"
        /\ Room(op.to)
        /\ chan' = [chan EXCEPT ![op.to] = Append(@, op.word)]
        /\ Advance(p)
        /\ UNCHANGED <<launch, region>>

MoveWord(p) ==
    LET op == Head(proc[p].todo)
        word == Head(chan[op.from])
    IN  /\ proc[p].todo # <<>> /\ op.act \in {"move", "beat"}
        /\ chan[op.from] # <<>> /\ Room(op.to)
        /\ chan' = [chan EXCEPT
             ![op.from] = Tail(@),
             ![op.to] = Append(@, IF op.act = "move" THEN word
                                  ELSE <<op.activation, word>>)]
        /\ Advance(p)
        /\ UNCHANGED <<launch, region>>

(* A process of a unit reads its next task, order or stop token.           *)
TakeTask(p) ==
    LET source == <<Source(p[1]), p[2]>>
        word == Head(chan[source])
        worker == p[1] \in {"matrix", "vector"}
        stopped == worker /\ word.op = "STOP"
    IN  /\ proc[p].todo = <<>> /\ proc[p].left > 0
        /\ chan[source] # <<>>
        /\ chan' = [chan EXCEPT ![source] = Tail(@)]
        /\ proc' = [proc EXCEPT ![p] =
             [todo |-> IF stopped THEN <<>>
                       ELSE UnitProgram(p[1], p[2], word, @.left),
              left |-> IF worker /\ ~stopped THEN @.left ELSE @.left - 1]]
        /\ UNCHANGED <<launch, region>>

Next ==
    \/ OpenRegion
    \/ \E p \in Processes : TakeWord(p) \/ PutWord(p) \/ MoveWord(p)
    \/ \E p \in Units : TakeTask(p)

(***************************************************************************)
(* Every process is hardware that runs free: while some process can move,  *)
(* one of them does.                                                       *)
(***************************************************************************)
Spec == Init /\ [][Next]_vars /\ WF_vars(Next)

-----------------------------------------------------------------------------
(* The next word of process p is the one p takes it for.                    *)
GetsItsWord(p, names) ==
    LET op == Head(proc[p].todo)
    IN  (/\ proc[p].todo # <<>> /\ op.act # "put" /\ op.word # AnyWord
         /\ op.from[1] \in names /\ chan[op.from] # <<>>)
          => Head(chan[op.from]) = op.word

(***************************************************************************)
(* What a unit or the driver multiplies is what the task names: the weight *)
(* word that comes with beat k of a wave is the one the host stored for    *)
(* the outputs of that wave and input k, and nothing else is stored there; *)
(* an activation, a norm weight, a probability scale is the one of the     *)
(* task's region, row and wave.  Nothing in the words says so: both sides  *)
(* count (drive_quantized_projection_wave_range_banked,                    *)
(* emit_quantized_attention_pv_from_pipe, emit_quantized_vector_operands). *)
(***************************************************************************)
OperandsMatchTask ==
    \A p \in Processes : GetsItsWord(p, OperandNames)

(***************************************************************************)
(* Results come back in the order the collector expects them, also when a  *)
(* vector task rides on a projection and the unit's workers run side by    *)
(* side: the collector stores a SiLU or RMSNorm result by its position in  *)
(* the stream (collect_quantized_projection_with_lookahead).               *)
(***************************************************************************)
ResultsInOrder ==
    \A p \in Processes : GetsItsWord(p, ResultNames)

(***************************************************************************)
(* When the processes of a region have returned, nothing is left in any    *)
(* FIFO but the stop tokens: a word left over would be taken by the next   *)
(* region, which counts from zero (run_quantized_projection_with_lookahead, *)
(* run_quantized_vector_exchange).                                         *)
(***************************************************************************)
RegionsDrain ==
    RegionDone =>
      \A c \in Channels :
        chan[c] = <<>> \/ (c[1] \in {"mtask", "vtask"} /\ chan[c] = <<Stop>>)

(***************************************************************************)
(* Every launch ends, whatever the relative speed of the processes: the    *)
(* controller runs its last region to the end, and every unit serves its   *)
(* task count and returns, although the FIFOs are shorter than a task's    *)
(* operands, a task's results and a wave's activations.                    *)
(***************************************************************************)
LaunchDone ==
    /\ region = Len(launch.regions)
    /\ \A p \in Processes : proc[p].todo = <<>> /\ proc[p].left = 0
EveryLaunchCompletes == <>LaunchDone
=============================================================================
