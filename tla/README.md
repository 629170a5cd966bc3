# LLM-ACCEL in TLA+

A verification development of the LLM-ACCEL accelerator (the 8x64 dual-core
design under `kernel/`, `include/` and `host/`, and the quantized layer under
`cases/quantized-layer/`): TLA+ modules translated from
the source, TLC configurations that check them on small instances (one of them
at the built size), and TLAPS proofs for every value of the constants.  Paths
below are relative to the repository.

## 1. The system

A Qwen-shaped decoder runs on an FPGA as three kinds of free-running kernels
connected by streams, driven by one OpenCL host thread.

    host  --args-->  controller  ==4 operand links==>  adapters ==> compute core 0
      |                  |       <=result link=======  adapters <==
      |                  |       (the same for compute core 1)
      |                  +--status word--> status sink --> host
      +-- buffers: two hidden-state pairs, norm/RoPE tables, K/V caches, weights

| part | state it keeps | operations | interacts through |
|---|---|---|---|
| Host inference loop (`host/host_qwen_8x64.cpp`, `qwen_executor_t`, `main`) | token sequence, current hidden row, position | prompt blocks, token passes, sampling, feeding back | calls of the runtime |
| Host accelerator runtime (`accelerator_t`, `include/host_coarse_task_program.hpp`) | device and host copies of two buffer pairs, port bindings, tables and their valid flag | stack program, single task, resident layer, plain operator, checkpoint callback | OpenCL buffers and kernel arguments |
| Dual-core controller (`kernel/control_cache_8x64.cpp`) | four on-chip banks, query and K blocks, scratch, counters; K/V caches in HBM | one coarse operator per launch, as a sequence of exchanges with the cores | tasks, operands and results on streams; one status |
| Weight network (`load_cc8_weight_panels*` and the wave drivers of the controller) | FIFOs of packed words, enables and packets; counters of the region | read the two shards of a tile block, emit packets per slot, pair them with beats | 16 HBM shards; operand streams of the cores |
| Adapters (`*_nk.cpp`, `include/vitis_stream_8x64.hpp`) | FIFOs, the task being forwarded | pack and unpack tasks, operands, results, status | bounded FIFOs and AXIS links |
| Compute cores (`kernel/compute_core_8x64_unified.cpp`) | the current task, accumulators | MM wave, RMSNORM, SOFTMAX, SILU_MUL, RESIDUAL_ADD, STOP | streams |
| Status sink (`kernel/cc8_status_sink.cpp`) | one status word | unpack a word into a host buffer | status stream |
| Host checks (the `verify-*`, `profile-*` and `diagnose-*` modes of `host_qwen_8x64.cpp`) | tensors, the verdict so far | launch, compute a golden, compare | calls of the runtime; the device's caches across launches |
| Quantized layer controller (`cases/quantized-layer/`, W4) | working banks per block, two lookahead banks, K/V cache, activation scale | one prefill request as blocks of rows, one decode request | tasks, operands and results of four compute units |
| Quantized compute units (`quantized_async_compute.hpp`, `compute_core_quantized_w4_unified.cpp`) | dispatcher, matrix worker, vector worker, result writer and the order between them | one task per word of the task stream | bounded FIFOs |

### What is hard about it

* *Blocking on finite FIFOs.*  Packets carry no stream tag and processes never
  poll.  Four sides (driver, two adapters, core) must agree on the order of
  every stream, for every operator, row count and core mask, and whoever sends
  a whole panel before reading relies on the network holding it.
* *Ending a session.*  The cores' loops end on a last or STOP task only.  A
  core may have no work at all (one token row, a mask, an empty wave range, a
  rejected launch) and must still be told to stop, once.
* *Overlap.*  Driver and collector of an exchange run side by side (with the
  cross-wave dataflow, those of all waves of a projection), while four banks are
  reused by thirteen exchanges and the context overwrites V row by row.
* *Counting instead of tags.*  A weight packet does not say which wave, tile or
  lane it is of.  Loaders, emitters and driver count the same work from
  different arguments, over FIFOs of one or two words, and run ahead of each
  other across waves.
* *Two layouts of one cache.*  K is stored row-major and transposed; a position
  is one lane of a word that is read, modified and written.
* *State across calls.*  Buffer pairs alternate from task to task; ports are
  rebound; plain operators overwrite the tables a later program needs; calls
  throw or are stopped by a callback midway.
* *Arithmetic with a memory.*  Online softmax carries a maximum, a sum and an
  accumulator from tile to tile, per query head and token; a step that is wrong
  only when the maximum moves, or only in a masked tile, passes short contexts.
* *Checks that check.*  A host check launches many operators and reports one
  verdict; it is worth something only if each fault it is there for makes it fail.
* *Two sides that count apart.*  The host tells each quantized unit how many
  tasks to serve, from a closed formula; the controller sends them block by block,
  with lookahead, overlap and a short last block.
* *Limits.*  The services' loop bound, the static budget of a launch, the bit
  widths of the status word, the last partial tile, the end of the cache.

The `hazards` of `PROJECT.json` list these one by one at their source lines,
with the properties that would catch each going wrong.

### What makes each part correct

* Streams: everyone takes the word it believes it takes; no result is left to
  the next exchange, no word to the next launch; every launch completes; the
  status counts the work done.
* Data path: a task returns the layer's function of its input rows and of the
  cache up to each row's position, and appends exactly its rows to the cache.
* Weight network: every beat meets the weights of its wave and input; a region
  leaves nothing in its FIFOs; it ends whichever cores are on.
* Status path: the services end only on the task that ends the session; counts
  are the work done and reach the host; the host accepts a launch exactly when
  the controller did.
* Runtime: the caller gets all sublayers it asked for, once, in order, on its
  input, or nothing; between calls ports and tables are as every call expects.
* Attention: over any number of tiles the row operators and the block-prefill
  operator give the softmax over exactly the visible positions, of K and V as
  the caches or the bypass hold them.
* Host checks: a check that passes excludes the faults its goldens can see; a
  correct device fails none, except by rounding where a golden that decides rounds
  elsewhere than the device (section 6).
* Quantized layer: blocks, banks, lookahead and overlap leave the layer's
  function of each block's rows; each unit gets the tasks it was told to expect;
  every word meets the task it belongs to; no region blocks.
* Decode loop: every token is sampled from the row that full causal attention
  over the whole sequence gives; no cache row is written twice; no pass is
  wasted; the run ends.

## 2. Modules

| module | models | abstracts |
|---|---|---|
| `NkTask` | task records and, per process and task, the sequence of words taken and put | payloads: a word is <<exchange, wave, index>> |
| `NkController` | argument checks, the exchanges of every operator as two-sided blocks, the counters | data, weights |
| `NkSession` | controller, adapters, cores, FIFOs, host and sink as interleaved processes | values |
| `NkSession_proofs` | its theorems | |
| `LayerMath` | a decoder layer as symbolic terms over slices | fixed-point arithmetic |
| `DecoderLayer` | *abstract:* one resident task appends rows and returns the layer's function | banks, exchanges |
| `ResidentLayer` | banks, scratch, query and K blocks, both K layouts, driver and collector, causal walk, store | words within a unit; online softmax is one operation |
| `ResidentLayer_proofs` | its theorems | |
| `WeightPanels` | enable distributor, loaders, slot emitters and driver over their FIFOs, per-wave and whole-projection regions, profile clamps | a weight is its place in the shards; activations; the cores take every beat |
| `WeightPanels_proofs` | its theorems | |
| `LaunchStatus` | stages of a launch, service loop bound, counters, packed status word, host acceptance | streams inside a stage |
| `LaunchStatus_proofs` | its theorems | |
| `HiddenStack` | *abstract:* a list of sublayers applied once, in order | buffers, bindings, tables |
| `CoarseTaskRuntime` | the runtime's buffers, ports, tables, programs, checkpoints, failures | arithmetic; a tensor is its input and the operations applied |
| `CoarseTaskRuntime_proofs` | its theorems | |
| `GreedyDecode` | *abstract:* sampling from full causal attention over the sequence | blocks, cache |
| `DecodeLoop` | prompt blocks, passes layer by layer, cache, released rows, sampling | a row is the tree of rows it was computed from |
| `DecodeLoop_proofs` | its theorems | |
| `AttentionMath` | score, mask, maximum, exponential, sum, rescale, quotient of one row | e^x by 2^x in units of 2^-8, exact; a quotient is a fraction |
| `CausalAttention` | *abstract:* softmax over the visible positions in one pass | tiles, waves, state |
| `FlashAttention` | the attention operators tile by tile: panels, both K images, probabilities, state per head and row, PV by waves, block prefill | streams; one value per head and wave |
| `FlashAttention_proofs` | its theorems | |
| `GoldenMath` | the oracles of the host as terms; attention with the place of its roundings | fixed-point arithmetic |
| `HostChecks` | the programs of the checking modes, the caches and tables they leave on the device, one fault of the device, data for which roundings part | timing, reports, the size of an error |
| `QuantizedTasks` | waves, unit masks, shard layout, row and block splits, attention units, the host's task counts | data |
| `QuantizedMath` | the quantized layer's operations as terms | fixed-point arithmetic |
| `QuantizedBlocks` | *abstract:* blocks of rows in order, each the layer's function of its rows and the cache | banks, overlap |
| `QuantizedLayer` | banks, scales, lookahead, overlap regions, cache, attention waves, tasks sent per unit, the host's two requests | streams; a row's contexts are a set over heads |
| `QuantizedLayer_proofs` | its theorems, and those on the two sides' layouts | |
| `QuantizedStreams` | the dataflow regions of the controller and the processes of the units over their FIFOs | values; a word is what it carries |
| `MC*` | constants of the runs | |

The layers fit together by what each takes for granted of the next.
`DecodeLoop` treats a pass as layers applied in order to its rows; that is what
`CoarseTaskRuntime` implements of `HiddenStack`.  The runtime treats a resident
task as one operation; that is what `ResidentLayer` implements of
`DecoderLayer`.  `ResidentLayer` treats an exchange as units in flight between
driver and collector and online softmax as one operation; the second is what
`FlashAttention` implements of `CausalAttention`.  `LaunchStatus` treats a stage as one step; that the streams
deliver them in order, drain and never block is what `NkSession` checks.
`NkSession` has the controller produce an operand beat in one step; that weights
for it arrive, and the right ones, is what `WeightPanels` checks.  The
quantized design has the same two levels: `QuantizedLayer` takes a region as a
few steps, `QuantizedStreams` runs the processes of a region, and both take their
tasks and addresses from `QuantizedTasks`.

Operators named with the comment `\* fault`, each placed right before the
definition it varies, are plausible wrong versions of a definition.  They are
used by no specification; substituting one for its definition makes the
property named for it in `PROJECT.json` (`mutants`) fail, so that every property
is known to depend on the code it is about.

### State and actions against the code

**NkSession.**  `chan` holds the FIFOs of `control_cache_8x64_nk.cpp` and
`compute_core_8x64_nk.cpp`: on each link, hop 0 is the controller's side and hop
`Hops` the core's.  `proc` holds, for the forwarder processes (`in`: packers and
unpackers of operands; `out`: of results) and the cores, the rest of the
program of the task at work and how many tasks were fetched.  `ctl` is the
controller's position: the block number and what is left of its emitting and
collecting side.  A block is a dataflow region (both sides) or a sequential call
(one side): the next starts when both are done, which is the barrier the code
has there.  Actions: `Launch` (`execute_bound_resident_task`), `EnterBlock`,
`Emit`, `Collect`, `SendStatus`, `Fetch` (the task loops, including the bound
`CU8_MAX_TASKS_PER_LAUNCH`), `Step` (one word of an inner loop), `StartSink`
(the status kernel is enqueued only when the others returned) and `ReadStatus`.

**ResidentLayer.**  `bank` is `hidden0`, `hidden1`, `gbuf0` (wide0) and `gbuf1`
(wide1); `Steps` lists the exchanges of an operator with their banks.  `Drive`
computes the next unit from the banks *as they are at that moment* and puts it
in flight; `Collect` stores it, into the destination or into the scratch that
in-place and overlapped exchanges use; `EndStep` copies the scratch and keeps
query and K rows.  `StoreCurrent`, `LoadTile`, `EndRow`, `EndWalk` are the
causal walk.  `overlap` is the build option, chosen once in `Init`.  Local
buffers hold `Junk` at every launch: reading before writing shows as a wrong
term.

**WeightPanels.**  `words`, `enables` and `packets` are `packed_stream`,
`enable_stream` and `tile_stream`; `loader`, `distributed`, `emitter` and
`driver` are the loop positions of the processes of a region.  `StartTask` is a
projection of a resident task, `StartOperator` a projection operator with the
clamps on its profile arguments; an empty wave range starts nothing.  `Load`,
`Distribute`, `ReadEnable`, `ReadWord`, `EmitPacket` and `Drive` are one
iteration of the loops each (an emitter reads the words of a tile one after the
other, as blocking reads do).  `NextRegion` and `Finish` fire when all have
returned; FIFOs are *not* emptied there, so a word left over would reach the
next wave.  A word is `<<shard, local block>>`; `HostWeight` is the index of the
host's own reader of packed weights (`projection_weight_raw`), written
independently of the loaders' address arithmetic.

**LaunchStatus.**  `Emit` sends the next stage's tasks, `Serve` lets a core run
what its loop bound allows, `Collect` adds the counters, `SendStatus` packs the
word field by field, `CheckStatus` is the host's `check_status`.

**CoarseTaskRuntime.**  `dev` and `host` are the two copies of the two pairs,
`ports` the binding, `aux` the two table buffers and the valid flag.
`StartProgram` and `StartLaunch` are the preparations of the two kinds of call,
`RunTask` and `RunLaunch` execute, `Checkpoint` copies back and calls the
callback, `Finish`, `FinishStopped` and `Fail` are the three ways out, each with
the port restoration the code has on it.  `Fail` may strike before any task.

**FlashAttention.**  `Start` checks the arguments and sets up a job; `pc` walks
the controller's loop: `StoreCurrent`, `LoadTile` (the current row comes from the
bypass), `Scores`, `Softmax` (`compute_cc8_flash_probabilities`), `Rescale` and
`Values` per output wave, `Advance` to the next tile or head, `StoreOutput` with
the division.  `state` is the maximum, sum and accumulator per core, head and row;
for block prefill one per slot.  `scores` and `probs` keep stale columns where the
code does.  The caches survive launches.  `ops` is the set of operators of one run:
the diagnostic operators in one, the layer operators in the other, as no mode of
the host mixes them.

**HostChecks.**  `Program` is the sequence of steps of a mode: `feature`, `smoke`,
`task`, `block attention`, `waves` and `nop` launches, host computations, and
`check`s; a `check` gates or is a diagnostic.  Each launch reads and writes the device's caches and ports 4 and 5 as
the runtime binds them.  The device is right but for `fault`: an operator, a K/V
store, unloaded weights, the counters or the status.  `pass` is the conjunction of
the gating comparisons; a status the host rejects throws.

A term of attention names its rounding: the device's DECODE_SMOKE rounds per tile in
Q8.8 (`"tile"`), its resident layers and block attention with Q2.14 probabilities
(`"q2.14"`); the goldens are `golden_flash_attention` (`"whole"`),
`golden_tiled_flash_attention` and its variants, and `golden_flash_attention_reference`
(`"double"`).  In one tile `"whole"` and `"tile"` are the same computation
(`RoundingOf`).  Whether two roundings part by more than a tolerance depends on the data,
which are symbols here: `drift` is that choice, made once.  Without it all roundings
count as one; with it any two differ, which is more than any data do.

**QuantizedLayer.**  `RunPrefill` and `RunDecode` are the two requests of
`host_control_cache_quantized_w4_layer_hwemu.cpp`, which sets `bound` for each
unit first.  `LoadBlock` or `AdoptPrepared` opens a block; the step actions are
what comes before a projection; the region actions are the processes of
`run_quantized_block_projection`, in any order their streams allow;
`CloseBlock` writes the rows back.  Banks hold `Junk` at the start of a block but for
the two lookahead banks.  `issued` counts the tasks sent to each unit.

**QuantizedStreams.**  Each process runs a straight program of blocking takes and
puts.  `OpenRegion` gives the controller's processes the programs of the next
region; a unit's processes get theirs from the task word they take.  `launch` chooses
the build (asynchronous unit or sequential, overlap or not) and its regions.

**DecodeLoop.**  `PromptBlock` starts a pass over the next block (coarse mode)
or token; `Layer` runs one layer of it: all rows append K/V, then each attends to
positions up to its own; `Return` keeps the last row when the pass materializes;
`SampleToken` pushes a token and, unless it is the last, starts its pass.

## 3. Runs

| run | instance | shows |
|---|---|---|
| `nk_launches` | every kind of launch: 0 to 5 rows on 2+2 row ports, every vector operator, softmax diagnostic, NOP, projections of 0 to 2 waves on three core masks, decoder layer, each sublayer, block prefill, contexts of a full and of a partial tile, rejected launches; overlapped waves | order, results to their exchange, drained FIFOs, counts, completion |
| `nk_wave_repeat` | the build with repeated MM tasks and a barrier per wave, an FFN sublayer and masked projections, links of two hops as in the source | order, completion |
| `resident_layer` | 7 tasks on 2 layers, 1 to 3 rows over 2+2 rows, 6 positions, tiles of 4, words of 2, both build options | refinement of `DecoderLayer`, layouts, causality, stable sources |
| `weight_panels` | 2 layers of 2 projections, tiles of 2 by 4, two slots, 1 and 2 waves of which the last is half empty, wave ranges inside and past the end, K limits on and off the tile grid, every mask, zero streams; one-word FIFOs | each beat its weights, regions drain, completion |
| `launch_counts` | built Qwen size: 2048 positions, 224 projection waves, tiles of 64 and 32; 0 to 9 rows at 13 positions, all operators | loop bound, static budget, counters, widths, acceptance |
| `launch_wave_count` | the same | a disagreement, see section 6 |
| `coarse_tasks` | 2 layers, 3 positions, 2 inputs, all kinds of calls in any sequence | refinement of `HiddenStack`, ports, tables, chain, checkpoints |
| `decode_loop` | prompts of 1 to 5 tokens, blocks 0 to 4 (limit 3), 0 to 3 new tokens, cache of 6, 2 layers, both modes | refinement of `GreedyDecode`, cache rows, no wasted pass, termination |
| `flash_attention` | contexts of up to five positions in tiles of 2 (a full, a partial, a third tile), two heads per group, two output waves, keys of both signs; any sequence of launches of the diagnostic operators, and of the layer operators | exact online state, refinement of `CausalAttention` |
| `host_checks` | 24 modes with arguments inside and just outside their ranges, at most three positions, blocks of two, two layers, 18 single faults and none, data that keep roundings together or not | what a pass excludes; no false alarm but by a rounding in the modes of `RoundsApart` |
| `quantized_layer` | three units, prompts of one to five rows in blocks of one to three, then a decode row; builds with and without lookahead and overlap | refinement of `QuantizedBlocks`, task counts |
| `quantized_streams` | two units, one-word FIFOs; Up with riding SiLU, Down with riding RMSNORM, vector tasks by rows and by columns, serial and pipelined attention of two waves; asynchronous and sequential units | each operand its task, results in order, drained regions, completion |

### Why the bounds are enough

* *FIFO depths are 2 everywhere*, the smallest the source allows (its
  `static_assert`s) and less than it builds (16 for data).  The processes are
  deterministic and only block, so what completes with small FIFOs completes
  with larger ones; the real depths are the easy case.  `PairLatency` exceeds
  what the FIFOs of an instance hold, so a binary pipeline that waits for more
  operands before its first result is exercised; `Packets` and `Blocks` of 2
  give every loop a first and a last iteration.
* *Hops.*  The deployed links have two forwarding processes in series;
  `nk_wave_repeat` uses two, `nk_launches` one: forwarders of the same
  program in series change buffering, not order.
* *Row ports of 1 or 2 rows* give: no row, core 0 only, an uneven split, both
  full, one row too many.
* *ResidentLayer* has positions inside, at and after a word and a tile, a row
  block that crosses a tile, a second task that rewrites the positions of an
  earlier one (stale entries), and one whose rows do not fit.  Two units in
  flight are enough for a result to overtake the driver's next read.
* *LaunchStatus* runs at built size; its positions are the ends of the cache, of
  tiles, and where fields come near their widths.
* *WeightPanels* has FIFOs of one word (the smallest the `static_assert` admits;
  the build has two) and two packets.  One slot per core keeps the run small; a
  core's four slots are alike and are emitted and read in the same order.  An odd
  number of tiles per layer starts layer 1 in the other half of the shards.
  Whole-projection regions are run for resident tasks and per-wave regions for
  operators, over the same FIFOs, in any sequence.
* *CoarseTaskRuntime*, *ResidentLayer*, *DecodeLoop*: every invariant, action
  property and refinement these runs check is proved for all sizes (section 4), as are
  both invariants of *WeightPanels*, the invariant and the refinement of *FlashAttention*,
  the properties of *QuantizedLayer*, the five of `launch_counts` of *LaunchStatus* and
  three of the four of *NkSession*.  There the runs found the formulas
  and carry the mutants, and the bounds matter for nothing else.
* *FlashAttention* has three tiles at most, so that state passes through a tile
  that raises the maximum and one that does not, and a partial last tile.  Scores stay
  within the clamp of the exponential table (-8 to 0 after the maximum is
  subtracted; `EntryAssumption`), where 2^x in units of 2^-8 is exact: an error found
  there is one of order or bookkeeping, never of rounding.
* *HostChecks* starts each mode on a fresh accelerator, as a process does.  Two
  positions per tile and two tokens per block give a first and a last block, and
  contexts within one tile and past it.
* *QuantizedLayer*: three units make the last projection wave partial, and leave a
  unit out of a split row; blocks of 3, 2 and 1 rows give full and short tail blocks.
  One layer: the runtime's own loop over requests is the host's.
* *QuantizedStreams*: one word per FIFO, less than any of the code's.  The processes
  are deterministic and only block, so larger FIFOs add no deadlock.  The score pipe
  keeps its frame: with one word less the run blocks (its mutant).  Activation and
  weight streams of a unit, written and read by the same processes in the same order,
  are one FIFO, and so are the two vector operands: that only couples them more.
* *DecodeLoop*: prompts shorter than, equal to and longer than a block and
  several blocks, ending at and past the cache.  Two layers distinguish a row
  from its context.

### Fairness

Four specifications have liveness properties.  `NkSession` assumes
`WF_vars(Next)`: while some process can advance, one does, which is the clock.
Nothing is assumed of any single process, and none is needed: the processes block
and never poll, so a launch has finitely many steps.  `WeightPanels` assumes the same
of the processes of a region (`WF_vars(Network)`), and that the cores take every
beat, which is `LaunchCompletes`.  `QuantizedStreams` assumes `WF_vars(Next)` for the
same reason as `NkSession`.  `DecodeLoop` assumes
`WF_vars(Progress)`: the one host thread keeps running until it returns; that a
device call returns is `LaunchCompletes`.  The other specifications are safety
only.  Deadlock is checked wherever the system should go on or end in a loop in
place (`Exited`, `Ended`) that stands for a process that has returned.
`HostChecks`, `QuantizedLayer` and `QuantizedStreams` stop where the host process
or the launch ends, so TLC cannot tell an end from a stop there.  In the last two
`TasksAsCounted` and `EveryLaunchCompletes` cover what an early stop would leave
undone; `HostChecks` is a straight program whose steps are always enabled.

## 4. Proofs

A proof module per component; each extends the component's module and nothing is
assumed but the named assumptions on its constants.

### `CoarseTaskRuntime_proofs`

For every number of layers, sequence and block limit, and every set of calls:

* `WellTyped`, `PortsAreRestored`, `TablesAreLoaded`, `PingPong`,
  `CheckpointsSeeStack`: `TypeOK`, `PortsAtRest`, `TablesOnDevice`, `Chain` and
  `CheckpointsFollowStack` are invariants.
* `BuiltProgramsRun`: a program built from accepted arguments passes every check
  `run_coarse_task_program` makes before touching a buffer: those checks never
  reject a program of the builder.
* `Implementation`: `Spec => ImplementsHiddenStack`, the initial states map to
  initial states and each step to a step of `HiddenStack` or a stutter.

They rest on the named assumptions of `CoarseTaskRuntime`: `ShapeAssumption`
(the shape's numbers are positive), `CallAssumption` (calls are records of the
declared shape; a call that is no stack always materializes and has no
checkpoint, as the entry points have no such parameters) and
`NothingAssumption` (no call is the empty value).

The argument.  `IInv` is the conjunction of the five properties and `Progress`.
The properties alone are not inductive: that `Finish` returns a complete tensor
needs that a call at work was accepted (so it has at least one task), and that a
checkpoint or a stop happens only after a task of a call that has checkpoints,
which is what lets the abstract `StopEarly` take the step.  `Progress` says
both.  The lemmas on programs come first: `TaskIsSublayer` (the i-th descriptor
is the i-th sublayer asked for), `PairsAlternate` (each task reads the pair the
one before it wrote; parity of the index decides the pair) and `ApplyNext`
(applying the next task extends the prefix of sublayers by one).  Then one lemma
per action that `IInv` is kept, and one per kind of step that it maps to
`HiddenStack`.

### `DecodeLoop_proofs`

For every vocabulary, prompt, number of new tokens, number of layers, block limit
and cache length, in both modes of the host:

* `CommandsFit`: a command line that `main` accepts is never refused by a pass.
* `PassesNeeded`: a run that is done has filled, in every layer, the positions of the
  prompt and of each sampled token but the last, and no others.
* `WrittenOnce`: an action property, no cache row is overwritten.
* `Implementation`: `Spec => ImplementsGreedyDecode`.

They rest on `LoopAssumption` (positive sizes; prompts are nonempty sequences over the
vocabulary).  None of the properties is inductive: each is about rows of the past.
`IInv` says what these rows are.  `Level(l)` are the rows after layer l of causal
attention over the whole sequence so far.  `CacheHolds`: every layer's cache holds
exactly the rows of `Level` below it for the positions already covered, and for the
layers the pass at work has been through those of the pass as well.  `PassCovers`: the
rows of the pass are those of `Level` for its positions.  `HiddenIsLast`: when the
whole sequence is covered, the row kept on the host is the last of the last level, or
the pass at work will bring it.  That a level of a longer sequence extends the same
level of a shorter one (`RowsOfPrefix`) is why sampling invalidates nothing; it is an
induction over layers, done with the least counterexample (`SetInduction`), as
`Rows` is a recursive function.

### `ResidentLayer_proofs`

For every number of layers, rows, rows per core, slices, positions, tile and word size,
number of units in flight and set of tasks, with and without the overlap of waves:

* `Layouts`: the two K layouts agree at every position.
* `Causal`: the context of a row at work is the cached rows up to its own position.
* `Stable`: an action property, an exchange that still has units to drive leaves the
  bank they are computed from alone.
* `Implementation`: `Spec => ImplementsDecoderLayer`.

They rest on `RowAssumption` (positive sizes, the rows are those of two ports),
`TileAssumption` (tiles and the cache are whole words, as the source's
`static_assert`s have it) and `TaskAssumption`.  Only `LayoutsAgree` is nearly
inductive.  `IInv` adds: `Held`, what every bank and buffer holds at each of the
thirteen steps, as far as a later step reads it; `Exchange`, the units in flight are
the values of the operands as they *still* are and the stored ones are in their cells,
though driver and collector are apart; `WalkState`, which rows of the walk are done
and what the context of the row at work is.  The hard part is the bank `wide0` during
the walk, where V rows turn into attended rows one by one: the row at work has its V
stored before its cell is overwritten, and later rows still have theirs.  The other
is that storing the later rows does not change the attention of earlier ones, whose
context ends before them; only so does the abstract task, which appends all rows first
and then attends, give the same.

### `LaunchStatus_proofs`

For every shape, tile, row and packet size and every set of launches:

* `ServiceEnds`: the compute services leave their loop on the last task of a session
  and never on their bound `CU8_MAX_TASKS_PER_LAUNCH`.
* `StaticBudget`: core 0 gets at most `CC8_RESIDENT_LAYER_CORE0_TASKS_MAX` tasks in a
  resident launch.
* `CountsOfWork`: the controller's counts are the sum of the cores'.
* `Accepted`: the host accepts exactly launches that ran, and those did work.
* `CountsReach`: every field of the report but the wave count is what the controller
  put in the packet.

They rest on `ShapeAssumption` (positive sizes, two ports of rows, and
`BudgetTile <= AttnTile`, see section 6), `RequestAssumption` and `BudgetAssumption`,
which is the `static_assert` at `include/control_cache_8x64.hpp:168`.  The argument is a
budget per *prefix* of the stages: `Budget(r, k)` bounds what the first k stages send to
a core (`Budgeted`), is below the loop bound for every k short of the last stage, and at
the end is the source's constant.  With `Queue` (what is left to send is a suffix of the
stages) it gives `Ending`: a service has room for each task it is sent.  `CountsAgree`
holds with tasks that are on their way, and a stage whose results are not yet collected,
counted in.  Core 0 gets the most, as it has the first rows; the bound on a walk,
whose tiles depend on the row's position, is the one for the end of the cache.

`CountsReach` has a further assumption, `FieldAssumption`: the bounds fit the fields.
For tasks that is the source's `static_assert` (`include/vitis_stream_8x64.hpp:173`); for
packets the source asserts only the matrix tasks' (`:175`), and the theorem needs room for
`LayerVectorPackets` besides (section 6).  That the bounds bound is the proof: a service
has read as many tasks as it did (`Indexed`), so that both did at most `2 * MaxTasks`; and
the packets counted are `Packets` per matrix task and a row of blocks per row of a vector
operation (`Tally`), of which each stage of a launch adds none or one (`VectorsFollow`) and
a whole layer five, on `4 * HiddenBlocks + WideBlocks` blocks (`VectorsBound`).

### `WeightPanels_proofs`

For every tile, word, wave and FIFO size, list of projections, resident task and
operator with profile arguments:

* `Matching`: what waits for the driver is what its coming beats multiply.
* `Drain`: a region that has ended leaves its FIFOs empty.

They rest on `ShapeAssumption` (positive sizes; inputs are whole tiles and outputs
whole words) and `JobAssumption` (jobs name a layer and a projection; the core mask has
two bits, as the controller masks it).  Neither property is inductive: nothing in a
word or packet says what it is of.  `IInv` numbers them.  `Item(b, s, n)` is the n-th
word loader b has for slot s, `Carried(s, n)` the n-th packet of the slot; every FIFO
holds exactly the items from the number its reader is at to the number its writer is at
(`Flags`, `Words`, `Packets`), and the words an emitter has gathered are the next ones
(`Tile`).  Both numbers are read off the loop positions.  A loader deals its words to the
slots in turn (`DealtNext`), an emitter counts tiles and lanes, the driver counts beats
and the packets of a beat, whose slots are consecutive (`Beats`).  `Drain` is then
arithmetic: at the ends of the four loops the numbers agree, which needs `KLimits`,
that every K limit comes to whole tiles.  `Matching` is a calculation with mixed
radices (`MixedRadix`, `RowDigits`): dividing the beat by the active inputs and the packet
number by tiles and lanes names the same weight the host's index does.  Its base is a
whole number of tiles (`BaseTiles`); that `TilesBefore` is a number for every
projection is an induction over the list.

### `QuantizedLayer_proofs`

For every number of compute units, model dimension, heads and group size, rows of a
unit, position tile, prompt and block size, and every build:

* `UnitsServeWhatIsSent`: a unit is sent exactly the tasks the host lets it serve.
* `BlocksAreTheLayers`: the layer implements `QuantizedBlocks`.
* `MaskMeansOutputs`: the mask of a wave has exactly the units whose dispatch has
  outputs, so no unit gets operands without outputs or outputs without a task.
* `HostWritesWhatUnitsRead`: the unit, lane and word where the host puts a weight
  are those from which the unit that computes its output reads it.
* `WordsDistinct`: layer, projection, wave and input are determined by the word; no
  shard word is used twice.

The last three are about what the two sides compute apart in `QuantizedTasks`, and rest
on `QuantizedAssumption` alone, two facts of integer division (`DivisionUnique`,
`CeilingExceeds`) and `ProjectionsAbut`: each projection begins where the one before it
ends.  The runs `quantized_layer` and `quantized_streams` use the same definitions in
motion.  The first two rest on `QuantizedAssumption` (positive sizes), `PromptAssumption` (`MaxPrompt`
and `MaxSeq` are numbers, and the prompt leaves a position free) and
`NothingAssumption` (`Nothing` is no request and no operation).

`UnitsServeWhatIsSent` needs `CInv`.  `Counted` says for each place of the controller how many
tasks of the block a unit has been sent there (`BlockSent`), on top of those of the
blocks before (`Sum`, a function that satisfies the host's recursion; that one exists
and that it never decreases are inductions over the blocks, `SumsExist` and
`SumGrows`).  The lookahead is why this is not a sum over blocks alone: when a block
opens prepared, its first RMSNorm was sent in the Down region of the block before,
so the tasks sent while a block is at work are not the tasks counted for it.  `BlockTotal` is the point
where the two sides meet: what is sent at the close of a block is what the host
counts for it.  For that the host's closed forms are derived from the controller's
loops: the units a wave of attention uses, summed over the waves, are the assigned
units of `AttentionTasksForCu` (`WavesAssigned`, `WalkCounts`); the active waves of
the projections, summed, are its set of pairs (`ProjectionsAdd`); the rows of SiLU and
product as two tasks of the overlap build, or one.

`BlocksAreTheLayers` needs `Content` with it.  `Held` says which term each bank that will still
be read holds at each step, for all rows of the block and whatever is in the other
rows; `Moving` says the same of the results on their way in a region, of the
copied gate and of the lookahead banks, by which of the region's processes have
finished; `Merged` says that every head has merged the tiles so far, in order, which
needs that each head is worked on in the one wave that drains it
(`EveryHeadWorked`).  Then `AppendToCache` is `AppendBlock`, `CloseBlock` is
`EmitBlock`, a request's start is `Begin`, and `RestUnseen` shows that no other step
changes the abstract state.

### `NkSession_proofs`

For every shape, row split, number of hops, FIFO depth, build and set of launches, in any
sequence of launches and any interleaving of the processes:

* `OperandsStayInOrder`: a packer, unpacker or core takes from a link exactly the word
  its own loop is at.
* `ResultsReachTheirExchange`: the controller reads, in each exchange, the results of
  that exchange.
* `LinksDrainBetweenLaunches`: when the kernels of a launch have returned, every FIFO
  is empty, and there is one status packet until the sink has read it.

They rest on `BlocksAssumption`, `PacketsAssumption`, `PairLatencyAssumption`,
`TokenAssumption`, `ShapeAssumption`, `HopsAssumption` (positive sizes),
`RequestAssumption` (unsigned arguments, a mask of two bits, no more active waves than a
task loop has tasks) and `BudgetAssumption`, that the tasks of a resident layer fit the
loop.  The last is weaker than the `static_assert` at
`include/control_cache_8x64.hpp:167`, whose budget has one projection more.  The depths of
the FIFOs matter for completion only.

The difficulty is that the controller, the packers, the unpackers and the cores each
generate the same word streams with loops of their own, in four source files, and no
word says what it is of.  The proof has two halves.

*The programs agree*, which is a statement about sequences alone.  `Flow(k)` maps a
task to the words it stands for on a link of kind k.  `InputFlow`, `ResultFlow` and
`ComputeFlow` show that a packer, an unpacker and a core take and put exactly the flow of
a task, whatever its mode, repeats and counts, though their loops nest differently and a
core alternates between reading operands and writing results.  `Served(E, C, T)` says of
the controller's two sides that E sends each core its tasks `T[c]` and on every link the
flow of these tasks, and that C collects theirs.  `Carries(S, e, n)` says that a piece of
a script serves some tasks, at most n a core, of which the last and only the last ends
the session (if e).  Both are closed under joining and loops, and hold for each exchange,
in either order of the waves, then for each operator's whole script (`ScriptCarries`,
with n the bound `MaxTasks` of the task loop): this is where `BudgetAssumption` and the
controller's checks of its arguments (`StatusCode`) are needed.  The loops are recursive
functions; that each one satisfies its recursion is an induction on the count
(`CatLoopExists`), done with the least counterexample.

*The network keeps step.*  `SessionInv` is the inductive invariant.  `Balanced` says of
every FIFO that what it holds, followed by what its producer has still to put, is what
its consumer has still to take.  What a process has left is what is left of its program for
the current task and then the flow of the tasks it has yet to fetch (`TakesLeft`,
`PutsLeft`), so a step takes one word from two sides of the equation, and a fetch leaves
them as they are, by the first half.  `Resting` says that between launches all is empty and at its start.  Then an
operand is in order because the first word of the FIFO is the first word the consumer
has still to take, and a FIFO drains because both remainders are empty when all have
returned (`DrainedWhenDone`).

### `FlashAttention_proofs`

For every context length, tile size, number of heads of a group and of output waves, set
of K/V entries, and sequence of launches of any of the operators:

* `OnlineState`: between two tiles the maximum, sum and accumulator of a row are those of
  one softmax over all the positions it has seen (`OnlineStateExact`).
* `AttentionRefinement`: `Spec => ImplementsAttention`, the rows an operator stores are
  one-pass attention over the cache up to each row's own position.

They rest on `AttentionMathAssumption` and `FlashAssumption` (positive sizes; the block
operator has a row for each head of a group, as its masks take for granted),
`SessionAssumption` and `EntryAssumption`.  The last two limit what is claimed.
`SessionAssumption`: a run uses the diagnostic operators or the layer operators, not both,
because DECODE_SMOKE writes only the row-major image of K and leaves the transposed one
stale; no mode of the host mixes them.  `EntryAssumption`: the scores of a query lie within
the clamp of the exponential (8) of one another, and above `fm_t(-128)`, the first
maximum.  It is needed: past the clamp the code's online sum is *not* the golden's.  A score
16 below the maximum adds e^-8 in the golden, which sees the final maximum at once; in
the controller, where the maximum came in two steps of 8, it adds e^-16.  The
exponentials are the powers of two of `AttentionMath`; what fixed point rounds is not
in the theorem.

The argument.  A row that has seen the first n scores of its reach holds `TopOf`,
`WeightOf` and `MixOf` of them (`RowIs`), however tiles divided them.  `MixStep` is the step
of online softmax: the sum over more scores is the sum over the first ones, scaled to
the new top, plus the terms of the others.  Scaling distributes over the sum because each
term is a multiple of the power divided by (`SumScales`), and with nothing seen the sum is
zero whatever the scale (`MixNone`).  `WeightStep` is the same with values of one.  The golden's own sums, folds
over sets of positions, are `SumOver` the same positions (`SumSets`); a sum over a finite
set does not depend on the order its elements are taken in (`SumLoops`).

`IInv` says in `RowInv` which n each row of each slot is at: `Before` the tile or
`After` it, by whether the slot has been walked, and in between that the head has
moved on while the accumulator has not (rescale), and that the waves up to `wave` have and
the others are scaled (values).  A prefill row may see the whole tile, a part of it or
nothing: `Columned` says that what it sees is a prefix of the tile as long as the
difference of the two counts, so a row whose reach has ended takes a step with no scores.
`LoadedInv` says that the panels hold the cache's entries with the bypassed
current row in its place, `ScoredInv` and `ProbedInv` what the two softmax passes hand on,
`PanelInv` the single product of QK and PV.  For the refinement, `CacheView` is the image
the operators of the run read, and `CacheInv` says that it is the one they write; an
output stores, for each row, the quotient of `RowIs` at its whole reach
(`RowAtOutput`).  Sums and maxima of any number of scores are inductions on the
number, done with the least counterexample (`SetInduction`).

### Only model-checked

* Liveness (`LaunchCompletes`, `PanelsComplete`, `EveryLaunchCompletes`,
  `RunEnds`): the prover has no rule for fairness.
* The violated `StatusRoundTrip` of `LaunchStatus`, a fact about the built size.
* `StatusCountsWork` of `NkSession`: that the two ports count the same work at every
  stage is proved as `CountsOfWork` in `LaunchStatus_proofs`; here it is checked once
  more on the words themselves.
* `QuantizedStreams`, the same kind of network for the quantized layer, and
  `HostChecks`, finite tables of modes and faults: checked at the bounds above.

## 5. What is not modelled

* *Fixed-point arithmetic*: MM, RMSNorm, SiLU, RoPE and quantization are terms; the
  rounding of online softmax is absent (`FlashAttention` is exact).
* *The word streams of the diagnostic operators* ATTN_FLASH, DECODE_SMOKE, QK and PV;
  their data path is in `FlashAttention`.
* *Weight loading without the tile pipeline* (`load_cc8_weight_panels_legacy`, a
  build option that is off), and the memory ports behind the shards.
* *Profiling*: the packing of the arguments into bits and the debug stages.  The
  clamps are in `WeightPanels`; `NkSession` takes the number of waves left.
* *Host reports and timing, the basic host, the co-simulation top, scripts*: wording,
  numerics, or the same protocol without further state.
* *Of the quantized layer*: integrated and batch decode
  (`QUANTIZED_LAYER_INTEGRATED_DECODE`, `quantized_batch_decode_runtime.hpp`), the
  merged decode-rows adapter, the tile prefetch FIFO, and the W8 engine beyond the
  templates it shares; scale values.  `QuantizedLayer` emits a riding operand stream in
  one step; its streams are `QuantizedStreams`, one launch of a few regions at a time.
* *The cases* `quantized-block` (arithmetic prototypes) and `streaming-split` (an
  earlier design).
* An OpenCL failure is any step failing (`Fail`); kernels do not crash or lose
  words.  The host is one thread, and nothing is persisted.

### What a host check does not see

`PassExcludesFaults` states, per mode, what a `PASS` excludes; writing it showed what
some modes leave open, by design.  The single-row layer checks run at position 0, where
one score makes the softmax 1: a wrong Q, K, RoPE or score passes them.
`verify-random` runs no V, O or UP projection.  `profile-mm-wave` looks at counters
only.  `verify-nop-ctrl-enqueue-only` starts no status kernel and reports a status it
makes up.  Only some modes refuse to run with the weight preload skipped.

## 6. Where the code disagrees with itself

**The status word.**  `launch_wave_count` checks `StatusRoundTrip` and finds it violated.  The compact
status word keeps 8 bits of `output_waves` (`include/vitis_stream_8x64.hpp:184`).
The `static_assert` next to it bounds the waves of *one projection*, but a
resident task counts the wave slots of all its projections and attention tiles:
224 plus three per tile and row for a layer of the built shape, up to 992.  The
host therefore decodes the count modulo 256.  The round trip is what
`tests/control_cache_8x64_nk_tb.cpp` asserts, with the value 233.  `launch_counts`
shows that all other fields fit at every position.  For a
resident task the host only reports this count; where it compares it, in the
diagnostics of one projection or one attention step, the count fits.

**A golden that is an oracle in some modes and not in others.**  The block profile
(`host_qwen_8x64.cpp:7531-7534`) keeps `golden_flash_attention` as a diagnostic that
does not gate, since it "is not a valid accuracy oracle" for long contexts.
`profile-attention` (6002-6013), `-pd` (6148, 6225), `-block` (6404) and `-sublayer` (6614)
gate on it, with a tolerance of 4, at any position.  Those modes launch DECODE_SMOKE, which
narrows the product with V of each tile to Q8.8 and rescales between tiles, while this golden
narrows the whole context's once.  `NoFalseAlarm` therefore has an exception, `RoundsApart`:
these modes past one tile, and the block profile, where a golden with Q2.14 probabilities must
come within 5 of one in double precision.  The run shows both sides of it: outside
`RoundsApart` no data make a right device fail, and in it data whose roundings part make every
device fail, for the comparison gates.  That is why a failure of these modes past position 63
is not evidence of a fault by itself.

It is an exception and not a violated property because it depends on values, which are
symbols here; which positions it reaches is a question of arithmetic.  The sharp place is the
quotient: both sides round 1/sum to Q8.8, so near a sum of 512 it is one raw unit or none, and
a last-bit difference of the two sums turns into the whole result.  The saturation the comment
speaks of is not what these modes would show on their own data: their values are within 48 raw
units, so a saturated product needs probabilities that sum to more than 640, and there 1/sum
has already rounded to zero on both sides.

**Margins.**  Two facts hold today by a margin worth knowing.  The `static_assert` on the
packet count (`include/vitis_stream_8x64.hpp:175`) counts the packets of the matrix
tasks only (114688 of 131072); a layer's vector operations return up to 9600 more.  They
fit too, so no count is cut, but nothing in the source asserts it: it is an assumption of
`CountsReach`, which TLC evaluates at the built size.  The static budget counts tiles of
`ATTENTION_TILE_SIZE` (32) while the controller walks tiles of `CC8_ATTN_TILE`
(64), defined elsewhere: it is an upper bound only while the first is no larger
than the second.  Under that assumption (`BudgetTile <= AttnTile`) and the
source's own `static_assert`, `LaunchStatus_proofs` proves the budget for every shape.

## 7. Plan

In this order; the first fourteen groups are done.

1. *Done.* `NkTask`, `NkController`, `NkSession`: the streams of a launch.
2. *Done.* `HiddenStack`, `CoarseTaskRuntime` and its proofs.
3. *Done.* `LayerMath`, `DecoderLayer`, `ResidentLayer`: the data path.
4. *Done.* `LaunchStatus`: limits, counters, status word at built size.
5. *Done.* `GreedyDecode`, `DecodeLoop`: generation.
6. *Done.* `WeightPanels`: the weight network and the profile clamps.
7. *Done.* `CausalAttention`, `FlashAttention`: online softmax over tiles, the
   diagnostic operators' data path and block prefill.
8. *Done.* `GoldenMath`, `HostChecks`: what the host's checks establish.
9. *Done.* `QuantizedTasks`, `QuantizedBlocks`, `QuantizedLayer`,
   `QuantizedStreams`: the W4 layer of the quantized case.
10. *Done.* Proofs of `LaunchStatus`, `DecodeLoop` and `ResidentLayer`.
11. *Done.* Proofs of `WeightPanels`.
12. *Done.* Proofs of `QuantizedLayer` and `QuantizedTasks`.
13. *Done.* Proofs of `NkSession`.
14. *Done.* Proofs of `FlashAttention`.
15. Left: proofs of `QuantizedStreams`, along the lines of `NkSession_proofs`.
16. Left: the integrated and batch decode of the quantized layer; the wave pipeline
   inside the MM core; the streaming-split case.

## 8. Running

    tlasany M.tla
    tlc -workers 2 -config NkLaunches.cfg MCNkSession
    tlapm CoarseTaskRuntime_proofs.tla
    tlapm FlashAttention_proofs.tla
    tlapm DecodeLoop_proofs.tla
    tlapm ResidentLayer_proofs.tla
    tlapm LaunchStatus_proofs.tla
    tlapm WeightPanels_proofs.tla
    tlapm QuantizedLayer_proofs.tla
    tlapm NkSession_proofs.tla

The module and configuration of every run are in `PROJECT.json` (`runs`), the
source lines of every definition under `map`.  Each run ends within two minutes on two workers.
