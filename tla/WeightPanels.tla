---------------------------- MODULE WeightPanels ----------------------------
(***************************************************************************)
(* The weight network of a projection: one loader per block of a packed    *)
(* tile reads its two shards, one emitter per output tile of the wave      *)
(* turns the words of a tile into weight packets, and the driver pairs the *)
(* packets with activation beats.  All of them run side by side over short *)
(* blocking FIFOs, inside one dataflow region per output wave or, in a     *)
(* resident task, per projection.                                          *)
(*                                                                         *)
(* A weight is its place <<shard, local block, lane>>, so that what the    *)
(* network delivers can be compared with the place where the host's own    *)
(* index finds the weight.                                                 *)
(***************************************************************************)
EXTENDS Integers, Sequences

CONSTANTS
    Blocks,         \* MM_TILE_WEIGHT_BLOCKS: words of one packed tile
    PeIn,           \* MM_PE_IN: input lanes of a tile
    Groups,         \* MM_STREAM_8X64_WEIGHT_GROUPS: tiles of one core's wave
    WordDepth,      \* CC8_WEIGHT_TILE_FIFO_DEPTH
    PacketDepth,    \* depth of tile_stream
    CrossWave,      \* CC8_ENABLE_MM_CROSS_WAVE_DATAFLOW
    Projections,    \* the projections of a layer in packed order: [in, out]
    Tasks,          \* resident launches: [layer, p]
    Operators       \* projection operators with the profile arguments:
                    \* [layer, p, position, count, kLimit, mask, zero]

ASSUME ShapeAssumption ==
    /\ {Blocks, PeIn, Groups, WordDepth, PacketDepth} \subseteq Nat \ {0}
    /\ CrossWave \in BOOLEAN
    /\ \A i \in DOMAIN Projections :
         /\ Projections[i].in > 0 /\ Projections[i].in % PeIn = 0
         /\ Projections[i].out > 0 /\ Projections[i].out % (2 * Blocks) = 0

ASSUME JobAssumption ==
    /\ Projections \in Seq([in : Nat, out : Nat])
    /\ \A t \in Tasks : t.layer \in Nat /\ t.p \in DOMAIN Projections
    /\ \A o \in Operators :
         /\ o.layer \in Nat /\ o.p \in DOMAIN Projections
         /\ {o.position, o.count, o.kLimit} \subseteq Nat
         /\ o.mask \in 0..3 /\ o.zero \in BOOLEAN

VARIABLES
    panel,          \* the projection under way, or NoPanel
    begin, end,     \* output waves of the dataflow region that runs
    distributed,    \* enables written in the region
    loader,         \* per block: words written in the region
    emitter,        \* per slot: [wave, open, on, tile, packet]
    driver,         \* [wave, k, read]: waves and beats done, packets of a beat
    enables,        \* per slot: enable_stream
    words,          \* per block and slot: packed_stream
    packets         \* per slot: tile_stream

vars == <<panel, begin, end, distributed, loader, emitter, driver,
          enables, words, packets>>

CeilDiv(a, b) == (a + b - 1) \div b

NoPanel == <<>>
Zero == <<>>

Cores == 0..1
SlotCount == 2 * Groups
Slots == 0..(SlotCount - 1)
CoreOf(slot) == slot \div Groups
BlockIds == 0..(Blocks - 1)
PeOut == 2 * Blocks           \* a word holds the inputs of two outputs

-----------------------------------------------------------------------------
(***************************************************************************)
(* Packed layout: tiles of the projections of a layer one after another,   *)
(* layers one after another; even tiles in shards 0.., odd ones in the     *)
(* other half of the shards.                                               *)
(***************************************************************************)
TilesOf(p) == CeilDiv(p.out, PeOut) * CeilDiv(p.in, PeIn)
TilesBefore[i \in 1..(Len(Projections) + 1)] ==
    IF i = 1 THEN 0 ELSE TilesBefore[i - 1] + TilesOf(Projections[i - 1])
LayerTiles == TilesBefore[Len(Projections) + 1]
TileElems == PeIn * PeOut

(* The host's index of the weight of one output and one input.             *)
HostWeight(layer, p, output, input) ==
    LET tile == layer * LayerTiles + TilesBefore[p]
                  + (output \div PeOut) * CeilDiv(Projections[p].in, PeIn)
                  + (input \div PeIn)
        lane == ((output % PeOut) * PeIn) + (input % PeIn)
    IN <<((tile % 2) * Blocks) + (lane \div (2 * PeIn)), tile \div 2,
         lane % (2 * PeIn)>>

(* The controller's base of a projection, in elements.                     *)
WeightBase(layer, p) == (layer * LayerTiles + TilesBefore[p]) * TileElems

-----------------------------------------------------------------------------
(***************************************************************************)
(* What a launch asks of the network.  A resident task runs the whole      *)
(* projection on both cores; an operator clamps the profile arguments.     *)
(***************************************************************************)
OutputWaves(p) == CeilDiv(Projections[p].out, SlotCount * PeOut)
LimitAsGiven(limit, in) ==                                          \* fault
    IF limit = 0 \/ limit >= in THEN in ELSE limit
AlignedK(limit, in) ==
    LET whole == (limit \div PeIn) * PeIn
    IN IF limit = 0 \/ limit >= in THEN in
       ELSE IF whole = 0 THEN PeIn ELSE whole
AtMost(n, bound) == IF n > bound THEN bound ELSE n

TaskPanel(t) ==
    [layer |-> t.layer, p |-> t.p, first |-> 0, last |-> OutputWaves(t.p),
     active |-> Projections[t.p].in, cores |-> Cores, zero |-> FALSE,
     whole |-> CrossWave]

MaskCores(mask) ==
    {c \in Cores : mask = 0 \/ (mask \div (c + 1)) % 2 = 1}

PlainPanel(o) == [TaskPanel(o) EXCEPT !.whole = FALSE]
ProfilePanel(o) ==
    LET waves == OutputWaves(o.p)
        count == IF o.count # 0 THEN o.count
                 ELSE IF o.position < waves THEN waves - o.position ELSE 0
    IN [PlainPanel(o) EXCEPT
          !.first = AtMost(o.position, waves),
          !.last = AtMost(o.position + count, waves),
          !.active = AlignedK(o.kLimit, @),
          !.cores = MaskCores(o.mask),
          !.zero = o.zero]
OperatorPanel(o) ==
    IF o.count = 0 /\ o.kLimit = 0 THEN PlainPanel(o) ELSE ProfilePanel(o)

(* Quantities every process derives from its arguments.                    *)
MatrixTiles == CeilDiv(Projections[panel.p].in, PeIn)
ActiveTiles == CeilDiv(panel.active, PeIn)
WaveCount == end - begin
Enabled(slot) == CoreOf(slot) \in panel.cores
SlotsOf(core) ==
    IF core \in panel.cores THEN [g \in 1..Groups |-> core * Groups + g - 1] ELSE <<>>
BeatOrder == SlotsOf(0) \o SlotsOf(1)

-----------------------------------------------------------------------------
RestingEmitter ==
    [wave |-> 0, open |-> FALSE, on |-> FALSE, tile |-> <<>>, packet |-> 0]
RestingDriver == [wave |-> 0, k |-> 0, read |-> 0]

Init ==
    /\ panel = NoPanel
    /\ begin = 0 /\ end = 0
    /\ distributed = 0
    /\ loader = [b \in BlockIds |-> 0]
    /\ emitter = [s \in Slots |-> RestingEmitter]
    /\ driver = RestingDriver
    /\ enables = [s \in Slots |-> <<>>]
    /\ words = [b \in BlockIds |-> [s \in Slots |-> <<>>]]
    /\ packets = [s \in Slots |-> <<>>]

(* A region's processes start afresh; its FIFOs are what they are.         *)
OpenRegion(first, last) ==
    /\ begin' = first /\ end' = last
    /\ distributed' = 0
    /\ loader' = [b \in BlockIds |-> 0]
    /\ emitter' = [s \in Slots |-> RestingEmitter]
    /\ driver' = RestingDriver
    /\ UNCHANGED <<enables, words, packets>>

(* An empty wave range reaches no region.                                  *)
Start(job) ==
    /\ panel = NoPanel
    /\ job.first < job.last
    /\ panel' = job
    /\ OpenRegion(job.first, IF job.whole THEN job.last ELSE job.first + 1)

StartTask == \E t \in Tasks : Start(TaskPanel(t))
StartOperator == \E o \in Operators : Start(OperatorPanel(o))

-----------------------------------------------------------------------------
(***************************************************************************)
(* distribute_cc8_weight_enable_range: one flag per slot and wave.         *)
(***************************************************************************)
EnableDepth == 1
Distribute ==
    LET slot == distributed % SlotCount
    IN /\ panel # NoPanel
       /\ distributed < WaveCount * SlotCount
       /\ Len(enables[slot]) < EnableDepth
       /\ enables' = [enables EXCEPT ![slot] = Append(@, Enabled(slot))]
       /\ distributed' = distributed + 1
       /\ UNCHANGED <<panel, begin, end, loader, emitter, driver, words, packets>>

(***************************************************************************)
(* load_cc8_packed_weight_block_range: input tile by input tile, the slots *)
(* of a wave in order, all of them whatever cores are enabled.             *)
(***************************************************************************)
ActiveStride == ActiveTiles                                         \* fault
RowStride == MatrixTiles
WordAt(b, wave, inTile, slot) ==
    LET outTile == wave * SlotCount + slot
        tile == (WeightBase(panel.layer, panel.p) \div TileElems)
                  + outTile * RowStride + inTile
    IN IF panel.zero \/ outTile * PeOut >= Projections[panel.p].out THEN Zero
       ELSE <<((tile % 2) * Blocks) + b, tile \div 2>>

Load(b) ==
    LET perWave == ActiveTiles * SlotCount
        flat == loader[b] % perWave
        slot == flat % SlotCount
        word == WordAt(b, begin + (loader[b] \div perWave),
                       flat \div SlotCount, slot)
    IN /\ panel # NoPanel
       /\ loader[b] < WaveCount * perWave
       /\ Len(words[b][slot]) < WordDepth
       /\ words' = [words EXCEPT ![b][slot] = Append(@, word)]
       /\ loader' = [loader EXCEPT ![b] = @ + 1]
       /\ UNCHANGED <<panel, begin, end, distributed, emitter, driver,
                      enables, packets>>

(***************************************************************************)
(* emit_cc8_packed_weight_slot: the wave's flag, then per input tile its   *)
(* words block by block and one packet per lane; a slot of a core that is  *)
(* not enabled takes its words and drops the packets.                      *)
(***************************************************************************)
PacketCount == ActiveTiles * PeIn

ReadEnable(s) ==
    /\ panel # NoPanel
    /\ emitter[s].wave < WaveCount /\ ~ emitter[s].open
    /\ enables[s] # <<>>
    /\ emitter' = [emitter EXCEPT ![s].open = TRUE, ![s].on = Head(enables[s])]
    /\ enables' = [enables EXCEPT ![s] = Tail(@)]
    /\ UNCHANGED <<panel, begin, end, distributed, loader, driver, words, packets>>

EnabledTakesWords(e) == e.open /\ e.on                               \* fault
TakesWords(e) == e.open
ReadWord(s) ==
    LET b == Len(emitter[s].tile)
    IN /\ TakesWords(emitter[s])
       /\ b < Blocks
       /\ words[b][s] # <<>>
       /\ emitter' = [emitter EXCEPT ![s].tile = Append(@, Head(words[b][s]))]
       /\ words' = [words EXCEPT ![b][s] = Tail(@)]
       /\ UNCHANGED <<panel, begin, end, distributed, loader, driver,
                      enables, packets>>

(* The emitter after a packet: same tile, next tile or next wave.          *)
AfterPacket(e) ==
    IF e.packet + 1 = PacketCount THEN [RestingEmitter EXCEPT !.wave = e.wave + 1]
    ELSE [e EXCEPT !.packet = @ + 1,
                   !.tile = IF (e.packet + 1) % PeIn = 0 THEN <<>> ELSE @]

EmitPacket(s) ==
    LET e == emitter[s]
    IN /\ e.open /\ Len(e.tile) = Blocks
       /\ IF e.on
          THEN /\ Len(packets[s]) < PacketDepth
               /\ packets' = [packets EXCEPT ![s] =
                    Append(@, [tile |-> e.tile, lane |-> e.packet % PeIn])]
          ELSE UNCHANGED packets
       /\ emitter' = [emitter EXCEPT ![s] = AfterPacket(e)]
       /\ UNCHANGED <<panel, begin, end, distributed, loader, driver,
                      enables, words>>

(* Output lane r of a packet: rows 2b and 2b+1 come from word b.           *)
RowWeight(packet, r) ==
    LET word == packet.tile[(r \div 2) + 1]
    IN IF word = Zero THEN Zero
       ELSE Append(word, ((r % 2) * PeIn) + packet.lane)

(***************************************************************************)
(* emit_cc8_mm_wave_inputs_flat and _banked: per beat k one packet of      *)
(* every enabled slot, core 0's first.                                     *)
(***************************************************************************)
Drive ==
    LET slot == BeatOrder[driver.read + 1]
        beatDone == driver.read + 1 = Len(BeatOrder)
        waveDone == beatDone /\ driver.k + 1 = panel.active
    IN /\ panel # NoPanel
       /\ driver.wave < WaveCount
       /\ packets[slot] # <<>>
       /\ packets' = [packets EXCEPT ![slot] = Tail(@)]
       /\ driver' =
            IF waveDone THEN [RestingDriver EXCEPT !.wave = driver.wave + 1]
            ELSE IF beatDone THEN [driver EXCEPT !.k = @ + 1, !.read = 0]
            ELSE [driver EXCEPT !.read = @ + 1]
       /\ UNCHANGED <<panel, begin, end, distributed, loader, emitter,
                      enables, words>>

(***************************************************************************)
(* A region ends when every process has returned; then the next wave's     *)
(* opens, or the projection is done.                                       *)
(***************************************************************************)
RegionDone ==
    /\ panel # NoPanel
    /\ distributed = WaveCount * SlotCount
    /\ \A b \in BlockIds : loader[b] = WaveCount * ActiveTiles * SlotCount
    /\ \A s \in Slots : emitter[s].wave = WaveCount
    /\ driver.wave = WaveCount

NextRegion ==
    /\ RegionDone
    /\ end < panel.last
    /\ OpenRegion(end, end + 1)
    /\ UNCHANGED panel

Finish ==
    /\ RegionDone
    /\ end = panel.last
    /\ panel' = NoPanel
    /\ OpenRegion(0, 0)

Network ==
    \/ Distribute
    \/ \E b \in BlockIds : Load(b)
    \/ \E s \in Slots : ReadEnable(s)
    \/ \E s \in Slots : ReadWord(s)
    \/ \E s \in Slots : EmitPacket(s)
    \/ Drive
    \/ NextRegion
    \/ Finish

Next == StartTask \/ StartOperator \/ Network

(***************************************************************************)
(* The clock keeps running: when some process of the region can move, one  *)
(* does.  The compute cores take every beat sooner or later.               *)
(***************************************************************************)
Spec == Init /\ [][Next]_vars /\ WF_vars(Network)

-----------------------------------------------------------------------------
Due(layer, p, zero, output, input) ==
    IF zero \/ output >= Projections[p].out THEN Zero
    ELSE HostWeight(layer, p, output, input)

(***************************************************************************)
(* What waits for the driver is what its coming beats multiply: the i-th   *)
(* packet of a slot carries, in output lane r, the weight the host's index *)
(* names for that lane's output and that beat's input.  The driver pairs   *)
(* packets with activations by counting; nothing in a packet says which    *)
(* wave, tile or lane it is of (emit_cc8_mm_wave_inputs_flat).             *)
(***************************************************************************)
WeightsMatchBeats ==
    panel # NoPanel =>
      \A s \in Slots : \A i \in DOMAIN packets[s] :
        LET read == \E j \in 1..driver.read : BeatOrder[j] = s
            beat == driver.wave * panel.active + driver.k
                      + (IF read THEN i ELSE i - 1)
            wave == begin + (beat \div panel.active)
        IN \A r \in 0..(PeOut - 1) :
             RowWeight(packets[s][i], r)
               = Due(panel.layer, panel.p, panel.zero,
                     (wave * SlotCount + s) * PeOut + r, beat % panel.active)

(***************************************************************************)
(* When the processes of a region have returned, its FIFOs are empty: the  *)
(* four loops count the same work from different arguments (tiles of K,    *)
(* lanes of K, waves), and a word left over would be the first word of the *)
(* next wave (load_cc8_weight_panels_streaming).                           *)
(***************************************************************************)
RegionsDrain ==
    RegionDone =>
      \A s \in Slots :
        /\ enables[s] = <<>>
        /\ packets[s] = <<>>
        /\ \A b \in BlockIds : words[b][s] = <<>>

(***************************************************************************)
(* Every projection ends: no order of the loaders, emitters and the driver *)
(* leaves them waiting for each other over FIFOs of this depth, whichever  *)
(* cores are enabled (emit_cc8_packed_weight_slot reads the words of a     *)
(* slot it emits nothing for).                                             *)
(***************************************************************************)
PanelsComplete == panel # NoPanel ~> panel = NoPanel
=============================================================================
