----------------------------- MODULE DecodeLoop -----------------------------
(***************************************************************************)
(* The host's inference loop (main of host_qwen_8x64.cpp and               *)
(* qwen_executor_t): the prompt goes through the decoder stack in blocks,  *)
(* or token by token; each pass leaves a K/V row per position and layer in *)
(* the cache; then tokens are sampled and fed back one at a time.  Only    *)
(* the last prompt block's rows come back to the host.                     *)
(* A pass runs layer by layer; CoarseTaskRuntime models how a pass reaches *)
(* the device and ResidentLayer what one layer does to a row.              *)
(* A tensor row is the tree of the rows it was computed from.              *)
(***************************************************************************)
EXTENDS Integers, Sequences, FiniteSets

CONSTANTS
    Commands,       \* [prompt, maxNew, block, coarse, generate]
    Vocabulary,
    Layers,         \* layer_count_
    MaxSeq,         \* shape.max_seq_len
    MaxBlock        \* kMaxTokensPerLaunch

ASSUME LoopAssumption ==
    /\ Layers \in Nat \ {0}
    /\ MaxSeq \in Nat \ {0}
    /\ MaxBlock \in Nat \ {0}
    /\ \A c \in Commands :
          /\ c.prompt \in Seq(Vocabulary) /\ c.prompt # << >>
          /\ c.maxNew \in Nat /\ c.block \in Nat
          /\ c.coarse \in BOOLEAN /\ c.generate \in BOOLEAN

VARIABLES
    phase,          \* prompt, generate, done, refused or failed
    command,
    sequence,       \* the prompt and the sampled tokens
    begin,          \* block_begin of the prompt loop
    step,           \* tokens sampled so far
    pass,           \* the pass under way or NoPass
    cache,          \* per layer and position, the row its K/V were taken from
    hidden,         \* the row the host keeps for the next sample
    sampledFrom     \* history: the row the last token was sampled from

vars == <<phase, command, sequence, begin, step, pass, cache, hidden, sampledFrom>>

Positions == 0..(MaxSeq - 1)
LayerIds == 1..Layers
NoHidden == << >>   \* no row is empty
Least(a, b) == IF a < b THEN a ELSE b

(***************************************************************************)
(* Checks of the command line, before anything runs, and those the         *)
(* executor repeats at each pass.                                          *)
(***************************************************************************)
AcceptsTooLong(c) ==                                              \* fault
    Len(c.prompt) <= MaxSeq /\ c.block \in 1..MaxBlock
Accepted(c) ==
    Len(c.prompt) + c.maxNew <= MaxSeq /\ c.block \in 1..MaxBlock

PassAllowed(position, rows) ==
    /\ rows \in 1..MaxBlock
    /\ position < MaxSeq
    /\ position + rows <= MaxSeq

(***************************************************************************)
(* A pass: count positions from position on, and what happens to its rows. *)
(***************************************************************************)
NoPass == [position |-> 0, rows |-> << >>, layer |-> 0, materialize |-> FALSE]

Pass(position, tokens, materialize) ==
    [position |-> position,
     rows |-> [i \in 1..Len(tokens) |-> <<tokens[i]>>],
     layer |-> 1, materialize |-> materialize]

Running == pass # NoPass

BlockCount ==
    IF command.coarse THEN Least(command.block, Len(command.prompt) - begin)
    ELSE 1
NoStride == IF command.coarse THEN command.block ELSE 0           \* fault
BlockStride == IF command.coarse THEN command.block ELSE 1

(* The rows of one layer: each appends its K/V and attends to positions    *)
(* 0..its own.                                                             *)
Appended(old) ==
    [p \in Positions |->
        IF p - pass.position \in 0..(Len(pass.rows) - 1)
        THEN pass.rows[p - pass.position + 1]
        ELSE old[p]]

Attended(row) ==
    [i \in 1..Len(pass.rows) |->
        [j \in 1..(pass.position + i) |-> row[j - 1]]]

Start(position, tokens, materialize) ==
    IF PassAllowed(position, Len(tokens))
    THEN pass' = Pass(position, tokens, materialize) /\ UNCHANGED phase
    ELSE phase' = "failed" /\ UNCHANGED pass

(***************************************************************************)
(* Actions.                                                                *)
(***************************************************************************)
Init ==
    /\ command \in Commands
    /\ phase = IF Accepted(command) THEN "prompt" ELSE "refused"
    /\ sequence = command.prompt
    /\ begin = 0
    /\ step = 0
    /\ pass = NoPass
    /\ cache = [l \in LayerIds |-> [p \in Positions |-> NoHidden]]
    /\ hidden = NoHidden
    /\ sampledFrom = NoHidden

(* The next prompt block.  Coarse passes but the last release their rows.  *)
FirstBlockOnly(count) == ~command.coarse \/ begin = 0             \* fault
LastBlockOnly(count) == ~command.coarse \/ begin + count = Len(command.prompt)

PromptBlock ==
    LET count == BlockCount IN
    /\ phase = "prompt"
    /\ ~Running
    /\ begin < Len(command.prompt)
    /\ Start(begin, SubSeq(command.prompt, begin + 1, begin + count),
             LastBlockOnly(count))
    /\ begin' = begin + BlockStride
    /\ UNCHANGED <<command, sequence, step, cache, hidden, sampledFrom>>

(* One decoder layer of the pass. *)
Layer ==
    /\ Running
    /\ pass.layer <= Layers
    /\ cache' = [cache EXCEPT ![pass.layer] = Appended(@)]
    /\ pass' = [pass EXCEPT !.rows = Attended(cache'[pass.layer]), !.layer = @ + 1]
    /\ UNCHANGED <<phase, command, sequence, begin, step, hidden, sampledFrom>>

(* Final norm and the copy to the host, of a pass that materializes.       *)
Return ==
    /\ Running
    /\ pass.layer > Layers
    /\ pass' = NoPass
    /\ hidden' = IF pass.materialize THEN pass.rows[Len(pass.rows)] ELSE hidden
    /\ UNCHANGED <<phase, command, sequence, begin, step, cache, sampledFrom>>

EndPrompt ==
    /\ phase = "prompt"
    /\ ~Running
    /\ begin >= Len(command.prompt)
    /\ phase' = IF command.generate THEN "generate" ELSE "done"
    /\ UNCHANGED <<command, sequence, begin, step, pass, cache, hidden, sampledFrom>>

(* Sample the next token; feed it back unless it is the last one asked for. *)
AlwaysFeeds == TRUE                                               \* fault
Feeds == step + 1 < command.maxNew

BeforePush(seq) == Len(seq) - 2                                   \* fault
PositionOf(seq) == Len(seq) - 1

SampleToken ==
    /\ phase = "generate"
    /\ ~Running
    /\ step < command.maxNew
    /\ \E next \in Vocabulary :
          /\ sequence' = Append(sequence, next)
          /\ IF Feeds THEN Start(PositionOf(sequence'), <<next>>, TRUE)
                      ELSE UNCHANGED <<phase, pass>>
    /\ sampledFrom' = hidden
    /\ step' = step + 1
    /\ UNCHANGED <<command, begin, cache, hidden>>

EndGenerate ==
    /\ phase = "generate"
    /\ ~Running
    /\ step >= command.maxNew
    /\ phase' = "done"
    /\ UNCHANGED <<command, sequence, begin, step, pass, cache, hidden, sampledFrom>>

Progress == PromptBlock \/ Layer \/ Return \/ EndPrompt \/ SampleToken \/ EndGenerate

Ended == phase \in {"done", "refused", "failed"} /\ UNCHANGED vars

Next == Progress \/ Ended

Spec == Init /\ [][Next]_vars /\ WF_vars(Progress)

(***************************************************************************)
(* Properties.                                                             *)
(***************************************************************************)

(* The promise, without blocks and cache. *)
Greedy == INSTANCE GreedyDecode WITH
    Commands <- {[prompt |-> c.prompt,
                  maxNew |-> IF c.generate /\ Accepted(c) THEN c.maxNew ELSE 0] :
                     c \in Commands},
    command <- [prompt |-> command.prompt,
                maxNew |-> IF command.generate /\ Accepted(command)
                           THEN command.maxNew ELSE 0],
    finished <- phase = "done"

(* Blocks, the cache and the released rows change nothing: every sampled   *)
(* token comes from the hidden row of full causal attention over the       *)
(* sequence so far.                                                        *)
ImplementsGreedyDecode == Greedy!Spec

(* No pass rewrites a K/V row an earlier pass of the run left in the cache.*)
RowsWrittenOnce ==
    [][\A l \in LayerIds, p \in Positions :
          cache[l][p] # NoHidden => cache'[l][p] = cache[l][p]]_vars

(* At the end the cache holds exactly the positions later tokens may need: *)
(* every one but that of the last sampled token, at every layer; nothing   *)
(* was computed beyond it.                                                 *)
NoPassWasted ==
    phase = "done" =>
        \A l \in LayerIds :
            Cardinality({p \in Positions : cache[l][p] # NoHidden})
                = IF step = 0 THEN Len(sequence) ELSE Len(sequence) - 1

(* A command line that main accepts never meets the executor's own checks: *)
(* no pass starts outside the profile's sequence or block limits.          *)
AcceptedCommandsFit == phase # "failed"

(* Every run ends: all tokens are produced or the command is refused.      *)
RunEnds == <>(phase \in {"done", "refused", "failed"})
=============================================================================
