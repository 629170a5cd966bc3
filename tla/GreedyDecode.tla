---------------------------- MODULE GreedyDecode ----------------------------
(***************************************************************************)
(* What generation promises: a sequence that starts as the prompt and      *)
(* grows one token at a time, each token sampled from the hidden row of    *)
(* the last position under full causal attention over the whole sequence.  *)
(* No blocks, no cache: the hidden row is computed from the sequence.      *)
(***************************************************************************)
EXTENDS Naturals, Sequences

CONSTANTS
    Commands,   \* [prompt, maxNew, ...]
    Vocabulary,
    Layers,     \* decoder layers
    NoHidden    \* nothing sampled yet

VARIABLES
    command,
    sequence,
    sampledFrom,    \* the hidden row the last token was sampled from
    finished

vars == <<command, sequence, sampledFrom, finished>>

(* The rows after each layer: row i of a layer is causal attention over    *)
(* rows 1..i of the layer below.                                           *)
Rows(seq) ==
    LET after[l \in 0..Layers] ==
            IF l = 0 THEN [i \in 1..Len(seq) |-> <<seq[i]>>]
            ELSE [i \in 1..Len(seq) |-> [j \in 1..i |-> after[l - 1][j]]]
    IN  after

Hidden(seq) == Rows(seq)[Layers][Len(seq)]

Init ==
    /\ command \in Commands
    /\ sequence = command.prompt
    /\ sampledFrom = NoHidden
    /\ finished = FALSE

Sample ==
    /\ ~finished
    /\ Len(sequence) < Len(command.prompt) + command.maxNew
    /\ sampledFrom' = Hidden(sequence)
    /\ \E token \in Vocabulary : sequence' = Append(sequence, token)
    /\ UNCHANGED <<command, finished>>

Finish ==
    /\ ~finished
    /\ Len(sequence) = Len(command.prompt) + command.maxNew
    /\ finished' = TRUE
    /\ UNCHANGED <<command, sequence, sampledFrom>>

Spec == Init /\ [][Sample \/ Finish]_vars
=============================================================================
