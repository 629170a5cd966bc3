-------------------------- MODULE DecodeLoop_proofs --------------------------
(***************************************************************************)
(* The inference loop for every number of layers, cache length, block      *)
(* limit, vocabulary and set of command lines: prompt blocks, the K/V      *)
(* cache and the rows left on the device change nothing, every sampled     *)
(* token comes from full causal attention over the sequence so far.        *)
(***************************************************************************)
EXTENDS DecodeLoop, WellFoundedInduction, SequenceTheorems, FiniteSetTheorems, TLAPS

(* Induction over the naturals, for a set instead of a predicate: a number *)
(* outside S would have a least one, and its predecessor is in S.          *)
LEMMA SetInduction ==
    ASSUME NEW S, 0 \in S, \A n \in Nat : n \in S => n + 1 \in S
    PROVE  \A n \in Nat : n \in S
<1> DEFINE R == OpToRel(<, Nat)
           T == {n \in Nat : n \notin S}
<1> SUFFICES ASSUME T # {} PROVE FALSE
  OBVIOUS
<1>1. IsWellFoundedOn(R, Nat)
  BY NatLessThanWellFounded, Zenon
<1>2. PICK x \in T : \A y \in T : <<y, x>> \notin R
  <2>1. T \subseteq Nat
    OBVIOUS
  <2> HIDE DEF R, T
  <2>2. QED BY <1>1, <2>1, WFMin
<1>3. x # 0 /\ x \in Nat /\ x - 1 \in Nat
  BY SMT
<1>4. x - 1 \in T
  BY <1>3, SMT
<1>5. <<x - 1, x>> \in R
  BY <1>3, SMT DEF OpToRel
<1>6. QED BY <1>2, <1>4, <1>5

-----------------------------------------------------------------------------
(* The recursive definition of the rows after each layer has a solution:   *)
(* one for the first n layers extends to n + 1.                            *)
LEMMA RowsDefined ==
    ASSUME NEW seq
    PROVE  Greedy!Rows(seq) =
             [l \in 0..Layers |->
                IF l = 0 THEN [i \in 1..Len(seq) |-> <<seq[i]>>]
                ELSE [i \in 1..Len(seq) |-> [j \in 1..i |-> Greedy!Rows(seq)[l - 1][j]]]]
<1> DEFINE first == [i \in 1..Len(seq) |-> <<seq[i]>>]
           next(f) == [i \in 1..Len(seq) |-> [j \in 1..i |-> f[j]]]
           Is(f, n) == f = [l \in 0..n |-> IF l = 0 THEN first ELSE next(f[l - 1])]
           S == {n \in Nat : \E f : Is(f, n)}
<1>1. 0 \in S
  <2>1. Is([l \in 0..0 |-> first], 0)
    <3> HIDE DEF first
    <3>1. \A l \in 0..0 : l = 0
      BY SMT
    <3>2. QED BY <3>1
  <2>2. QED BY <2>1
<1>2. ASSUME NEW n \in Nat, n \in S
      PROVE  n + 1 \in S
  <2>1. PICK f : Is(f, n)
    BY <1>2
  <2> DEFINE g == [l \in 0..(n + 1) |-> IF l = n + 1 THEN next(f[n]) ELSE f[l]]
  <2>2. \A l \in 0..(n + 1) : g[l] = IF l = 0 THEN first ELSE next(g[l - 1])
    <3> HIDE DEF first, next
    <3>0. SUFFICES ASSUME NEW l \in 0..(n + 1)
                   PROVE  g[l] = IF l = 0 THEN first ELSE next(g[l - 1])
      OBVIOUS
    <3>1. CASE l = n + 1
      <4>1. l # 0 /\ l - 1 = n /\ n \in 0..(n + 1) /\ n # n + 1
        BY <3>1, SMT
      <4>2. g[l - 1] = f[n]
        BY <4>1
      <4>3. QED BY <3>1, <4>1, <4>2
    <3>2. CASE l # n + 1
      <4>1. l \in 0..n
        BY <3>2, SMT
      <4>2. g[l] = IF l = 0 THEN first ELSE next(f[l - 1])
        BY <2>1, <3>2, <4>1
      <4>3. l # 0 => l - 1 \in 0..(n + 1) /\ l - 1 # n + 1
        BY <4>1, SMT
      <4>4. QED BY <4>2, <4>3
    <3>3. QED BY <3>1, <3>2
  <2>3. Is(g, n + 1)
    <3> HIDE DEF first, next
    <3>1. QED BY <2>2
  <2> HIDE DEF g, Is
  <2>4. n + 1 \in Nat
    BY SMT
  <2>5. QED BY <2>3, <2>4
<1>3. Layers \in S
  <2>1. Layers \in Nat
    BY LoopAssumption
  <2> HIDE DEF S
  <2>2. QED BY <1>1, <1>2, <2>1, SetInduction
<1>4. \E f : Is(f, Layers)
  BY <1>3
<1>5. Greedy!Rows(seq) = CHOOSE f : Is(f, Layers)
  BY DEF Greedy!Rows
<1>6. Is(Greedy!Rows(seq), Layers)
  <2> HIDE DEF Is
  <2> QED BY <1>4, <1>5
<1>7. QED BY <1>6

(* Its equations, layer by layer and then row by row. *)
LEMMA RowsFirst ==
    ASSUME NEW seq
    PROVE  /\ Greedy!Rows(seq)[0] = [i \in 1..Len(seq) |-> <<seq[i]>>]
           /\ \A i \in 1..Len(seq) : Greedy!Rows(seq)[0][i] = <<seq[i]>>
<1>1. 0 \in 0..Layers
  BY LoopAssumption, SMT
<1>2. Greedy!Rows(seq)[0] = [i \in 1..Len(seq) |-> <<seq[i]>>]
  BY <1>1, RowsDefined, Zenon
<1>3. QED BY <1>2

LEMMA RowsNext ==
    ASSUME NEW seq, NEW l \in LayerIds
    PROVE  /\ Greedy!Rows(seq)[l] =
                [i \in 1..Len(seq) |-> [j \in 1..i |-> Greedy!Rows(seq)[l - 1][j]]]
           /\ \A i \in 1..Len(seq) : Greedy!Rows(seq)[l][i] =
                [j \in 1..i |-> Greedy!Rows(seq)[l - 1][j]]
<1>1. l \in 0..Layers /\ l # 0
  BY LoopAssumption, SMT DEF LayerIds
<1> DEFINE R == Greedy!Rows(seq)
           after(f) == [i \in 1..Len(seq) |-> [j \in 1..i |-> f[j]]]
<1>2. R = [k \in 0..Layers |-> IF k = 0 THEN [i \in 1..Len(seq) |-> <<seq[i]>>]
                              ELSE after(R[k - 1])]
  BY RowsDefined
<1>3. R[l] = after(R[l - 1])
  <2> HIDE DEF R, after
  <2> QED BY <1>1, <1>2
<1>4. \A i \in 1..Len(seq) : R[l][i] = [j \in 1..i |-> R[l - 1][j]]
  <2> HIDE DEF R
  <2> QED BY <1>3
<1>5. QED BY <1>3, <1>4

LEMMA RowAt ==
    ASSUME NEW seq, NEW i \in 1..Len(seq)
    PROVE  /\ Greedy!Rows(seq)[0][i] = <<seq[i]>>
           /\ \A l \in LayerIds :
                 Greedy!Rows(seq)[l][i] = [j \in 1..i |-> Greedy!Rows(seq)[l - 1][j]]
<1>1. \A k \in 1..Len(seq) : Greedy!Rows(seq)[0][k] = <<seq[k]>>
  BY RowsFirst
<1>2. ASSUME NEW l \in LayerIds
      PROVE  \A k \in 1..Len(seq) :
               Greedy!Rows(seq)[l][k] = [j \in 1..k |-> Greedy!Rows(seq)[l - 1][j]]
  BY RowsNext
<1>3. QED BY <1>1, <1>2

(* A row is never the empty cell of the cache. *)
LEMMA RowsNotEmpty ==
    ASSUME NEW seq \in Seq(Vocabulary), NEW l \in 0..Layers, NEW i \in 1..Len(seq)
    PROVE  Greedy!Rows(seq)[l][i] # NoHidden
<1>1. CASE l = 0
  <2>1. Greedy!Rows(seq)[l][i] = <<seq[i]>>
    BY <1>1, RowAt
  <2>2. QED BY <2>1 DEF NoHidden
<1>2. CASE l # 0
  <2>1. l \in LayerIds
    BY <1>2, SMT DEF LayerIds
  <2>2. Greedy!Rows(seq)[l][i] = [j \in 1..i |-> Greedy!Rows(seq)[l - 1][j]]
    BY <2>1, RowAt
  <2>3. 1 \in DOMAIN Greedy!Rows(seq)[l][i]
    BY <2>2, SMT
  <2>4. 1 \notin DOMAIN NoHidden
    BY DEF NoHidden
  <2>5. QED BY <2>3, <2>4
<1>3. QED BY <1>1, <1>2

(* Causality: a token appended to the sequence changes no row before it,   *)
(* at any layer.  This is what lets the cache keep rows across passes.     *)
LEMMA RowsOfPrefix ==
    ASSUME NEW seq \in Seq(Vocabulary), NEW t \in Vocabulary,
           NEW l \in 0..Layers, NEW i \in 1..Len(seq)
    PROVE  Greedy!Rows(Append(seq, t))[l][i] = Greedy!Rows(seq)[l][i]
<1> DEFINE longer == Append(seq, t)
           S == {n \in Nat : n <= Layers =>
                   \A k \in 1..Len(seq) :
                       Greedy!Rows(longer)[n][k] = Greedy!Rows(seq)[n][k]}
<1>1. /\ Len(longer) = Len(seq) + 1 /\ Len(seq) \in Nat
      /\ \A k \in 1..Len(seq) : longer[k] = seq[k] /\ k \in 1..Len(longer)
  BY SMT
<1>2. 0 \in S
  <2>1. \A k \in 1..Len(seq) : Greedy!Rows(longer)[0][k] = Greedy!Rows(seq)[0][k]
    <3> HIDE DEF longer
    <3> SUFFICES ASSUME NEW k \in 1..Len(seq)
                 PROVE  Greedy!Rows(longer)[0][k] = Greedy!Rows(seq)[0][k]
      OBVIOUS
    <3>1. k \in 1..Len(longer) /\ longer[k] = seq[k]
      BY <1>1
    <3>2. Greedy!Rows(seq)[0][k] = <<seq[k]>>
      BY RowAt
    <3>3. Greedy!Rows(longer)[0][k] = <<longer[k]>>
      BY <3>1, RowAt
    <3>4. QED BY <3>1, <3>2, <3>3
  <2>2. QED BY <2>1
<1>3. ASSUME NEW n \in Nat, n \in S
      PROVE  n + 1 \in S
  <2>1. SUFFICES ASSUME n + 1 <= Layers, NEW k \in 1..Len(seq)
                 PROVE  Greedy!Rows(longer)[n + 1][k] = Greedy!Rows(seq)[n + 1][k]
    BY SMT
  <2>2. n + 1 \in LayerIds /\ (n + 1) - 1 = n
    BY <2>1, LoopAssumption, SMT DEF LayerIds
  <2>3. /\ Greedy!Rows(longer)[n + 1][k] = [j \in 1..k |-> Greedy!Rows(longer)[n][j]]
        /\ Greedy!Rows(seq)[n + 1][k] = [j \in 1..k |-> Greedy!Rows(seq)[n][j]]
    <3> HIDE DEF longer
    <3>1. k \in 1..Len(seq) /\ k \in 1..Len(longer)
      BY <1>1
    <3> DEFINE m == n + 1
    <3>2. m \in LayerIds /\ m - 1 = n
      BY <2>2
    <3> HIDE DEF m
    <3>3. Greedy!Rows(seq)[m][k] = [j \in 1..k |-> Greedy!Rows(seq)[m - 1][j]]
      BY <3>1, <3>2, RowAt
    <3>4. Greedy!Rows(longer)[m][k] = [j \in 1..k |-> Greedy!Rows(longer)[m - 1][j]]
      BY <3>1, <3>2, RowAt
    <3>5. QED BY <3>2, <3>3, <3>4 DEF m
  <2>4. \A j \in 1..k : j \in 1..Len(seq)
    BY <1>1, <2>1, SMT
  <2>5. \A j \in 1..k : Greedy!Rows(longer)[n][j] = Greedy!Rows(seq)[n][j]
    BY <1>3, <2>1, <2>4, LoopAssumption, SMT
  <2>6. QED BY <2>3, <2>5
<1>4. l \in Nat /\ l <= Layers
  BY LoopAssumption, SMT
<1>5. l \in S
  <2> HIDE DEF S
  <2> QED BY <1>2, <1>3, <1>4, SetInduction
<1>6. QED BY <1>4, <1>5

-----------------------------------------------------------------------------
(***************************************************************************)
(* The inductive invariant.  Covered is the number of positions whose pass *)
(* has begun.  The pass under way holds the rows after its layers so far   *)
(* of the last Width of them; the cache holds, layer by layer, the rows    *)
(* below the layer of all positions covered, up to where the pass stands;  *)
(* the host holds the last row once the whole sequence is covered.         *)
(***************************************************************************)
Level(l) == Greedy!Rows(sequence)[l]

Covered ==
    IF phase = "prompt" THEN Least(begin, Len(command.prompt))
    ELSE IF phase = "refused" THEN 0
    ELSE IF step > 0 /\ step = command.maxNew THEN Len(sequence) - 1
    ELSE Len(sequence)

Width == Covered - pass.position

TypeOK ==
    /\ command \in Commands
    /\ phase \in {"prompt", "generate", "done", "refused"}
    /\ sequence \in Seq(Vocabulary)
    /\ begin \in Nat
    /\ step \in Nat
    /\ Running => /\ pass.position \in Nat
                  /\ pass.layer \in 1..(Layers + 1)
                  /\ pass.materialize \in BOOLEAN
    /\ cache = [l \in LayerIds |-> [p \in Positions |-> cache[l][p]]]

Counts ==
    /\ phase # "refused" => Accepted(command)
    /\ Len(sequence) = Len(command.prompt) + step
    /\ phase = "prompt" => sequence = command.prompt /\ step = 0
    /\ phase = "generate" => command.generate /\ step <= command.maxNew
    /\ phase = "done" => step = IF command.generate THEN command.maxNew ELSE 0

PassCovers ==
    /\ Running => /\ phase \in {"prompt", "generate"}
                  /\ phase = "generate" => pass.materialize
                  /\ Width \in Nat \ {0}
                  /\ pass = [position |-> pass.position, layer |-> pass.layer,
                             materialize |-> pass.materialize,
                             rows |-> [i \in 1..Width |->
                                         Level(pass.layer - 1)[pass.position + i]]]

CacheHolds ==
    \A l \in LayerIds, p \in Positions :
        cache[l][p] =
            IF p < (IF Running /\ l >= pass.layer THEN pass.position ELSE Covered)
            THEN Level(l - 1)[p + 1] ELSE NoHidden

HiddenIsLast ==
    phase # "refused" /\ Covered = Len(sequence) =>
        IF Running THEN pass.materialize ELSE hidden = Greedy!Hidden(sequence)

IInv == TypeOK /\ Counts /\ PassCovers /\ CacheHolds /\ HiddenIsLast

-----------------------------------------------------------------------------
(* The numbers of a command line and of the build. *)
LEMMA CommandNumbers ==
    ASSUME NEW c \in Commands
    PROVE  /\ c.prompt \in Seq(Vocabulary) /\ Len(c.prompt) \in Nat \ {0}
           /\ c.maxNew \in Nat /\ c.block \in Nat
           /\ c.coarse \in BOOLEAN /\ c.generate \in BOOLEAN
BY LoopAssumption, EmptySeq

LEMMA Sizes == Layers \in Nat \ {0} /\ MaxSeq \in Nat \ {0} /\ MaxBlock \in Nat \ {0}
BY LoopAssumption

LEMMA InitIInv == Init => IInv
<1> SUFFICES ASSUME Init PROVE IInv
  OBVIOUS
<1>1. /\ command \in Commands /\ command.prompt \in Seq(Vocabulary)
      /\ Len(command.prompt) \in Nat \ {0}
  BY CommandNumbers DEF Init
<1>2. ~Running /\ phase \in {"prompt", "refused"}
  BY DEF Init, Running
<1>3. Covered = 0
  BY <1>1, SMT DEF Init, Covered, Least
<1>4. TypeOK
  BY <1>1, <1>2 DEF Init, TypeOK
<1>5. Counts
  BY <1>1, SMT DEF Init, Counts, Accepted
<1>6. CacheHolds
  BY <1>2, <1>3, SMT DEF Init, CacheHolds, Positions
<1>7. HiddenIsLast
  BY <1>1, <1>3, SMT DEF Init, HiddenIsLast
<1>8. QED BY <1>2, <1>4, <1>5, <1>6, <1>7 DEF IInv, PassCovers

(* What the checks of an accepted command line give the loop. *)
LEMMA Bounds ==
    ASSUME IInv, phase # "refused"
    PROVE  /\ command \in Commands
           /\ Len(command.prompt) \in Nat \ {0} /\ Len(sequence) \in Nat \ {0}
           /\ command.maxNew \in Nat /\ command.block \in 1..MaxBlock
           /\ Len(command.prompt) + command.maxNew <= MaxSeq
           /\ Covered \in 0..Len(sequence)
           /\ Len(sequence) <= Len(command.prompt) + command.maxNew
<1>1. /\ command \in Commands /\ Len(command.prompt) \in Nat \ {0}
      /\ command.maxNew \in Nat /\ command.generate \in BOOLEAN
  BY CommandNumbers DEF IInv, TypeOK
<1>2. /\ command.block \in 1..MaxBlock
      /\ Len(command.prompt) + command.maxNew <= MaxSeq
  BY DEF IInv, Counts, Accepted
<1>3. /\ Len(sequence) = Len(command.prompt) + step /\ step \in Nat /\ begin \in Nat
      /\ step <= command.maxNew
  BY <1>1, SMT DEF IInv, Counts, TypeOK
<1>4. phase = "prompt" => step = 0
  BY DEF IInv, Counts
<1>5. Covered \in 0..Len(sequence)
  BY <1>1, <1>3, <1>4, SMT DEF Covered, Least
<1>6. QED BY <1>1, <1>2, <1>3, <1>5, SMT

LEMMA PromptBlockIInv == IInv /\ PromptBlock => IInv'
<1> SUFFICES ASSUME IInv, PromptBlock PROVE IInv'
  OBVIOUS
<1> DEFINE prompt == command.prompt
           count == BlockCount
           tokens == SubSeq(prompt, begin + 1, begin + count)
<1>1. /\ phase = "prompt" /\ ~Running /\ begin \in Nat /\ begin < Len(prompt)
      /\ sequence = prompt /\ step = 0 /\ Len(sequence) = Len(prompt)
      /\ prompt \in Seq(Vocabulary)
      /\ command \in Commands /\ command.coarse \in BOOLEAN
  BY CommandNumbers DEF PromptBlock, IInv, TypeOK, Counts
<1>2. /\ Len(prompt) \in Nat \ {0} /\ command.block \in 1..MaxBlock
      /\ Len(prompt) <= MaxSeq
  BY <1>1, Bounds, Sizes, SMT
<1>3. /\ count \in 1..MaxBlock /\ begin + count <= Len(prompt)
      /\ Least(begin + BlockStride, Len(prompt)) = begin + count
      /\ begin + BlockStride \in Nat
  <2>1. CASE command.coarse
    BY <1>1, <1>2, <2>1, Sizes, SMT DEF BlockCount, BlockStride, Least
  <2>2. CASE ~command.coarse
    BY <1>1, <1>2, <2>2, Sizes, SMT DEF BlockCount, BlockStride, Least
  <2>3. QED BY <1>1, <2>1, <2>2
<1>4. /\ Len(tokens) = count
      /\ \A i \in 1..count : tokens[i] = prompt[begin + i]
  <2> HIDE DEF count
  <2>1. \A i \in (begin + 1)..(begin + count) : prompt[i] \in Vocabulary
    BY <1>1, <1>2, <1>3, ElementOfSeq, SMT
  <2>2. /\ Len(tokens) = IF begin + 1 <= begin + count
                        THEN (begin + count) - (begin + 1) + 1 ELSE 0
        /\ \A i \in 1..((begin + count) - (begin + 1) + 1) :
              tokens[i] = prompt[begin + 1 + i - 1]
    <3>1. begin + 1 \in Int /\ begin + count \in Int
      BY <1>1, <1>3, SMT
    <3>2. QED BY <2>1, <3>1, SubSeqProperties
  <2>3. count \in Nat \ {0} /\ (begin + count) - (begin + 1) + 1 = count
        /\ \A i \in 1..count : begin + 1 + i - 1 = begin + i
    BY <1>1, <1>3, Sizes, SMT
  <2>4. begin + 1 <= begin + count
    BY <1>1, <2>3, SMT
  <2> HIDE DEF tokens
  <2>5. QED BY <2>2, <2>3, <2>4
<1>5. PassAllowed(begin, Len(tokens))
  BY <1>1, <1>2, <1>3, <1>4, Sizes, SMT DEF PassAllowed
<1>6. /\ pass' = Pass(begin, tokens, LastBlockOnly(count)) /\ phase' = phase
      /\ begin' = begin + BlockStride
      /\ UNCHANGED <<command, sequence, step, cache, hidden, sampledFrom>>
  BY <1>5 DEF PromptBlock, Start
<1>7. /\ pass'.position = begin /\ pass'.layer = 1
      /\ pass'.materialize = LastBlockOnly(count)
      /\ pass'.rows = [i \in 1..count |-> <<tokens[i]>>]
  BY <1>4, <1>6 DEF Pass
<1>8. Running' /\ Covered = begin /\ Covered' = begin + count /\ Width' = count
  BY <1>1, <1>2, <1>3, <1>6, <1>7, SMT DEF Running, NoPass, Covered, Width, Least
<1>9. \A i \in 1..count : <<tokens[i]>> = Level(0)[begin + i]
  <2>1. \A i \in 1..count : begin + i \in 1..Len(sequence)
    BY <1>1, <1>2, <1>3, SMT
  <2>2. \A i \in 1..count : Level(0)[begin + i] = <<prompt[begin + i]>>
    BY <1>1, <2>1, RowAt DEF Level
  <2>3. QED BY <1>4, <2>2
<1>10. TypeOK'
  <2>1. LastBlockOnly(count) \in BOOLEAN
    BY DEF LastBlockOnly
  <2>2. 1 \in 1..(Layers + 1)
    BY Sizes, SMT
  <2>3. QED BY <1>1, <1>3, <1>6, <1>7, <2>1, <2>2 DEF IInv, TypeOK
<1>11. Counts'
  BY <1>6 DEF IInv, Counts, Accepted
<1>12. PassCovers'
  <2>1. pass' = [position |-> begin, layer |-> 1, materialize |-> LastBlockOnly(count),
                 rows |-> [i \in 1..count |-> <<tokens[i]>>]]
    BY <1>4, <1>6 DEF Pass
  <2>2. [i \in 1..count |-> <<tokens[i]>>] = [i \in 1..count |-> Level(0)[begin + i]]
    BY <1>9
  <2>3. (\A l : Level(l)' = Level(l)) /\ 1 - 1 = 0
    BY <1>6, SMT DEF Level
  <2>4. count \in Nat \ {0}
    BY <1>3, Sizes, SMT
  <2> HIDE DEF count, tokens
  <2>5. QED BY <1>1, <1>6, <1>7, <1>8, <2>1, <2>2, <2>3, <2>4 DEF PassCovers
<1>13. CacheHolds'
  <2>1. SUFFICES ASSUME NEW l \in LayerIds, NEW p \in Positions
                 PROVE  (cache[l][p] = IF p < (IF Running /\ l >= pass.layer
                                               THEN pass.position ELSE Covered)
                                       THEN Level(l - 1)[p + 1] ELSE NoHidden)'
    BY DEF CacheHolds
  <2>2. l >= 1
    BY Sizes, SMT DEF LayerIds
  <2>3. cache[l][p] = IF p < begin THEN Level(l - 1)[p + 1] ELSE NoHidden
    BY <1>1, <1>8 DEF IInv, CacheHolds
  <2>4. QED BY <1>6, <1>7, <1>8, <2>2, <2>3 DEF Level
<1>14. HiddenIsLast'
  <2>1. Covered' = Len(prompt) => LastBlockOnly(count)
    BY <1>8 DEF LastBlockOnly
  <2>2. QED BY <1>1, <1>6, <1>7, <1>8, <2>1 DEF HiddenIsLast
<1>15. QED BY <1>10, <1>11, <1>12, <1>13, <1>14 DEF IInv

LEMMA LayerIInv == IInv /\ Layer => IInv'
<1> SUFFICES ASSUME IInv, Layer PROVE IInv'
  OBVIOUS
<1> DEFINE n == pass.layer
           from == pass.position
<1>1. /\ Running /\ n \in LayerIds /\ from \in Nat /\ pass.materialize \in BOOLEAN
      /\ phase \in {"prompt", "generate"} /\ Width \in Nat \ {0}
  BY Sizes, SMT DEF Layer, IInv, TypeOK, PassCovers, LayerIds
<1>2. /\ pass = [position |-> from, layer |-> n, materialize |-> pass.materialize,
                 rows |-> pass.rows]
      /\ pass.rows = [i \in 1..Width |-> Level(n - 1)[from + i]]
      /\ Len(pass.rows) = Width
  <2>1. pass = [position |-> from, layer |-> n, materialize |-> pass.materialize,
                rows |-> [i \in 1..Width |-> Level(n - 1)[from + i]]]
    BY <1>1 DEF IInv, PassCovers
  <2>2. pass.rows = [i \in 1..Width |-> Level(n - 1)[from + i]]
    BY <2>1
  <2>3. Len([i \in 1..Width |-> Level(n - 1)[from + i]]) = Width
    BY <1>1, SMT
  <2>4. QED BY <2>1, <2>2, <2>3
<1>3. /\ Covered \in 0..Len(sequence) /\ Len(sequence) \in Nat /\ Len(sequence) <= MaxSeq
      /\ from + Width = Covered
  <2>1. /\ Covered \in 0..Len(sequence) /\ Len(sequence) \in Nat \ {0}
        /\ Len(sequence) <= MaxSeq
    BY <1>1, Bounds, Sizes, SMT
  <2>2. QED BY <1>1, <2>1, SMT DEF Width
<1>4. /\ cache' = [cache EXCEPT ![n] = Appended(@)]
      /\ pass' = [pass EXCEPT !.rows = Attended(cache'[n]), !.layer = @ + 1]
      /\ UNCHANGED <<phase, command, sequence, begin, step, hidden, sampledFrom>>
  BY DEF Layer
<1>5. /\ \A l \in LayerIds : cache'[l] = IF l = n THEN Appended(cache[n]) ELSE cache[l]
      /\ \A l \in LayerIds : cache[l] = [p \in Positions |-> cache[l][p]]
      /\ cache' = [l \in LayerIds |-> cache'[l]]
  <2>1. cache = [l \in LayerIds |-> [p \in Positions |-> cache[l][p]]]
    BY DEF IInv, TypeOK
  <2>2. \A l \in LayerIds : cache[l] = [p \in Positions |-> cache[l][p]]
    BY <2>1
  <2>3. DOMAIN cache = LayerIds
    BY <2>1
  <2>4. cache = [l \in LayerIds |-> cache[l]]
    BY <2>1
  <2>5. QED BY <1>4, <2>2, <2>3, <2>4
<1>6. \A p \in Positions :
        cache'[n][p] = IF p < Covered THEN Level(n - 1)[p + 1] ELSE NoHidden
  <2>1. SUFFICES ASSUME NEW p \in Positions
                 PROVE  cache'[n][p] = IF p < Covered THEN Level(n - 1)[p + 1] ELSE NoHidden
    OBVIOUS
  <2>2. cache'[n][p] = IF p - from \in 0..(Width - 1) THEN pass.rows[p - from + 1]
                       ELSE cache[n][p]
    <3>1. cache'[n] = Appended(cache[n])
      BY <1>1, <1>5
    <3> HIDE DEF n
    <3>2. QED BY <1>2, <3>1 DEF Appended
  <2>3. cache[n][p] = IF p < from THEN Level(n - 1)[p + 1] ELSE NoHidden
    BY <1>1, SMT DEF IInv, CacheHolds, LayerIds
  <2>4. CASE p - from \in 0..(Width - 1)
    <3>1. p - from + 1 \in 1..Width /\ from + (p - from + 1) = p + 1 /\ p < Covered
      BY <1>1, <1>3, <2>4, SMT DEF Positions
    <3>2. QED BY <1>2, <2>2, <2>4, <3>1
  <2>5. CASE p - from \notin 0..(Width - 1)
    <3>1. p < from \/ ~(p < Covered)
      BY <1>1, <1>3, <2>5, SMT DEF Positions
    <3>2. p < from => p < Covered
      BY <1>1, <1>3, SMT DEF Positions
    <3>3. QED BY <2>2, <2>3, <2>5, <3>1, <3>2
  <2>6. QED BY <2>4, <2>5
<1>7. Attended(cache'[n]) = [i \in 1..Width |-> Level(n)[from + i]]
  <2>1. SUFFICES ASSUME NEW i \in 1..Width
                 PROVE  [j \in 1..(from + i) |-> cache'[n][j - 1]] = Level(n)[from + i]
    BY <1>2 DEF Attended
  <2>2. from + i \in 1..Len(sequence)
    BY <1>1, <1>3, SMT
  <2>3. Level(n)[from + i] = [j \in 1..(from + i) |-> Level(n - 1)[j]]
    <3> DEFINE k == from + i
    <3>1. k \in 1..Len(sequence) /\ n \in LayerIds
      BY <1>1, <2>2
    <3> HIDE DEF n, k
    <3>2. Level(n)[k] = [j \in 1..k |-> Level(n - 1)[j]]
      BY <3>1, RowAt DEF Level
    <3>3. QED BY <3>2 DEF k
  <2>4. ASSUME NEW j \in 1..(from + i)
        PROVE  cache'[n][j - 1] = Level(n - 1)[j]
    <3>1. j - 1 \in Positions /\ j - 1 < Covered /\ (j - 1) + 1 = j
      BY <1>1, <1>3, Sizes, SMT DEF Positions
    <3>2. QED BY <1>6, <3>1
  <2>5. QED BY <2>3, <2>4
<1>8. pass' = [position |-> from, layer |-> n + 1, materialize |-> pass.materialize,
               rows |-> [i \in 1..Width |-> Level(n)[from + i]]]
  BY <1>2, <1>4, <1>7
<1>9. Running' /\ Covered' = Covered /\ Width' = Width
  <2>1. n + 1 # 0
    BY <1>1, Sizes, SMT DEF LayerIds
  <2>2. QED BY <1>4, <1>8, <2>1 DEF Running, NoPass, Covered, Width
<1>10. TypeOK'
  <2>1. n + 1 \in 1..(Layers + 1)
    BY <1>1, Sizes, SMT DEF LayerIds
  <2>2. cache' = [l \in LayerIds |-> [p \in Positions |-> cache'[l][p]]]
    <3>1. \A l \in LayerIds : cache'[l] = [p \in Positions |-> cache'[l][p]]
      BY <1>5 DEF Appended
    <3>2. QED BY <1>5, <3>1
  <2>3. QED BY <1>1, <1>4, <1>8, <2>1, <2>2 DEF IInv, TypeOK
<1>11. Counts'
  BY <1>4 DEF IInv, Counts, Accepted
<1>12. PassCovers'
  <2>1. (\A l : Level(l)' = Level(l)) /\ (n + 1) - 1 = n
    BY <1>1, <1>4, Sizes, SMT DEF Level, LayerIds
  <2>2. phase = "generate" => pass.materialize
    BY <1>1 DEF IInv, PassCovers
  <2>3. /\ pass'.position = from /\ pass'.layer = n + 1
        /\ pass'.materialize = pass.materialize
    BY <1>8
  <2>4. [i \in 1..Width' |-> Greedy!Rows(sequence')[pass'.layer - 1][pass'.position + i]]
          = [i \in 1..Width |-> Level(n)[from + i]]
    BY <1>4, <1>9, <2>1, <2>3 DEF Level
  <2>5. pass' = [position |-> pass'.position, layer |-> pass'.layer,
                 materialize |-> pass'.materialize,
                 rows |-> [i \in 1..Width' |->
                             Greedy!Rows(sequence')[pass'.layer - 1][pass'.position + i]]]
    BY <1>8, <2>3, <2>4
  <2>6. QED BY <1>1, <1>4, <1>9, <2>2, <2>3, <2>5 DEF PassCovers, Level
<1>13. CacheHolds'
  <2>1. SUFFICES ASSUME NEW l \in LayerIds, NEW p \in Positions
                 PROVE  (cache[l][p] = IF p < (IF Running /\ l >= pass.layer
                                               THEN pass.position ELSE Covered)
                                       THEN Level(l - 1)[p + 1] ELSE NoHidden)'
    BY DEF CacheHolds
  <2>2. CASE l = n
    <3>1. ~(l >= n + 1)
      BY <1>1, <2>2, SMT DEF LayerIds
    <3>2. QED BY <1>4, <1>6, <1>8, <1>9, <2>2, <3>1 DEF Level
  <2>3. CASE l # n
    <3>1. l >= n + 1 <=> l >= n
      BY <1>1, <2>3, SMT DEF LayerIds
    <3>2. cache[l][p] = IF p < (IF l >= n THEN from ELSE Covered)
                        THEN Level(l - 1)[p + 1] ELSE NoHidden
      BY <1>1 DEF IInv, CacheHolds
    <3>3. cache'[l][p] = cache[l][p]
      BY <1>5, <2>3
    <3>4. QED BY <1>4, <1>8, <1>9, <3>1, <3>2, <3>3 DEF Level
  <2>4. QED BY <2>2, <2>3
<1>14. HiddenIsLast'
  BY <1>1, <1>4, <1>8, <1>9 DEF IInv, HiddenIsLast
<1>15. QED BY <1>10, <1>11, <1>12, <1>13, <1>14 DEF IInv

LEMMA ReturnIInv == IInv /\ Return => IInv'
<1> SUFFICES ASSUME IInv, Return PROVE IInv'
  OBVIOUS
<1> DEFINE from == pass.position
<1>1. /\ Running /\ pass.layer = Layers + 1 /\ from \in Nat
      /\ phase \in {"prompt", "generate"} /\ Width \in Nat \ {0}
  BY Sizes, SMT DEF Return, IInv, TypeOK, PassCovers
<1>2. /\ pass' = NoPass
      /\ hidden' = IF pass.materialize THEN pass.rows[Len(pass.rows)] ELSE hidden
      /\ UNCHANGED <<phase, command, sequence, begin, step, cache, sampledFrom>>
  BY DEF Return
<1>3. ~Running' /\ Covered' = Covered
  BY <1>2 DEF Running, Covered
<1>4. pass.rows = [i \in 1..Width |-> Level(Layers)[from + i]] /\ Len(pass.rows) = Width
  <2>1. (Layers + 1) - 1 = Layers
    BY Sizes, SMT
  <2>2. pass.rows = [i \in 1..Width |-> Level(Layers)[from + i]]
    BY <1>1, <2>1 DEF IInv, PassCovers
  <2>3. Len([i \in 1..Width |-> Level(Layers)[from + i]]) = Width
    BY <1>1, SMT
  <2>4. QED BY <2>2, <2>3
<1>5. TypeOK'
  BY <1>2, <1>3 DEF IInv, TypeOK
<1>6. Counts'
  BY <1>2 DEF IInv, Counts, Accepted
<1>7. PassCovers'
  BY <1>3 DEF PassCovers
<1>8. CacheHolds'
  <2>1. SUFFICES ASSUME NEW l \in LayerIds, NEW p \in Positions
                 PROVE  (cache[l][p] = IF p < (IF Running /\ l >= pass.layer
                                               THEN pass.position ELSE Covered)
                                       THEN Level(l - 1)[p + 1] ELSE NoHidden)'
    BY DEF CacheHolds
  <2>2. ~(l >= pass.layer)
    BY <1>1, Sizes, SMT DEF LayerIds
  <2>3. QED BY <1>2, <1>3, <2>2 DEF IInv, CacheHolds, Level
<1>9. HiddenIsLast'
  <2>1. SUFFICES ASSUME Covered = Len(sequence)
                 PROVE  hidden' = Greedy!Hidden(sequence)
    BY <1>2, <1>3 DEF HiddenIsLast
  <2>2. pass.materialize
    BY <1>1, <2>1 DEF IInv, HiddenIsLast
  <2>3. from + Width = Len(sequence)
    <3>1. Covered \in Int
      BY <1>1, Bounds, SMT
    <3>2. QED BY <1>1, <2>1, <3>1, SMT DEF Width
  <2>4. hidden' = Level(Layers)[Len(sequence)]
    <3>1. Width \in 1..Width
      BY <1>1, SMT
    <3>2. QED BY <1>2, <1>4, <2>2, <2>3, <3>1
  <2>5. QED BY <2>4 DEF Level, Greedy!Hidden
<1>10. QED BY <1>5, <1>6, <1>7, <1>8, <1>9 DEF IInv

LEMMA EndsIInv == IInv /\ (EndPrompt \/ EndGenerate) => IInv'
<1> SUFFICES ASSUME IInv, EndPrompt \/ EndGenerate PROVE IInv'
  OBVIOUS
<1>1. /\ ~Running /\ phase \in {"prompt", "generate"} /\ phase' \in {"generate", "done"}
      /\ UNCHANGED <<command, sequence, begin, step, pass, cache, hidden, sampledFrom>>
  BY DEF EndPrompt, EndGenerate
<1>2. /\ Len(command.prompt) \in Nat \ {0} /\ command.maxNew \in Nat
      /\ command.generate \in BOOLEAN /\ step \in Nat /\ begin \in Nat
      /\ Len(sequence) = Len(command.prompt) + step
  BY CommandNumbers DEF IInv, TypeOK, Counts
<1>3. ~Running' /\ Running' = Running
  BY <1>1 DEF Running
<1>4. Counts'
  <2>1. CASE EndPrompt
    BY <1>1, <1>2, <2>1, SMT DEF EndPrompt, IInv, Counts, Accepted
  <2>2. CASE EndGenerate
    BY <1>1, <1>2, <2>2, SMT DEF EndGenerate, IInv, Counts, Accepted
  <2>3. QED BY <2>1, <2>2
<1>5. Covered' = Covered
  <2>1. CASE EndPrompt
    BY <1>1, <1>2, <2>1, SMT DEF EndPrompt, IInv, Counts, Covered, Least
  <2>2. CASE EndGenerate
    BY <1>1, <2>2 DEF EndGenerate, Covered
  <2>3. QED BY <2>1, <2>2
<1>6. TypeOK'
  BY <1>1, <1>3 DEF IInv, TypeOK
<1>7. PassCovers'
  BY <1>3 DEF PassCovers
<1>8. CacheHolds'
  BY <1>1, <1>3, <1>5 DEF IInv, CacheHolds, Level
<1>9. HiddenIsLast'
  BY <1>1, <1>3, <1>5 DEF IInv, HiddenIsLast
<1>10. QED BY <1>4, <1>6, <1>7, <1>8, <1>9 DEF IInv

LEMMA SampleTokenIInv == IInv /\ SampleToken => IInv'
<1> SUFFICES ASSUME IInv, SampleToken PROVE IInv'
  OBVIOUS
<1>1. PICK next \in Vocabulary :
        /\ sequence' = Append(sequence, next)
        /\ IF Feeds THEN Start(PositionOf(sequence'), <<next>>, TRUE)
                    ELSE UNCHANGED <<phase, pass>>
  BY DEF SampleToken
<1> DEFINE n == Len(sequence)
<1>2. /\ phase = "generate" /\ ~Running /\ step < command.maxNew /\ step \in Nat
      /\ step' = step + 1 /\ sampledFrom' = hidden
      /\ UNCHANGED <<command, begin, cache, hidden>>
  BY DEF SampleToken, IInv, TypeOK
<1>3. /\ n \in Nat \ {0} /\ command.maxNew \in Nat /\ Len(command.prompt) \in Nat
      /\ n = Len(command.prompt) + step /\ n < MaxSeq
      /\ sequence \in Seq(Vocabulary)
  BY <1>2, Bounds, Sizes, SMT DEF IInv, TypeOK, Counts
<1>4. /\ sequence' \in Seq(Vocabulary) /\ Len(sequence') = n + 1
      /\ sequence'[n + 1] = next
  BY <1>1, <1>3, SMT
<1>5. /\ Feeds => pass' = Pass(n, <<next>>, TRUE)
      /\ ~Feeds => pass' = pass
      /\ phase' = phase
  <2>1. PassAllowed(PositionOf(sequence'), Len(<<next>>)) /\ PositionOf(sequence') = n
    BY <1>3, <1>4, Sizes, SMT DEF PassAllowed, PositionOf
  <2>2. QED BY <1>1, <2>1 DEF Start
<1>6. Covered = n /\ Covered' = (IF Feeds THEN n + 1 ELSE n)
  BY <1>2, <1>3, <1>4, <1>5, SMT DEF Covered, Feeds
<1>7. /\ Feeds => /\ Running' /\ pass'.position = n /\ pass'.layer = 1
                  /\ pass'.materialize = TRUE
      /\ ~Feeds => ~Running'
  BY <1>2, <1>5, SMT DEF Running, NoPass, Pass
<1>8. \A l \in LayerIds, p \in Positions :
        p < n => Level(l - 1)'[p + 1] = Level(l - 1)[p + 1]
  <2>1. ASSUME NEW l \in LayerIds, NEW p \in Positions, p < n
        PROVE  Level(l - 1)'[p + 1] = Level(l - 1)[p + 1]
    <3>1. l - 1 \in 0..Layers /\ p + 1 \in 1..Len(sequence)
      BY <1>3, <2>1, Sizes, SMT DEF LayerIds, Positions
    <3>2. QED BY <1>1, <1>3, <3>1, RowsOfPrefix DEF Level
  <2>2. QED BY <2>1
<1>9. TypeOK'
  <2>1. 1 \in 1..(Layers + 1)
    BY Sizes, SMT
  <2>2. step + 1 \in Nat /\ n \in Nat
    BY <1>2, <1>3, SMT
  <2> HIDE DEF n
  <2>3. Running' => /\ pass'.position \in Nat /\ pass'.layer \in 1..(Layers + 1)
                    /\ pass'.materialize \in BOOLEAN
    BY <1>7, <2>1, <2>2
  <2>4. QED BY <1>2, <1>4, <1>5, <2>2, <2>3 DEF IInv, TypeOK
<1>10. Counts'
  <2>1. Len(sequence') = Len(command.prompt) + step' /\ step' <= command.maxNew
    <3> DEFINE m == Len(command.prompt)
    <3> HIDE DEF n, m
    <3>1. m \in Nat /\ n = m + step /\ Len(sequence') = n + 1 /\ command.maxNew \in Nat
      BY <1>3, <1>4 DEF m
    <3>2. step \in Nat /\ step < command.maxNew /\ step' = step + 1
      BY <1>2
    <3>3. Len(sequence') = m + step' /\ step' <= command.maxNew
      BY <3>1, <3>2, SMT
    <3>4. QED BY <3>3 DEF m
  <2>2. phase' = "generate" /\ command' = command /\ command.generate
    BY <1>2, <1>5 DEF IInv, Counts
  <2>3. QED BY <1>2, <2>1, <2>2 DEF IInv, Counts, Accepted
<1>11. PassCovers'
  <2>1. CASE ~Feeds
    BY <1>7, <2>1 DEF PassCovers
  <2>2. CASE Feeds
    <3>1. Width' = 1
      BY <1>3, <1>6, <1>7, <2>2, SMT DEF Width
    <3>2. n + 1 \in 1..Len(sequence') /\ 1 - 1 = 0
      BY <1>3, <1>4, SMT
    <3>3. Level(0)'[n + 1] = <<next>>
      BY <1>4, <3>2, RowAt DEF Level
    <3>4. pass' = [position |-> n, rows |-> [i \in 1..1 |-> Level(0)'[n + i]],
                   layer |-> 1, materialize |-> TRUE]
      <4>1. [i \in 1..Len(<<next>>) |-> << <<next>>[i] >>] = [i \in 1..1 |-> Level(0)'[n + i]]
        <5>1. Len(<<next>>) = 1 /\ <<next>>[1] = next
          OBVIOUS
        <5>2. \A i \in 1..1 : i = 1
          BY SMT
        <5>3. QED BY <3>3, <5>1, <5>2
      <4>2. QED BY <1>5, <2>2, <4>1 DEF Pass
    <3> HIDE DEF n
    <3>5. QED BY <1>2, <1>5, <1>7, <2>2, <3>1, <3>2, <3>4 DEF PassCovers
  <2>3. QED BY <2>1, <2>2
<1>12. CacheHolds'
  <2>1. SUFFICES ASSUME NEW l \in LayerIds, NEW p \in Positions
                 PROVE  (cache[l][p] = IF p < (IF Running /\ l >= pass.layer
                                               THEN pass.position ELSE Covered)
                                       THEN Level(l - 1)[p + 1] ELSE NoHidden)'
    BY DEF CacheHolds
  <2>2. l >= 1
    BY Sizes, SMT DEF LayerIds
  <2>3. cache[l][p] = IF p < n THEN Level(l - 1)[p + 1] ELSE NoHidden
    BY <1>2, <1>6 DEF IInv, CacheHolds
  <2>4. (IF Running /\ l >= pass.layer THEN pass.position ELSE Covered)' = n
    BY <1>6, <1>7, <2>2
  <2>5. QED BY <1>2, <1>8, <2>3, <2>4
<1>13. HiddenIsLast'
  BY <1>3, <1>4, <1>6, <1>7, SMT DEF HiddenIsLast
<1>14. QED BY <1>9, <1>10, <1>11, <1>12, <1>13 DEF IInv

LEMMA NextIInv == IInv /\ [Next]_vars => IInv'
<1> SUFFICES ASSUME IInv, [Next]_vars PROVE IInv'
  OBVIOUS
<1>1. CASE UNCHANGED vars
  BY <1>1 DEF vars, IInv, TypeOK, Counts, Accepted, PassCovers, CacheHolds, HiddenIsLast,
       Running, Covered, Width, Level
<1>2. QED
  BY <1>1, PromptBlockIInv, LayerIInv, ReturnIInv, EndsIInv, SampleTokenIInv
  DEF Next, Progress, Ended

-----------------------------------------------------------------------------
(***************************************************************************)
(* A command line main accepts never fails the checks the executor repeats *)
(* at every pass.                                                          *)
(***************************************************************************)
THEOREM CommandsFit == Spec => []AcceptedCommandsFit
<1>1. IInv => AcceptedCommandsFit
  BY DEF IInv, TypeOK, AcceptedCommandsFit
<1>2. QED BY <1>1, InitIInv, NextIInv, PTL DEF Spec

(***************************************************************************)
(* When a run ends, every layer's cache holds one row for each position    *)
(* but that of the last sampled token: nothing is missing, nothing was     *)
(* computed for a token that is not fed back.                              *)
(***************************************************************************)
THEOREM PassesNeeded == Spec => []NoPassWasted
<1>1. IInv => NoPassWasted
  <2> SUFFICES ASSUME IInv, phase = "done", NEW l \in LayerIds
               PROVE  Cardinality({p \in Positions : cache[l][p] # NoHidden})
                        = IF step = 0 THEN Len(sequence) ELSE Len(sequence) - 1
    BY DEF NoPassWasted
  <2>1. /\ Covered \in 0..Len(sequence) /\ Len(sequence) \in Nat \ {0}
        /\ Len(sequence) <= MaxSeq
    BY Bounds, Sizes, SMT
  <2>2. \A p \in Positions :
          cache[l][p] = IF p < Covered THEN Level(l - 1)[p + 1] ELSE NoHidden
    BY DEF IInv, PassCovers, CacheHolds
  <2>3. \A p \in Positions : p < Covered => Level(l - 1)[p + 1] # NoHidden
    <3>1. ASSUME NEW p \in Positions, p < Covered
          PROVE  l - 1 \in 0..Layers /\ p + 1 \in 1..Len(sequence)
      BY <2>1, <3>1, Sizes, SMT DEF LayerIds, Positions
    <3>2. sequence \in Seq(Vocabulary)
      BY DEF IInv, TypeOK
    <3>3. QED BY <3>1, <3>2, RowsNotEmpty DEF Level
  <2>4. {p \in Positions : cache[l][p] # NoHidden} = 0..(Covered - 1)
    <3>1. \A p : p \in 0..(Covered - 1) <=> p \in Positions /\ p < Covered
      BY <2>1, Sizes, SMT DEF Positions
    <3>2. QED BY <2>2, <2>3, <3>1
  <2>5. Cardinality(0..(Covered - 1)) = Covered
    <3>1. Cardinality(0..(Covered - 1)) =
            IF 0 > Covered - 1 THEN 0 ELSE (Covered - 1) - 0 + 1
      BY <2>1, FS_Interval, SMT
    <3>2. QED BY <2>1, <3>1, SMT
  <2>6. Covered = IF step = 0 THEN Len(sequence) ELSE Len(sequence) - 1
    BY <2>1, SMT DEF IInv, TypeOK, Counts, Covered
  <2>7. QED BY <2>4, <2>5, <2>6
<1>2. QED BY <1>1, InitIInv, NextIInv, PTL DEF Spec

(***************************************************************************)
(* No pass rewrites a cached K/V row: each starts where the one before it  *)
(* ended, in the prompt loop and in the generation loop.                   *)
(***************************************************************************)
THEOREM WrittenOnce == Spec => RowsWrittenOnce
<1> DEFINE Kept == \A l \in LayerIds, p \in Positions :
                     cache[l][p] # NoHidden => cache'[l][p] = cache[l][p]
<1>1. ASSUME IInv, [Next]_vars
      PROVE  [Kept]_vars
  <2>1. CASE UNCHANGED cache
    BY <2>1
  <2>2. CASE Layer
    <3>1. SUFFICES ASSUME NEW l \in LayerIds, NEW p \in Positions,
                          cache[l][p] # NoHidden
                   PROVE  cache'[l][p] = cache[l][p]
      OBVIOUS
    <3>2. CASE l # pass.layer
      BY <2>2, <3>2 DEF Layer, IInv, TypeOK
    <3>3. CASE l = pass.layer
      <4>1. Running /\ cache' = [cache EXCEPT ![l] = Appended(@)] /\ DOMAIN cache = LayerIds
        <5>1. cache = [k \in LayerIds |-> [q \in Positions |-> cache[k][q]]]
          BY <1>1 DEF IInv, TypeOK
        <5>2. DOMAIN cache = LayerIds
          BY <5>1
        <5>3. QED BY <2>2, <3>3, <5>2 DEF Layer
      <4>2. l >= pass.layer
        BY <3>3, Sizes, SMT DEF LayerIds
      <4>3. p < pass.position
        <5>1. cache[l][p] = IF p < pass.position THEN Level(l - 1)[p + 1] ELSE NoHidden
          BY <1>1, <4>1, <4>2 DEF IInv, CacheHolds
        <5>2. QED BY <3>1, <5>1
      <4>4. p - pass.position \notin 0..(Len(pass.rows) - 1)
        BY <1>1, <4>1, <4>3, Sizes, SMT DEF IInv, TypeOK, Positions
      <4>5. cache'[l] = Appended(cache[l])
        BY <4>1
      <4>6. QED BY <4>4, <4>5 DEF Appended
    <3>4. QED BY <3>2, <3>3
  <2>3. QED
    BY <1>1, <2>1, <2>2
    DEF Next, Progress, Ended, PromptBlock, Return, EndPrompt, SampleToken, EndGenerate, vars
<1>2. Spec => []IInv
  BY InitIInv, NextIInv, PTL DEF Spec
<1>3. QED
  BY <1>1, <1>2, PTL DEF Spec, RowsWrittenOnce

-----------------------------------------------------------------------------
(* A sampled token is a step of GreedyDecode, the end of a run another;    *)
(* blocks and layers do not show.                                          *)
LEMMA StepImplements ==
    ASSUME IInv, [Next]_vars
    PROVE  [Greedy!Sample \/ Greedy!Finish]_(Greedy!vars)
<1> DEFINE mapped == [prompt |-> command.prompt,
                      maxNew |-> IF command.generate /\ Accepted(command)
                                 THEN command.maxNew ELSE 0]
<1>1. CASE SampleToken
  <2>1. PICK next \in Vocabulary :
          /\ sequence' = Append(sequence, next)
          /\ IF Feeds THEN Start(PositionOf(sequence'), <<next>>, TRUE)
                      ELSE UNCHANGED <<phase, pass>>
    BY <1>1 DEF SampleToken
  <2>2. /\ phase = "generate" /\ ~Running /\ step < command.maxNew
        /\ sampledFrom' = hidden /\ UNCHANGED command
    BY <1>1 DEF SampleToken
  <2>3. /\ command.generate /\ Accepted(command) /\ step \in Nat
        /\ Len(sequence) = Len(command.prompt) + step
        /\ Len(command.prompt) \in Nat /\ command.maxNew \in Nat
    BY <2>2, Bounds DEF IInv, TypeOK, Counts
  <2>4. mapped.prompt = command.prompt /\ mapped.maxNew = command.maxNew
    BY <2>3
  <2>5. Covered = Len(sequence)
    BY <2>2, <2>3, SMT DEF Covered
  <2>6. hidden = Greedy!Hidden(sequence)
    BY <2>2, <2>5 DEF IInv, HiddenIsLast
  <2>7. Len(sequence) < Len(mapped.prompt) + mapped.maxNew
    <3> DEFINE m == Len(command.prompt)
               k == command.maxNew
    <3>1. m \in Nat /\ k \in Nat /\ step \in Nat /\ step < k
      BY <2>2, <2>3
    <3> HIDE DEF m, k
    <3>2. m + step < m + k
      BY <3>1, SMT
    <3>3. QED BY <2>3, <2>4, <3>2 DEF m, k
  <2>8. phase # "done" /\ phase' # "done"
    <3>1. IInv'
      BY <1>1, SampleTokenIInv
    <3>2. phase' \in {phase, "failed"}
      BY <2>1, <2>2 DEF Start
    <3>3. QED BY <2>2, <3>2
  <2>9. Greedy!Sample
    BY <2>1, <2>2, <2>6, <2>7, <2>8 DEF Greedy!Sample, Accepted
  <2>10. QED BY <2>9
<1>2. ASSUME EndPrompt \/ EndGenerate
      PROVE  [Greedy!Sample \/ Greedy!Finish]_(Greedy!vars)
  <2>1. /\ ~Running /\ phase # "done"
        /\ UNCHANGED <<command, sequence, sampledFrom>>
    BY <1>2 DEF EndPrompt, EndGenerate
  <2>2. CASE phase' # "done"
    BY <2>1, <2>2 DEF Greedy!vars, Accepted
  <2>3. CASE phase' = "done"
    <3>1. IInv' /\ phase # "refused"
      BY <1>2, EndsIInv DEF EndPrompt, EndGenerate
    <3>2. step' = step /\ command' = command
      BY <1>2 DEF EndPrompt, EndGenerate
    <3>3. step = (IF command.generate THEN command.maxNew ELSE 0)
      BY <2>3, <3>1, <3>2 DEF IInv, Counts
    <3>4. Accepted(command) /\ Len(sequence) = Len(command.prompt) + step
      BY <3>1 DEF IInv, Counts
    <3>5. Len(sequence) = Len(mapped.prompt) + mapped.maxNew
      BY <3>3, <3>4
    <3>6. Greedy!Finish
      BY <2>1, <2>3, <3>5 DEF Greedy!Finish, Accepted
    <3>7. QED BY <3>6
  <2>4. QED BY <2>2, <2>3
<1>3. ASSUME PromptBlock \/ Layer \/ Return
      PROVE  UNCHANGED Greedy!vars
  <2>1. /\ UNCHANGED <<command, sequence, sampledFrom>>
        /\ phase # "done" /\ phase' # "done"
    <3>1. UNCHANGED <<command, sequence, sampledFrom>>
      BY <1>3 DEF PromptBlock, Layer, Return
    <3>2. phase # "done"
      BY <1>3 DEF PromptBlock, Layer, Return, IInv, PassCovers
    <3>3. phase' \in {phase, "failed"}
      BY <1>3 DEF PromptBlock, Layer, Return, Start
    <3>4. QED BY <3>1, <3>2, <3>3
  <2>2. QED BY <2>1 DEF Greedy!vars, Accepted
<1>4. CASE UNCHANGED vars
  BY <1>4 DEF vars, Greedy!vars, Accepted
<1>5. QED
  BY <1>1, <1>2, <1>3, <1>4 DEF Next, Progress, Ended

(***************************************************************************)
(* Every sampled token comes from the hidden row that full causal          *)
(* attention over the whole sequence gives, whatever blocks the prompt was *)
(* cut into and whichever passes left their rows on the device.            *)
(***************************************************************************)
THEOREM Implementation == Spec => ImplementsGreedyDecode
<1>1. Init => Greedy!Init
  BY DEF Init, Greedy!Init
<1>2. Spec => []IInv
  BY InitIInv, NextIInv, PTL DEF Spec
<1>3. QED
  BY <1>1, <1>2, StepImplements, PTL
  DEF Spec, ImplementsGreedyDecode, Greedy!Spec
=============================================================================
