------------------------- MODULE ResidentLayer_proofs -------------------------
(***************************************************************************)
(* The data path of a resident task, for every number of layers, rows,     *)
(* slices, cache positions, tile and word sizes: the two layouts of the K  *)
(* cache agree, the walk is causal, operands in use are not overwritten,   *)
(* and the controller implements DecoderLayer.                             *)
(*                                                                         *)
(* The argument: at every step of a task, the banks hold the tensors the   *)
(* steps that remain need (Held).  During an exchange, the units in flight *)
(* were computed from the operands as they still are, and the units        *)
(* already stored are where their cells say (Exchange), so that the end of *)
(* the exchange gives the next tensor.  During the walk, the rows below    *)
(* RowsDone are attended and the others still hold their V rows; what a    *)
(* later row stores is beyond the context of an earlier one.               *)
(***************************************************************************)
EXTENDS ResidentLayer, Integers, SequenceTheorems, TLAPS

-----------------------------------------------------------------------------
(* What a task makes of its input row t, name by name. *)
Attends(r) == r.op \in {"DECODER_LAYER", "ATTENTION_SUBLAYER"}
PositionOf(t) == task.position + t
InputRow(t) == Input(task, t)
Normed(t) == Norm(2 * task.layer, InputRow(t))
QueryRow(t) == Project(task.layer, 0, Normed(t))
KeyRow(t) == Project(task.layer, 1, Normed(t))
ValueRow(t) == Project(task.layer, 2, Normed(t))
RotatedQuery(t) == Rope(PositionOf(t), QueryRow(t), HiddenSlices)
Attended(t) ==
    [s \in 1..HiddenSlices |->
        AttendSlice(RotatedQuery(t), Abstract!Context(task.layer, PositionOf(t)), s)]
AttnOutput(t) == Project(task.layer, 3, Attended(t))
Residual(t) ==
    IF Attends(task) THEN Binary("RESIDUAL_ADD", InputRow(t), AttnOutput(t))
    ELSE InputRow(t)
FfnNormed(t) == Norm(2 * task.layer + 1, Residual(t))
Gate(t) == Project(task.layer, 4, FfnNormed(t))
Up(t) == Project(task.layer, 5, FfnNormed(t))
Product(t) == Binary("SILU_MUL", Gate(t), Up(t))
Down(t) == Project(task.layer, 6, Product(t))

-----------------------------------------------------------------------------
(* The inductive invariant.  First the shapes: EXCEPT and the copies of    *)
(* banks are about functions of these domains. *)
Shaped(rows) == rows = [t \in RowSet |-> [s \in 1..Slices |-> rows[t][s]]]

Shape ==
    /\ overlap \in BOOLEAN
    /\ pc \in {"idle", "begin", "run", "walk", "tiles", "store"}
    /\ task \in Tasks \cup {Nothing}
    /\ pc # "idle" => task \in Tasks /\ Accepted(task) /\ step \in 1..Len(Steps(task))
    /\ bank = [b \in Banks |-> bank[b]]
    /\ \A b \in Banks : Shaped(bank[b])
    /\ exch = [sent |-> exch.sent, got |-> exch.got, flight |-> exch.flight,
               scratch |-> exch.scratch]

CacheShape ==
    /\ cache = [layer \in 0..(NumLayers - 1) |-> cache[layer]]
    /\ \A layer \in 0..(NumLayers - 1) :
         /\ cache[layer] = [k |-> cache[layer].k, kt |-> cache[layer].kt,
                            v |-> cache[layer].v]
         /\ cache[layer].k = [p \in 0..(MaxSeq - 1) |-> cache[layer].k[p]]
         /\ cache[layer].v = [p \in 0..(MaxSeq - 1) |-> cache[layer].v[p]]
         /\ cache[layer].kt = [w \in CacheWords |->
               [i \in 0..(WordPositions - 1) |-> cache[layer].kt[w][i]]]

(* The steps of the two sublayers: the step of an attention sublayer, and  *)
(* of an FFN sublayer after it or on its own.                              *)
InAttention == Attends(task) /\ step <= 7
InFfn == task.op = "FFN_SUBLAYER" \/ (task.op = "DECODER_LAYER" /\ step > 7)
FfnStep == IF task.op = "FFN_SUBLAYER" THEN step ELSE step - 7

(* Where the walk is: it runs at step 5 of an attention sublayer, its     *)
(* context is what the tiles read so far hold. *)
WalkState ==
    /\ walk = [rows |-> walk.rows, tile |-> walk.tile, query |-> walk.query,
               context |-> walk.context]
    /\ walk.rows \in Nat /\ walk.tile \in Nat
    /\ pc \in {"walk", "tiles"} => Attends(task) /\ step = 5
    /\ pc \in {"begin", "run"} /\ InAttention /\ step <= 5 => walk.rows = 0
    /\ pc = "run" => ~(Attends(task) /\ step = 5)
    /\ pc \in {"walk", "tiles"} => walk.rows <= task.tokens
    /\ pc # "idle" /\ Attends(task) /\ (step > 5 \/ pc = "store")
         => walk.rows = task.tokens
    /\ pc = "tiles" =>
         /\ walk.rows > 0
         /\ walk.tile % AttnTile = 0
         /\ walk.query = RotatedQuery(walk.rows - 1)
         /\ walk.context =
              [i \in 1..(IF walk.tile < ContextLen THEN walk.tile ELSE ContextLen) |->
                  KvOf(cache)[task.layer][i - 1]]

(* The rows of wide0 that are attended already. *)
RowsDone == IF pc = "tiles" THEN walk.rows - 1 ELSE walk.rows

(* What the banks and buffers hold at a step, slice by slice. *)
HeldInAttention ==
    \A t \in RowsOf(task) :
        /\ \A s \in 1..HiddenSlices : bank["hidden0"][t][s] = InputRow(t)[s]
        /\ step \in 2..4 =>
             \A s \in 1..HiddenSlices : bank["hidden1"][t][s] = Normed(t)[s]
        /\ step \in 3..5 =>
             \A s \in 1..HiddenSlices : query[t][s] = QueryRow(t)[s]
        /\ step \in 4..5 =>
             \A s \in 1..KvSlices : currentK[t][s] = KeyRow(t)[s]
        /\ step = 5 /\ t >= RowsDone =>
             \A s \in 1..KvSlices : bank["wide0"][t][s] = ValueRow(t)[s]
        /\ (step = 5 /\ t < RowsDone) \/ step = 6 =>
             \A s \in 1..HiddenSlices : bank["wide0"][t][s] = Attended(t)[s]
        /\ step = 7 =>
             \A s \in 1..HiddenSlices : bank["wide1"][t][s] = AttnOutput(t)[s]

HeldInFfn ==
    \A t \in RowsOf(task) :
        /\ \A s \in 1..HiddenSlices : bank["hidden1"][t][s] = Residual(t)[s]
        /\ FfnStep \in 2..3 =>
             \A s \in 1..HiddenSlices : bank["hidden0"][t][s] = FfnNormed(t)[s]
        /\ FfnStep \in 3..4 =>
             \A s \in 1..WideSlices : bank["wide0"][t][s] = Gate(t)[s]
        /\ FfnStep = 4 =>
             \A s \in 1..WideSlices : bank["wide1"][t][s] = Up(t)[s]
        /\ FfnStep = 5 =>
             \A s \in 1..WideSlices : bank["wide0"][t][s] = Product(t)[s]
        /\ FfnStep = 6 =>
             \A s \in 1..HiddenSlices : bank["hidden0"][t][s] = Down(t)[s]

HeldInNorm ==
    \A t \in RowsOf(task), s \in 1..HiddenSlices :
        bank["hidden0"][t][s] = InputRow(t)[s]

Held ==
    /\ pc \in {"begin", "run", "walk", "tiles"} =>
         /\ InAttention => HeldInAttention
         /\ InFfn => HeldInFfn
         /\ task.op = "FINAL_NORM" => HeldInNorm
    /\ pc = "store" =>
         \A t \in RowsOf(task), s \in 1..HiddenSlices :
            bank[ResultBank(task)][t][s] = Abstract!Result(task, t)[s]

(* The exchange at work: what its units are worth, and where they go. *)
Unit(u) == [c \in Cells(Now, task, u) |-> Value(Now, task, c[1], c[2])]
Target == IF ThroughScratch(Now) THEN exch.scratch ELSE bank[Now.dst]

Exchange ==
    pc = "run" =>
        /\ exch.sent \in 0..Units(Now, task)
        /\ exch.got \in 0..exch.sent
        /\ exch.flight = [i \in 1..(exch.sent - exch.got) |-> Unit(exch.got + i)]
        /\ \A u \in 1..exch.got : \A c \in Cells(Now, task, u) :
             Target[c[1]][c[2]] = Value(Now, task, c[1], c[2])
        /\ Now.do = "norm" =>
             \A s \in 1..HiddenSlices : bank[Now.b][0][s] = NormWeight(Now.n)

(* The inductive invariant. *)
IInv ==
    /\ Shape /\ CacheShape /\ LayoutsAgree
    /\ WalkState /\ Held /\ Exchange
-----------------------------------------------------------------------------
(* Prefixes of rows that agree slice by slice are the same operand. *)
LEMMA SamePrefix ==
    ASSUME NEW f, NEW g, NEW n \in Nat, \A i \in 1..n : f[i] = g[i]
    PROVE  SubSeq(f, 1, n) = SubSeq(g, 1, n)
<1> DEFINE S == {f[i] : i \in 1..n}
           F == SubSeq(f, 1, n)
           G == SubSeq(g, 1, n)
<1>1. \A i \in 1..n : f[i] \in S /\ g[i] \in S
  OBVIOUS
<1>2. /\ F \in Seq(S) /\ Len(F) = IF 1 <= n THEN n - 1 + 1 ELSE 0
      /\ \A i \in 1..(n - 1 + 1) : F[i] = f[1 + i - 1]
  BY <1>1, SubSeqProperties
<1>3. /\ G \in Seq(S) /\ Len(G) = IF 1 <= n THEN n - 1 + 1 ELSE 0
      /\ \A i \in 1..(n - 1 + 1) : G[i] = g[1 + i - 1]
  BY <1>1, SubSeqProperties
<1> HIDE DEF S, F, G
<1>4. Len(F) = n /\ Len(G) = n /\ \A i \in 1..n : F[i] = G[i]
  BY <1>2, <1>3, SMT
<1>5. F = G
  BY <1>2, <1>3, <1>4, SeqEqual
<1>6. QED BY <1>5 DEF F, G

(* A prefix is the function that gives its slices. *)
LEMMA PrefixSlices ==
    ASSUME NEW f, NEW n \in Nat
    PROVE  SubSeq(f, 1, n) = [i \in 1..n |-> f[i]]
<1> DEFINE S == {f[i] : i \in 1..n}
           F == SubSeq(f, 1, n)
<1>1. \A i \in 1..n : f[i] \in S
  OBVIOUS
<1>2. /\ F \in Seq(S) /\ Len(F) = IF 1 <= n THEN n - 1 + 1 ELSE 0
      /\ \A i \in 1..(n - 1 + 1) : F[i] = f[1 + i - 1]
  BY <1>1, SubSeqProperties
<1> HIDE DEF S, F
<1>3. Len(F) = n /\ \A i \in 1..n : F[i] = f[i]
  BY <1>2, SMT
<1>4. F \in [1..Len(F) -> S] /\ DOMAIN F = 1..Len(F)
  BY <1>2, LenProperties
<1>5. F = [i \in 1..n |-> f[i]]
  BY <1>3, <1>4
<1>6. QED BY <1>5 DEF F

(* A function on 1..n is a sequence of length n. *)
LEMMA FunctionLen ==
    ASSUME NEW n \in Nat, NEW f, f = [i \in 1..n |-> f[i]]
    PROVE  Len(f) = n /\ f \in Seq({f[i] : i \in 1..n})
<1> DEFINE S == {f[i] : i \in 1..n}
<1>1. \A i \in 1..n : f[i] \in S
  OBVIOUS
<1> HIDE DEF S
<1>2. f \in [1..n -> S]
  BY <1>1
<1>3. f \in Seq(S)
  BY <1>2
<1>4. Len(f) = n
  BY <1>2, <1>3
<1>5. QED BY <1>3, <1>4 DEF S

(* Append, Tail and concatenation of sequences given as functions. *)
LEMMA AppendFunction ==
    ASSUME NEW n \in Nat, NEW f, f = [i \in 1..n |-> f[i]], NEW e
    PROVE  Append(f, e) = [i \in 1..(n + 1) |-> IF i = n + 1 THEN e ELSE f[i]]
<1> DEFINE S == {f[i] : i \in 1..n} \cup {e}
           g == Append(f, e)
<1>1. f \in [1..n -> S] /\ e \in S
  OBVIOUS
<1> HIDE DEF S
<1>2. f \in Seq(S)
  BY <1>1
<1>3. Len(f) = n
  BY FunctionLen
<1>4. /\ g \in Seq(S) /\ Len(g) = n + 1
      /\ \A i \in 1..n : g[i] = f[i]
      /\ g[n + 1] = e
  BY <1>1, <1>2, <1>3, AppendProperties
<1> HIDE DEF g
<1>5. g = [i \in 1..(n + 1) |-> g[i]]
  BY <1>4, LenProperties
<1>6. \A i \in 1..(n + 1) : g[i] = IF i = n + 1 THEN e ELSE f[i]
  BY <1>4, SMT
<1>7. QED BY <1>5, <1>6 DEF g

(* The head and the rest of a sequence given as a function. *)
LEMMA TailFunction ==
    ASSUME NEW n \in Nat \ {0}, NEW f, f = [i \in 1..n |-> f[i]]
    PROVE  Head(f) = f[1] /\ Tail(f) = [i \in 1..(n - 1) |-> f[i + 1]]
<1> DEFINE S == {f[i] : i \in 1..n}
           g == Tail(f)
<1>1. f \in Seq(S) /\ Len(f) = n
  BY FunctionLen
<1> HIDE DEF S
<1>2. f # << >>
  BY <1>1
<1>3. /\ g \in Seq(S) /\ Len(g) = n - 1
      /\ \A i \in 1..(n - 1) : g[i] = f[i + 1]
  BY <1>1, <1>2, HeadTailProperties
<1>4. Head(f) = f[1]
  BY <1>1, <1>2
<1> HIDE DEF g
<1>5. g = [i \in 1..(n - 1) |-> g[i]]
  BY <1>3, LenProperties
<1>6. QED BY <1>3, <1>4, <1>5 DEF g

(* The concatenation of two sequences given as functions. *)
LEMMA ConcatFunction ==
    ASSUME NEW n \in Nat, NEW f, f = [i \in 1..n |-> f[i]],
           NEW m \in Nat, NEW g, g = [i \in 1..m |-> g[i]]
    PROVE  f \o g = [i \in 1..(n + m) |-> IF i <= n THEN f[i] ELSE g[i - n]]
<1> DEFINE S == {f[i] : i \in 1..n} \cup {g[i] : i \in 1..m}
           h == f \o g
<1>1. f \in [1..n -> S] /\ g \in [1..m -> S]
  OBVIOUS
<1>2. Len(f) = n /\ Len(g) = m
  BY FunctionLen
<1> HIDE DEF S
<1>3. f \in Seq(S) /\ g \in Seq(S)
  BY <1>1
<1>4. /\ h \in Seq(S) /\ Len(h) = n + m
      /\ \A i \in 1..(n + m) : h[i] = IF i <= n THEN f[i] ELSE g[i - n]
  BY <1>2, <1>3, ConcatProperties
<1> HIDE DEF h
<1>5. h = [i \in 1..(n + m) |-> h[i]]
  BY <1>4, LenProperties
<1>6. QED BY <1>4, <1>5 DEF h

(* What the assumptions say of the sizes, one by one. *)
LEMMA Sizes ==
    /\ HiddenSlices \in Nat \ {0} /\ KvSlices \in Nat \ {0} /\ WideSlices \in Nat \ {0}
    /\ Slices \in Nat /\ HiddenSlices <= Slices /\ WideSlices <= Slices
    /\ KvSlices <= HiddenSlices
    /\ Rows \in Nat \ {0} /\ RowsPerCore \in Nat \ {0} /\ Rows <= 2 * RowsPerCore
    /\ MaxSeq \in Nat /\ NumLayers \in Nat
    /\ AttnTile \in Nat \ {0} /\ WordPositions \in Nat \ {0}
    /\ \A n : OutSlices(n) \in Nat /\ OutSlices(n) <= Slices
    /\ \A n : InSlices(n) \in Nat /\ InSlices(n) <= Slices
<1>1. /\ HiddenSlices \in Nat \ {0} /\ KvSlices \in Nat \ {0} /\ WideSlices \in Nat \ {0}
      /\ KvSlices <= HiddenSlices
  BY SlicesAssumption, SMT DEF SlicesAssumption
<1>2. Slices \in Nat /\ HiddenSlices <= Slices /\ WideSlices <= Slices
  BY <1>1, SMT DEF Slices
<1>3. /\ Rows \in Nat \ {0} /\ RowsPerCore \in Nat \ {0} /\ Rows <= 2 * RowsPerCore
  BY RowAssumption DEF RowAssumption
<1>4. /\ MaxSeq \in Nat /\ NumLayers \in Nat
      /\ AttnTile \in Nat \ {0} /\ WordPositions \in Nat \ {0}
  BY TileAssumption, TaskAssumption DEF TileAssumption, TaskAssumption
<1>5. \A n : OutSlices(n) \in Nat /\ OutSlices(n) <= Slices
  BY <1>1, <1>2, SMT DEF OutSlices
<1>6. \A n : InSlices(n) \in Nat /\ InSlices(n) <= Slices
  BY <1>1, <1>2, SMT DEF InSlices
<1>7. QED BY <1>1, <1>2, <1>3, <1>4, <1>5, <1>6

(* The tasks. *)
LEMMA TaskFacts ==
    ASSUME NEW r \in Tasks, Accepted(r)
    PROVE  /\ r # Nothing
           /\ r.op \in {"DECODER_LAYER", "ATTENTION_SUBLAYER", "FFN_SUBLAYER",
                        "FINAL_NORM"}
           /\ r.layer \in 0..(NumLayers - 1) /\ r.position \in Nat /\ r.tokens \in Nat
           /\ r.tokens \in 1..Rows
           /\ RowsOf(r) \subseteq RowSet
           /\ Attends(r) => r.position + r.tokens <= MaxSeq
<1>1. /\ r # Nothing
      /\ r.op \in {"DECODER_LAYER", "ATTENTION_SUBLAYER", "FFN_SUBLAYER", "FINAL_NORM"}
      /\ {r.layer, r.position, r.tokens} \subseteq Nat
  BY TaskAssumption DEF TaskAssumption
<1>2. r.tokens \in 1..Rows /\ r.layer < NumLayers
  BY DEF Accepted
<1>3. Attends(r) => r.position + r.tokens <= MaxSeq
  BY DEF Accepted, Attends
<1>4. r.layer \in 0..(NumLayers - 1)
  BY <1>1, <1>2, Sizes, SMT
<1>5. RowsOf(r) \subseteq RowSet
  BY <1>1, <1>2, Sizes, SMT DEF RowsOf, RowSet
<1>6. QED BY <1>1, <1>2, <1>3, <1>4, <1>5

-----------------------------------------------------------------------------
(* Positions and the words and lanes of the transposed K cache. *)
LEMMA DivisionUnique ==
    ASSUME NEW q \in Nat, NEW r \in Nat, NEW m \in Nat \ {0}, r < m
    PROVE  (q * m + r) \div m = q /\ (q * m + r) % m = r
<1> DEFINE a == q * m + r
           d == a \div m
<1>1. a \in Nat /\ d \in Int /\ a % m \in 0..(m - 1) /\ a = m * d + (a % m)
  BY SMT
<1>2. CASE d < q
  BY <1>1, <1>2, SMT
<1>3. CASE d > q
  BY <1>1, <1>3, SMT
<1>4. QED BY <1>1, <1>2, <1>3, SMT

(* Quotient and remainder of a natural number. *)
LEMMA Divided ==
    ASSUME NEW a \in Nat, NEW m \in Nat \ {0}
    PROVE  a \div m \in Nat /\ a % m \in 0..(m - 1) /\ a = m * (a \div m) + (a % m)
  BY SMT

(* Every position has a word and a lane of the transposed cache, and no   *)
(* other position has both.                                               *)
LEMMA PositionAddress ==
    ASSUME NEW p \in 0..(MaxSeq - 1)
    PROVE  /\ p \div WordPositions \in CacheWords
           /\ p % WordPositions \in 0..(WordPositions - 1)
           /\ \A q \in 0..(MaxSeq - 1) :
                q \div WordPositions = p \div WordPositions
                  /\ q % WordPositions = p % WordPositions => q = p
<1>1. p \in Nat /\ MaxSeq \in Nat /\ WordPositions \in Nat \ {0} /\ p < MaxSeq
      /\ MaxSeq % WordPositions = 0
  BY Sizes, TileAssumption, SMT DEF TileAssumption
<1> DEFINE W == WordPositions
           d == p \div W
           n == MaxSeq \div W
<1>2. d \in Nat /\ p % W \in 0..(W - 1) /\ p = W * d + (p % W)
  BY <1>1, Divided
<1>3. n \in Nat /\ MaxSeq = W * n
  BY <1>1, Divided, SMT
<1>4. d < n
  <2>1. CASE d >= n
    <3>1. W * d >= W * n
      BY <1>1, <1>2, <1>3, <2>1, SMT
    <3>2. QED BY <1>1, <1>2, <1>3, <3>1, SMT
  <2>2. QED BY <1>2, <1>3, <2>1, SMT
<1>5. d \in CacheWords
  BY <1>2, <1>3, <1>4, SMT DEF CacheWords
<1>6. \A q \in 0..(MaxSeq - 1) : q \div W = d /\ q % W = p % W => q = p
  <2>1. TAKE q \in 0..(MaxSeq - 1)
  <2>2. q = W * (q \div W) + (q % W)
    BY <1>1, Divided
  <2>3. QED BY <1>2, <2>2
<1>7. QED BY <1>2, <1>5, <1>6

(* A tile starts at a word: position begin + local of it is where the QK   *)
(* and PV paths compute it. *)
LEMMA TileAddress ==
    ASSUME NEW begin \in Nat, begin % AttnTile = 0, NEW local \in Nat
    PROVE  /\ begin \div WordPositions + local \div WordPositions
                = (begin + local) \div WordPositions
           /\ local % WordPositions = (begin + local) % WordPositions
<1>1. AttnTile \in Nat \ {0} /\ WordPositions \in Nat \ {0}
      /\ AttnTile % WordPositions = 0
  BY Sizes, TileAssumption DEF TileAssumption
<1> DEFINE W == WordPositions
           a == begin \div AttnTile
           b == AttnTile \div W
           l == local \div W
           k == local % W
<1>2. a \in Nat /\ begin = AttnTile * a
  BY <1>1, Divided, SMT
<1>3. b \in Nat /\ AttnTile = W * b
  BY <1>1, Divided, SMT
<1>4. l \in Nat /\ k \in Nat /\ k < W /\ local = W * l + k
  BY <1>1, Divided, SMT
<1> HIDE DEF a, b, l, k
<1>5. a * b \in Nat /\ a * b + l \in Nat
  BY <1>2, <1>3, <1>4, SMT
<1>6. begin = (a * b) * W + 0
  BY <1>1, <1>2, <1>3, SMT
<1>7. begin + local = (a * b + l) * W + k
  BY <1>1, <1>4, <1>5, <1>6, SMT
<1>8. begin \div W = a * b
  BY <1>1, <1>5, <1>6, DivisionUnique
<1> DEFINE q == a * b + l
<1>9. q \in Nat /\ begin + local = q * W + k
  BY <1>5, <1>7
<1> HIDE DEF q
<1>10. (q * W + k) \div W = q /\ (q * W + k) % W = k
  BY <1>1, <1>4, <1>9, DivisionUnique
<1>11. (begin + local) \div W = q /\ (begin + local) % W = k
  BY <1>9, <1>10
<1>12. QED BY <1>8, <1>11 DEF l, k, q

-----------------------------------------------------------------------------
(* The exchanges of a task, by position. *)
LEMMA StepsAt ==
    ASSUME NEW r \in Tasks, Accepted(r)
    PROVE  /\ r.op = "DECODER_LAYER" =>
                /\ Len(Steps(r)) = 13
                /\ \A i \in 1..7 : Steps(r)[i] = AttentionSteps(r.layer)[i]
                /\ \A i \in 8..13 : Steps(r)[i] = FfnSteps(r.layer)[i - 7]
           /\ r.op = "ATTENTION_SUBLAYER" =>
                Len(Steps(r)) = 7 /\ Steps(r) = AttentionSteps(r.layer)
           /\ r.op = "FFN_SUBLAYER" =>
                Len(Steps(r)) = 6 /\ Steps(r) = FfnSteps(r.layer)
           /\ r.op = "FINAL_NORM" =>
                /\ Len(Steps(r)) = 1
                /\ Steps(r)[1] = NormStep(2 * NumLayers, "hidden0", "wide0", "hidden1")
<1> DEFINE A == AttentionSteps(r.layer)
           F == FfnSteps(r.layer)
<1>1. Len(A) = 7 /\ A = [i \in 1..7 |-> A[i]]
  BY SMT DEF AttentionSteps
<1>2. Len(F) = 6 /\ F = [i \in 1..6 |-> F[i]]
  BY SMT DEF FfnSteps
<1> HIDE DEF A, F
<1>3. A \o F = [i \in 1..(7 + 6) |-> IF i <= 7 THEN A[i] ELSE F[i - 7]]
  BY <1>1, <1>2, ConcatFunction
<1> DEFINE AF == A \o F
<1>4. Len(AF) = 13 /\ \A i \in 1..13 : AF[i] = IF i <= 7 THEN A[i] ELSE F[i - 7]
  <2>1. AF = [i \in 1..13 |-> IF i <= 7 THEN A[i] ELSE F[i - 7]]
    BY <1>3
  <2> HIDE DEF AF
  <2>2. AF = [i \in 1..13 |-> AF[i]]
    BY <2>1
  <2>3. Len(AF) = 13
    BY <2>2, FunctionLen
  <2>4. QED BY <2>1, <2>3
<1>5. CASE r.op = "DECODER_LAYER"
  <2>1. Steps(r) = AF
    BY <1>5 DEF Steps, A, F
  <2> HIDE DEF AF
  <2>4. ASSUME NEW i \in 1..7 PROVE Steps(r)[i] = A[i]
    <3>1. i \in 1..13 /\ i <= 7
      BY SMT
    <3>2. AF[i] = A[i]
      BY <1>4, <3>1
    <3>3. QED BY <2>1, <3>2
  <2>5. ASSUME NEW i \in 8..13 PROVE Steps(r)[i] = F[i - 7]
    <3>1. i \in 1..13 /\ ~(i <= 7)
      BY SMT
    <3>2. AF[i] = F[i - 7]
      BY <1>4, <3>1
    <3>3. QED BY <2>1, <3>2
  <2>6. QED BY <1>4, <1>5, <2>1, <2>4, <2>5 DEF A, F
<1>6. CASE r.op = "ATTENTION_SUBLAYER"
  BY <1>1, <1>6 DEF Steps, A
<1>7. CASE r.op = "FFN_SUBLAYER"
  BY <1>2, <1>7 DEF Steps, F
<1>8. CASE r.op = "FINAL_NORM"
  <2>1. Steps(r) = << NormStep(2 * NumLayers, "hidden0", "wide0", "hidden1") >>
    BY <1>8 DEF Steps
  <2>2. QED BY <1>8, <2>1
<1>9. QED BY <1>5, <1>6, <1>7, <1>8, TaskFacts

Exchanges(layer) ==
    { NormStep(2 * layer, "hidden0", "wide0", "hidden1"),
      NormStep(2 * NumLayers, "hidden0", "wide0", "hidden1"),
      NormStep(2 * layer + 1, "hidden1", "wide1", "hidden0"),
      ProjectStep(0, "hidden1", "wide0"),
      ProjectStep(1, "hidden1", "wide0"),
      ProjectStep(2, "hidden1", "wide0"),
      ProjectStep(3, "wide0", "wide1"),
      ProjectStep(4, "hidden0", "wide0"),
      ProjectStep(5, "hidden0", "wide1"),
      ProjectStep(6, "wide0", "hidden0"),
      BinaryStep("RESIDUAL_ADD", "hidden0", "wide1", "hidden1"),
      BinaryStep("SILU_MUL", "wide0", "wide1", "wide0"),
      BinaryStep("RESIDUAL_ADD", "hidden0", "hidden1", "hidden0"),
      WalkStep }

(* The steps of an attention sublayer are exchanges of the list. *)
LEMMA AttentionExchanges ==
    ASSUME NEW layer, NEW i \in 1..7
    PROVE  AttentionSteps(layer)[i] \in Exchanges(layer)
  BY SMT DEF AttentionSteps, Exchanges

(* So are the steps of an FFN sublayer. *)
LEMMA FfnExchanges ==
    ASSUME NEW layer, NEW i \in 1..6
    PROVE  FfnSteps(layer)[i] \in Exchanges(layer)
  BY SMT DEF FfnSteps, Exchanges

(* So is every step of an accepted task. *)
LEMMA StepExchanges ==
    ASSUME NEW r \in Tasks, Accepted(r), NEW i \in 1..Len(Steps(r))
    PROVE  Steps(r)[i] \in Exchanges(r.layer)
<1>1. CASE r.op = "DECODER_LAYER"
  <2>1. i \in 1..13
    BY <1>1, StepsAt
  <2>2. CASE i \in 1..7
    BY <1>1, <2>2, StepsAt, AttentionExchanges
  <2>3. CASE i \in 8..13
    <3>1. i - 7 \in 1..6
      BY <2>3, SMT
    <3>2. QED BY <1>1, <2>3, <3>1, StepsAt, FfnExchanges
  <2>4. QED BY <2>1, <2>2, <2>3
<1>2. CASE r.op = "ATTENTION_SUBLAYER"
  BY <1>2, StepsAt, AttentionExchanges
<1>3. CASE r.op = "FFN_SUBLAYER"
  BY <1>3, StepsAt, FfnExchanges
<1>4. CASE r.op = "FINAL_NORM"
  <2>1. Len(Steps(r)) = 1
    BY <1>4, StepsAt
  <2>2. i = 1
    BY <2>1, SMT
  <2>3. QED BY <1>4, <2>2, StepsAt DEF Exchanges
<1>5. QED BY <1>1, <1>2, <1>3, <1>4, TaskFacts

(* No exchange but the walk writes a bank it reads, unless through a buffer. *)
SoundBanks(e) ==
    /\ e.a \in Banks /\ e.b \in Banks /\ e.dst \in Banks
    /\ e.do \in {"norm", "project", "binary"}
    /\ e.a # e.dst \/ InPlace(e)
    /\ e.b # e.dst
    /\ e.do = "norm" => e.a # e.b
    /\ Width(e) \in Nat \ {0} /\ Width(e) <= Slices
    /\ e.do = "project" => Width(e) = OutSlices(e.n)
    /\ e.do = "norm" => Width(e) = HiddenSlices

(* Every exchange of the list uses its banks soundly. *)
LEMMA ExchangeBanks ==
    ASSUME NEW layer, NEW e \in Exchanges(layer), e.do # "walk"
    PROVE  SoundBanks(e)
<1>1. /\ HiddenSlices \in Nat \ {0} /\ WideSlices \in Nat \ {0} /\ KvSlices \in Nat \ {0}
      /\ HiddenSlices <= Slices /\ WideSlices <= Slices /\ KvSlices <= Slices
  BY Sizes, SMT
<1>2. \A n : OutSlices(n) \in {KvSlices, WideSlices, HiddenSlices}
  BY DEF OutSlices
<1>3. ASSUME NEW index, NEW a \in Banks, NEW b \in Banks, NEW dst \in Banks,
             a # b, a # dst, b # dst, e = NormStep(index, a, b, dst)
      PROVE  SoundBanks(e)
  <2>1. e.do = "norm" /\ e.op = "RMSNORM" /\ e.a = a /\ e.b = b /\ e.dst = dst
    BY <1>3 DEF NormStep
  <2>2. Width(e) = HiddenSlices
    BY <2>1 DEF Width
  <2>3. QED BY <1>1, <1>3, <2>1, <2>2 DEF SoundBanks
<1>4. ASSUME NEW n, NEW a \in Banks, NEW dst \in Banks, a # dst,
             e = ProjectStep(n, a, dst)
      PROVE  SoundBanks(e)
  <2>1. e.do = "project" /\ e.op = "MM" /\ e.a = a /\ e.b = a /\ e.dst = dst /\ e.n = n
    BY <1>4 DEF ProjectStep
  <2>2. Width(e) = OutSlices(e.n)
    BY <2>1 DEF Width
  <2>3. QED BY <1>1, <1>2, <1>4, <2>1, <2>2 DEF SoundBanks
<1>5. ASSUME NEW op, NEW a \in Banks, NEW b \in Banks, NEW dst \in Banks, b # dst,
             e = BinaryStep(op, a, b, dst)
      PROVE  SoundBanks(e)
  <2>1. e.do = "binary" /\ e.a = a /\ e.b = b /\ e.dst = dst /\ e.op = op
    BY <1>5 DEF BinaryStep
  <2>2. Width(e) \in {HiddenSlices, WideSlices}
    BY <2>1 DEF Width
  <2>3. a # dst \/ InPlace(e)
    BY <2>1 DEF InPlace
  <2>4. QED BY <1>1, <1>5, <2>1, <2>2, <2>3 DEF SoundBanks
<1>6. WalkStep.do = "walk"
  BY DEF WalkStep
<1>7. QED BY <1>3, <1>4, <1>5, <1>6 DEF Exchanges, Banks

-----------------------------------------------------------------------------
(* The units of an exchange produce the rows of the task, all of them. *)
LEMMA UnitCells ==
    ASSUME NEW r \in Tasks, Accepted(r), NEW layer, NEW e \in Exchanges(layer),
           e.do # "walk"
    PROVE  /\ Units(e, r) \in Nat
           /\ \A u \in 1..Units(e, r) :
                Cells(e, r, u) \subseteq RowsOf(r) \X (1..Width(e))
           /\ \A t \in RowsOf(r), s \in 1..Width(e) :
                \E u \in 1..Units(e, r) : <<t, s>> \in Cells(e, r, u)
<1> DEFINE w == Width(e)
           n == LocalTokens(r)
           T == r.tokens
           C == RowsPerCore
           R == RowsOf(r)
           lane(i) == {i, i + C} \cap R
<1>1. /\ w \in Nat \ {0} /\ e.do \in {"norm", "project", "binary"}
      /\ e.do = "project" => w = OutSlices(e.n)
      /\ e.do = "norm" => w = HiddenSlices
  BY ExchangeBanks DEF SoundBanks
<1>2. /\ T \in Nat \ {0} /\ C \in Nat \ {0} /\ T <= 2 * C /\ R = 0..(T - 1)
  BY TaskFacts, Sizes, SMT DEF RowsOf
<1>3. n \in Nat \ {0} /\ n = (IF T < C THEN T ELSE C)
  BY <1>2, SMT DEF LocalTokens
<1> HIDE DEF w, n, T, C, R
<1>4. \A t \in R : \E i \in 0..(n - 1) : t \in lane(i)
  <2>1. TAKE t \in R
  <2>2. CASE t < C
    <3>1. t \in 0..(n - 1)
      BY <1>2, <1>3, <2>2, SMT
    <3>2. t \in lane(t)
      OBVIOUS
    <3>3. QED BY <3>1, <3>2
  <2>3. CASE t >= C
    <3>1. t - C \in 0..(n - 1) /\ (t - C) + C = t
      BY <1>2, <1>3, <2>3, SMT
    <3>2. t \in lane(t - C)
      BY <3>1
    <3>3. QED BY <3>1, <3>2
  <2>4. QED BY <1>2, <2>2, <2>3, SMT
<1>5. CASE e.do = "project"
  <2>1. Units(e, r) = w /\ \A u : Cells(e, r, u) = R \X {u}
    BY <1>1, <1>5 DEF Units, Cells, R
  <2>2. QED BY <1>1, <2>1 DEF w, R
<1>6. CASE e.do = "norm"
  <2>1. Units(e, r) = n /\ \A u : Cells(e, r, u) = lane(u - 1) \X (1..w)
    BY <1>1, <1>6 DEF Units, Cells, R, n, C
  <2>2. \A t \in R, s \in 1..w : \E u \in 1..n : <<t, s>> \in lane(u - 1) \X (1..w)
    <3>1. TAKE t \in R, s \in 1..w
    <3>2. PICK i \in 0..(n - 1) : t \in lane(i)
      BY <1>4
    <3>0. i \in 0..(n - 1)
      BY <3>2
    <3>1a. n \in Nat \ {0}
      BY <1>3
    <3>3. i + 1 \in 1..n /\ (i + 1) - 1 = i
      BY <3>1a, <3>0, SMT
    <3>4. <<t, s>> \in lane((i + 1) - 1) \X (1..w)
      BY <3>2, <3>3
    <3>5. QED BY <3>3, <3>4
  <2>3. QED BY <1>3, <2>1, <2>2 DEF w, R
<1>7. CASE e.do = "binary"
  <2>1. /\ Units(e, r) = n * w
        /\ \A u : Cells(e, r, u) = lane((u - 1) \div w) \X {1 + ((u - 1) % w)}
    BY <1>1, <1>7 DEF Units, Cells, R, n, w, C
  <2>2. n * w \in Nat
    BY <1>1, <1>3, SMT
  <2>3. \A u \in 1..(n * w) : 1 + ((u - 1) % w) \in 1..w
    <3>1. TAKE u \in 1..(n * w)
    <3>2. u - 1 \in Nat
      BY <2>2, SMT
    <3>3. (u - 1) % w \in 0..(w - 1)
      BY <1>1, <3>2, Divided
    <3>4. QED BY <1>1, <3>3, SMT
  <2>4. \A t \in R, s \in 1..w : \E u \in 1..(n * w) :
          <<t, s>> \in lane((u - 1) \div w) \X {1 + ((u - 1) % w)}
    <3>1. TAKE t \in R, s \in 1..w
    <3>2. PICK i \in 0..(n - 1) : t \in lane(i)
      BY <1>4
    <3> DEFINE v == i * w + (s - 1)
    <3>0. i \in 0..(n - 1) /\ s \in 1..w /\ w \in Nat /\ n \in Nat
      BY <1>1, <1>3, <3>1, <3>2
    <3>3. i \in Nat /\ s - 1 \in Nat /\ s - 1 < w /\ i + 1 <= n
      BY <3>0, SMT
    <3>4. v \div w = i /\ v % w = s - 1
      BY <1>1, <3>3, DivisionUnique
    <3>5. v \in Nat /\ v + 1 <= n * w
      <4>1. (i + 1) * w <= n * w
        BY <1>1, <1>3, <3>3, SMT
      <4>2. (i + 1) * w = i * w + w /\ i * w \in Nat
        BY <1>1, <3>3, SMT
      <4>3. QED BY <1>1, <2>2, <3>3, <4>1, <4>2, SMT
    <3> HIDE DEF v
    <3>6. v + 1 \in 1..(n * w) /\ (v + 1) - 1 = v
      BY <2>2, <3>5, SMT
    <3>7. 1 + (v % w) = s
      BY <3>3, <3>4, SMT
    <3>8. <<t, s>> \in lane(((v + 1) - 1) \div w) \X {1 + (((v + 1) - 1) % w)}
      BY <3>2, <3>4, <3>6, <3>7
    <3>9. QED BY <3>6, <3>8
  <2>5. QED BY <2>1, <2>2, <2>3, <2>4 DEF w, R
<1>8. QED BY <1>1, <1>5, <1>6, <1>7

-----------------------------------------------------------------------------
(* The entry of a position, as the compute cores see it. *)
LEMMA KvEntry ==
    ASSUME CacheShape, NEW layer \in 0..(NumLayers - 1), NEW p \in 0..(MaxSeq - 1)
    PROVE  KvOf(cache)[layer][p] =
             [k |-> cache[layer].kt[p \div WordPositions][p % WordPositions],
              v |-> cache[layer].v[p]]
<1>1. DOMAIN cache = 0..(NumLayers - 1)
  BY DEF CacheShape
<1>2. QED BY <1>1 DEF KvOf

(* The invariant holds before the first launch: stale entries agree in    *)
(* both layouts.                                                          *)
LEMMA InitIInv == Init => IInv
<1> SUFFICES ASSUME Init PROVE IInv
  OBVIOUS
<1>1. Shape
  <2>1. Shaped(FilledRows(Junk))
    BY DEF Shaped, FilledRows
  <2>2. bank = [b \in Banks |-> FilledRows(Junk)]
    BY DEF Init
  <2>3. bank = [b \in Banks |-> bank[b]] /\ \A b \in Banks : Shaped(bank[b])
    BY <2>1, <2>2
  <2>4. QED BY <2>3 DEF Init, Shape, NoExchange
<1>2. CacheShape
  <2>1. cache = FirstCache
    BY DEF Init
  <2>2. QED BY <2>1 DEF CacheShape, FirstCache
<1>3. LayoutsAgree
  <2>1. cache = FirstCache
    BY DEF Init
  <2>2. SUFFICES ASSUME NEW layer \in 0..(NumLayers - 1), NEW p \in 0..(MaxSeq - 1)
                 PROVE  cache[layer].kt[p \div WordPositions][p % WordPositions]
                          = cache[layer].k[p]
    BY <2>1 DEF LayoutsAgree, FirstCache
  <2> DEFINE w == p \div WordPositions
             i == p % WordPositions
  <2>3. w \in CacheWords /\ i \in 0..(WordPositions - 1)
    BY PositionAddress
  <2>4. w * WordPositions + i = p
    BY Sizes, Divided, SMT
  <2> HIDE DEF w, i
  <2>5. cache[layer].kt[w][i] = StaleEntry(layer, w * WordPositions + i).k
    BY <2>1, <2>3 DEF FirstCache
  <2>6. cache[layer].k[p] = StaleEntry(layer, p).k
    BY <2>1 DEF FirstCache
  <2>7. QED BY <2>4, <2>5, <2>6 DEF w, i
<1>4. WalkState
  BY DEF Init, WalkState, NoWalk
<1>5. Held /\ Exchange
  BY DEF Init, Held, Exchange
<1>6. QED BY <1>1, <1>2, <1>3, <1>4, <1>5 DEF IInv

-----------------------------------------------------------------------------
(* What the rows of a task are depends on the task and the cache alone. *)
LEMMA SameRows ==
    ASSUME task' = task, cache' = cache, NEW t
    PROVE  /\ InputRow(t)' = InputRow(t) /\ Normed(t)' = Normed(t)
           /\ QueryRow(t)' = QueryRow(t) /\ KeyRow(t)' = KeyRow(t)
           /\ ValueRow(t)' = ValueRow(t) /\ RotatedQuery(t)' = RotatedQuery(t)
           /\ Attended(t)' = Attended(t) /\ AttnOutput(t)' = AttnOutput(t)
           /\ Residual(t)' = Residual(t) /\ FfnNormed(t)' = FfnNormed(t)
           /\ Gate(t)' = Gate(t) /\ Up(t)' = Up(t)
           /\ Product(t)' = Product(t) /\ Down(t)' = Down(t)
<1>1. /\ InputRow(t)' = InputRow(t) /\ Normed(t)' = Normed(t)
      /\ QueryRow(t)' = QueryRow(t) /\ KeyRow(t)' = KeyRow(t)
      /\ ValueRow(t)' = ValueRow(t)
  BY DEF InputRow, Normed, QueryRow, KeyRow, ValueRow
<1>2. PositionOf(t)' = PositionOf(t)
  BY DEF PositionOf
<1>3. RotatedQuery(t)' = RotatedQuery(t)
  BY <1>1, <1>2 DEF RotatedQuery
<1>4. Attended(t)' = Attended(t)
  BY <1>2, <1>3 DEF Attended, Abstract!Context
<1>5. AttnOutput(t)' = AttnOutput(t)
  BY <1>4 DEF AttnOutput
<1>6. Residual(t)' = Residual(t)
  BY <1>1, <1>5 DEF Residual
<1>7. FfnNormed(t)' = FfnNormed(t)
  BY <1>6 DEF FfnNormed
<1>8. Gate(t)' = Gate(t) /\ Up(t)' = Up(t)
  BY <1>7 DEF Gate, Up
<1>9. Product(t)' = Product(t)
  BY <1>8 DEF Product
<1>10. Down(t)' = Down(t)
  BY <1>9 DEF Down
<1>11. QED BY <1>1, <1>3, <1>4, <1>5, <1>6, <1>7, <1>8, <1>9, <1>10

(* A step of the controller that leaves alone the banks an attention      *)
(* sublayer still needs keeps its rows.                                   *)
LEMMA AttentionKept ==
    ASSUME HeldInAttention, task' = task, cache' = cache, step' = step,
           query' = query, currentK' = currentK, RowsDone' = RowsDone,
           bank'["hidden0"] = bank["hidden0"],
           step \in 2..4 => bank'["hidden1"] = bank["hidden1"],
           step \in 5..6 => bank'["wide0"] = bank["wide0"],
           step = 7 => bank'["wide1"] = bank["wide1"]
    PROVE  HeldInAttention'
<1>1. RowsOf(task)' = RowsOf(task)
  BY DEF RowsOf
<1>2. step = 5 \/ step = 6 => bank'["wide0"] = bank["wide0"]
  BY SMT
<1>3. QED BY <1>1, <1>2, SameRows DEF HeldInAttention

(* The same of an FFN sublayer. *)
LEMMA FfnKept ==
    ASSUME HeldInFfn, task' = task, cache' = cache, step' = step,
           bank'["hidden1"] = bank["hidden1"],
           FfnStep \in 2..3 \/ FfnStep = 6 => bank'["hidden0"] = bank["hidden0"],
           FfnStep \in 3..4 \/ FfnStep = 5 => bank'["wide0"] = bank["wide0"],
           FfnStep = 4 => bank'["wide1"] = bank["wide1"]
    PROVE  HeldInFfn'
<1>1. RowsOf(task)' = RowsOf(task)
  BY DEF RowsOf
<1>2. FfnStep' = FfnStep
  BY DEF FfnStep
<1>3. QED BY <1>1, <1>2, SameRows DEF HeldInFfn

(* The task and the exchange at work. *)
LEMMA AtWork ==
    ASSUME Shape, pc # "idle"
    PROVE  /\ task \in Tasks /\ Accepted(task) /\ task # Nothing
           /\ task.op \in {"DECODER_LAYER", "ATTENTION_SUBLAYER", "FFN_SUBLAYER",
                           "FINAL_NORM"}
           /\ step \in 1..Len(Steps(task)) /\ step \in Nat
           /\ Now \in Exchanges(task.layer)
           /\ RowsOf(task) \subseteq RowSet
           /\ task.layer \in 0..(NumLayers - 1)
           /\ task.position \in Nat /\ task.tokens \in Nat /\ task.tokens > 0
           /\ task.tokens <= Rows
           /\ Attends(task) => task.position + task.tokens <= MaxSeq
<1>1. task \in Tasks /\ Accepted(task) /\ step \in 1..Len(Steps(task))
  BY DEF Shape
<1>2. Now \in Exchanges(task.layer)
  BY <1>1, StepExchanges DEF Now
<1>3. task.tokens \in 1..Rows
  BY <1>1, TaskFacts
<1>4. Len(Steps(task)) \in Nat
  BY <1>1, StepsAt, TaskFacts
<1>5. step \in Nat
  BY <1>1, <1>4, SMT
<1>6. task.tokens > 0 /\ task.tokens <= Rows
  BY <1>3, Sizes, SMT
<1>7. QED BY <1>1, <1>2, <1>5, <1>6, TaskFacts

(* The exchange at each step. *)
LEMMA NowInAttention ==
    ASSUME Shape, pc # "idle", InAttention
    PROVE  step \in 1..7 /\ Now = AttentionSteps(task.layer)[step]
<1>1. step \in 1..7
  BY AtWork, SMT DEF InAttention
<1>2. task \in Tasks /\ Accepted(task)
  BY AtWork
<1>3. CASE task.op = "DECODER_LAYER"
  BY <1>1, <1>2, <1>3, StepsAt DEF Now
<1>4. CASE task.op = "ATTENTION_SUBLAYER"
  BY <1>1, <1>2, <1>4, StepsAt DEF Now
<1>5. QED BY <1>1, <1>3, <1>4 DEF InAttention, Attends

(* The exchange of a step of an FFN sublayer. *)
LEMMA NowInFfn ==
    ASSUME Shape, pc # "idle", InFfn
    PROVE  FfnStep \in 1..6 /\ Now = FfnSteps(task.layer)[FfnStep]
<1>1. task \in Tasks /\ Accepted(task) /\ step \in 1..Len(Steps(task)) /\ step \in Nat
  BY AtWork
<1>2. CASE task.op = "FFN_SUBLAYER"
  <2>1. Len(Steps(task)) = 6 /\ Steps(task) = FfnSteps(task.layer)
    BY <1>1, <1>2, StepsAt
  <2>2. QED BY <1>1, <1>2, <2>1 DEF FfnStep, Now
<1>3. CASE task.op = "DECODER_LAYER" /\ step > 7
  <2>1. /\ Len(Steps(task)) = 13
        /\ \A i \in 8..13 : Steps(task)[i] = FfnSteps(task.layer)[i - 7]
    BY <1>1, <1>3, StepsAt
  <2>2. FfnStep = step - 7
    BY <1>3 DEF FfnStep
  <2>3. step \in 8..13 /\ step - 7 \in 1..6
    BY <1>1, <1>3, <2>1, SMT
  <2>4. QED BY <2>1, <2>2, <2>3 DEF Now
<1>4. QED BY <1>2, <1>3 DEF InFfn

(* The only exchange of a final norm. *)
LEMMA NowInNorm ==
    ASSUME Shape, pc # "idle", task.op = "FINAL_NORM"
    PROVE  /\ step = 1 /\ Len(Steps(task)) = 1
           /\ Now = NormStep(2 * NumLayers, "hidden0", "wide0", "hidden1")
<1>1. task \in Tasks /\ Accepted(task) /\ step \in 1..Len(Steps(task))
  BY AtWork
<1>2. /\ Len(Steps(task)) = 1
      /\ Steps(task)[1] = NormStep(2 * NumLayers, "hidden0", "wide0", "hidden1")
  BY <1>1, StepsAt
<1>3. step = 1
  BY <1>1, <1>2, SMT
<1>4. QED BY <1>2, <1>3 DEF Now

(* Every step is of one of the three kinds. *)
LEMMA Regions ==
    ASSUME Shape, pc # "idle"
    PROVE  /\ InAttention \/ InFfn \/ task.op = "FINAL_NORM"
           /\ InAttention => ~InFfn /\ task.op # "FINAL_NORM"
           /\ InFfn => task.op # "FINAL_NORM"
<1>1. /\ step \in 1..Len(Steps(task)) /\ step \in Nat
      /\ task.op \in {"DECODER_LAYER", "ATTENTION_SUBLAYER", "FFN_SUBLAYER",
                      "FINAL_NORM"}
      /\ task \in Tasks /\ Accepted(task)
  BY AtWork
<1>2. ASSUME task.op = "ATTENTION_SUBLAYER" PROVE step <= 7
  <2>1. Len(Steps(task)) = 7
    BY <1>1, <1>2, StepsAt
  <2>2. QED BY <1>1, <2>1, SMT
<1>3. step <= 7 \/ step > 7
  BY <1>1, SMT
<1>4. ~(step <= 7 /\ step > 7)
  BY <1>1, SMT
<1>5. QED BY <1>1, <1>2, <1>3, <1>4 DEF InAttention, InFfn, Attends

(* Preparing an exchange and collecting its results write no bank that     *)
(* holds rows the task still needs. *)
Writes(e, b) == (b = e.dst /\ ~InPlace(e)) \/ (e.do = "norm" /\ b = e.b)

(* No exchange of an attention sublayer writes a bank whose rows the      *)
(* sublayer still needs.                                                  *)
LEMMA AttentionWrites ==
    ASSUME Shape, pc # "idle", InAttention, Now.do # "walk", NEW b, Writes(Now, b)
    PROVE  /\ b # "hidden0"
           /\ step \in 2..4 => b # "hidden1"
           /\ step \in 5..6 => b # "wide0"
           /\ step = 7 => b # "wide1"
<1>1. step \in 1..7 /\ Now = AttentionSteps(task.layer)[step]
  BY NowInAttention
<1>2. CASE step = 1
  BY <1>1, <1>2 DEF AttentionSteps, Writes, NormStep, InPlace
<1>3. CASE step \in 2..4
  <2>1. \E n : Now = ProjectStep(n, "hidden1", "wide0")
    BY <1>1, <1>3, SMT DEF AttentionSteps
  <2>2. b = "wide0"
    BY <2>1 DEF Writes, ProjectStep
  <2>3. QED BY <1>3, <2>2
<1>4. CASE step = 5
  BY <1>1, <1>4 DEF AttentionSteps, WalkStep
<1>5. CASE step = 6
  BY <1>1, <1>5 DEF AttentionSteps, Writes, ProjectStep
<1>6. CASE step = 7
  BY <1>1, <1>6 DEF AttentionSteps, Writes, BinaryStep
<1>7. QED BY <1>1, <1>2, <1>3, <1>4, <1>5, <1>6

(* Nor does one of an FFN sublayer. *)
LEMMA FfnWrites ==
    ASSUME Shape, pc # "idle", InFfn, NEW b, Writes(Now, b)
    PROVE  /\ b # "hidden1"
           /\ FfnStep \in 2..3 \/ FfnStep = 6 => b # "hidden0"
           /\ FfnStep \in 3..4 \/ FfnStep = 5 => b # "wide0"
           /\ FfnStep = 4 => b # "wide1"
<1>1. FfnStep \in 1..6 /\ Now = FfnSteps(task.layer)[FfnStep]
  BY NowInFfn
<1>2. CASE FfnStep = 1
  BY <1>1, <1>2 DEF FfnSteps, Writes, NormStep, InPlace
<1>3. CASE FfnStep = 2
  BY <1>1, <1>3 DEF FfnSteps, Writes, ProjectStep
<1>4. CASE FfnStep = 3
  BY <1>1, <1>4 DEF FfnSteps, Writes, ProjectStep
<1>5. CASE FfnStep = 4
  BY <1>1, <1>5 DEF FfnSteps, Writes, BinaryStep, InPlace
<1>6. CASE FfnStep = 5
  BY <1>1, <1>6 DEF FfnSteps, Writes, ProjectStep
<1>7. CASE FfnStep = 6
  BY <1>1, <1>7 DEF FfnSteps, Writes, BinaryStep, InPlace
<1>8. QED BY <1>1, <1>2, <1>3, <1>4, <1>5, <1>6, <1>7

(* The walk is step 5 of an attention sublayer, and only that. *)
LEMMA NoWalkElsewhere ==
    ASSUME Shape, pc # "idle", Now.do = "walk"
    PROVE  InAttention /\ step = 5
<1>1. ASSUME InFfn PROVE FALSE
  <2>1. FfnStep \in 1..6 /\ Now = FfnSteps(task.layer)[FfnStep]
    BY <1>1, NowInFfn
  <2>2. \A i \in 1..6 : FfnSteps(task.layer)[i].do # "walk"
    BY SMT DEF FfnSteps, NormStep, ProjectStep, BinaryStep
  <2>3. QED BY <2>1, <2>2
<1>2. ASSUME task.op = "FINAL_NORM" PROVE FALSE
  BY <1>2, NowInNorm DEF NormStep
<1>3. ASSUME InAttention PROVE step = 5
  <2>1. step \in 1..7 /\ Now = AttentionSteps(task.layer)[step]
    BY <1>3, NowInAttention
  <2>2. \A i \in 1..7 : i # 5 => AttentionSteps(task.layer)[i].do # "walk"
    BY SMT DEF AttentionSteps, NormStep, ProjectStep, BinaryStep
  <2>3. QED BY <2>1, <2>2
<1>4. QED BY <1>1, <1>2, <1>3, Regions
-----------------------------------------------------------------------------
(* A launch loads the input bank and starts at the first step. *)
LEMMA LaunchIInv ==
    ASSUME IInv, NEW r \in Tasks, Launch(r)
    PROVE  IInv'
<1>1. /\ pc' = "begin" /\ task' = r /\ step' = 1 /\ Accepted(r)
      /\ bank' = [b \in Banks |->
                    IF b = InputBank(r) THEN LoadedRows(r) ELSE FilledRows(Junk)]
      /\ walk' = NoWalk /\ overlap' = overlap /\ exch' = exch /\ cache' = cache
  BY DEF Launch
<1>2. Shape /\ CacheShape /\ LayoutsAgree
  BY DEF IInv
<1>3. Len(Steps(r)) \in Nat \ {0}
  <2>1. Len(Steps(r)) \in {13, 7, 6, 1}
    BY <1>1, StepsAt, TaskFacts
  <2>2. \A n \in {13, 7, 6, 1} : n \in Nat \ {0}
    BY SMT
  <2>3. QED BY <2>1, <2>2
<1>4. Shape'
  <2>1. Shaped(FilledRows(Junk)) /\ Shaped(LoadedRows(r))
    BY DEF Shaped, FilledRows, LoadedRows
  <2>2. \A b \in Banks : bank'[b] = FilledRows(Junk) \/ bank'[b] = LoadedRows(r)
    BY <1>1
  <2>3. bank' = [b \in Banks |-> bank'[b]]
    BY <1>1
  <2>4. \A b \in Banks : Shaped(bank'[b])
    BY <2>1, <2>2
  <2>5. (\A b \in Banks : Shaped(bank[b]))'
    BY <2>4 DEF Shaped
  <2>6. 1 \in 1..Len(Steps(r))
    BY <1>3, SMT
  <2>7. QED BY <1>1, <1>2, <2>3, <2>5, <2>6 DEF Shape
<1>5. CacheShape' /\ LayoutsAgree'
  BY <1>1, <1>2 DEF CacheShape, LayoutsAgree
<1>6. WalkState'
  BY <1>1 DEF WalkState, NoWalk, InAttention, Attends
<1>7. \A t \in RowsOf(r), s \in 1..HiddenSlices :
        LoadedRows(r)[t][s] = Input(r, t)[s]
  <2>1. TAKE t \in RowsOf(r), s \in 1..HiddenSlices
  <2>2. t \in RowSet
    BY <1>1, TaskFacts
  <2>3. s \in 1..Slices /\ ~(s > HiddenSlices)
    BY Sizes, SMT
  <2>4. QED BY <2>2, <2>3 DEF LoadedRows
<1>8. \A t \in RowsOf(r), s \in 1..HiddenSlices :
        bank'[InputBank(r)][t][s] = Input(r, t)[s]
  <2>1. InputBank(r) \in Banks
    BY DEF InputBank, Banks
  <2>2. QED BY <1>1, <1>7, <2>1
<1>9. Held'
  <2>1. CASE Attends(r)
    <3>1. InputBank(r) = "hidden0" /\ ~InFfn' /\ task'.op # "FINAL_NORM"
      BY <1>1, <2>1 DEF Attends, InputBank, InFfn
    <3>2. HeldInAttention'
      BY <1>1, <1>8, <3>1 DEF HeldInAttention, InputRow, RowsOf
    <3>3. QED BY <1>1, <3>1, <3>2 DEF Held
  <2>2. CASE r.op = "FFN_SUBLAYER"
    <3>1. InputBank(r) = "hidden1" /\ ~InAttention' /\ task'.op # "FINAL_NORM"
      BY <1>1, <2>2 DEF Attends, InputBank, InAttention
    <3>2. FfnStep' = 1
      BY <1>1, <2>2 DEF FfnStep
    <3>3. \A t : Residual(t)' = Input(r, t)
      BY <1>1, <2>2 DEF Residual, Attends, InputRow
    <3>4. HeldInFfn'
      BY <1>1, <1>8, <3>1, <3>2, <3>3 DEF HeldInFfn, RowsOf
    <3>5. QED BY <1>1, <3>1, <3>4 DEF Held
  <2>3. CASE r.op = "FINAL_NORM"
    <3>1. InputBank(r) = "hidden0" /\ ~InAttention' /\ ~InFfn'
      BY <1>1, <2>3 DEF Attends, InputBank, InAttention, InFfn
    <3>2. HeldInNorm'
      BY <1>1, <1>8, <3>1 DEF HeldInNorm, InputRow, RowsOf
    <3>3. QED BY <1>1, <3>1, <3>2 DEF Held
  <2>4. QED BY <1>1, <2>1, <2>2, <2>3, TaskFacts DEF Attends
<1>10. Exchange'
  BY <1>1 DEF Exchange
<1>11. QED BY <1>4, <1>5, <1>6, <1>9, <1>10 DEF IInv

-----------------------------------------------------------------------------
(* What BeginStep leaves in the banks. *)
LEMMA PreparedBanks ==
    ASSUME Shape, pc # "idle", Now.do # "walk"
    PROVE  /\ Prepared(Now) = [b \in Banks |-> Prepared(Now)[b]]
           /\ \A b \in Banks : Shaped(Prepared(Now)[b])
           /\ \A b \in Banks : ~Writes(Now, b) => Prepared(Now)[b] = bank[b]
           /\ Now.do = "norm" =>
                \A s \in 1..HiddenSlices : Prepared(Now)[Now.b][0][s] = NormWeight(Now.n)
<1> DEFINE e == Now
           W == [s \in 1..Slices |->
                   IF s <= HiddenSlices THEN NormWeight(e.n) ELSE bank[e.b][0][s]]
           Z == [t \in RowSet |-> [s \in 1..Slices |->
                   IF s <= OutSlices(e.n) THEN Zero ELSE bank[e.dst][t][s]]]
<1>1. SoundBanks(e)
  BY AtWork, ExchangeBanks
<1>0. \A b \in Banks : Shaped(bank[b])
  BY DEF Shape
<1>2. /\ bank = [b \in Banks |-> bank[b]]
      /\ \A b \in Banks : bank[b] = [t \in RowSet |-> [s \in 1..Slices |-> bank[b][t][s]]]
  BY <1>0 DEF Shape, Shaped
<1>3. CASE e.do = "norm"
  <2>1. 0 \in RowSet
    BY Sizes, SMT DEF RowSet
  <2>2. Prepared(e) = [bank EXCEPT ![e.b][0] = W]
    BY <1>3 DEF Prepared
  <2> HIDE DEF W, Z
  <2>3. e.b \in Banks
    BY <1>1 DEF SoundBanks
  <2> HIDE DEF e
  <2>4. Prepared(e) = [b \in Banks |-> IF b = e.b THEN [bank[b] EXCEPT ![0] = W] ELSE bank[b]]
    BY <1>2, <2>2
  <2>5. [bank[e.b] EXCEPT ![0] = W] = [t \in RowSet |-> IF t = 0 THEN W ELSE bank[e.b][t]]
    BY <1>2, <2>3
  <2>6. \A b \in Banks : b # e.b => Prepared(e)[b] = bank[b]
    BY <2>4
  <2>7. Prepared(e)[e.b] = [t \in RowSet |-> IF t = 0 THEN W ELSE bank[e.b][t]]
    BY <2>3, <2>4, <2>5
  <2>8. Shaped(Prepared(e)[e.b])
    <3>1. W = [s \in 1..Slices |-> W[s]]
      BY DEF W
    <3>2. \A t \in RowSet : bank[e.b][t] = [s \in 1..Slices |-> bank[e.b][t][s]]
      BY <1>2, <2>3
    <3>3. QED BY <2>7, <3>1, <3>2 DEF Shaped
  <2>9. \A b \in Banks : Shaped(Prepared(e)[b])
    BY <1>0, <2>6, <2>8
  <2>10. \A b \in Banks : ~Writes(e, b) => Prepared(e)[b] = bank[b]
    BY <1>3, <2>6 DEF Writes
  <2>11. \A s \in 1..HiddenSlices : Prepared(e)[e.b][0][s] = NormWeight(e.n)
    <3>1. TAKE s \in 1..HiddenSlices
    <3>2. s \in 1..Slices /\ s <= HiddenSlices
      BY Sizes, SMT
    <3>3. W[s] = NormWeight(e.n)
      BY <3>2 DEF W
    <3>4. QED BY <2>1, <2>7, <3>3
  <2>12. Prepared(e) = [b \in Banks |-> Prepared(e)[b]]
    BY <2>4
  <2>13. QED BY <2>9, <2>10, <2>11, <2>12 DEF e
<1>4. CASE e.do = "project"
  <2>1. Prepared(e) = [bank EXCEPT ![e.dst] = Z]
    BY <1>1, <1>4 DEF Prepared, SoundBanks
  <2>2. e.dst \in Banks /\ e.do # "binary"
    BY <1>1, <1>4 DEF SoundBanks
  <2>3. Shaped(Z)
    BY DEF Shaped
  <2> HIDE DEF W, Z, e
  <2>4. Prepared(e) = [b \in Banks |-> IF b = e.dst THEN Z ELSE bank[b]]
    BY <1>2, <2>1
  <2>5. \A b \in Banks : Shaped(Prepared(e)[b])
    BY <1>0, <2>3, <2>4
  <2>6. \A b \in Banks : ~Writes(e, b) => Prepared(e)[b] = bank[b]
    BY <1>4, <2>2, <2>4 DEF Writes, InPlace
  <2>7. Prepared(e) = [b \in Banks |-> Prepared(e)[b]]
    BY <2>4
  <2>8. QED BY <1>4, <2>5, <2>6, <2>7 DEF e
<1>5. CASE e.do = "binary"
  <2>1. Prepared(e) = bank
    BY <1>5 DEF Prepared
  <2>2. QED BY <1>2, <1>5, <2>1 DEF Shaped
<1>6. QED BY <1>1, <1>3, <1>4, <1>5 DEF SoundBanks

(* An action that leaves the task, the cache and the K and Q buffers alone *)
(* and writes no bank but those of the exchange keeps what is held.        *)
LEMMA HeldKept ==
    ASSUME IInv, pc # "idle", pc # "store", Now.do # "walk",
           task' = task, cache' = cache, step' = step, pc' \in {"begin", "run"},
           pc \in {"begin", "run"}, walk' = walk, query' = query, currentK' = currentK,
           \A b \in Banks : ~Writes(Now, b) => bank'[b] = bank[b]
    PROVE  Held'
<1>1. Shape /\ Held
  BY DEF IInv
<1>2. InAttention' = InAttention /\ InFfn' = InFfn /\ RowsDone' = RowsDone
  BY DEF InAttention, InFfn, RowsDone
<1>3. ASSUME InAttention PROVE HeldInAttention'
  <2>1. HeldInAttention
    BY <1>1, <1>3 DEF Held
  <2>2. /\ ~Writes(Now, "hidden0")
        /\ step \in 2..4 => ~Writes(Now, "hidden1")
        /\ step \in 5..6 => ~Writes(Now, "wide0")
        /\ step = 7 => ~Writes(Now, "wide1")
    BY <1>1, <1>3, AttentionWrites
  <2>3. QED BY <1>2, <2>1, <2>2, AttentionKept DEF Banks
<1>4. ASSUME InFfn PROVE HeldInFfn'
  <2>1. HeldInFfn
    BY <1>1, <1>4 DEF Held
  <2>2. /\ ~Writes(Now, "hidden1")
        /\ FfnStep \in 2..3 \/ FfnStep = 6 => ~Writes(Now, "hidden0")
        /\ FfnStep \in 3..4 \/ FfnStep = 5 => ~Writes(Now, "wide0")
        /\ FfnStep = 4 => ~Writes(Now, "wide1")
    BY <1>1, <1>4, FfnWrites
  <2>3. QED BY <2>1, <2>2, FfnKept DEF Banks
<1>5. ASSUME task.op = "FINAL_NORM" PROVE HeldInNorm'
  <2>1. HeldInNorm
    BY <1>1, <1>5 DEF Held
  <2>2. ~Writes(Now, "hidden0")
    BY <1>1, <1>5, NowInNorm DEF Writes, NormStep, InPlace
  <2>3. bank'["hidden0"] = bank["hidden0"] /\ RowsOf(task)' = RowsOf(task)
    BY <2>2 DEF Banks, RowsOf
  <2>4. QED BY <2>1, <2>3, SameRows DEF HeldInNorm
<1>6. QED BY <1>2, <1>3, <1>4, <1>5 DEF Held

(* Within an exchange the walk does not change. *)
LEMMA WalkStateKept ==
    ASSUME IInv, pc \in {"begin", "run"}, pc' \in {"begin", "run"},
           task' = task, step' = step, walk' = walk, pc' = "run" => Now.do # "walk"
    PROVE  WalkState'
<1>1. WalkState /\ Shape
  BY DEF IInv
<1>2. InAttention' = InAttention /\ Attends(task)' = Attends(task)
  BY DEF InAttention, Attends
<1>3. ASSUME Attends(task), step = 5 PROVE Now.do = "walk"
  <2>1. Now = AttentionSteps(task.layer)[5]
    BY <1>1, <1>3, NowInAttention DEF InAttention
  <2>2. QED BY <2>1 DEF AttentionSteps, WalkStep
<1>4. QED BY <1>1, <1>2, <1>3 DEF WalkState

(* Before an exchange, the bank it clears or the row 0 it fills with the  *)
(* weight holds nothing the task needs.                                   *)
LEMMA BeginStepIInv ==
    ASSUME IInv, BeginStep
    PROVE  IInv'
<1>1. /\ pc = "begin" /\ bank' = Prepared(Now) /\ exch' = NoExchange
      /\ pc' = IF Now.do = "walk" THEN "walk" ELSE "run"
      /\ UNCHANGED <<overlap, task, step, query, currentK, walk, cache>>
  BY DEF BeginStep
<1>2. Shape /\ CacheShape /\ LayoutsAgree /\ WalkState /\ Held
  BY DEF IInv
<1>3. CacheShape' /\ LayoutsAgree'
  BY <1>1, <1>2 DEF CacheShape, LayoutsAgree
<1>4. Len(Steps(task))' = Len(Steps(task)) /\ Accepted(task)' = Accepted(task)
  BY <1>1 DEF Steps, AttentionSteps, FfnSteps, Accepted, NormStep, ProjectStep,
              BinaryStep, WalkStep
<1>5. CASE Now.do = "walk"
  <2>1. InAttention /\ step = 5
    BY <1>1, <1>2, <1>5, NoWalkElsewhere
  <2>2. bank' = bank /\ pc' = "walk"
    BY <1>1, <1>5 DEF Prepared
  <2>3. Shape'
    BY <1>1, <1>2, <1>4, <2>2 DEF Shape, NoExchange, Shaped
  <2>4. InAttention' /\ RowsDone' = RowsDone /\ ~InFfn' /\ task'.op # "FINAL_NORM"
    BY <1>1, <1>2, <2>1, <2>2, Regions DEF InAttention, RowsDone, Attends, InFfn
  <2>5. walk.rows = 0
    BY <1>1, <1>2, <2>1 DEF WalkState
  <2>6. WalkState'
    <3>1. 0 <= task.tokens
      BY <1>1, <1>2, AtWork, SMT
    <3>2. QED BY <1>1, <1>2, <2>1, <2>2, <2>4, <2>5, <3>1
              DEF WalkState, InAttention, Attends
  <2>7. HeldInAttention'
    <3>1. HeldInAttention
      BY <1>1, <1>2, <2>1 DEF Held
    <3>2. QED BY <1>1, <2>2, <2>4, <3>1, AttentionKept
  <2>8. Held'
    BY <2>2, <2>4, <2>7 DEF Held
  <2>9. Exchange'
    BY <2>2 DEF Exchange
  <2>10. QED BY <1>3, <2>3, <2>6, <2>8, <2>9 DEF IInv
<1>6. CASE Now.do # "walk"
  <2>1. /\ bank' = [b \in Banks |-> bank'[b]]
        /\ \A b \in Banks : Shaped(bank'[b])
        /\ \A b \in Banks : ~Writes(Now, b) => bank'[b] = bank[b]
        /\ Now.do = "norm" =>
             \A s \in 1..HiddenSlices : bank'[Now.b][0][s] = NormWeight(Now.n)
    BY <1>1, <1>2, <1>6, PreparedBanks
  <2>2. (\A b \in Banks : Shaped(bank[b]))'
    BY <2>1 DEF Shaped
  <2>3. Shape'
    BY <1>1, <1>2, <1>4, <2>1, <2>2 DEF Shape, NoExchange
  <2>4. Held'
    BY <1>1, <1>6, <2>1, HeldKept
  <2>5. WalkState'
    BY <1>1, <1>6, WalkStateKept
  <2>6. Exchange'
    <3>1. Units(Now, task) \in Nat
      BY <1>1, <1>2, <1>6, AtWork, UnitCells
    <3>2. Now' = Now /\ task' = task /\ Units(Now, task)' = Units(Now, task)
      BY <1>1 DEF Now, Steps, AttentionSteps, FfnSteps, NormStep, ProjectStep,
                  BinaryStep, WalkStep, Units, Width, LocalTokens, OutSlices
    <3>3. /\ exch'.sent = 0 /\ exch'.got = 0 /\ exch'.flight = << >>
      BY <1>1 DEF NoExchange
    <3>4. 0 \in 0..Units(Now, task)' /\ 0 \in 0..0 /\ 1..0 = {} /\ 1..(0 - 0) = {}
      BY <3>1, <3>2, SMT
    <3>5. exch'.flight = [i \in 1..(exch'.sent - exch'.got) |-> Unit(exch.got + i)']
      BY <3>3, <3>4
    <3>6. QED BY <2>1, <3>2, <3>3, <3>4, <3>5 DEF Exchange
  <2>7. QED BY <1>3, <2>3, <2>4, <2>5, <2>6 DEF IInv
<1>7. QED BY <1>5, <1>6

-----------------------------------------------------------------------------
(* The exchange at work depends on the task and the step alone. *)
LEMMA SameNow ==
    ASSUME task' = task, step' = step
    PROVE  /\ Now' = Now /\ Units(Now, task)' = Units(Now, task)
           /\ Len(Steps(task))' = Len(Steps(task)) /\ Accepted(task)' = Accepted(task)
           /\ \A u : Cells(Now, task, u)' = Cells(Now, task, u)
<1>1. Now' = Now
  BY DEF Now, Steps, AttentionSteps, FfnSteps, NormStep, ProjectStep, BinaryStep, WalkStep
<1>2. Len(Steps(task))' = Len(Steps(task)) /\ Accepted(task)' = Accepted(task)
  BY DEF Steps, AttentionSteps, FfnSteps, Accepted, NormStep, ProjectStep, BinaryStep,
         WalkStep
<1>3. Units(Now, task)' = Units(Now, task)
  BY <1>1 DEF Units, Width, LocalTokens, OutSlices
<1>4. \A u : Cells(Now, task, u)' = Cells(Now, task, u)
  BY <1>1 DEF Cells, Width, RowsOf, OutSlices
<1>5. QED BY <1>1, <1>2, <1>3, <1>4

(* The operands of an exchange decide what its units are worth. *)
LEMMA SameValue ==
    ASSUME task' = task, step' = step,
           bank'[Now.a] = bank[Now.a], bank'[Now.b] = bank[Now.b]
    PROVE  /\ \A t, s : Value(Now, task, t, s)' = Value(Now, task, t, s)
           /\ \A u : Unit(u)' = Unit(u)
<1>1. Now' = Now
  BY SameNow
<1>2. \A t, s : Value(Now, task, t, s)' = Value(Now, task, t, s)
  BY <1>1 DEF Value
<1>3. \A u : Unit(u)' = Unit(u)
  BY <1>2, SameNow DEF Unit
<1>4. QED BY <1>2, <1>3

(* The flight of an exchange, and its cells. *)
LEMMA Running ==
    ASSUME IInv, pc = "run"
    PROVE  /\ Now.do # "walk" /\ SoundBanks(Now)
           /\ Units(Now, task) \in Nat
           /\ exch.sent \in Nat /\ exch.got \in Nat /\ exch.sent - exch.got \in Nat
           /\ exch.got <= exch.sent /\ exch.sent <= Units(Now, task)
           /\ exch.flight = [i \in 1..(exch.sent - exch.got) |-> Unit(exch.got + i)]
           /\ \A u \in 1..exch.got : \A c \in Cells(Now, task, u) :
                Target[c[1]][c[2]] = Value(Now, task, c[1], c[2])
           /\ Now.do = "norm" =>
                \A s \in 1..HiddenSlices : bank[Now.b][0][s] = NormWeight(Now.n)
           /\ \A u \in 1..Units(Now, task) :
                Cells(Now, task, u) \subseteq RowSet \X (1..Slices)
<1>1. Shape /\ WalkState /\ Exchange
  BY DEF IInv
<1>2. Now.do # "walk"
  <2>1. ~(Attends(task) /\ step = 5)
    BY <1>1 DEF WalkState
  <2>2. QED BY <1>1, <2>1, NoWalkElsewhere DEF InAttention
<1>3. SoundBanks(Now) /\ task \in Tasks /\ Accepted(task) /\ Now \in Exchanges(task.layer)
      /\ RowsOf(task) \subseteq RowSet
  BY <1>1, <1>2, AtWork, ExchangeBanks
<1>4. /\ Units(Now, task) \in Nat
      /\ \A u \in 1..Units(Now, task) :
           Cells(Now, task, u) \subseteq RowsOf(task) \X (1..Width(Now))
  BY <1>2, <1>3, UnitCells
<1>5. 1..Width(Now) \subseteq 1..Slices
  BY <1>3, Sizes, SMT DEF SoundBanks
<1>6. \A u \in 1..Units(Now, task) : Cells(Now, task, u) \subseteq RowSet \X (1..Slices)
  BY <1>3, <1>4, <1>5
<1>7. exch.sent \in 0..Units(Now, task) /\ exch.got \in 0..exch.sent
  BY <1>1 DEF Exchange
<1>8. /\ exch.sent \in Nat /\ exch.got \in Nat /\ exch.sent - exch.got \in Nat
      /\ exch.got <= exch.sent /\ exch.sent <= Units(Now, task)
  BY <1>4, <1>7, SMT
<1>9. QED BY <1>1, <1>2, <1>3, <1>4, <1>6, <1>8 DEF Exchange

(* The driver adds the next unit, computed from the operands as they are, *)
(* to those in flight.                                                    *)
LEMMA DriveIInv ==
    ASSUME IInv, Drive
    PROVE  IInv'
<1> DEFINE sent == exch.sent
           got == exch.got
           n == sent - got
           N == Units(Now, task)
<1>1. /\ pc = "run" /\ pc' = "run" /\ sent < N
      /\ exch' = [exch EXCEPT !.sent = @ + 1, !.flight = Append(@, Unit(sent + 1))]
      /\ UNCHANGED <<overlap, task, step, bank, query, currentK, walk, cache>>
  BY DEF Drive, Unit
<1>2. Shape /\ CacheShape /\ LayoutsAgree
  BY DEF IInv
<1>3. /\ N \in Nat /\ sent \in Nat /\ got \in Nat /\ n \in Nat
      /\ got <= sent /\ sent <= N
      /\ exch.flight = [i \in 1..n |-> Unit(got + i)]
      /\ Now.do # "walk"
  BY <1>1, Running
<1>4. CacheShape' /\ LayoutsAgree'
  BY <1>1, <1>2 DEF CacheShape, LayoutsAgree
<1>5. exch' = [sent |-> sent + 1, got |-> got, flight |-> Append(exch.flight, Unit(sent + 1)),
               scratch |-> exch.scratch]
  BY <1>1, <1>2 DEF Shape
<1>6. Shape'
  <2>1. exch' = [sent |-> exch'.sent, got |-> exch'.got, flight |-> exch'.flight,
                 scratch |-> exch'.scratch]
    BY <1>5
  <2>2. QED BY <1>1, <1>2, <2>1, SameNow DEF Shape, Shaped
<1>7. Held' /\ WalkState'
  BY <1>1, <1>3, HeldKept, WalkStateKept
<1>8. Exchange'
  <2>1. /\ Now' = Now /\ task' = task /\ N' = N /\ \A u : Unit(u)' = Unit(u)
        /\ \A u : Cells(Now, task, u)' = Cells(Now, task, u)
        /\ \A t, s : Value(Now, task, t, s)' = Value(Now, task, t, s)
    BY <1>1, SameNow, SameValue
  <2>2. exch.flight = [i \in 1..n |-> exch.flight[i]]
    BY <1>3
  <2>3. Append(exch.flight, Unit(sent + 1))
          = [i \in 1..(n + 1) |-> IF i = n + 1 THEN Unit(sent + 1) ELSE exch.flight[i]]
    BY <1>3, <2>2, AppendFunction
  <2>4. \A i \in 1..(n + 1) : i # n + 1 => i \in 1..n
    BY <1>3, SMT
  <2>5. got + (n + 1) = sent + 1 /\ (sent + 1) - got = n + 1
    BY <1>3, SMT
  <2>6. exch'.flight = [i \in 1..((sent + 1) - got) |-> Unit(got + i)]
    <3> HIDE DEF n, sent, got
    <3> QED BY <1>3, <1>5, <2>3, <2>4, <2>5
  <2>7. exch'.flight = [i \in 1..(exch'.sent - exch'.got) |-> Unit(exch.got + i)']
    BY <1>5, <2>1, <2>6
  <2>8. sent + 1 \in 0..N /\ got \in 0..(sent + 1)
    BY <1>1, <1>3, SMT
  <2>9. Target' = Target
    BY <1>1, <1>5, <2>1 DEF Target, ThroughScratch, InPlace
  <2>10. /\ exch'.sent = sent + 1 /\ exch'.got = got
    BY <1>5
  <2>11. \A u \in 1..got : \A c \in Cells(Now, task, u) :
           Target[c[1]][c[2]] = Value(Now, task, c[1], c[2])
    BY <1>1, Running
  <2>12. Now.do = "norm" =>
           \A s \in 1..HiddenSlices : bank[Now.b][0][s] = NormWeight(Now.n)
    BY <1>1, Running
  <2> HIDE DEF sent, got, N, n
  <2>13. /\ exch'.sent \in 0..N' /\ exch'.got \in 0..exch'.sent
         /\ \A u \in 1..exch'.got : \A c \in Cells(Now, task, u)' :
              Target'[c[1]][c[2]] = Value(Now, task, c[1], c[2])'
    BY <2>1, <2>8, <2>9, <2>10, <2>11
  <2>14. QED BY <1>1, <2>1, <2>7, <2>12, <2>13 DEF Exchange, N
<1>9. QED BY <1>4, <1>6, <1>7, <1>8 DEF IInv

(* What is collected goes to the cells it was computed for. *)
LEMMA StoredCells ==
    ASSUME NEW rows, NEW cells
    PROVE  /\ Shaped(Stored(rows, cells))
           /\ \A t \in RowSet, s \in 1..Slices :
                Stored(rows, cells)[t][s] =
                  IF <<t, s>> \in DOMAIN cells THEN cells[<<t, s>>] ELSE rows[t][s]
<1>1. \A t \in RowSet, s \in 1..Slices :
        Stored(rows, cells)[t][s] =
          IF <<t, s>> \in DOMAIN cells THEN cells[<<t, s>>] ELSE rows[t][s]
  BY DEF Stored
<1>2. Shaped(Stored(rows, cells))
  BY DEF Stored, Shaped
<1>3. QED BY <1>1, <1>2

(* The collector stores the oldest unit in flight: the operands of the    *)
(* units still to come do not change, and the cells of earlier units keep *)
(* their values.                                                          *)
LEMMA CollectIInv ==
    ASSUME IInv, Collect
    PROVE  IInv'
<1> DEFINE sent == exch.sent
           got == exch.got
           n == sent - got
           N == Units(Now, task)
           unit == Unit(got + 1)
           rest == [exch EXCEPT !.got = @ + 1, !.flight = Tail(@)]
<1>1. /\ pc = "run" /\ pc' = "run" /\ exch.flight # << >>
      /\ UNCHANGED <<overlap, task, step, query, currentK, walk, cache>>
  BY DEF Collect
<1>2. Shape /\ CacheShape /\ LayoutsAgree
  BY DEF IInv
<1>3. /\ N \in Nat /\ sent \in Nat /\ got \in Nat /\ n \in Nat
      /\ got <= sent /\ sent <= N
      /\ exch.flight = [i \in 1..n |-> Unit(got + i)]
      /\ Now.do # "walk" /\ SoundBanks(Now)
      /\ \A u \in 1..N : Cells(Now, task, u) \subseteq RowSet \X (1..Slices)
  BY <1>1, Running
<1>4. CacheShape' /\ LayoutsAgree'
  BY <1>1, <1>2 DEF CacheShape, LayoutsAgree
<1>5. n # 0
  <2>1. CASE n = 0
    <3>1. 1..0 = {}
      BY SMT
    <3> HIDE DEF n
    <3>2. exch.flight = << >>
      BY <1>3, <2>1, <3>1
    <3>3. QED BY <1>1, <3>2
  <2>2. QED BY <2>1
<1>6. /\ Head(exch.flight) = unit
      /\ Tail(exch.flight) = [i \in 1..(n - 1) |-> Unit((got + 1) + i)]
  <2>1. n \in Nat \ {0} /\ 1 \in 1..n /\ \A i \in 1..(n - 1) : i + 1 \in 1..n
        /\ got + (i + 1) = (got + 1) + i
    <3>1. n \in Nat /\ n # 0 /\ got \in Nat
      BY <1>3, <1>5
    <3> HIDE DEF n, got
    <3>2. QED BY <3>1, SMT
  <2>2. exch.flight = [i \in 1..n |-> exch.flight[i]]
    BY <1>3
  <2> HIDE DEF n, got, unit
  <2>3. /\ Head(exch.flight) = exch.flight[1]
        /\ Tail(exch.flight) = [i \in 1..(n - 1) |-> exch.flight[i + 1]]
    BY <2>1, <2>2, TailFunction
  <2>4. \A i \in 1..(n - 1) : exch.flight[i + 1] = Unit((got + 1) + i)
    BY <1>3, <2>1
  <2>5. exch.flight[1] = Unit(got + 1)
    BY <1>3, <2>1
  <2>6. QED BY <2>3, <2>4, <2>5 DEF unit
<1>7. rest = [sent |-> sent, got |-> got + 1, flight |-> Tail(exch.flight),
              scratch |-> exch.scratch]
  <2>1. exch = [sent |-> exch.sent, got |-> exch.got, flight |-> exch.flight,
                scratch |-> exch.scratch]
    BY <1>2 DEF Shape
  <2> DEFINE tail == Tail(exch.flight)
             more == got + 1
  <2>2. rest = [exch EXCEPT !.got = more, !.flight = tail]
    OBVIOUS
  <2> HIDE DEF rest, tail, more
  <2>3. rest = [sent |-> exch.sent, got |-> more, flight |-> tail,
                scratch |-> exch.scratch]
    BY <2>1, <2>2
  <2>4. QED BY <2>3 DEF tail, more
<1>8. \/ /\ ThroughScratch(Now) /\ bank' = bank
         /\ exch' = [rest EXCEPT !.scratch = Stored(@, unit)]
      \/ /\ ~ThroughScratch(Now) /\ exch' = rest
         /\ bank' = [bank EXCEPT ![Now.dst] = Stored(@, unit)]
  BY <1>6 DEF Collect
<1>9. /\ exch' = [sent |-> sent, got |-> got + 1, flight |-> Tail(exch.flight),
                  scratch |-> exch'.scratch]
      /\ \/ /\ ThroughScratch(Now) /\ bank' = bank
            /\ exch'.scratch = Stored(exch.scratch, unit)
         \/ /\ ~ThroughScratch(Now)
            /\ bank' = [b \in Banks |-> IF b = Now.dst THEN Stored(bank[b], unit)
                                        ELSE bank[b]]
  <2>1. bank = [b \in Banks |-> bank[b]] /\ Now.dst \in Banks
    BY <1>2, <1>3 DEF Shape, SoundBanks
  <2> HIDE DEF rest, unit, sent, got
  <2>2. QED BY <1>7, <1>8, <2>1
<1>10. /\ bank' = [b \in Banks |-> bank'[b]]
       /\ \A b \in Banks : Shaped(bank'[b])
       /\ \A b \in Banks : ~Writes(Now, b) => bank'[b] = bank[b]
       /\ bank'[Now.a] = bank[Now.a] /\ bank'[Now.b] = bank[Now.b]
  <2>1. /\ bank = [b \in Banks |-> bank[b]] /\ \A b \in Banks : Shaped(bank[b])
        /\ Now.a \in Banks /\ Now.b \in Banks /\ Now.dst \in Banks
    BY <1>2, <1>3 DEF Shape, SoundBanks
  <2>2. CASE bank' = bank
    BY <2>1, <2>2
  <2>3. CASE /\ ~ThroughScratch(Now)
             /\ bank' = [b \in Banks |-> IF b = Now.dst THEN Stored(bank[b], unit)
                                         ELSE bank[b]]
    <3>1. ~InPlace(Now) /\ Now.dst # Now.a /\ Now.dst # Now.b
      BY <1>3, <2>3 DEF ThroughScratch, SoundBanks
    <3>2. \A b \in Banks : b # Now.dst => bank'[b] = bank[b]
      BY <2>3
    <3>3. Shaped(bank'[Now.dst])
      BY <2>1, <2>3, StoredCells
    <3>4. \A b \in Banks : Shaped(bank'[b])
      BY <2>1, <3>2, <3>3
    <3>5. QED BY <2>1, <2>3, <3>1, <3>2, <3>4 DEF Writes
  <2>4. QED BY <1>9, <2>2, <2>3
<1>11. Shape'
  <2>1. exch' = [sent |-> exch'.sent, got |-> exch'.got, flight |-> exch'.flight,
                 scratch |-> exch'.scratch]
    BY <1>9
  <2>2. (\A b \in Banks : Shaped(bank[b]))'
    BY <1>10 DEF Shaped
  <2>3. QED BY <1>1, <1>2, <1>10, <2>1, <2>2, SameNow DEF Shape
<1>12. Held' /\ WalkState'
  BY <1>1, <1>3, <1>10, HeldKept, WalkStateKept
<1>13. Exchange'
  <2>1. /\ Now' = Now /\ task' = task /\ N' = N /\ \A u : Unit(u)' = Unit(u)
        /\ \A u : Cells(Now, task, u)' = Cells(Now, task, u)
        /\ \A t, s : Value(Now, task, t, s)' = Value(Now, task, t, s)
    BY <1>1, <1>10, SameNow, SameValue
  <2>2. ThroughScratch(Now)' = ThroughScratch(Now)
    BY <1>1, <2>1 DEF ThroughScratch, InPlace
  <2>3. Target' = Stored(Target, unit)
    BY <1>3, <1>9, <2>1, <2>2 DEF Target, SoundBanks
  <2>4. /\ exch'.sent = sent /\ exch'.got = got + 1
        /\ exch'.flight = [i \in 1..(n - 1) |-> Unit((got + 1) + i)]
    <3> DEFINE more == got + 1
               tail == Tail(exch.flight)
    <3>1. exch' = [sent |-> sent, got |-> more, flight |-> tail,
                   scratch |-> exch'.scratch]
      BY <1>9
    <3> HIDE DEF n, sent, got, unit, rest, more, tail
    <3>2. exch'.sent = sent /\ exch'.got = more /\ exch'.flight = tail
      BY <3>1
    <3>3. QED BY <1>6, <3>2 DEF more, tail
  <2>5. /\ got + 1 \in 0..sent /\ sent \in 0..N /\ n - 1 = sent - (got + 1)
        /\ got + 1 \in 1..N
        /\ \A u \in 1..(got + 1) : u \in 1..N /\ (u \in 1..got \/ u = got + 1)
    BY <1>3, <1>5, SMT
  <2>6. exch'.flight = [i \in 1..(exch'.sent - exch'.got) |-> Unit(exch'.got + i)]
    <3> HIDE DEF n, sent, got
    <3> QED BY <2>4, <2>5
  <2>7. exch'.flight = [i \in 1..(exch'.sent - exch'.got) |-> Unit(exch.got + i)']
    <3>1. \A i : Unit(exch.got + i)' = Unit(exch'.got + i)
      BY <1>1, <2>1 DEF Unit
    <3>2. QED BY <2>6, <3>1
  <2>8. \A u \in 1..(got + 1) : \A c \in Cells(Now, task, u) :
          Target'[c[1]][c[2]] = Value(Now, task, c[1], c[2])
    <3>1. SUFFICES ASSUME NEW u \in 1..(got + 1), NEW c \in Cells(Now, task, u)
                   PROVE  Target'[c[1]][c[2]] = Value(Now, task, c[1], c[2])
      OBVIOUS
    <3>2. c \in RowSet \X (1..Slices)
      BY <1>3, <2>5
    <3>3. c = <<c[1], c[2]>> /\ c[1] \in RowSet /\ c[2] \in 1..Slices
      BY <3>2
    <3>4. /\ DOMAIN unit = Cells(Now, task, got + 1)
          /\ c \in DOMAIN unit => unit[c] = Value(Now, task, c[1], c[2])
      BY DEF Unit
    <3> HIDE DEF unit
    <3>5. Target'[c[1]][c[2]] = IF c \in DOMAIN unit THEN unit[c] ELSE Target[c[1]][c[2]]
      BY <2>3, <3>3, StoredCells
    <3>6. CASE c \in DOMAIN unit
      BY <3>4, <3>5, <3>6
    <3>7. CASE c \notin DOMAIN unit
      <4>1. u \in 1..got
        BY <2>5, <3>4, <3>7
      <4>2. Target[c[1]][c[2]] = Value(Now, task, c[1], c[2])
        BY <1>1, <4>1, Running
      <4>3. QED BY <3>5, <3>7, <4>2
    <3>8. QED BY <3>6, <3>7
  <2>9. Now.do = "norm" =>
          \A s \in 1..HiddenSlices : bank'[Now.b][0][s] = NormWeight(Now.n)
    BY <1>1, <1>10, Running
  <2> HIDE DEF sent, got, N, n
  <2>10. /\ exch'.sent \in 0..N' /\ exch'.got \in 0..exch'.sent
         /\ \A u \in 1..exch'.got : \A c \in Cells(Now, task, u)' :
              Target'[c[1]][c[2]] = Value(Now, task, c[1], c[2])'
    BY <2>1, <2>4, <2>5, <2>8
  <2>11. QED BY <1>1, <2>1, <2>7, <2>9, <2>10 DEF Exchange, N
<1>14. QED BY <1>4, <1>11, <1>12, <1>13 DEF IInv

-----------------------------------------------------------------------------
(* The end of an exchange: its destination has every result, every other   *)
(* bank is as it was. *)
LEMMA EndedExchange ==
    ASSUME IInv, EndStep
    PROVE  /\ bank' = [b \in Banks |-> bank'[b]]
           /\ \A b \in Banks : Shaped(bank'[b])
           /\ \A b \in Banks : b # Now.dst => bank'[b] = bank[b]
           /\ \A t \in RowsOf(task), s \in 1..Width(Now) :
                bank'[Now.dst][t][s] = Value(Now, task, t, s)
<1> DEFINE N == Units(Now, task)
<1>1. /\ pc = "run" /\ exch.got = N
      /\ bank' = IF ThroughScratch(Now)
                 THEN [bank EXCEPT ![Now.dst] = Stored(@, Copied(Now))] ELSE bank
  BY DEF EndStep
<1>2. Shape
  BY DEF IInv
<1>3. /\ Now.do # "walk" /\ SoundBanks(Now)
      /\ \A u \in 1..N : \A c \in Cells(Now, task, u) :
           Target[c[1]][c[2]] = Value(Now, task, c[1], c[2])
  BY <1>1, Running
<1>4. /\ task \in Tasks /\ Accepted(task) /\ Now \in Exchanges(task.layer)
      /\ RowsOf(task) \subseteq RowSet
  BY <1>1, <1>2, AtWork
<1>5. \A t \in RowsOf(task), s \in 1..Width(Now) :
        Target[t][s] = Value(Now, task, t, s)
  <2>1. TAKE t \in RowsOf(task), s \in 1..Width(Now)
  <2>2. PICK u \in 1..N : <<t, s>> \in Cells(Now, task, u)
    BY <1>3, <1>4, UnitCells
  <2> DEFINE c == <<t, s>>
  <2>3. c[1] = t /\ c[2] = s /\ c \in Cells(Now, task, u)
    BY <2>2
  <2> HIDE DEF c
  <2>4. QED BY <1>3, <2>2, <2>3
<1>6. /\ bank = [b \in Banks |-> bank[b]] /\ \A b \in Banks : Shaped(bank[b])
      /\ Now.dst \in Banks /\ Width(Now) \in Nat /\ Width(Now) <= Slices
  BY <1>2, <1>3 DEF Shape, SoundBanks
<1>7. CASE ~ThroughScratch(Now)
  <2>1. bank' = bank /\ Target = bank[Now.dst]
    BY <1>1, <1>7 DEF Target
  <2>2. QED BY <1>5, <1>6, <2>1
<1>8. CASE ThroughScratch(Now)
  <2> DEFINE stored == Stored(bank[Now.dst], Copied(Now))
  <2>1. bank' = [b \in Banks |-> IF b = Now.dst THEN stored ELSE bank[b]]
    BY <1>1, <1>6, <1>8
  <2>2. \A t \in RowsOf(task), s \in 1..Width(Now) : stored[t][s] = Value(Now, task, t, s)
    <3>1. TAKE t \in RowsOf(task), s \in 1..Width(Now)
    <3>2. t \in RowSet /\ s \in 1..Slices
      BY <1>4, <1>6, Sizes, SMT
    <3>3. <<t, s>> \in DOMAIN Copied(Now) /\ Copied(Now)[<<t, s>>] = exch.scratch[t][s]
      BY DEF Copied
    <3>4. stored[t][s] = exch.scratch[t][s]
      BY <3>2, <3>3, StoredCells
    <3>5. Target = exch.scratch
      BY <1>8 DEF Target
    <3>6. QED BY <1>5, <3>4, <3>5
  <2>3. Shaped(stored)
    BY StoredCells
  <2> HIDE DEF stored
  <2>4. QED BY <1>6, <2>1, <2>2, <2>3
<1>9. QED BY <1>7, <1>8

(* What a projection computes from a bank that holds f. *)
LEMMA ProjectValue ==
    ASSUME NEW e, e.do = "project", NEW t, NEW f, NEW s \in 1..OutSlices(e.n),
           \A i \in 1..InSlices(e.n) : bank[e.a][t][i] = f[i]
    PROVE  Value(e, task, t, s) = Project(task.layer, e.n, f)[s]
<1>1. SubSeq(bank[e.a][t], 1, InSlices(e.n)) = SubSeq(f, 1, InSlices(e.n))
  BY Sizes, SamePrefix
<1>2. Value(e, task, t, s) = ProjectionSlice(task.layer, e.n, f, s)
  BY <1>1 DEF Value, ProjectionSlice
<1>3. QED BY <1>2 DEF Project

(* What a norm computes from a bank that holds f. *)
LEMMA NormValue ==
    ASSUME NEW e, e.do = "norm", NEW t, NEW f, NEW s \in 1..HiddenSlices,
           bank[e.b][0][s] = NormWeight(e.n),
           \A i \in 1..HiddenSlices : bank[e.a][t][i] = f[i]
    PROVE  Value(e, task, t, s) = Norm(e.n, f)[s]
<1>1. SubSeq(bank[e.a][t], 1, HiddenSlices) = SubSeq(f, 1, HiddenSlices)
  BY Sizes, SamePrefix
<1>2. Value(e, task, t, s) = NormSlice(NormWeight(e.n), f, s)
  BY <1>1 DEF Value, NormSlice
<1>3. QED BY <1>2 DEF Norm

(* The rows a binary operation takes its length from. *)
LEMMA RowLengths ==
    ASSUME NEW t
    PROVE  /\ Len(InputRow(t)) = HiddenSlices
           /\ Len(Gate(t)) = WideSlices
           /\ Len(Down(t)) = HiddenSlices
<1>1. OutSlices(4) = WideSlices /\ OutSlices(6) = HiddenSlices
  BY SMT DEF OutSlices
<1>2. InputRow(t) = [i \in 1..HiddenSlices |-> InputRow(t)[i]]
  BY DEF InputRow, Input
<1>3. Gate(t) = [i \in 1..WideSlices |-> Gate(t)[i]]
  BY <1>1 DEF Gate, Project
<1>4. Down(t) = [i \in 1..HiddenSlices |-> Down(t)[i]]
  BY <1>1 DEF Down, Project
<1>5. QED BY <1>2, <1>3, <1>4, Sizes, FunctionLen

(* Where the steps of an attention sublayer lead. *)
LEMMA AttentionAdvances ==
    ASSUME IInv, EndStep, InAttention, step < 7
    PROVE  step' = step + 1 /\ pc' = "begin" /\ InAttention' /\ HeldInAttention'
<1>1. pc = "run" /\ Shape /\ WalkState /\ Held
  BY DEF EndStep, IInv
<1>2. Now = AttentionSteps(task.layer)[step] /\ step \in 1..7 /\ step # 5
  BY <1>1, NowInAttention DEF WalkState, InAttention
<1>3. /\ UNCHANGED <<task, walk, cache>>
      /\ query' = KeptAfter(0, bank'["wide0"], query)
      /\ currentK' = KeptAfter(1, bank'["wide0"], currentK)
  BY DEF EndStep, KeyStep
<1>4. step # Len(Steps(task))
  <2>1. Len(Steps(task)) \in {13, 7}
    BY <1>1, AtWork, StepsAt DEF InAttention, Attends
  <2>2. \A n \in {13, 7} : ~(n < 7)
    BY SMT
  <2>3. QED BY <2>1, <2>2
<1>5. step' = step + 1 /\ pc' = "begin"
  BY <1>4 DEF EndStep, Advance
<1>6. InAttention'
  BY <1>2, <1>3, <1>5, SMT DEF InAttention, Attends
<1>7. /\ \A b \in Banks : b # Now.dst => bank'[b] = bank[b]
      /\ \A t \in RowsOf(task), s \in 1..Width(Now) :
           bank'[Now.dst][t][s] = Value(Now, task, t, s)
  BY EndedExchange
<1>8. HeldInAttention
  BY <1>1 DEF Held
<1>9. RowsOf(task)' = RowsOf(task) /\ RowsDone' = walk.rows
  BY <1>3, <1>5 DEF RowsOf, RowsDone
<1>10. SUFFICES HeldInAttention'
  BY <1>5, <1>6
<1>11. /\ OutSlices(0) = HiddenSlices /\ OutSlices(1) = KvSlices
       /\ OutSlices(2) = KvSlices /\ OutSlices(3) = HiddenSlices
       /\ InSlices(0) = HiddenSlices /\ InSlices(1) = HiddenSlices
       /\ InSlices(2) = HiddenSlices /\ InSlices(3) = HiddenSlices
  BY SMT DEF OutSlices, InSlices
<1>12. \A t \in RowsOf(task), s \in 1..HiddenSlices : bank["hidden0"][t][s] = InputRow(t)[s]
  BY <1>8 DEF HeldInAttention
<1>13. CASE step = 1
  <2>1. /\ Now.do = "norm" /\ Now.n = 2 * task.layer /\ Now.a = "hidden0"
        /\ Now.b = "wide0" /\ Now.dst = "hidden1"
    BY <1>2, <1>13 DEF AttentionSteps, NormStep
  <2>2. Width(Now) = HiddenSlices
    BY <1>1, <2>1, Running DEF SoundBanks
  <2>3. \A s \in 1..HiddenSlices : bank[Now.b][0][s] = NormWeight(Now.n)
    BY <1>1, <2>1, Running
  <2>4. \A t \in RowsOf(task), s \in 1..HiddenSlices : bank'["hidden1"][t][s] = Normed(t)[s]
    <3>1. TAKE t \in RowsOf(task), s \in 1..HiddenSlices
    <3>2. Value(Now, task, t, s) = Norm(Now.n, InputRow(t))[s]
      BY <1>12, <2>1, <2>3, NormValue
    <3>3. QED BY <1>7, <2>1, <2>2, <3>2 DEF Normed
  <2>5. bank'["hidden0"] = bank["hidden0"]
    BY <1>7, <2>1 DEF Banks
  <2>6. step' = 2
    BY <1>5, <1>13
  <2>7. QED BY <1>3, <1>9, <1>12, <2>4, <2>5, <2>6, SameRows DEF HeldInAttention
<1>14. CASE step = 2
  <2>1. /\ Now.do = "project" /\ Now.n = 0 /\ Now.a = "hidden1" /\ Now.dst = "wide0"
    BY <1>2, <1>14 DEF AttentionSteps, ProjectStep
  <2>2. Width(Now) = HiddenSlices
    BY <1>1, <1>11, <2>1, Running DEF SoundBanks
  <2>3. \A t \in RowsOf(task), s \in 1..HiddenSlices : bank["hidden1"][t][s] = Normed(t)[s]
    BY <1>8, <1>14 DEF HeldInAttention
  <2>4. \A t \in RowsOf(task), s \in 1..HiddenSlices : query'[t][s] = QueryRow(t)[s]
    <3>1. TAKE t \in RowsOf(task), s \in 1..HiddenSlices
    <3>2. Value(Now, task, t, s) = Project(task.layer, Now.n, Normed(t))[s]
      BY <1>11, <2>1, <2>3, ProjectValue
    <3>3. query' = bank'["wide0"]
      BY <1>3, <2>1 DEF KeptAfter
    <3>4. QED BY <1>7, <2>1, <2>2, <3>2, <3>3 DEF QueryRow
  <2>5. bank'["hidden0"] = bank["hidden0"] /\ bank'["hidden1"] = bank["hidden1"]
    BY <1>7, <2>1 DEF Banks
  <2>6. step' = 3
    BY <1>5, <1>14
  <2>7. QED BY <1>3, <1>9, <1>12, <2>3, <2>4, <2>5, <2>6, SameRows DEF HeldInAttention
<1>15. CASE step = 3
  <2>1. /\ Now.do = "project" /\ Now.n = 1 /\ Now.a = "hidden1" /\ Now.dst = "wide0"
    BY <1>2, <1>15 DEF AttentionSteps, ProjectStep
  <2>2. Width(Now) = KvSlices
    BY <1>1, <1>11, <2>1, Running DEF SoundBanks
  <2>3. \A t \in RowsOf(task), s \in 1..HiddenSlices :
          bank["hidden1"][t][s] = Normed(t)[s] /\ query[t][s] = QueryRow(t)[s]
    BY <1>8, <1>15 DEF HeldInAttention
  <2>4. \A t \in RowsOf(task), s \in 1..KvSlices : currentK'[t][s] = KeyRow(t)[s]
    <3>1. TAKE t \in RowsOf(task), s \in 1..KvSlices
    <3>2. Value(Now, task, t, s) = Project(task.layer, Now.n, Normed(t))[s]
      BY <1>11, <2>1, <2>3, ProjectValue
    <3>3. currentK' = bank'["wide0"]
      BY <1>3, <2>1 DEF KeptAfter
    <3>4. QED BY <1>7, <2>1, <2>2, <3>2, <3>3 DEF KeyRow
  <2>5. /\ bank'["hidden0"] = bank["hidden0"] /\ bank'["hidden1"] = bank["hidden1"]
        /\ query' = query
    BY <1>3, <1>7, <2>1 DEF Banks, KeptAfter
  <2>6. step' = 4
    BY <1>5, <1>15
  <2>7. QED BY <1>3, <1>9, <1>12, <2>3, <2>4, <2>5, <2>6, SameRows DEF HeldInAttention
<1>16. CASE step = 4
  <2>1. /\ Now.do = "project" /\ Now.n = 2 /\ Now.a = "hidden1" /\ Now.dst = "wide0"
    BY <1>2, <1>16 DEF AttentionSteps, ProjectStep
  <2>2. Width(Now) = KvSlices
    BY <1>1, <1>11, <2>1, Running DEF SoundBanks
  <2>3. \A t \in RowsOf(task) :
          /\ \A s \in 1..HiddenSlices :
               bank["hidden1"][t][s] = Normed(t)[s] /\ query[t][s] = QueryRow(t)[s]
          /\ \A s \in 1..KvSlices : currentK[t][s] = KeyRow(t)[s]
    BY <1>8, <1>16 DEF HeldInAttention
  <2>4. \A t \in RowsOf(task), s \in 1..KvSlices : bank'["wide0"][t][s] = ValueRow(t)[s]
    <3>1. TAKE t \in RowsOf(task), s \in 1..KvSlices
    <3>2. Value(Now, task, t, s) = Project(task.layer, Now.n, Normed(t))[s]
      BY <1>11, <2>1, <2>3, ProjectValue
    <3>3. QED BY <1>7, <2>1, <2>2, <3>2 DEF ValueRow
  <2>5. bank'["hidden0"] = bank["hidden0"] /\ query' = query /\ currentK' = currentK
    BY <1>3, <1>7, <2>1 DEF Banks, KeptAfter
  <2>6. step' = 5
    BY <1>5, <1>16
  <2>7. \A t \in RowsOf(task) : ~(t < RowsDone')
    <3>1. walk.rows = 0
      BY <1>1, <1>16 DEF WalkState
    <3>2. \A t \in RowsOf(task) : t \in Nat
      BY <1>1, AtWork, SMT DEF RowsOf
    <3>3. QED BY <1>9, <3>1, <3>2, SMT
  <2>8. QED BY <1>3, <1>9, <1>12, <2>3, <2>4, <2>5, <2>6, <2>7, SameRows DEF HeldInAttention
<1>17. CASE step = 6
  <2>1. /\ Now.do = "project" /\ Now.n = 3 /\ Now.a = "wide0" /\ Now.dst = "wide1"
    BY <1>2, <1>17 DEF AttentionSteps, ProjectStep
  <2>2. Width(Now) = HiddenSlices
    BY <1>1, <1>11, <2>1, Running DEF SoundBanks
  <2>3. \A t \in RowsOf(task), s \in 1..HiddenSlices : bank["wide0"][t][s] = Attended(t)[s]
    BY <1>8, <1>17 DEF HeldInAttention
  <2>4. \A t \in RowsOf(task), s \in 1..HiddenSlices : bank'["wide1"][t][s] = AttnOutput(t)[s]
    <3>1. TAKE t \in RowsOf(task), s \in 1..HiddenSlices
    <3>2. Value(Now, task, t, s) = Project(task.layer, Now.n, Attended(t))[s]
      BY <1>11, <2>1, <2>3, ProjectValue
    <3>3. QED BY <1>7, <2>1, <2>2, <3>2 DEF AttnOutput
  <2>5. bank'["hidden0"] = bank["hidden0"]
    BY <1>7, <2>1 DEF Banks
  <2>6. step' = 7
    BY <1>5, <1>17
  <2>7. QED BY <1>3, <1>9, <1>12, <2>4, <2>5, <2>6, SameRows DEF HeldInAttention
<1>18. QED BY <1>2, <1>13, <1>14, <1>15, <1>16, <1>17, SMT

(* Its last step leaves the residual in hidden1. *)
LEMMA AttentionEnds ==
    ASSUME IInv, EndStep, InAttention, step = 7
    PROVE  \A t \in RowsOf(task), s \in 1..HiddenSlices :
              bank'["hidden1"][t][s] = Residual(t)[s]
<1>1. pc = "run" /\ Shape /\ Held
  BY DEF EndStep, IInv
<1>2. /\ Now.do = "binary" /\ Now.op = "RESIDUAL_ADD" /\ Now.a = "hidden0"
      /\ Now.b = "wide1" /\ Now.dst = "hidden1"
  <2>1. Now = AttentionSteps(task.layer)[7]
    BY <1>1, NowInAttention
  <2>2. QED BY <2>1 DEF AttentionSteps, BinaryStep
<1>3. Width(Now) = HiddenSlices
  BY <1>2 DEF Width
<1>4. \A t \in RowsOf(task), s \in 1..HiddenSlices :
        bank["hidden0"][t][s] = InputRow(t)[s] /\ bank["wide1"][t][s] = AttnOutput(t)[s]
  BY <1>1 DEF Held, HeldInAttention
<1>5. TAKE t \in RowsOf(task), s \in 1..HiddenSlices
<1>6. bank'["hidden1"][t][s] = Value(Now, task, t, s)
  BY <1>2, <1>3, EndedExchange
<1>7. Value(Now, task, t, s) = Binary(Now.op, InputRow(t), AttnOutput(t))[s]
  <2>1. s \in 1..Len(InputRow(t))
    BY RowLengths
  <2>2. /\ bank[Now.a][t][s] = InputRow(t)[s]
        /\ bank[Now.b][t][s] = AttnOutput(t)[s]
    BY <1>2, <1>4
  <2>3. QED BY <1>2, <2>1, <2>2 DEF Value, Binary, BinarySlice
<1>8. QED BY <1>2, <1>6, <1>7 DEF Residual, InAttention

(* The same of an FFN sublayer. *)
LEMMA FfnAdvances ==
    ASSUME IInv, EndStep, InFfn, FfnStep < 6
    PROVE  step' = step + 1 /\ pc' = "begin" /\ InFfn' /\ HeldInFfn'
<1>1. pc = "run" /\ Shape /\ Held
  BY DEF EndStep, IInv
<1>2. /\ Now = FfnSteps(task.layer)[FfnStep] /\ FfnStep \in 1..6
      /\ step \in Nat /\ task \in Tasks /\ Accepted(task)
  BY <1>1, NowInFfn, AtWork
<1>3. UNCHANGED <<task, walk, cache>>
  BY DEF EndStep
<1>4. step # Len(Steps(task)) /\ FfnStep = (IF task.op = "FFN_SUBLAYER" THEN step ELSE step - 7)
  <2>1. FfnStep = IF task.op = "FFN_SUBLAYER" THEN step ELSE step - 7
    BY DEF FfnStep
  <2>2. CASE task.op = "FFN_SUBLAYER"
    <3>1. Len(Steps(task)) = 6
      BY <1>2, <2>2, StepsAt
    <3>2. QED BY <1>2, <2>1, <2>2, <3>1, SMT
  <2>3. CASE task.op # "FFN_SUBLAYER"
    <3>1. Len(Steps(task)) = 13
      BY <1>2, <2>3, StepsAt DEF InFfn
    <3>2. QED BY <1>2, <2>1, <2>3, <3>1, SMT
  <2>4. QED BY <2>2, <2>3
<1>5. step' = step + 1 /\ pc' = "begin"
  BY <1>4 DEF EndStep, Advance
<1>6. InFfn' /\ FfnStep' = FfnStep + 1
  BY <1>2, <1>3, <1>4, <1>5, SMT DEF InFfn, FfnStep
<1>7. /\ \A b \in Banks : b # Now.dst => bank'[b] = bank[b]
      /\ \A t \in RowsOf(task), s \in 1..Width(Now) :
           bank'[Now.dst][t][s] = Value(Now, task, t, s)
  BY EndedExchange
<1>8. HeldInFfn
  BY <1>1 DEF Held
<1>9. RowsOf(task)' = RowsOf(task)
  BY <1>3 DEF RowsOf
<1>10. SUFFICES HeldInFfn'
  BY <1>5, <1>6
<1>11. /\ OutSlices(4) = WideSlices /\ OutSlices(5) = WideSlices
       /\ OutSlices(6) = HiddenSlices /\ InSlices(6) = WideSlices
       /\ InSlices(4) = HiddenSlices /\ InSlices(5) = HiddenSlices
  BY SMT DEF OutSlices, InSlices
<1>12. \A t \in RowsOf(task), s \in 1..HiddenSlices : bank["hidden1"][t][s] = Residual(t)[s]
  BY <1>8 DEF HeldInFfn
<1>13. CASE FfnStep = 1
  <2>1. /\ Now.do = "norm" /\ Now.n = 2 * task.layer + 1 /\ Now.a = "hidden1"
        /\ Now.b = "wide1" /\ Now.dst = "hidden0"
    BY <1>2, <1>13 DEF FfnSteps, NormStep
  <2>2. Width(Now) = HiddenSlices
    BY <1>1, <2>1, Running DEF SoundBanks
  <2>3. \A s \in 1..HiddenSlices : bank[Now.b][0][s] = NormWeight(Now.n)
    BY <1>1, <2>1, Running
  <2>4. \A t \in RowsOf(task), s \in 1..HiddenSlices : bank'["hidden0"][t][s] = FfnNormed(t)[s]
    <3>1. TAKE t \in RowsOf(task), s \in 1..HiddenSlices
    <3>2. Value(Now, task, t, s) = Norm(Now.n, Residual(t))[s]
      BY <1>12, <2>1, <2>3, NormValue
    <3>3. QED BY <1>7, <2>1, <2>2, <3>2 DEF FfnNormed
  <2>5. bank'["hidden1"] = bank["hidden1"]
    BY <1>7, <2>1 DEF Banks
  <2>6. FfnStep' = 2
    BY <1>6, <1>13
  <2>7. QED BY <1>3, <1>9, <1>12, <2>4, <2>5, <2>6, SameRows DEF HeldInFfn
<1>14. CASE FfnStep = 2
  <2>1. /\ Now.do = "project" /\ Now.n = 4 /\ Now.a = "hidden0" /\ Now.dst = "wide0"
    BY <1>2, <1>14 DEF FfnSteps, ProjectStep
  <2>2. Width(Now) = WideSlices
    BY <1>1, <1>11, <2>1, Running DEF SoundBanks
  <2>3. \A t \in RowsOf(task), s \in 1..HiddenSlices : bank["hidden0"][t][s] = FfnNormed(t)[s]
    BY <1>8, <1>14 DEF HeldInFfn
  <2>4. \A t \in RowsOf(task), s \in 1..WideSlices : bank'["wide0"][t][s] = Gate(t)[s]
    <3>1. TAKE t \in RowsOf(task), s \in 1..WideSlices
    <3>2. Value(Now, task, t, s) = Project(task.layer, Now.n, FfnNormed(t))[s]
      BY <1>11, <2>1, <2>3, ProjectValue
    <3>3. QED BY <1>7, <2>1, <2>2, <3>2 DEF Gate
  <2>5. bank'["hidden1"] = bank["hidden1"] /\ bank'["hidden0"] = bank["hidden0"]
    BY <1>7, <2>1 DEF Banks
  <2>6. FfnStep' = 3
    BY <1>6, <1>14
  <2>7. QED BY <1>3, <1>9, <1>12, <2>3, <2>4, <2>5, <2>6, SameRows DEF HeldInFfn
<1>15. CASE FfnStep = 3
  <2>1. /\ Now.do = "project" /\ Now.n = 5 /\ Now.a = "hidden0" /\ Now.dst = "wide1"
    BY <1>2, <1>15 DEF FfnSteps, ProjectStep
  <2>2. Width(Now) = WideSlices
    BY <1>1, <1>11, <2>1, Running DEF SoundBanks
  <2>3. /\ \A t \in RowsOf(task), s \in 1..HiddenSlices : bank["hidden0"][t][s] = FfnNormed(t)[s]
        /\ \A t \in RowsOf(task), s \in 1..WideSlices : bank["wide0"][t][s] = Gate(t)[s]
    BY <1>8, <1>15 DEF HeldInFfn
  <2>4. \A t \in RowsOf(task), s \in 1..WideSlices : bank'["wide1"][t][s] = Up(t)[s]
    <3>1. TAKE t \in RowsOf(task), s \in 1..WideSlices
    <3>2. Value(Now, task, t, s) = Project(task.layer, Now.n, FfnNormed(t))[s]
      BY <1>11, <2>1, <2>3, ProjectValue
    <3>3. QED BY <1>7, <2>1, <2>2, <3>2 DEF Up
  <2>5. bank'["hidden1"] = bank["hidden1"] /\ bank'["wide0"] = bank["wide0"]
    BY <1>7, <2>1 DEF Banks
  <2>6. FfnStep' = 4
    BY <1>6, <1>15
  <2>7. QED BY <1>3, <1>9, <1>12, <2>3, <2>4, <2>5, <2>6, SameRows DEF HeldInFfn
<1>16. CASE FfnStep = 4
  <2>1. /\ Now.do = "binary" /\ Now.op = "SILU_MUL" /\ Now.a = "wide0"
        /\ Now.b = "wide1" /\ Now.dst = "wide0"
    BY <1>2, <1>16 DEF FfnSteps, BinaryStep
  <2>2. Width(Now) = WideSlices
    BY <2>1 DEF Width
  <2>3. \A t \in RowsOf(task), s \in 1..WideSlices :
          bank["wide0"][t][s] = Gate(t)[s] /\ bank["wide1"][t][s] = Up(t)[s]
    BY <1>8, <1>16 DEF HeldInFfn
  <2>4. \A t \in RowsOf(task), s \in 1..WideSlices : bank'["wide0"][t][s] = Product(t)[s]
    <3>1. TAKE t \in RowsOf(task), s \in 1..WideSlices
    <3>0. s \in 1..Len(Gate(t))
      BY RowLengths
    <3>2. Value(Now, task, t, s) = Binary(Now.op, Gate(t), Up(t))[s]
      <4>1. bank[Now.a][t][s] = Gate(t)[s] /\ bank[Now.b][t][s] = Up(t)[s]
        BY <2>1, <2>3
      <4>2. QED BY <2>1, <3>0, <4>1 DEF Value, Binary, BinarySlice
    <3>3. QED BY <1>7, <2>1, <2>2, <3>2 DEF Product
  <2>5. bank'["hidden1"] = bank["hidden1"]
    BY <1>7, <2>1 DEF Banks
  <2>6. FfnStep' = 5
    BY <1>6, <1>16
  <2>7. QED BY <1>3, <1>9, <1>12, <2>4, <2>5, <2>6, SameRows DEF HeldInFfn
<1>17. CASE FfnStep = 5
  <2>1. /\ Now.do = "project" /\ Now.n = 6 /\ Now.a = "wide0" /\ Now.dst = "hidden0"
    BY <1>2, <1>17 DEF FfnSteps, ProjectStep
  <2>2. Width(Now) = HiddenSlices
    BY <1>1, <1>11, <2>1, Running DEF SoundBanks
  <2>3. \A t \in RowsOf(task), s \in 1..WideSlices : bank["wide0"][t][s] = Product(t)[s]
    BY <1>8, <1>17 DEF HeldInFfn
  <2>4. \A t \in RowsOf(task), s \in 1..HiddenSlices : bank'["hidden0"][t][s] = Down(t)[s]
    <3>1. TAKE t \in RowsOf(task), s \in 1..HiddenSlices
    <3>2. Value(Now, task, t, s) = Project(task.layer, Now.n, Product(t))[s]
      BY <1>11, <2>1, <2>3, ProjectValue
    <3>3. QED BY <1>7, <2>1, <2>2, <3>2 DEF Down
  <2>5. bank'["hidden1"] = bank["hidden1"]
    BY <1>7, <2>1 DEF Banks
  <2>6. FfnStep' = 6
    BY <1>6, <1>17
  <2>7. QED BY <1>3, <1>9, <1>12, <2>4, <2>5, <2>6, SameRows DEF HeldInFfn
<1>18. QED BY <1>2, <1>13, <1>14, <1>15, <1>16, <1>17, SMT

(* The last step of a task leaves its result in the result bank. *)
LEMMA FfnEnds ==
    ASSUME IInv, EndStep, InFfn, FfnStep = 6
    PROVE  /\ step = Len(Steps(task))
           /\ \A t \in RowsOf(task), s \in 1..HiddenSlices :
                bank'["hidden0"][t][s] = Binary("RESIDUAL_ADD", Down(t), Residual(t))[s]
<1>1. pc = "run" /\ Shape /\ Held
  BY DEF EndStep, IInv
<1>2. /\ Now.do = "binary" /\ Now.op = "RESIDUAL_ADD" /\ Now.a = "hidden0"
      /\ Now.b = "hidden1" /\ Now.dst = "hidden0"
  <2>1. Now = FfnSteps(task.layer)[6]
    BY <1>1, NowInFfn
  <2>2. QED BY <2>1 DEF FfnSteps, BinaryStep
<1>3. Width(Now) = HiddenSlices
  BY <1>2 DEF Width
<1>4. \A t \in RowsOf(task), s \in 1..HiddenSlices :
        bank["hidden0"][t][s] = Down(t)[s] /\ bank["hidden1"][t][s] = Residual(t)[s]
  BY <1>1 DEF Held, HeldInFfn
<1>5. step = Len(Steps(task))
  <2>1. task \in Tasks /\ Accepted(task) /\ step \in Nat
    BY <1>1, AtWork
  <2>2. CASE task.op = "FFN_SUBLAYER"
    BY <2>1, <2>2, StepsAt DEF FfnStep
  <2>3. CASE task.op # "FFN_SUBLAYER"
    <3>1. Len(Steps(task)) = 13 /\ step - 7 = 6
      BY <2>1, <2>3, StepsAt DEF InFfn, FfnStep
    <3>2. QED BY <2>1, <3>1, SMT
  <2>4. QED BY <2>2, <2>3
<1>6. ASSUME NEW t \in RowsOf(task), NEW s \in 1..HiddenSlices
      PROVE  bank'["hidden0"][t][s] = Binary("RESIDUAL_ADD", Down(t), Residual(t))[s]
  <2>1. bank'["hidden0"][t][s] = Value(Now, task, t, s)
    BY <1>2, <1>3, EndedExchange
  <2>0. s \in 1..Len(Down(t))
    BY RowLengths
  <2>2. Value(Now, task, t, s) = Binary(Now.op, Down(t), Residual(t))[s]
    <3>1. /\ bank[Now.a][t][s] = Down(t)[s]
          /\ bank[Now.b][t][s] = Residual(t)[s]
      BY <1>2, <1>4
    <3>2. QED BY <1>2, <2>0, <3>1 DEF Value, Binary, BinarySlice
  <2>3. QED BY <1>2, <2>1, <2>2
<1>7. QED BY <1>5, <1>6

-----------------------------------------------------------------------------
(* The abstract layer speaks of the same arithmetic. *)
LEMMA SameMath ==
    /\ \A index, x : Abstract!Norm(index, x) = Norm(index, x)
    /\ \A layer, n, x : Abstract!Project(layer, n, x) = Project(layer, n, x)
    /\ \A op, a, b : Abstract!Binary(op, a, b) = Binary(op, a, b)
    /\ \A p, x, n : Abstract!Rope(p, x, n) = Rope(p, x, n)
    /\ \A q, c, s : Abstract!AttendSlice(q, c, s) = AttendSlice(q, c, s)
    /\ \A r, t : Abstract!Input(r, t) = Input(r, t)
    /\ \A r : Abstract!Attends(r) <=> Attends(r)
<1>1. \A index, x : Abstract!Norm(index, x) = Norm(index, x)
  BY DEF Abstract!Norm, Norm, Abstract!NormSlice, NormSlice, Abstract!NormWeight,
         NormWeight
<1>2. \A layer, n, x : Abstract!Project(layer, n, x) = Project(layer, n, x)
  BY DEF Abstract!Project, Project, Abstract!ProjectionSlice, ProjectionSlice,
         Abstract!OutSlices, OutSlices, Abstract!InSlices, InSlices
<1>3. \A op, a, b : Abstract!Binary(op, a, b) = Binary(op, a, b)
  BY DEF Abstract!Binary, Binary, Abstract!BinarySlice, BinarySlice
<1>4. /\ \A p, x, n : Abstract!Rope(p, x, n) = Rope(p, x, n)
      /\ \A q, c, s : Abstract!AttendSlice(q, c, s) = AttendSlice(q, c, s)
      /\ \A r, t : Abstract!Input(r, t) = Input(r, t)
      /\ \A r : Abstract!Attends(r) <=> Attends(r)
  BY DEF Abstract!Rope, Rope, Abstract!AttendSlice, AttendSlice, Abstract!Input,
         Input, Abstract!Attends, Attends
<1>5. QED BY <1>1, <1>2, <1>3, <1>4

(* The FFN sublayer of the abstract task, in the operators of this one. *)
LEMMA FfnMath ==
    ASSUME NEW layer, NEW h
    PROVE  Abstract!FfnSublayer(layer, h) =
             Binary("RESIDUAL_ADD",
                    Project(layer, 6,
                      Binary("SILU_MUL", Project(layer, 4, Norm(2 * layer + 1, h)),
                                         Project(layer, 5, Norm(2 * layer + 1, h)))),
                    h)
  BY SameMath DEF Abstract!FfnSublayer

(* The attention sublayer of the abstract task is the residual of the     *)
(* rows at work.                                                          *)
LEMMA AttentionMath ==
    ASSUME NEW t
    PROVE  Abstract!AttentionSublayer(task.layer, Input(task, t), task.position + t,
                 Abstract!Context(task.layer, task.position + t))
             = Binary("RESIDUAL_ADD", InputRow(t), AttnOutput(t))
<1> DEFINE context == Abstract!Context(task.layer, task.position + t)
<1>1. RotatedQuery(t) =
        Abstract!Rope(task.position + t,
          Abstract!Project(task.layer, 0, Abstract!Norm(2 * task.layer, Input(task, t))),
          HiddenSlices)
  BY SameMath DEF RotatedQuery, QueryRow, Normed, InputRow, PositionOf
<1>2. Attended(t) = [s \in 1..HiddenSlices |->
                       Abstract!AttendSlice(RotatedQuery(t), context, s)]
  BY SameMath DEF Attended, PositionOf
<1> HIDE DEF context
<1>3. Abstract!AttentionSublayer(task.layer, Input(task, t), task.position + t, context)
        = Abstract!Binary("RESIDUAL_ADD", Input(task, t),
                          Abstract!Project(task.layer, 3, Attended(t)))
  BY <1>1, <1>2 DEF Abstract!AttentionSublayer
<1>4. QED BY <1>3, SameMath DEF context, AttnOutput, InputRow

(* The result of each operation, by the names of the rows. *)
LEMMA ResultRows ==
    ASSUME NEW t
    PROVE  /\ task.op = "ATTENTION_SUBLAYER" => Abstract!Result(task, t) = Residual(t)
           /\ task.op \in {"DECODER_LAYER", "FFN_SUBLAYER"} =>
                Abstract!Result(task, t) = Binary("RESIDUAL_ADD", Down(t), Residual(t))
           /\ task.op = "FINAL_NORM" =>
                Abstract!Result(task, t) = Norm(2 * NumLayers, InputRow(t))
<1> DEFINE h == IF Abstract!Attends(task)
                THEN Abstract!AttentionSublayer(task.layer, Abstract!Input(task, t),
                       task.position + t,
                       Abstract!Context(task.layer, task.position + t))
                ELSE Abstract!Input(task, t)
<1>1. h = Residual(t)
  BY SameMath, AttentionMath DEF Residual, InputRow
<1>2. Abstract!Result(task, t) =
        CASE task.op = "ATTENTION_SUBLAYER" -> h
          [] task.op = "FINAL_NORM" -> Abstract!Norm(2 * NumLayers, Abstract!Input(task, t))
          [] OTHER -> Abstract!FfnSublayer(task.layer, h)
  BY DEF Abstract!Result
<1> HIDE DEF h
<1>3. Abstract!FfnSublayer(task.layer, Residual(t))
        = Binary("RESIDUAL_ADD", Down(t), Residual(t))
  BY FfnMath DEF Down, Product, Gate, Up, FfnNormed
<1>4. Abstract!Norm(2 * NumLayers, Abstract!Input(task, t)) = Norm(2 * NumLayers, InputRow(t))
  BY SameMath DEF InputRow
<1>5. QED BY <1>1, <1>2, <1>3, <1>4

(* A result depends on the task and the cache alone. *)
LEMMA SameResult ==
    ASSUME task' = task, cache' = cache, NEW t
    PROVE  Abstract!Result(task, t)' = Abstract!Result(task, t)
  BY DEF Abstract!Result, Abstract!Context

(* The end of the exchange of a final norm. *)
LEMMA NormEnds ==
    ASSUME IInv, EndStep, task.op = "FINAL_NORM"
    PROVE  /\ step = Len(Steps(task))
           /\ \A t \in RowsOf(task), s \in 1..HiddenSlices :
                bank'["hidden1"][t][s] = Norm(2 * NumLayers, InputRow(t))[s]
<1>1. pc = "run" /\ Shape /\ Held
  BY DEF EndStep, IInv
<1>2. step = Len(Steps(task)) /\ Now = NormStep(2 * NumLayers, "hidden0", "wide0", "hidden1")
  BY <1>1, NowInNorm
<1>3. /\ Now.do = "norm" /\ Now.n = 2 * NumLayers /\ Now.a = "hidden0"
      /\ Now.b = "wide0" /\ Now.dst = "hidden1"
  BY <1>2 DEF NormStep
<1>4. Width(Now) = HiddenSlices
  BY <1>1, <1>3, Running DEF SoundBanks
<1>5. \A s \in 1..HiddenSlices : bank[Now.b][0][s] = NormWeight(Now.n)
  BY <1>1, <1>3, Running
<1>6. \A t \in RowsOf(task), s \in 1..HiddenSlices : bank["hidden0"][t][s] = InputRow(t)[s]
  BY <1>1 DEF Held, HeldInNorm
<1>7. ASSUME NEW t \in RowsOf(task), NEW s \in 1..HiddenSlices
      PROVE  bank'["hidden1"][t][s] = Norm(2 * NumLayers, InputRow(t))[s]
  <2>1. bank'["hidden1"][t][s] = Value(Now, task, t, s)
    BY <1>3, <1>4, EndedExchange
  <2>2. Value(Now, task, t, s) = Norm(Now.n, InputRow(t))[s]
    BY <1>3, <1>5, <1>6, NormValue
  <2>3. QED BY <1>3, <2>1, <2>2
<1>8. QED BY <1>2, <1>7

(* The end of an exchange: its destination holds the next tensor of the   *)
(* task, and the step that follows finds its operands.                    *)
LEMMA EndStepIInv ==
    ASSUME IInv, EndStep
    PROVE  IInv'
<1>1. /\ pc = "run" /\ Advance
      /\ UNCHANGED <<overlap, task, exch, walk, cache>>
  BY DEF EndStep
<1>2. Shape /\ CacheShape /\ LayoutsAgree /\ WalkState /\ Held
  BY DEF IInv
<1>3. CacheShape' /\ LayoutsAgree'
  BY <1>1, <1>2 DEF CacheShape, LayoutsAgree
<1>4. /\ task \in Tasks /\ Accepted(task) /\ step \in 1..Len(Steps(task)) /\ step \in Nat
      /\ task.op \in {"DECODER_LAYER", "ATTENTION_SUBLAYER", "FFN_SUBLAYER", "FINAL_NORM"}
  BY <1>1, <1>2, AtWork
<1>5. /\ bank' = [b \in Banks |-> bank'[b]]
      /\ \A b \in Banks : Shaped(bank'[b])
      /\ \A b \in Banks : b # Now.dst => bank'[b] = bank[b]
  BY EndedExchange
<1>6. \/ pc' = "store" /\ step' = step /\ step = Len(Steps(task))
      \/ pc' = "begin" /\ step' = step + 1 /\ step # Len(Steps(task))
  BY <1>1 DEF Advance
<1>7. Shape'
  <2>1. (\A b \in Banks : Shaped(bank[b]))'
    BY <1>5 DEF Shaped
  <2>2. Len(Steps(task))' = Len(Steps(task)) /\ Accepted(task)' = Accepted(task)
    BY <1>1 DEF Steps, AttentionSteps, FfnSteps, Accepted, NormStep, ProjectStep,
                BinaryStep, WalkStep
  <2>3. Len(Steps(task)) \in Nat
    BY <1>4, StepsAt
  <2>4. step' \in 1..Len(Steps(task))
    BY <1>4, <1>6, <2>3, SMT
  <2>5. QED BY <1>1, <1>2, <1>4, <1>5, <1>6, <2>1, <2>2, <2>4 DEF Shape
<1>8. WalkState'
  <2>1. (Attends(task)' = Attends(task) /\ step # 5) \/ ~Attends(task)
    BY <1>1, <1>2 DEF WalkState, Attends
  <2>2. CASE ~Attends(task)
    BY <1>1, <1>2, <1>6, <2>2 DEF WalkState, InAttention, Attends
  <2>3. CASE Attends(task)
    <3>1. step < 5 \/ step > 5
      BY <1>4, <2>1, <2>3, SMT
    <3>2. CASE step < 5
      <4>1. walk.rows = 0
        <5>1. step <= 7 /\ step <= 5
          BY <1>4, <3>2, SMT
        <5>2. QED BY <1>1, <1>2, <2>3, <5>1 DEF WalkState, InAttention
      <4>2. Len(Steps(task)) \in {13, 7}
        BY <1>4, <2>3, StepsAt DEF Attends
      <4>3. \A n \in {13, 7} : n # step
        BY <1>4, <3>2, SMT
      <4>4. pc' = "begin" /\ step' = step + 1 /\ ~(step' > 5)
        <5>1. pc' = "begin" /\ step' = step + 1
          BY <1>6, <4>2, <4>3
        <5>2. ~(step + 1 > 5)
          BY <1>4, <3>2, SMT
        <5>3. QED BY <5>1, <5>2
      <4>5. QED BY <1>1, <1>2, <4>1, <4>4 DEF WalkState
    <3>3. CASE step > 5
      <4>1. walk.rows = task.tokens
        BY <1>1, <1>2, <2>3, <3>3 DEF WalkState
      <4>2. ~(step' <= 5) /\ step' # 5
        BY <1>4, <1>6, <3>3, SMT
      <4>3. QED BY <1>1, <1>2, <1>6, <4>1, <4>2 DEF WalkState, InAttention
    <3>4. QED BY <3>1, <3>2, <3>3
  <2>4. QED BY <2>2, <2>3
<1>9. RowsOf(task)' = RowsOf(task)
  BY <1>1 DEF RowsOf
<1>10. Held'
  <2>1. CASE InAttention /\ step < 7
    <3>1. pc' = "begin" /\ InAttention' /\ HeldInAttention'
      BY <2>1, AttentionAdvances
    <3>2. Shape' /\ pc' # "idle"
      BY <1>7, <3>1
    <3>3. ~InFfn' /\ (task.op # "FINAL_NORM")'
      BY <1>1, <1>6, <2>1, <1>4, <3>1, SMT DEF InAttention, InFfn, Attends
    <3>4. QED BY <3>1, <3>3 DEF Held
  <2>2. CASE InAttention /\ step = 7
    <3>1. \A t \in RowsOf(task), s \in 1..HiddenSlices :
             bank'["hidden1"][t][s] = Residual(t)[s]
      BY <2>2, AttentionEnds
    <3>2. CASE task.op = "ATTENTION_SUBLAYER"
      <4>1. Len(Steps(task)) = 7 /\ ResultBank(task) = "hidden1"
        BY <1>4, <3>2, StepsAt DEF ResultBank
      <4>2. pc' = "store"
        BY <1>6, <2>2, <4>1
      <4>3. \A t \in RowsOf(task), s \in 1..HiddenSlices :
              bank'[ResultBank(task)][t][s] = Abstract!Result(task, t)[s]
        BY <3>1, <3>2, <4>1, ResultRows
      <4>4. ResultBank(task)' = ResultBank(task)
        BY <1>1 DEF ResultBank
      <4>5. \A t : Abstract!Result(task, t)' = Abstract!Result(task, t)
        BY <1>1, SameResult
      <4>6. QED BY <1>9, <4>2, <4>3, <4>4, <4>5 DEF Held
    <3>3. CASE task.op = "DECODER_LAYER"
      <4>1. Len(Steps(task)) = 13
        BY <1>4, <3>3, StepsAt
      <4>2. pc' = "begin" /\ step' = 8
        BY <1>6, <2>2, <4>1, SMT
      <4>3. /\ ~InAttention' /\ (task.op # "FINAL_NORM")' /\ FfnStep' = 1
        BY <1>1, <3>3, <4>2, SMT DEF InAttention, Attends, FfnStep
      <4>4. \A t : Residual(t)' = Residual(t)
        BY <1>1, SameRows
      <4>5. HeldInFfn'
        BY <1>9, <3>1, <4>3, <4>4 DEF HeldInFfn
      <4>6. QED BY <4>2, <4>3, <4>5 DEF Held
    <3>4. QED BY <2>2, <3>2, <3>3 DEF InAttention, Attends
  <2>3. CASE InFfn /\ FfnStep < 6
    <3>1. pc' = "begin" /\ InFfn' /\ HeldInFfn'
      BY <2>3, FfnAdvances
    <3>2. Shape' /\ pc' # "idle"
      BY <1>7, <3>1
    <3>3. step' = step + 1
      BY <2>3, FfnAdvances
    <3>4. ~InAttention' /\ (task.op # "FINAL_NORM")'
      BY <1>1, <1>4, <2>3, <3>3, SMT DEF InAttention, InFfn, Attends
    <3>5. QED BY <3>1, <3>4 DEF Held
  <2>4. CASE InFfn /\ FfnStep = 6
    <3>1. /\ step = Len(Steps(task))
          /\ \A t \in RowsOf(task), s \in 1..HiddenSlices :
               bank'["hidden0"][t][s] = Binary("RESIDUAL_ADD", Down(t), Residual(t))[s]
      BY <2>4, FfnEnds
    <3>2. pc' = "store"
      BY <1>6, <3>1
    <3>3. ResultBank(task) = "hidden0" /\ ResultBank(task)' = ResultBank(task)
      BY <1>1, <2>4 DEF ResultBank, InFfn
    <3>4. \A t : Abstract!Result(task, t) = Binary("RESIDUAL_ADD", Down(t), Residual(t))
      BY <2>4, ResultRows DEF InFfn
    <3>5. \A t : Abstract!Result(task, t)' = Abstract!Result(task, t)
      BY <1>1, SameResult
    <3>6. QED BY <1>9, <3>1, <3>2, <3>3, <3>4, <3>5 DEF Held
  <2>5. CASE task.op = "FINAL_NORM"
    <3>1. /\ step = Len(Steps(task))
          /\ \A t \in RowsOf(task), s \in 1..HiddenSlices :
               bank'["hidden1"][t][s] = Norm(2 * NumLayers, InputRow(t))[s]
      BY <2>5, NormEnds
    <3>2. pc' = "store"
      BY <1>6, <3>1
    <3>3. ResultBank(task) = "hidden1" /\ ResultBank(task)' = ResultBank(task)
      BY <1>1, <2>5 DEF ResultBank
    <3>4. \A t : Abstract!Result(task, t) = Norm(2 * NumLayers, InputRow(t))
      BY <2>5, ResultRows
    <3>5. \A t : Abstract!Result(task, t)' = Abstract!Result(task, t)
      BY <1>1, SameResult
    <3>6. QED BY <1>9, <3>1, <3>2, <3>3, <3>4, <3>5 DEF Held
  <2>6. InAttention => step \in 1..7
    BY <1>1, <1>2, NowInAttention
  <2>7. InFfn => FfnStep \in 1..6
    BY <1>1, <1>2, NowInFfn
  <2>8. \A n \in 1..7 : n < 7 \/ n = 7
    BY SMT
  <2>9. \A n \in 1..6 : n < 6 \/ n = 6
    BY SMT
  <2>10. InAttention \/ InFfn \/ task.op = "FINAL_NORM"
    BY <1>1, <1>2, Regions
  <2>11. QED BY <2>1, <2>2, <2>3, <2>4, <2>5, <2>6, <2>7, <2>8, <2>9, <2>10
<1>11. Exchange'
  BY <1>6 DEF Exchange
<1>12. QED BY <1>3, <1>7, <1>8, <1>10, <1>11 DEF IInv

-----------------------------------------------------------------------------
(* Storing the K and V of a position changes both layouts of that position *)
(* and nothing else. *)
LEMMA EntryStored ==
    ASSUME NEW c, NEW p \in 0..(MaxSeq - 1), NEW k, NEW v,
           c = [k |-> c.k, kt |-> c.kt, v |-> c.v],
           c.k = [q \in 0..(MaxSeq - 1) |-> c.k[q]],
           c.v = [q \in 0..(MaxSeq - 1) |-> c.v[q]],
           c.kt = [w \in CacheWords |-> [i \in 0..(WordPositions - 1) |-> c.kt[w][i]]]
    PROVE  StoreEntry(c, p, k, v) =
             [k |-> [q \in 0..(MaxSeq - 1) |-> IF q = p THEN k ELSE c.k[q]],
              kt |-> [w \in CacheWords |-> [i \in 0..(WordPositions - 1) |->
                        IF w = p \div WordPositions /\ i = p % WordPositions THEN k
                        ELSE c.kt[w][i]]],
              v |-> [q \in 0..(MaxSeq - 1) |-> IF q = p THEN v ELSE c.v[q]]]
<1> DEFINE a == p \div WordPositions
           b == p % WordPositions
           newK == [c.k EXCEPT ![p] = k]
           newV == [c.v EXCEPT ![p] = v]
           newT == [c.kt EXCEPT ![a][b] = k]
<1>1. a \in CacheWords /\ b \in 0..(WordPositions - 1)
  BY PositionAddress
<1>2. StoreEntry(c, p, k, v) = [c EXCEPT !.k = newK, !.v = newV, !.kt = newT]
  BY DEF StoreEntry
<1>3. newK = [q \in 0..(MaxSeq - 1) |-> IF q = p THEN k ELSE c.k[q]]
  OBVIOUS
<1>4. newV = [q \in 0..(MaxSeq - 1) |-> IF q = p THEN v ELSE c.v[q]]
  OBVIOUS
<1> HIDE DEF newK, newV
<1>5. newT = [w \in CacheWords |-> [i \in 0..(WordPositions - 1) |->
                 IF w = a /\ i = b THEN k ELSE c.kt[w][i]]]
  <2> HIDE DEF a, b
  <2> DEFINE old == c.kt
  <2>1. newT = [old EXCEPT ![a] = [old[a] EXCEPT ![b] = k]]
    OBVIOUS
  <2>2. old = [w \in CacheWords |-> [i \in 0..(WordPositions - 1) |-> old[w][i]]]
    OBVIOUS
  <2> HIDE DEF old
  <2>3. [old EXCEPT ![a] = [old[a] EXCEPT ![b] = k]]
          = [w \in CacheWords |-> IF w = a THEN [old[a] EXCEPT ![b] = k] ELSE old[w]]
    BY <1>1, <2>2
  <2>4. [old[a] EXCEPT ![b] = k]
          = [i \in 0..(WordPositions - 1) |-> IF i = b THEN k ELSE old[a][i]]
    BY <1>1, <2>2
  <2>5. \A w \in CacheWords : old[w] = [i \in 0..(WordPositions - 1) |-> old[w][i]]
    BY <2>2
  <2>6. \A w \in CacheWords :
          (IF w = a THEN [old[a] EXCEPT ![b] = k] ELSE old[w])
            = [i \in 0..(WordPositions - 1) |-> IF w = a /\ i = b THEN k ELSE old[w][i]]
    <3>1. TAKE w \in CacheWords
    <3>2. CASE w = a
      BY <2>4, <3>2
    <3>3. CASE w # a
      BY <2>5, <3>3
    <3>4. QED BY <3>2, <3>3
  <2>7. QED BY <2>1, <2>3, <2>6 DEF old
<1> HIDE DEF newT
<1>6. StoreEntry(c, p, k, v) = [k |-> newK, kt |-> newT, v |-> newV]
  BY <1>2
<1>7. QED BY <1>3, <1>4, <1>5, <1>6

(* Storing a row at a position is one update of the cache as the cores    *)
(* see it.                                                                *)
LEMMA CacheStored ==
    ASSUME CacheShape, LayoutsAgree,
           NEW layer \in 0..(NumLayers - 1), NEW p \in 0..(MaxSeq - 1), NEW k, NEW v,
           cache' = [cache EXCEPT ![layer] = StoreEntry(@, p, k, v)]
    PROVE  /\ CacheShape' /\ LayoutsAgree'
           /\ KvOf(cache)' =
                [KvOf(cache) EXCEPT ![layer][p] = [k |-> k, v |-> v]]
           /\ \A l \in 0..(NumLayers - 1), q \in 0..(MaxSeq - 1) :
                l # layer \/ q # p => KvOf(cache)'[l][q] = KvOf(cache)[l][q]
<1> DEFINE L == 0..(NumLayers - 1)
           P == 0..(MaxSeq - 1)
           I == 0..(WordPositions - 1)
           a == p \div WordPositions
           b == p % WordPositions
           newK == [q \in P |-> IF q = p THEN k ELSE cache[layer].k[q]]
           newT == [w \in CacheWords |-> [i \in I |->
                      IF w = a /\ i = b THEN k ELSE cache[layer].kt[w][i]]]
           newV == [q \in P |-> IF q = p THEN v ELSE cache[layer].v[q]]
           new == [k |-> newK, kt |-> newT, v |-> newV]
<1>1. StoreEntry(cache[layer], p, k, v) = new
  <2> DEFINE c == cache[layer]
  <2>1. /\ c = [k |-> c.k, kt |-> c.kt, v |-> c.v]
        /\ c.k = [q \in P |-> c.k[q]] /\ c.v = [q \in P |-> c.v[q]]
        /\ c.kt = [w \in CacheWords |-> [i \in I |-> c.kt[w][i]]]
    BY DEF CacheShape
  <2> HIDE DEF c
  <2>2. StoreEntry(c, p, k, v) =
             [k |-> [q \in P |-> IF q = p THEN k ELSE c.k[q]],
              kt |-> [w \in CacheWords |-> [i \in I |->
                        IF w = a /\ i = b THEN k ELSE c.kt[w][i]]],
              v |-> [q \in P |-> IF q = p THEN v ELSE c.v[q]]]
    BY <2>1, EntryStored
  <2>3. QED BY <2>2 DEF c
<1>2. cache' = [l \in L |-> IF l = layer THEN new ELSE cache[l]]
  BY <1>1 DEF CacheShape
<1>3. /\ cache'[layer] = new
      /\ \A l \in L : l # layer => cache'[l] = cache[l]
  BY <1>2
<1>4. CacheShape'
  <2>1. cache' = [l \in L |-> cache'[l]]
    BY <1>2
  <2>2. \A l \in L :
          /\ cache'[l] = [k |-> cache'[l].k, kt |-> cache'[l].kt, v |-> cache'[l].v]
          /\ cache'[l].k = [q \in P |-> cache'[l].k[q]]
          /\ cache'[l].v = [q \in P |-> cache'[l].v[q]]
          /\ cache'[l].kt = [w \in CacheWords |-> [i \in I |-> cache'[l].kt[w][i]]]
    <3>1. TAKE l \in L
    <3>2. CASE l # layer
      <4>1. /\ cache[l] = [k |-> cache[l].k, kt |-> cache[l].kt, v |-> cache[l].v]
            /\ cache[l].k = [q \in P |-> cache[l].k[q]]
            /\ cache[l].v = [q \in P |-> cache[l].v[q]]
            /\ cache[l].kt = [w \in CacheWords |-> [i \in I |-> cache[l].kt[w][i]]]
        BY DEF CacheShape
      <4>2. cache'[l] = cache[l]
        BY <1>3, <3>2
      <4>3. QED BY <4>1, <4>2
    <3>3. CASE l = layer
      <4> DEFINE x == cache'[layer]
      <4>0. x = new
        BY <1>3
      <4> HIDE DEF x, a, b, P, I, newK, newT, newV
      <4>1. x.k = newK /\ x.kt = newT /\ x.v = newV /\ x = [k |-> x.k, kt |-> x.kt, v |-> x.v]
        BY <4>0
      <4>2. x.k = [q \in P |-> x.k[q]]
        BY <4>1 DEF newK
      <4>3. x.v = [q \in P |-> x.v[q]]
        BY <4>1 DEF newV
      <4>4. x.kt = [w \in CacheWords |-> [i \in I |-> x.kt[w][i]]]
        BY <4>1 DEF newT
      <4>5. QED BY <3>3, <4>1, <4>2, <4>3, <4>4 DEF x
    <3>4. QED BY <3>2, <3>3
  <2>3. QED BY <2>1, <2>2 DEF CacheShape
<1>5. /\ a \in CacheWords /\ b \in I
      /\ \A q \in P : q \div WordPositions \in CacheWords /\ q % WordPositions \in I
      /\ \A q \in P : q \div WordPositions = a /\ q % WordPositions = b => q = p
  BY PositionAddress
<1>6. \A q \in P : /\ new.k[q] = IF q = p THEN k ELSE cache[layer].k[q]
                   /\ new.v[q] = IF q = p THEN v ELSE cache[layer].v[q]
                   /\ new.kt[q \div WordPositions][q % WordPositions]
                        = IF q = p THEN k
                          ELSE cache[layer].kt[q \div WordPositions][q % WordPositions]
  <2>1. TAKE q \in P
  <2> DEFINE w == q \div WordPositions
             i == q % WordPositions
  <2>2. w \in CacheWords /\ i \in I /\ (w = a /\ i = b <=> q = p)
    BY <1>5
  <2> HIDE DEF w, i, a, b, I
  <2>3. new.kt[w][i] = IF w = a /\ i = b THEN k ELSE cache[layer].kt[w][i]
    BY <2>2
  <2>4. /\ new.k[q] = IF q = p THEN k ELSE cache[layer].k[q]
        /\ new.v[q] = IF q = p THEN v ELSE cache[layer].v[q]
    OBVIOUS
  <2>5. QED BY <2>2, <2>3, <2>4 DEF w, i
<1> HIDE DEF new
<1>7. LayoutsAgree'
  <2>1. DOMAIN cache' = L /\ DOMAIN cache = L
    BY <1>2 DEF CacheShape
  <2>2. SUFFICES ASSUME NEW l \in L, NEW q \in P
                 PROVE  cache'[l].kt[q \div WordPositions][q % WordPositions]
                          = cache'[l].k[q]
    BY <2>1 DEF LayoutsAgree
  <2>3. cache[l].kt[q \div WordPositions][q % WordPositions] = cache[l].k[q]
    BY <2>1 DEF LayoutsAgree
  <2>4. CASE l # layer
    BY <1>3, <2>3, <2>4
  <2>5. CASE l = layer
    BY <1>3, <1>6, <2>3, <2>5
  <2>6. QED BY <2>4, <2>5
<1>8. DOMAIN cache' = L /\ DOMAIN cache = L
  BY <1>2 DEF CacheShape
<1> DEFINE at(c, l, q) == [k |-> c[l].kt[q \div WordPositions][q % WordPositions],
                           v |-> c[l].v[q]]
           kv == KvOf(cache)
           after == KvOf(cache)'
<1>9. /\ kv = [l \in L |-> [q \in P |-> at(cache, l, q)]]
      /\ after = [l \in L |-> [q \in P |-> at(cache', l, q)]]
  BY <1>8 DEF KvOf
<1>10. \A l \in L, q \in P : at(cache', l, q) = IF l = layer /\ q = p THEN [k |-> k, v |-> v]
                                               ELSE at(cache, l, q)
  <2>1. TAKE l \in L, q \in P
  <2>2. CASE l # layer
    BY <1>3, <2>2
  <2>3. CASE l = layer
    BY <1>3, <1>6, <2>3
  <2>4. QED BY <2>2, <2>3
<1> HIDE DEF at, kv, after, L, P
<1>11. layer \in L /\ p \in P
  BY DEF L, P
<1>12. [kv EXCEPT ![layer][p] = [k |-> k, v |-> v]]
         = [l \in L |-> [q \in P |-> IF l = layer /\ q = p THEN [k |-> k, v |-> v]
                                     ELSE at(cache, l, q)]]
  <2> DEFINE new2 == [k |-> k, v |-> v]
  <2>1. [kv EXCEPT ![layer][p] = new2] = [kv EXCEPT ![layer] = [kv[layer] EXCEPT ![p] = new2]]
    OBVIOUS
  <2> HIDE DEF new2
  <2>2. [kv[layer] EXCEPT ![p] = new2]
          = [q \in P |-> IF q = p THEN new2 ELSE at(cache, layer, q)]
    BY <1>9, <1>11
  <2>3. [kv EXCEPT ![layer] = [kv[layer] EXCEPT ![p] = new2]]
          = [l \in L |-> IF l = layer THEN [kv[layer] EXCEPT ![p] = new2] ELSE kv[l]]
    BY <1>9
  <2>4. \A l \in L : (IF l = layer THEN [kv[layer] EXCEPT ![p] = new2] ELSE kv[l])
          = [q \in P |-> IF l = layer /\ q = p THEN new2 ELSE at(cache, l, q)]
    <3>1. TAKE l \in L
    <3>2. CASE l = layer
      BY <2>2, <3>2
    <3>3. CASE l # layer
      BY <1>9, <3>3
    <3>4. QED BY <3>2, <3>3
  <2>5. QED BY <2>1, <2>3, <2>4 DEF new2
<1>13. after = [kv EXCEPT ![layer][p] = [k |-> k, v |-> v]]
  <2>1. \A l \in L : [q \in P |-> at(cache', l, q)]
          = [q \in P |-> IF l = layer /\ q = p THEN [k |-> k, v |-> v]
                         ELSE at(cache, l, q)]
    BY <1>10
  <2>2. QED BY <1>9, <1>12, <2>1
<1>14. \A l \in L, q \in P : l # layer \/ q # p => after[l][q] = kv[l][q]
  BY <1>9, <1>10
<1>15. QED BY <1>4, <1>7, <1>13, <1>14 DEF kv, after, L, P

-----------------------------------------------------------------------------
(* The context of a row that is done ends before the position at work. *)
LEMMA EarlierAttended ==
    ASSUME CacheShape, CacheShape', task' = task,
           NEW p \in 0..(MaxSeq - 1), NEW t \in Nat,
           task.layer \in 0..(NumLayers - 1), task.position \in Nat,
           task.position + t < p,
           \A l \in 0..(NumLayers - 1), q \in 0..(MaxSeq - 1) :
              l # task.layer \/ q # p => KvOf(cache)'[l][q] = KvOf(cache)[l][q]
    PROVE  Attended(t)' = Attended(t)
<1> DEFINE last == PositionOf(t)
<1>1. last \in Nat /\ last < p /\ p <= MaxSeq - 1 /\ MaxSeq \in Nat /\ last' = last
  BY Sizes, SMT DEF PositionOf
<1> HIDE DEF last
<1>2. \A i \in 1..(last + 1) : i - 1 \in 0..(MaxSeq - 1) /\ i - 1 # p
  BY <1>1, SMT
<1>3. \A i \in 1..(last + 1) :
         KvOf(cache)'[task.layer][i - 1] = KvOf(cache)[task.layer][i - 1]
  BY <1>2
<1>4. Abstract!Context(task.layer, last)' = Abstract!Context(task.layer, last)
  BY <1>1, <1>3 DEF Abstract!Context
<1>5. RotatedQuery(t)' = RotatedQuery(t)
  BY DEF RotatedQuery, PositionOf, QueryRow, Normed, InputRow
<1>6. QED BY <1>4, <1>5 DEF Attended, last

(* The walk at work. *)
LEMMA Walking ==
    ASSUME IInv, pc \in {"walk", "tiles"}
    PROVE  /\ Shape /\ CacheShape /\ LayoutsAgree
           /\ Attends(task) /\ step = 5 /\ InAttention /\ HeldInAttention
           /\ ~InFfn /\ task.op # "FINAL_NORM"
           /\ walk = [rows |-> walk.rows, tile |-> walk.tile, query |-> walk.query,
                      context |-> walk.context]
           /\ walk.rows \in Nat /\ walk.tile \in Nat /\ walk.rows <= task.tokens
           /\ task.tokens \in Nat /\ task.position \in Nat
           /\ task.position + task.tokens <= MaxSeq /\ MaxSeq \in Nat
           /\ task.layer \in 0..(NumLayers - 1)
           /\ Position \in Nat /\ Position = task.position + walk.rows
<1>1. /\ Shape /\ CacheShape /\ LayoutsAgree /\ Attends(task) /\ step = 5
      /\ walk = [rows |-> walk.rows, tile |-> walk.tile, query |-> walk.query,
                 context |-> walk.context]
      /\ walk.rows \in Nat /\ walk.tile \in Nat /\ walk.rows <= task.tokens
  BY DEF IInv, WalkState
<1>2. InAttention
  BY <1>1, SMT DEF InAttention
<1>3. HeldInAttention /\ ~InFfn /\ task.op # "FINAL_NORM"
  BY <1>1, <1>2, Regions DEF IInv, Held
<1>4. /\ task.tokens \in Nat /\ task.position \in Nat /\ MaxSeq \in Nat
      /\ task.position + task.tokens <= MaxSeq
      /\ task.layer \in 0..(NumLayers - 1)
  BY <1>1, AtWork, Sizes
<1>5. Position \in Nat /\ Position = task.position + walk.rows
  BY <1>1, <1>4, SMT DEF Position
<1>6. QED BY <1>1, <1>2, <1>3, <1>4, <1>5

(* Storing a row rotates its query, appends its K and V to the cache and  *)
(* leaves the context of every earlier row as it was.                     *)
LEMMA StoreCurrentIInv ==
    ASSUME IInv, StoreCurrent
    PROVE  IInv'
<1> DEFINE p == Position
           n == walk.rows
           k == Rope(p, currentK[n], KvSlices)
           v == SubSeq(bank["wide0"][n], 1, KvSlices)
<1>1. /\ pc = "walk" /\ n < task.tokens /\ pc' = "tiles"
      /\ cache' = [cache EXCEPT ![task.layer] = StoreEntry(@, p, k, v)]
      /\ walk' = [rows |-> n + 1, tile |-> 0,
                  query |-> Rope(p, query[n], HiddenSlices), context |-> << >>]
      /\ UNCHANGED <<overlap, task, step, bank, query, currentK, exch>>
  BY DEF StoreCurrent
<1>2. /\ Shape /\ CacheShape /\ LayoutsAgree
      /\ Attends(task) /\ step = 5 /\ InAttention /\ HeldInAttention
      /\ ~InFfn /\ task.op # "FINAL_NORM"
      /\ n \in Nat /\ task.tokens \in Nat /\ task.position \in Nat
      /\ task.position + task.tokens <= MaxSeq /\ MaxSeq \in Nat
      /\ task.layer \in 0..(NumLayers - 1)
      /\ p \in Nat /\ p = task.position + n
  BY <1>1, Walking
<1> HIDE DEF k, v
<1>3. p \in 0..(MaxSeq - 1)
  <2> HIDE DEF p, n
  <2> QED BY <1>1, <1>2, SMT
<1>4. /\ CacheShape' /\ LayoutsAgree'
      /\ \A l \in 0..(NumLayers - 1), q \in 0..(MaxSeq - 1) :
           l # task.layer \/ q # p => KvOf(cache)'[l][q] = KvOf(cache)[l][q]
  <2> HIDE DEF p
  <2> QED BY <1>1, <1>2, <1>3, CacheStored
<1>5. Shape'
  BY <1>1, <1>2, SameNow DEF Shape, Shaped
<1>6. /\ walk'.rows = n + 1 /\ walk'.tile = 0 /\ walk'.context = << >>
      /\ walk'.query = Rope(p, query[n], HiddenSlices)
      /\ walk' = [rows |-> walk'.rows, tile |-> walk'.tile, query |-> walk'.query,
                  context |-> walk'.context]
  BY <1>1
<1>7. n + 1 \in Nat /\ n + 1 <= task.tokens /\ n + 1 > 0 /\ (n + 1) - 1 = n
      /\ n \in RowsOf(task)
  <2> HIDE DEF n
  <2> QED BY <1>1, <1>2, SMT DEF RowsOf
<1>8. walk'.query = RotatedQuery(walk.rows - 1)'
  <2>1. \A s \in 1..HiddenSlices : query[n][s] = QueryRow(n)[s]
    BY <1>2, <1>7, SMT DEF HeldInAttention
  <2>2. SubSeq(query[n], 1, HiddenSlices) = SubSeq(QueryRow(n), 1, HiddenSlices)
    BY <2>1, Sizes, SamePrefix
  <2>3. PositionOf(n) = p
    BY <1>2 DEF PositionOf
  <2>4. Rope(p, query[n], HiddenSlices) = RotatedQuery(n)
    BY <2>2, <2>3 DEF Rope, RotatedQuery
  <2>5. RotatedQuery(walk.rows - 1)' = RotatedQuery(n)
    BY <1>1, <1>6, <1>7 DEF RotatedQuery, PositionOf, QueryRow, Normed, InputRow
  <2>6. QED BY <1>6, <2>4, <2>5
<1>9. ContextLen' \in Nat
  <2>1. ContextLen' = task.position + (n + 1)
    BY <1>1, <1>6 DEF ContextLen, Position
  <2>2. QED BY <1>2, <1>7, <2>1, SMT
<1>10. walk'.context =
         [i \in 1..(IF walk'.tile < ContextLen' THEN walk'.tile ELSE ContextLen') |->
             KvOf(cache)'[task'.layer][i - 1]]
  <2> DEFINE m == ContextLen'
             l == IF 0 < m THEN 0 ELSE m
  <2>1. l = 0
    <3> HIDE DEF m
    <3> QED BY <1>9, SMT DEF m
  <2>2. 1..l = {}
    BY <2>1, SMT
  <2>3. QED BY <1>6, <2>2
<1>11. 0 % AttnTile = 0
  BY Sizes, Divided, SMT
<1>12. RowsDone' = n /\ RowsDone = n
  BY <1>1, <1>6, <1>7 DEF RowsDone
<1>13. WalkState'
  BY <1>1, <1>2, <1>6, <1>7, <1>8, <1>10, <1>11 DEF WalkState, Attends
<1>14. HeldInAttention'
  <2>1. RowsOf(task)' = RowsOf(task)
    BY <1>1 DEF RowsOf
  <2>2. SUFFICES ASSUME NEW t \in RowsOf(task)
        PROVE  /\ \A s \in 1..HiddenSlices : bank["hidden0"][t][s] = InputRow(t)'[s]
               /\ \A s \in 1..HiddenSlices : query[t][s] = QueryRow(t)'[s]
               /\ \A s \in 1..KvSlices : currentK[t][s] = KeyRow(t)'[s]
               /\ t >= n => \A s \in 1..KvSlices : bank["wide0"][t][s] = ValueRow(t)'[s]
               /\ t < n => \A s \in 1..HiddenSlices :
                     bank["wide0"][t][s] = Attended(t)'[s]
    <3>1. ~(5 \in 2..4) /\ 5 # 6 /\ 5 # 7
      BY SMT
    <3>2. QED BY <1>1, <1>2, <1>12, <2>1, <2>2, <3>1 DEF HeldInAttention
  <2>3. 5 \in 3..5 /\ 5 \in 4..5
    BY SMT
  <2>4. InputRow(t)' = InputRow(t) /\ QueryRow(t)' = QueryRow(t) /\ KeyRow(t)' = KeyRow(t)
        /\ ValueRow(t)' = ValueRow(t)
    BY <1>1 DEF InputRow, Normed, QueryRow, KeyRow, ValueRow
  <2>5. /\ \A s \in 1..HiddenSlices : bank["hidden0"][t][s] = InputRow(t)[s]
        /\ \A s \in 1..HiddenSlices : query[t][s] = QueryRow(t)[s]
        /\ \A s \in 1..KvSlices : currentK[t][s] = KeyRow(t)[s]
        /\ t >= n => \A s \in 1..KvSlices : bank["wide0"][t][s] = ValueRow(t)[s]
        /\ t < n => \A s \in 1..HiddenSlices : bank["wide0"][t][s] = Attended(t)[s]
    BY <1>2, <1>12, <2>3 DEF HeldInAttention
  <2>6. ASSUME t < n PROVE Attended(t)' = Attended(t)
    <3>1. t \in Nat
      BY <1>2, SMT DEF RowsOf
    <3>2. task.position + t < p
      <4> HIDE DEF p, n
      <4> QED BY <1>2, <2>6, <3>1, SMT
    <3> HIDE DEF p
    <3>3. QED BY <1>1, <1>2, <1>3, <1>4, <3>1, <3>2, EarlierAttended
  <2>7. QED BY <2>4, <2>5, <2>6
<1>15. Held'
  BY <1>1, <1>2, <1>14 DEF Held, InFfn
<1>16. Exchange'
  BY <1>1 DEF Exchange
<1>17. QED BY <1>4, <1>5, <1>13, <1>15, <1>16 DEF IInv

(* What a tile adds to the context: the entries of its positions, as the   *)
(* transposed words and the V rows hold them. *)
LEMMA TileRead ==
    ASSUME CacheShape, NEW layer \in 0..(NumLayers - 1),
           NEW begin \in Nat, begin % AttnTile = 0, NEW len \in Nat,
           begin + len <= MaxSeq
    PROVE  TileEntries(cache[layer], begin, len) =
             [i \in 1..len |-> KvOf(cache)[layer][begin + (i - 1)]]
<1>1. \A i \in 1..len : /\ i - 1 \in Nat
                        /\ begin + (i - 1) \in 0..(MaxSeq - 1)
  BY Sizes, SMT
<1> DEFINE entry(i) ==
       [k |-> cache[layer].kt[begin \div WordPositions + (i - 1) \div WordPositions]
                 [(i - 1) % WordPositions],
        v |-> cache[layer].v[begin + (i - 1)]]
<1>2. \A i \in 1..len : entry(i) = KvOf(cache)[layer][begin + (i - 1)]
  <2>1. TAKE i \in 1..len
  <2> DEFINE p == begin + (i - 1)
             local == i - 1
  <2>2. p \in 0..(MaxSeq - 1) /\ local \in Nat
    BY <1>1
  <2>2a. p = begin + local
    OBVIOUS
  <2>3. /\ begin \div WordPositions + local \div WordPositions = p \div WordPositions
        /\ local % WordPositions = p % WordPositions
    <3> HIDE DEF local, p
    <3> QED BY <2>2, <2>2a, TileAddress
  <2>4. KvOf(cache)[layer][p] =
          [k |-> cache[layer].kt[p \div WordPositions][p % WordPositions],
           v |-> cache[layer].v[p]]
    <3> HIDE DEF p
    <3> QED BY <2>2, KvEntry
  <2>5. QED BY <2>3, <2>4
<1>3. TileEntries(cache[layer], begin, len) = [i \in 1..len |-> entry(i)]
  BY DEF TileEntries
<1> HIDE DEF entry
<1>4. QED BY <1>2, <1>3

(* Reading a tile extends the context to the next tile or to the row      *)
(* itself.                                                                *)
LEMMA LoadTileIInv ==
    ASSUME IInv, LoadTile
    PROVE  IInv'
<1> DEFINE L == ContextLen
           A == AttnTile
           b == walk.tile
           m == TileLen(b)
           kv == KvOf(cache)[task.layer]
           new == TileEntries(cache[task.layer], b, m)
<1>1. /\ pc = "tiles" /\ b < L /\ pc' = "tiles"
      /\ walk' = [walk EXCEPT !.tile = @ + A, !.context = @ \o new]
      /\ UNCHANGED <<overlap, task, step, bank, query, currentK, exch, cache>>
  BY DEF LoadTile
<1>2. /\ Shape /\ CacheShape /\ LayoutsAgree
      /\ Attends(task) /\ step = 5 /\ InAttention /\ HeldInAttention
      /\ ~InFfn /\ task.op # "FINAL_NORM"
      /\ walk = [rows |-> walk.rows, tile |-> walk.tile, query |-> walk.query,
                 context |-> walk.context]
      /\ walk.rows \in Nat /\ b \in Nat /\ walk.rows <= task.tokens
      /\ task.tokens \in Nat /\ task.position \in Nat
      /\ task.position + task.tokens <= MaxSeq /\ MaxSeq \in Nat
      /\ task.layer \in 0..(NumLayers - 1)
      /\ L \in Nat /\ L = task.position + walk.rows
  BY <1>1, Walking DEF ContextLen
<1>3. /\ walk.rows > 0 /\ b % A = 0 /\ walk.query = RotatedQuery(walk.rows - 1)
      /\ walk.context = [i \in 1..(IF b < L THEN b ELSE L) |-> kv[i - 1]]
  BY <1>1 DEF IInv, WalkState
<1>4. A \in Nat \ {0}
  BY Sizes
<1>5. L <= MaxSeq
  <2> DEFINE n == walk.rows
  <2>1. n \in Nat /\ n <= task.tokens /\ L = task.position + n
    BY <1>2
  <2> HIDE DEF L, n
  <2> QED BY <1>2, <2>1, SMT
<1>6. /\ m \in Nat /\ b + m <= MaxSeq
      /\ b + m = IF b + A < L THEN b + A ELSE L
  <2>1. m = IF b + A > L THEN L - b ELSE A
    BY DEF TileLen
  <2> HIDE DEF L, b, A, m
  <2> QED BY <1>1, <1>2, <1>4, <1>5, <2>1, SMT
<1>7. new = [i \in 1..m |-> kv[b + (i - 1)]]
  <2>1. CacheShape /\ task.layer \in 0..(NumLayers - 1) /\ b \in Nat /\ b % AttnTile = 0
        /\ m \in Nat /\ b + m <= MaxSeq
    BY <1>2, <1>3, <1>6
  <2> DEFINE layer == task.layer
  <2> HIDE DEF m, b, layer
  <2>2. TileEntries(cache[layer], b, m) = [i \in 1..m |-> KvOf(cache)[layer][b + (i - 1)]]
    BY <2>1, TileRead DEF layer
  <2> QED BY <2>2 DEF layer
<1> DEFINE old == walk.context
<1>8. old = [i \in 1..b |-> kv[i - 1]]
  BY <1>1, <1>3
<1> HIDE DEF new, old, kv
<1>9. old \o new = [i \in 1..(b + m) |-> kv[i - 1]]
  <2> HIDE DEF b, m, L, A
  <2>1. old = [i \in 1..b |-> old[i]] /\ new = [i \in 1..m |-> new[i]]
    BY <1>7, <1>8
  <2>2. old \o new = [i \in 1..(b + m) |-> IF i <= b THEN old[i] ELSE new[i - b]]
    <3>1. b \in Nat /\ m \in Nat
      BY <1>2, <1>6
    <3>2. QED BY <2>1, <3>1, ConcatFunction
  <2>3. \A i \in 1..(b + m) :
          (IF i <= b THEN old[i] ELSE new[i - b]) = kv[i - 1]
    <3>1. TAKE i \in 1..(b + m)
    <3>2. CASE i <= b
      <4>1. i \in 1..b
        BY <1>2, <1>6, <3>2, SMT
      <4>2. QED BY <1>8, <3>2, <4>1
    <3>3. CASE ~(i <= b)
      <4>1. i - b \in 1..m /\ b + ((i - b) - 1) = i - 1
        BY <1>2, <1>6, <3>3, SMT
      <4>2. QED BY <1>7, <3>3, <4>1
    <3>4. QED BY <3>2, <3>3
  <2>4. QED BY <2>2, <2>3
<1>10. walk' = [rows |-> walk.rows, tile |-> b + A, query |-> walk.query,
                context |-> old \o new]
  BY <1>1, <1>2 DEF old
<1>11. /\ walk'.rows = walk.rows /\ walk'.tile = b + A /\ walk'.query = walk.query
       /\ walk'.context = [i \in 1..(b + m) |-> kv[i - 1]]
       /\ walk' = [rows |-> walk'.rows, tile |-> walk'.tile, query |-> walk'.query,
                   context |-> walk'.context]
  BY <1>9, <1>10
<1>12. b + A \in Nat /\ (b + A) % A = 0
  <2> HIDE DEF b, A
  <2>1. b \div A \in Nat /\ b = A * (b \div A)
    BY <1>2, <1>3, <1>4, Divided, SMT
  <2> DEFINE q == b \div A
  <2>2. q \in Nat /\ q + 1 \in Nat /\ b + A = (q + 1) * A + 0 /\ 0 \in Nat /\ 0 < A
    <3>1. q \in Nat /\ b = A * q
      BY <2>1
    <3> HIDE DEF q
    <3> QED BY <1>4, <3>1, SMT
  <2> DEFINE q1 == q + 1
  <2>3. q1 \in Nat /\ b + A = q1 * A + 0
    BY <2>2
  <2> HIDE DEF q, q1
  <2>4. (q1 * A + 0) % A = 0
    BY <1>4, <2>2, <2>3, DivisionUnique
  <2>5. QED BY <1>2, <1>4, <2>3, <2>4
<1>13. ContextLen' = L
  BY <1>1, <1>11 DEF ContextLen, Position
<1>14. RotatedQuery(walk.rows - 1)' = RotatedQuery(walk.rows - 1)
  BY <1>1, <1>11 DEF RotatedQuery, PositionOf, QueryRow, Normed, InputRow
<1>15. walk'.context =
         [i \in 1..(IF walk'.tile < ContextLen' THEN walk'.tile ELSE ContextLen') |->
             KvOf(cache)'[task'.layer][i - 1]]
  BY <1>1, <1>6, <1>11, <1>13 DEF kv
<1>16. WalkState'
  <2>1. /\ pc' = "tiles" /\ task' = task /\ step' = step
        /\ Attends(task) /\ step = 5 /\ walk.rows <= task.tokens
    BY <1>1, <1>2
  <2>2. /\ walk'.rows \in Nat /\ walk'.tile \in Nat /\ walk'.rows > 0
        /\ walk'.rows = walk.rows /\ walk'.tile % AttnTile = 0
        /\ walk'.query = RotatedQuery(walk.rows - 1)'
    BY <1>2, <1>3, <1>11, <1>12, <1>14
  <2>3. walk' = [rows |-> walk'.rows, tile |-> walk'.tile, query |-> walk'.query,
                 context |-> walk'.context]
    BY <1>11
  <2>4. Attends(task)'
    BY <2>1 DEF Attends
  <2>5. QED BY <1>15, <2>1, <2>2, <2>3, <2>4 DEF WalkState
<1>17. Shape'
  BY <1>1, <1>2, SameNow DEF Shape, Shaped
<1>18. CacheShape' /\ LayoutsAgree'
  <2>1. cache' = cache /\ CacheShape /\ LayoutsAgree
    BY <1>1, <1>2
  <2>2. QED BY <2>1 DEF CacheShape, LayoutsAgree
<1>19. Held'
  <2>1. RowsDone' = RowsDone
    BY <1>1, <1>11 DEF RowsDone
  <2>2. HeldInAttention'
    BY <1>1, <1>2, <2>1, AttentionKept
  <2>3. QED BY <1>1, <1>2, <2>2 DEF Held, InFfn
<1>20. Exchange'
  BY <1>1 DEF Exchange
<1>21. QED BY <1>16, <1>17, <1>18, <1>19, <1>20 DEF IInv

(* The context of a row whose tiles are all read is the whole of its own. *)
LEMMA RowAttended ==
    ASSUME IInv, pc = "tiles", walk.tile >= ContextLen, NEW s \in 1..HiddenSlices
    PROVE  AttendSlice(walk.query, walk.context, s) = Attended(walk.rows - 1)[s]
<1> DEFINE t == walk.rows - 1
           kv == KvOf(cache)[task.layer]
<1>1. /\ walk.rows \in Nat /\ walk.tile \in Nat /\ task.position \in Nat
      /\ ContextLen \in Nat /\ ContextLen = task.position + walk.rows
  BY Walking DEF ContextLen
<1>2. /\ walk.query = RotatedQuery(t)
      /\ walk.context =
           [i \in 1..(IF walk.tile < ContextLen THEN walk.tile ELSE ContextLen) |->
               kv[i - 1]]
  BY DEF IInv, WalkState
<1>3. ~(walk.tile < ContextLen)
  BY <1>1, SMT
<1>4. PositionOf(t) + 1 = ContextLen
  <2> DEFINE n == walk.rows
             p == task.position
  <2>1. PositionOf(t) = p + (n - 1)
    BY DEF PositionOf
  <2>2. n \in Nat /\ p \in Nat /\ ContextLen = p + n
    BY <1>1
  <2> HIDE DEF n, p, t
  <2>3. QED BY <2>1, <2>2, SMT
<1> HIDE DEF t
<1>5. walk.context = Abstract!Context(task.layer, PositionOf(t))
  BY <1>2, <1>3, <1>4 DEF Abstract!Context
<1> HIDE DEF kv
<1>6. QED BY <1>2, <1>5 DEF Attended, t

(* The end of a row puts the attended row in place of its V row, which    *)
(* the walk has already stored.                                           *)
LEMMA EndRowIInv ==
    ASSUME IInv, EndRow
    PROVE  IInv'
<1> DEFINE n == walk.rows
           t0 == n - 1
           row == [s \in 1..Slices |->
                     IF s <= HiddenSlices
                     THEN AttendSlice(walk.query, walk.context, s)
                     ELSE bank["wide0"][t0][s]]
<1>1. /\ pc = "tiles" /\ walk.tile >= ContextLen /\ pc' = "walk"
      /\ bank' = [bank EXCEPT !["wide0"] = [bank["wide0"] EXCEPT ![t0] = row]]
      /\ UNCHANGED <<overlap, task, step, query, currentK, exch, walk, cache>>
  BY DEF EndRow
<1>2. /\ Shape /\ CacheShape /\ LayoutsAgree
      /\ Attends(task) /\ step = 5 /\ InAttention /\ HeldInAttention
      /\ ~InFfn /\ task.op # "FINAL_NORM"
      /\ n \in Nat /\ n <= task.tokens /\ task.tokens \in Nat
  BY <1>1, Walking
<1>3. n > 0
  BY <1>1 DEF IInv, WalkState
<1>4. t0 \in Nat /\ t0 + 1 = n /\ t0 \in RowsOf(task)
  <2> HIDE DEF n
  <2> QED BY <1>2, <1>3, SMT DEF RowsOf
<1>5. RowsOf(task) \subseteq RowSet
  BY <1>1, <1>2, AtWork
<1>6. \A s \in 1..HiddenSlices : row[s] = Attended(t0)[s]
  <2>1. TAKE s \in 1..HiddenSlices
  <2>2. s \in 1..Slices /\ s <= HiddenSlices
    BY Sizes, SMT
  <2>3. AttendSlice(walk.query, walk.context, s) = Attended(t0)[s]
    BY <1>1, RowAttended
  <2>4. QED BY <2>2, <2>3
<1>7. row = [s \in 1..Slices |-> row[s]]
  OBVIOUS
<1> HIDE DEF row, t0
<1> DEFINE old == bank["wide0"]
           new == [old EXCEPT ![t0] = row]
<1>8. old = [t \in RowSet |-> [s \in 1..Slices |-> old[t][s]]]
  BY <1>2 DEF Shape, Shaped, Banks
<1> HIDE DEF old
<1>9. new = [t \in RowSet |-> IF t = t0 THEN row ELSE old[t]]
  BY <1>4, <1>5, <1>8
<1>10. new[t0] = row /\ \A t \in RowSet : t # t0 => new[t] = old[t]
  BY <1>4, <1>5, <1>9
<1>11. Shaped(new)
  <2>1. \A t \in RowSet : new[t] = [s \in 1..Slices |-> new[t][s]]
    <3>1. TAKE t \in RowSet
    <3>2. old[t] = [s \in 1..Slices |-> old[t][s]]
      BY <1>8
    <3>3. new[t] = row \/ new[t] = old[t]
      BY <1>9
    <3>4. QED BY <1>7, <3>2, <3>3
  <2>2. new = [t \in RowSet |-> new[t]]
    BY <1>9
  <2> HIDE DEF new
  <2>3. QED BY <2>1, <2>2 DEF Shaped
<1>12. /\ bank' = [b \in Banks |-> bank'[b]]
       /\ bank'["wide0"] = new
       /\ \A b \in Banks : b # "wide0" => bank'[b] = bank[b]
  <2> HIDE DEF new
  <2>1. bank' = [bank EXCEPT !["wide0"] = new]
    BY <1>1 DEF new, old
  <2>2. bank = [b \in Banks |-> bank[b]] /\ "wide0" \in Banks
    BY <1>2 DEF Shape, Banks
  <2>3. QED BY <2>1, <2>2
<1> HIDE DEF new
<1>13. Shape'
  <2>1. \A b \in Banks : Shaped(bank'[b])
    BY <1>2, <1>11, <1>12 DEF Shape
  <2>2. (\A b \in Banks : Shaped(bank[b]))'
    BY <2>1 DEF Shaped
  <2>3. QED BY <1>1, <1>2, <1>12, <2>2, SameNow DEF Shape
<1>14. CacheShape' /\ LayoutsAgree'
  <2>1. cache' = cache
    BY <1>1
  <2>2. QED BY <1>2, <2>1 DEF CacheShape, LayoutsAgree
<1>15. WalkState'
  <2>1. WalkState /\ task' = task /\ step' = step /\ walk' = walk /\ pc' = "walk"
    BY <1>1 DEF IInv
  <2>2. Attends(task)' /\ step = 5 /\ walk.rows <= task.tokens
    BY <1>2, <2>1 DEF Attends
  <2>3. QED BY <2>1, <2>2 DEF WalkState
<1>16. RowsDone' = n /\ RowsDone = t0
  BY <1>1 DEF RowsDone, t0
<1>17. HeldInAttention'
  <2>1. RowsOf(task)' = RowsOf(task)
    BY <1>1 DEF RowsOf
  <2>2. SUFFICES ASSUME NEW t \in RowsOf(task)
        PROVE  /\ \A s \in 1..HiddenSlices : bank["hidden0"][t][s] = InputRow(t)[s]
               /\ \A s \in 1..HiddenSlices : query[t][s] = QueryRow(t)[s]
               /\ \A s \in 1..KvSlices : currentK[t][s] = KeyRow(t)[s]
               /\ t >= n => \A s \in 1..KvSlices : new[t][s] = ValueRow(t)[s]
               /\ t < n => \A s \in 1..HiddenSlices : new[t][s] = Attended(t)[s]
    <3>1. ~(5 \in 2..4) /\ 5 # 6 /\ 5 # 7
      BY SMT
    <3>2. bank'["hidden0"] = bank["hidden0"]
      BY <1>12 DEF Banks
    <3>3. \A t : /\ InputRow(t)' = InputRow(t) /\ QueryRow(t)' = QueryRow(t)
                 /\ KeyRow(t)' = KeyRow(t) /\ ValueRow(t)' = ValueRow(t)
                 /\ Attended(t)' = Attended(t)
      BY <1>1, SameRows
    <3>4. step' = 5 /\ query' = query /\ currentK' = currentK
      BY <1>1, <1>2
    <3>5. QED BY <1>12, <1>16, <2>1, <2>2, <3>1, <3>2, <3>3, <3>4 DEF HeldInAttention
  <2>3. 5 \in 3..5 /\ 5 \in 4..5
    BY SMT
  <2>4. /\ \A s \in 1..HiddenSlices : bank["hidden0"][t][s] = InputRow(t)[s]
        /\ \A s \in 1..HiddenSlices : query[t][s] = QueryRow(t)[s]
        /\ \A s \in 1..KvSlices : currentK[t][s] = KeyRow(t)[s]
        /\ t >= t0 => \A s \in 1..KvSlices : old[t][s] = ValueRow(t)[s]
        /\ t < t0 => \A s \in 1..HiddenSlices : old[t][s] = Attended(t)[s]
    BY <1>2, <1>16, <2>3 DEF HeldInAttention, old
  <2>5. t \in Nat /\ t \in RowSet
    BY <1>2, <1>5, SMT DEF RowsOf
  <2>6. t >= n => t >= t0 /\ t # t0
    <3> HIDE DEF n
    <3> QED BY <1>2, <1>4, <2>5, SMT
  <2>7. t < n => t = t0 \/ (t < t0 /\ t # t0)
    <3> HIDE DEF n
    <3> QED BY <1>2, <1>4, <2>5, SMT
  <2>8. QED BY <1>6, <1>10, <2>4, <2>5, <2>6, <2>7
<1>18. Held'
  <2>1. ~InFfn' /\ (task.op # "FINAL_NORM")' /\ pc' = "walk"
    BY <1>1, <1>2 DEF InFfn
  <2>2. QED BY <1>17, <2>1 DEF Held
<1>19. Exchange'
  BY <1>1 DEF Exchange
<1>20. QED BY <1>13, <1>14, <1>15, <1>18, <1>19 DEF IInv

(* After the walk every row of wide0 is attended. *)
LEMMA EndWalkIInv ==
    ASSUME IInv, EndWalk
    PROVE  IInv' /\ pc' = "begin"
<1>1. /\ pc = "walk" /\ walk.rows = task.tokens /\ Advance
      /\ UNCHANGED <<overlap, task, bank, query, currentK, exch, walk, cache>>
  BY DEF EndWalk
<1>2. /\ Shape /\ CacheShape /\ LayoutsAgree
      /\ Attends(task) /\ step = 5 /\ InAttention /\ HeldInAttention
      /\ ~InFfn /\ task.op # "FINAL_NORM"
      /\ walk.rows \in Nat /\ task.tokens \in Nat
  BY <1>1, Walking
<1>3. Len(Steps(task)) \in {13, 7}
  <2>1. task \in Tasks /\ Accepted(task)
    BY <1>1, <1>2, AtWork
  <2>2. QED BY <1>2, <2>1, StepsAt DEF Attends
<1>4. \A n \in {13, 7} : 5 # n /\ 6 \in 1..n
  BY SMT
<1>5. pc' = "begin" /\ step' = 6
  BY <1>1, <1>2, <1>3, <1>4, SMT DEF Advance
<1>6. Shape'
  <2>1. Len(Steps(task))' = Len(Steps(task)) /\ Accepted(task)' = Accepted(task)
    BY <1>1 DEF Steps, AttentionSteps, FfnSteps, Accepted, NormStep, ProjectStep,
                BinaryStep, WalkStep
  <2>2. step' \in 1..Len(Steps(task))
    BY <1>3, <1>4, <1>5
  <2>3. task \in Tasks /\ Accepted(task)
    BY <1>1, <1>2, AtWork
  <2>4. QED BY <1>1, <1>2, <1>5, <2>1, <2>2, <2>3 DEF Shape, Shaped
<1>7. CacheShape' /\ LayoutsAgree'
  <2>1. cache' = cache
    BY <1>1
  <2>2. QED BY <1>2, <2>1 DEF CacheShape, LayoutsAgree
<1>8. WalkState'
  <2>1. WalkState /\ task' = task /\ walk' = walk
    BY <1>1 DEF IInv
  <2>2. ~(6 <= 5) /\ 6 # 5
    BY SMT
  <2>3. QED BY <1>1, <1>5, <2>1, <2>2 DEF WalkState
<1>9. HeldInAttention'
  <2>1. RowsOf(task)' = RowsOf(task)
    BY <1>1 DEF RowsOf
  <2>2. 6 = 6 /\ 6 # 7 /\ ~(6 \in 2..4) /\ ~(6 \in 3..5) /\ ~(6 \in 4..5) /\ 6 # 5
    BY SMT
  <2>3. RowsDone = walk.rows
    BY <1>1 DEF RowsDone
  <2>4. \A t \in RowsOf(task) : t < walk.rows
    BY <1>1, <1>2, SMT DEF RowsOf
  <2>5. \A t \in RowsOf(task), s \in 1..HiddenSlices :
          /\ bank["hidden0"][t][s] = InputRow(t)[s]
          /\ bank["wide0"][t][s] = Attended(t)[s]
    BY <1>2, <2>3, <2>4 DEF HeldInAttention
  <2>6. \A t : InputRow(t)' = InputRow(t) /\ Attended(t)' = Attended(t)
    BY <1>1, SameRows
  <2>7. bank' = bank
    BY <1>1
  <2>8. QED BY <1>5, <2>1, <2>2, <2>5, <2>6, <2>7 DEF HeldInAttention
<1>10. Held'
  <2>1. ~InFfn' /\ (task.op # "FINAL_NORM")'
    <3>1. ~(6 > 7)
      BY SMT
    <3>2. QED BY <1>1, <1>2, <1>5, <3>1 DEF InFfn
  <2>2. QED BY <1>5, <1>9, <2>1 DEF Held
<1>11. Exchange'
  BY <1>5 DEF Exchange
<1>12. QED BY <1>5, <1>6, <1>7, <1>8, <1>10, <1>11 DEF IInv

(* Storing the result leaves everything but the output. *)
LEMMA StoreIInv ==
    ASSUME IInv, Store
    PROVE  IInv'
<1>1. /\ pc' = "idle"
      /\ UNCHANGED <<overlap, task, step, bank, query, currentK, exch, walk, cache>>
  BY DEF Store
<1>2. Shape /\ CacheShape /\ LayoutsAgree /\ WalkState
  BY DEF IInv
<1>3. Shape'
  BY <1>1, <1>2 DEF Shape, Shaped
<1>4. CacheShape' /\ LayoutsAgree'
  BY <1>1, <1>2 DEF CacheShape, LayoutsAgree
<1>5. WalkState'
  BY <1>1, <1>2 DEF WalkState
<1>6. Held' /\ Exchange'
  BY <1>1 DEF Held, Exchange
<1>7. QED BY <1>3, <1>4, <1>5, <1>6 DEF IInv

(* A step that changes nothing. *)
LEMMA StutterIInv ==
    ASSUME IInv, UNCHANGED vars
    PROVE  IInv'
<1>1. UNCHANGED <<overlap, pc, task, step, bank, query, currentK, exch, walk, cache>>
  BY DEF vars
<1>2. Shape /\ CacheShape /\ LayoutsAgree /\ WalkState /\ Held /\ Exchange
  BY DEF IInv
<1>3. /\ Now' = Now /\ Units(Now, task)' = Units(Now, task)
      /\ Len(Steps(task))' = Len(Steps(task)) /\ Accepted(task)' = Accepted(task)
      /\ \A u : Cells(Now, task, u)' = Cells(Now, task, u)
  BY <1>1, SameNow
<1>4. /\ \A t, s : Value(Now, task, t, s)' = Value(Now, task, t, s)
      /\ \A u : Unit(u)' = Unit(u)
  BY <1>1, SameValue
<1>5. Shape'
  BY <1>1, <1>2, <1>3 DEF Shape, Shaped
<1>6. CacheShape' /\ LayoutsAgree'
  BY <1>1, <1>2 DEF CacheShape, LayoutsAgree
<1>7. /\ InAttention' = InAttention /\ InFfn' = InFfn /\ RowsDone' = RowsDone
      /\ Attends(task)' = Attends(task) /\ RowsOf(task)' = RowsOf(task)
  BY <1>1 DEF InAttention, InFfn, RowsDone, Attends, RowsOf
<1>8. WalkState'
  <2>1. RotatedQuery(walk.rows - 1)' = RotatedQuery(walk.rows - 1)
    BY <1>1 DEF RotatedQuery, PositionOf, QueryRow, Normed, InputRow
  <2>2. ContextLen' = ContextLen
    BY <1>1 DEF ContextLen, Position
  <2>3. QED BY <1>1, <1>2, <1>7, <2>1, <2>2 DEF WalkState
<1>9. Held'
  <2>1. InAttention /\ HeldInAttention => HeldInAttention'
    BY <1>1, <1>7, AttentionKept
  <2>2. InFfn /\ HeldInFfn => HeldInFfn'
    BY <1>1, FfnKept
  <2>3. HeldInNorm => HeldInNorm'
    BY <1>1, <1>7, SameRows DEF HeldInNorm
  <2>4. ResultBank(task)' = ResultBank(task)
    BY <1>1 DEF ResultBank
  <2>5. \A t : Abstract!Result(task, t)' = Abstract!Result(task, t)
    BY <1>1, SameResult
  <2>6. QED BY <1>1, <1>2, <1>7, <2>1, <2>2, <2>3, <2>4, <2>5 DEF Held
<1>10. Exchange'
  <2>1. Target' = Target
    BY <1>1, <1>3 DEF Target, ThroughScratch, InPlace
  <2>2. pc' = pc /\ exch' = exch /\ bank' = bank
    BY <1>1
  <2>3. /\ \A u : Unit(exch.got + u)' = Unit(exch.got + u)
        /\ Units(Now, task)' = Units(Now, task)
        /\ (Now.do = "norm")' = (Now.do = "norm")
    BY <1>3, <1>4, <2>2 DEF Unit
  <2>4. SUFFICES ASSUME pc = "run" PROVE Exchange'
    BY <2>2 DEF Exchange
  <2>5. exch'.flight = [i \in 1..(exch'.sent - exch'.got) |-> Unit(exch.got + i)']
    BY <1>2, <2>2, <2>3, <2>4 DEF Exchange
  <2>6. \A u \in 1..exch'.got : \A c \in Cells(Now, task, u)' :
          Target'[c[1]][c[2]] = Value(Now, task, c[1], c[2])'
    BY <1>2, <1>3, <1>4, <2>1, <2>2, <2>4 DEF Exchange
  <2>7. /\ exch'.sent \in 0..Units(Now, task)' /\ exch'.got \in 0..exch'.sent
        /\ (Now.do = "norm")' =>
             \A s \in 1..HiddenSlices : bank'[Now'.b][0][s] = NormWeight(Now'.n)
    BY <1>2, <1>3, <2>2, <2>3, <2>4 DEF Exchange
  <2>8. QED BY <2>5, <2>6, <2>7 DEF Exchange
<1>11. QED BY <1>5, <1>6, <1>8, <1>9, <1>10 DEF IInv

(* Every step keeps the invariant. *)
LEMMA NextIInv == IInv /\ [Next]_vars => IInv'
<1> SUFFICES ASSUME IInv, [Next]_vars PROVE IInv'
  OBVIOUS
<1>1. ASSUME NEW r \in Tasks, Launch(r) PROVE IInv'
  BY <1>1, LaunchIInv
<1>2. CASE BeginStep
  BY <1>2, BeginStepIInv
<1>3. CASE Drive
  BY <1>3, DriveIInv
<1>4. CASE Collect
  BY <1>4, CollectIInv
<1>5. CASE EndStep
  BY <1>5, EndStepIInv
<1>6. CASE StoreCurrent
  BY <1>6, StoreCurrentIInv
<1>7. CASE LoadTile
  BY <1>7, LoadTileIInv
<1>8. CASE EndRow
  BY <1>8, EndRowIInv
<1>9. CASE EndWalk
  BY <1>9, EndWalkIInv
<1>10. CASE Store
  BY <1>10, StoreIInv
<1>11. CASE UNCHANGED vars
  BY <1>11, StutterIInv
<1>12. QED
  BY <1>1, <1>2, <1>3, <1>4, <1>5, <1>6, <1>7, <1>8, <1>9, <1>10, <1>11 DEF Next

(* The invariant holds in every state of every behaviour. *)
LEMMA Inductive == Spec => []IInv
  BY InitIInv, NextIInv, PTL DEF Spec

-----------------------------------------------------------------------------
(***************************************************************************)
(* LayoutsAgree: store_current_kv_block writes a K row into the row-major  *)
(* cache and into one lane of the position-packed cache; after any number  *)
(* of tasks and layers both hold the same rows.                            *)
(***************************************************************************)
THEOREM Layouts == Spec => []LayoutsAgree
<1>1. IInv => LayoutsAgree
  BY DEF IInv
<1>2. QED BY <1>1, Inductive, PTL

(***************************************************************************)
(* CausalContext: the tiles the walk has read for a row are a prefix of    *)
(* the layer's cache from position 0, in order, the row's own position the *)
(* last it can hold.                                                       *)
(***************************************************************************)
THEOREM Causal == Spec => []CausalContext
<1>1. ASSUME IInv, pc = "tiles"
      PROVE  /\ Len(walk.context) <= ContextLen
             /\ \A i \in 1..Len(walk.context) :
                  walk.context[i] = [k |-> cache[task.layer].k[i - 1],
                                     v |-> cache[task.layer].v[i - 1]]
  <2> DEFINE n == IF walk.tile < ContextLen THEN walk.tile ELSE ContextLen
             layer == task.layer
             rows == walk.rows
  <2>1. /\ CacheShape /\ LayoutsAgree /\ walk.tile \in Nat
        /\ ContextLen \in Nat /\ layer \in 0..(NumLayers - 1)
        /\ MaxSeq \in Nat /\ ContextLen = task.position + rows
        /\ rows <= task.tokens /\ rows \in Nat
        /\ task.position \in Nat /\ task.tokens \in Nat
        /\ task.position + task.tokens <= MaxSeq
    BY <1>1, Walking DEF ContextLen
  <2>2. walk.context = [i \in 1..n |-> KvOf(cache)[layer][i - 1]]
    BY <1>1 DEF IInv, WalkState
  <2>3. n \in Nat /\ n <= ContextLen
    BY <2>1, SMT
  <2>4. ContextLen <= MaxSeq
    <3> HIDE DEF rows
    <3> QED BY <2>1, SMT
  <2> HIDE DEF n, layer, rows
  <2>5. Len(walk.context) = n
    BY <2>2, <2>3, FunctionLen
  <2>6. ASSUME NEW i \in 1..n
        PROVE  walk.context[i] = [k |-> cache[layer].k[i - 1],
                                  v |-> cache[layer].v[i - 1]]
    <3> DEFINE p == i - 1
    <3>1. p \in 0..(MaxSeq - 1)
      BY <2>1, <2>3, <2>4, SMT
    <3> HIDE DEF p
    <3>2. KvOf(cache)[layer][p] =
            [k |-> cache[layer].kt[p \div WordPositions][p % WordPositions],
             v |-> cache[layer].v[p]]
      BY <2>1, <3>1, KvEntry
    <3>3. cache[layer].kt[p \div WordPositions][p % WordPositions] = cache[layer].k[p]
      BY <2>1, <3>1 DEF LayoutsAgree, CacheShape
    <3>4. walk.context[i] = KvOf(cache)[layer][p]
      BY <2>2 DEF p
    <3>5. QED BY <3>2, <3>3, <3>4 DEF p
  <2>7. QED BY <2>3, <2>5, <2>6 DEF layer
<1>2. IInv => CausalContext
  BY <1>1 DEF CausalContext
<1>3. QED BY <1>2, Inductive, PTL

(***************************************************************************)
(* SourceStable: while the driver of a projection or a norm still has      *)
(* units to read, neither the collector nor the end of the exchange writes *)
(* the bank it reads them from.                                            *)
(***************************************************************************)
THEOREM Stable == Spec => SourceStable
<1> DEFINE Reading == pc = "run" /\ Now.do # "binary" /\ exch.sent < Units(Now, task)
<1>1. ASSUME IInv, [Next]_vars, Reading
      PROVE  bank'[Now.a] = bank[Now.a]
  <2>1. pc = "run" /\ Now.do # "binary" /\ exch.sent < Units(Now, task)
    BY <1>1
  <2>2. /\ Units(Now, task) \in Nat /\ exch.sent \in Nat /\ exch.got \in Nat
        /\ exch.got <= exch.sent /\ SoundBanks(Now)
    BY <1>1, <2>1, Running
  <2>3. Now.a # Now.dst /\ Now.a \in Banks /\ Now.dst \in Banks
    BY <2>1, <2>2 DEF SoundBanks, InPlace
  <2>4. CASE Collect
    <3>1. bank' = bank \/ \E rows : bank' = [bank EXCEPT ![Now.dst] = rows]
      BY <2>4 DEF Collect
    <3>2. bank = [b \in Banks |-> bank[b]]
      BY <1>1 DEF IInv, Shape
    <3>3. QED BY <2>3, <3>1, <3>2
  <2>5. CASE EndStep
    <3>1. exch.got = Units(Now, task)
      BY <2>5 DEF EndStep
    <3>2. QED BY <2>1, <2>2, <3>1, SMT
  <2>6. CASE Drive
    BY <2>6 DEF Drive
  <2>7. CASE UNCHANGED vars
    BY <2>7 DEF vars
  <2>8. ~(\E r \in Tasks : Launch(r)) /\ ~BeginStep /\ ~StoreCurrent /\ ~LoadTile
        /\ ~EndRow /\ ~EndWalk /\ ~Store
    BY <2>1 DEF Launch, BeginStep, StoreCurrent, LoadTile, EndRow, EndWalk, Store
  <2>9. QED BY <1>1, <2>4, <2>5, <2>6, <2>7, <2>8 DEF Next
<1>2. IInv /\ [Next]_vars => [Reading => bank'[Now.a] = bank[Now.a]]_vars
  BY <1>1
<1>3. QED BY <1>2, Inductive, PTL DEF Spec, SourceStable

-----------------------------------------------------------------------------
(* A result is the function that gives its slices. *)
LEMMA ResultSlices ==
    ASSUME Shape, pc # "idle", NEW t
    PROVE  Abstract!Result(task, t) =
             [s \in 1..HiddenSlices |-> Abstract!Result(task, t)[s]]
<1>1. task.op \in {"DECODER_LAYER", "ATTENTION_SUBLAYER", "FFN_SUBLAYER", "FINAL_NORM"}
  BY AtWork
<1>2. Len(InputRow(t)) = HiddenSlices /\ Len(Down(t)) = HiddenSlices
  BY RowLengths
<1>3. InputRow(t) = [s \in 1..HiddenSlices |-> InputRow(t)[s]]
  BY DEF InputRow, Input
<1>4. \A op, a, b : Len(a) = HiddenSlices =>
        Binary(op, a, b) = [s \in 1..HiddenSlices |-> Binary(op, a, b)[s]]
  BY DEF Binary
<1>5. Residual(t) = [s \in 1..HiddenSlices |-> Residual(t)[s]]
  <2>1. CASE Attends(task)
    <3>1. Residual(t) = Binary("RESIDUAL_ADD", InputRow(t), AttnOutput(t))
      BY <2>1 DEF Residual
    <3>2. Residual(t) = [s \in 1..HiddenSlices |->
                           BinarySlice("RESIDUAL_ADD", InputRow(t)[s], AttnOutput(t)[s])]
      BY <1>2, <3>1 DEF Binary
    <3>3. QED BY <3>2
  <2>2. CASE ~Attends(task)
    <3>1. Residual(t) = InputRow(t)
      BY <2>2 DEF Residual
    <3>2. QED BY <1>3, <3>1
  <2>3. QED BY <2>1, <2>2
<1>6. Norm(2 * NumLayers, InputRow(t))
        = [s \in 1..HiddenSlices |-> Norm(2 * NumLayers, InputRow(t))[s]]
  BY DEF Norm
<1>7. CASE task.op = "ATTENTION_SUBLAYER"
  BY <1>5, <1>7, ResultRows
<1>8. CASE task.op = "FINAL_NORM"
  BY <1>6, <1>8, ResultRows
<1>9. CASE task.op \in {"DECODER_LAYER", "FFN_SUBLAYER"}
  <2>1. Binary("RESIDUAL_ADD", Down(t), Residual(t))
          = [s \in 1..HiddenSlices |-> Binary("RESIDUAL_ADD", Down(t), Residual(t))[s]]
    BY <1>2, <1>4
  <2>2. Abstract!Result(task, t) = Binary("RESIDUAL_ADD", Down(t), Residual(t))
    BY <1>9, ResultRows
  <2>3. QED BY <2>1, <2>2
<1>10. QED BY <1>1, <1>7, <1>8, <1>9

(* A launch is the beginning of an abstract task. *)
LEMMA LaunchBegins ==
    ASSUME NEW r \in Tasks, Launch(r)
    PROVE  Abstract!Begin(r)
  BY DEF Launch, NoWalk, Abstract!Begin

(* The K and V the walk stores are those of the row's input. *)
LEMMA StoreAppends ==
    ASSUME IInv, StoreCurrent
    PROVE  Abstract!AppendRow
<1> DEFINE p == Position
           n == walk.rows
           k == Rope(p, currentK[n], KvSlices)
           v == SubSeq(bank["wide0"][n], 1, KvSlices)
           e == Abstract!CacheEntry(task.layer, Abstract!Input(task, n), p)
<1>1. /\ pc = "walk" /\ n < task.tokens /\ pc' = "tiles"
      /\ cache' = [cache EXCEPT ![task.layer] = StoreEntry(@, p, k, v)]
      /\ walk'.rows = n + 1 /\ task' = task
  BY DEF StoreCurrent
<1>2. /\ CacheShape /\ LayoutsAgree /\ Attends(task) /\ step = 5 /\ HeldInAttention
      /\ n \in Nat /\ task.tokens \in Nat /\ task.position \in Nat
      /\ task.position + task.tokens <= MaxSeq /\ MaxSeq \in Nat
      /\ task.layer \in 0..(NumLayers - 1)
      /\ p \in Nat /\ p = task.position + n
  BY <1>1, Walking
<1>3. p \in 0..(MaxSeq - 1)
  <2> HIDE DEF p, n
  <2> QED BY <1>1, <1>2, SMT
<1>4. n \in RowsOf(task)
  <2> HIDE DEF n
  <2> QED BY <1>1, <1>2, SMT DEF RowsOf
<1>5. n >= RowsDone /\ 5 \in 4..5
  <2>1. RowsDone = n
    BY <1>1 DEF RowsDone
  <2>2. QED BY <1>2, <2>1, SMT
<1>6. /\ \A s \in 1..KvSlices : currentK[n][s] = KeyRow(n)[s]
      /\ \A s \in 1..KvSlices : bank["wide0"][n][s] = ValueRow(n)[s]
  BY <1>2, <1>4, <1>5 DEF HeldInAttention
<1>7. k = Rope(p, KeyRow(n), KvSlices)
  <2>1. SubSeq(currentK[n], 1, KvSlices) = SubSeq(KeyRow(n), 1, KvSlices)
    BY <1>6, Sizes, SamePrefix
  <2>2. QED BY <2>1 DEF Rope
<1>8. v = ValueRow(n)
  <2>1. v = [s \in 1..KvSlices |-> bank["wide0"][n][s]]
    BY Sizes, PrefixSlices
  <2>2. OutSlices(2) = KvSlices
    BY SMT DEF OutSlices
  <2>3. ValueRow(n) = [s \in 1..KvSlices |-> ValueRow(n)[s]]
    BY <2>2 DEF ValueRow, Project
  <2> HIDE DEF v
  <2>4. QED BY <1>6, <2>1, <2>3
<1>9. e = [k |-> k, v |-> v]
  <2>1. e = [k |-> Rope(p, KeyRow(n), KvSlices), v |-> ValueRow(n)]
    BY SameMath DEF Abstract!CacheEntry, KeyRow, ValueRow, Normed, InputRow
  <2> HIDE DEF e, k, v
  <2>2. QED BY <1>7, <1>8, <2>1
<1> HIDE DEF e, k, v
<1>10. KvOf(cache)' = [KvOf(cache) EXCEPT ![task.layer][p] = e]
  <2> DEFINE layer == task.layer
  <2>1. /\ CacheShape /\ LayoutsAgree /\ layer \in 0..(NumLayers - 1)
        /\ cache' = [cache EXCEPT ![layer] = StoreEntry(@, p, k, v)]
    BY <1>1, <1>2
  <2> HIDE DEF p, layer
  <2>2. KvOf(cache)' = [KvOf(cache) EXCEPT ![layer][p] = [k |-> k, v |-> v]]
    BY <1>3, <2>1, CacheStored
  <2>3. QED BY <1>9, <2>2 DEF layer
<1>11. Abstract!Attends(task)
  BY <1>2, SameMath
<1>12. /\ KvOf(cache)' = [KvOf(cache) EXCEPT ![task.layer][task.position + walk.rows] =
             Abstract!CacheEntry(task.layer, Abstract!Input(task, walk.rows),
                                 task.position + walk.rows)]
  BY <1>2, <1>10 DEF e, p
<1>13. QED BY <1>1, <1>11, <1>12 DEF Abstract!AppendRow

(* Storing the result is the return of the abstract task. *)
LEMMA StoreReturns ==
    ASSUME IInv, Store
    PROVE  Abstract!Return
<1>1. /\ pc = "store" /\ pc' = "idle" /\ output' = bank[ResultBank(task)]
      /\ UNCHANGED <<task, walk, cache>>
  BY DEF Store
<1>2. Shape /\ WalkState /\ Held
  BY DEF IInv
<1>3. task # Nothing /\ RowsOf(task) = 0..(task.tokens - 1)
  BY <1>1, <1>2, AtWork DEF RowsOf
<1>4. Abstract!Attends(task) => walk.rows = task.tokens
  BY <1>1, <1>2, SameMath DEF WalkState
<1>5. ASSUME NEW t \in RowsOf(task)
      PROVE  SubSeq(bank[ResultBank(task)][t], 1, HiddenSlices) = Abstract!Result(task, t)
  <2> DEFINE row == bank[ResultBank(task)][t]
  <2>1. \A s \in 1..HiddenSlices : row[s] = Abstract!Result(task, t)[s]
    BY <1>1, <1>2 DEF Held
  <2> HIDE DEF row
  <2>2. SubSeq(row, 1, HiddenSlices) = [s \in 1..HiddenSlices |-> row[s]]
    BY Sizes, PrefixSlices
  <2>3. Abstract!Result(task, t) = [s \in 1..HiddenSlices |-> Abstract!Result(task, t)[s]]
    BY <1>1, <1>2, ResultSlices
  <2>4. QED BY <2>1, <2>2, <2>3 DEF row
<1>6. Valid(output)' = [t \in 0..(task.tokens - 1) |-> Abstract!Result(task, t)]
  <2>1. Valid(output)' =
          [t \in RowsOf(task) |-> SubSeq(bank[ResultBank(task)][t], 1, HiddenSlices)]
    BY <1>1 DEF Valid, RowsOf
  <2>2. QED BY <1>3, <1>5, <2>1
<1>7. KvOf(cache)' = KvOf(cache)
  BY <1>1
<1>8. QED BY <1>1, <1>3, <1>4, <1>6, <1>7 DEF Abstract!Return

(* Every other step of a task is one the abstract task does not see. *)
LEMMA Unseen ==
    ASSUME pc # "idle", pc' # "idle", task' = task, walk'.rows = walk.rows,
           cache' = cache
    PROVE  UNCHANGED Abstract!vars
  BY DEF Abstract!vars

(***************************************************************************)
(* ImplementsDecoderLayer: through its four banks, in either build and in  *)
(* whatever order driver and collector take their steps, the controller    *)
(* appends the K and V of the task's rows and stores, row by row, the      *)
(* layer's function of the input and of the cache up to the row.           *)
(***************************************************************************)
THEOREM Implementation == Spec => ImplementsDecoderLayer
<1>1. Init => Abstract!Init
  BY DEF Init, NoWalk, Abstract!Init
<1>2. ASSUME IInv, [Next]_vars
      PROVE  [Abstract!Next]_(Abstract!vars)
  <2>1. ASSUME NEW r \in Tasks, Launch(r) PROVE Abstract!Next
    BY <2>1, LaunchBegins DEF Abstract!Next
  <2>2. CASE StoreCurrent
    BY <1>2, <2>2, StoreAppends DEF Abstract!Next
  <2>3. CASE Store
    BY <1>2, <2>3, StoreReturns DEF Abstract!Next
  <2>4. CASE BeginStep
    BY <2>4, Unseen DEF BeginStep
  <2>5. CASE Drive
    BY <2>5, Unseen DEF Drive
  <2>6. CASE Collect
    BY <2>6, Unseen DEF Collect
  <2>7. CASE EndStep
    BY <2>7, Unseen DEF EndStep, Advance
  <2>8. CASE LoadTile
    <3>1. walk'.rows = walk.rows
      <4>1. walk = [rows |-> walk.rows, tile |-> walk.tile, query |-> walk.query,
                    context |-> walk.context]
        BY <1>2 DEF IInv, WalkState
      <4>2. QED BY <2>8, <4>1 DEF LoadTile
    <3>2. QED BY <2>8, <3>1, Unseen DEF LoadTile
  <2>9. CASE EndRow
    BY <2>9, Unseen DEF EndRow
  <2>10. CASE EndWalk
    BY <2>10, Unseen DEF EndWalk, Advance
  <2>11. CASE UNCHANGED vars
    BY <2>11 DEF vars, Abstract!vars, Valid, RowsOf
  <2>12. QED
    BY <1>2, <2>1, <2>2, <2>3, <2>4, <2>5, <2>6, <2>7, <2>8, <2>9, <2>10, <2>11
    DEF Next
<1>3. QED BY <1>1, <1>2, Inductive, PTL DEF Spec, ImplementsDecoderLayer, Abstract!Spec
=============================================================================
