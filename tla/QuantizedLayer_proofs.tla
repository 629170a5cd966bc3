------------------------ MODULE QuantizedLayer_proofs ------------------------
(***************************************************************************)
(* The quantized layer controller, for every number of units, dimension,   *)
(* block size, prompt and build: a unit is sent exactly the tasks the host *)
(* lets it serve, every block is the layer's function of its rows, and the *)
(* host's masks and shards are those the dispatches go by.                 *)
(*                                                                         *)
(* The argument: Counted says, place by place, how many of a block's tasks *)
(* have been sent when the controller is there, the lookahead's included;  *)
(* Held says which term every bank that is still to be read holds there,   *)
(* and what is on its way in a region.                                     *)
(***************************************************************************)
EXTENDS QuantizedLayer, Integers, FiniteSetTheorems, SequenceTheorems, WellFoundedInduction, TLAPS

-----------------------------------------------------------------------------
(* What the two sides of the layer compute apart agrees: the mask of a     *)
(* wave with the outputs of its dispatches, the place the host gives a     *)
(* weight with the words a dispatch reads; and no two weights of a unit    *)
(* share a word.                                                           *)

(* Dividing a multiple of m plus a remainder gives both back. *)
LEMMA DivisionUnique ==
    ASSUME NEW q \in Nat, NEW r \in Nat, NEW m \in Nat \ {0}, r < m
    PROVE  (q * m + r) \div m = q /\ (q * m + r) % m = r
<1> DEFINE a == q * m + r
           d == a \div m
<1>1. a \in Nat /\ d \in Int /\ a % m \in 0..(m - 1) /\ a = m * d + (a % m)
  BY SMT
<1>2. CASE d < q
  BY <1>1, <1>2, SMT
<1>3. CASE d > q
  BY <1>1, <1>3, SMT
<1>4. QED BY <1>1, <1>2, <1>3, SMT

(* A count of blocks exceeds b exactly when element b * m exists. *)
LEMMA CeilingExceeds ==
    ASSUME NEW a \in Nat, NEW m \in Nat \ {0}, NEW b \in Nat
    PROVE  /\ CeilDiv(a, m) \in Nat
           /\ b < CeilDiv(a, m) <=> b * m < a
<1> DEFINE c == a + m - 1
           d == c \div m
<1>1. c \in Nat /\ d \in Int /\ c % m \in 0..(m - 1) /\ c = m * d + (c % m)
  BY SMT
<1>2. d \in Nat
  BY <1>1, SMT
<1>3. ASSUME b < d PROVE b * m < a
  <2>1. (b + 1) * m <= m * d
    BY <1>2, <1>3, SMT
  <2>2. QED BY <1>1, <2>1, SMT
<1>4. ASSUME b >= d PROVE b * m >= a
  <2>1. b * m >= m * d
    BY <1>2, <1>4, SMT
  <2>2. QED BY <1>1, <2>1, SMT
<1>5. CeilDiv(a, m) = d
  BY DEF CeilDiv
<1>6. b * m \in Nat
  BY SMT
<1> HIDE DEF d
<1>7. QED BY <1>2, <1>3, <1>4, <1>5, <1>6, SMT

(* The dimensions of a projection are positive. *)
LEMMA Dimensions ==
    /\ Cus \in Nat \ {0} /\ OutputsPerCu \in Nat \ {0} /\ OutputsPerWave \in Nat \ {0}
    /\ \A n \in Kinds : OutDim(n) \in Nat \ {0} /\ InDim(n) \in Nat \ {0}
<1>1. /\ Cus \in Nat \ {0} /\ OutputsPerCu \in Nat \ {0} /\ HiddenDim \in Nat \ {0}
      /\ KvDim \in Nat \ {0} /\ WideDim \in Nat \ {0}
  BY QuantizedAssumption, SMT DEF QuantizedAssumption
<1>2. OutputsPerWave \in Nat \ {0}
  BY <1>1, SMT DEF OutputsPerWave
<1>3. QED BY <1>1, <1>2, SMT DEF OutDim, InDim, Kinds

-----------------------------------------------------------------------------
(***************************************************************************)
(* The mask of a wave names exactly the units whose dispatch has outputs:  *)
(* quantized_projection_active_cu_mask decides which units get a task and  *)
(* operands, make_quantized_projection_dispatch how many outputs they have,*)
(* from the last wave's count and from the element index.                  *)
(***************************************************************************)
THEOREM MaskMeansOutputs ==
    ASSUME NEW n \in Kinds, NEW wave \in Nat, NEW cu \in CuSet, NEW layer \in Nat
    PROVE  cu \in ActiveCus(n, wave) <=> Dispatch(n, wave, cu, layer).outputs # 0
<1> DEFINE dim == OutDim(n)
           W == OutputsPerWave
           P == OutputsPerCu
           base == wave * W + cu * P
<1>1. /\ dim \in Nat \ {0} /\ W \in Nat \ {0} /\ P \in Nat \ {0} /\ Cus \in Nat \ {0}
      /\ W = Cus * P /\ cu \in Nat /\ cu < Cus
  BY Dimensions, SMT DEF OutputsPerWave, CuSet
<1>2. Dispatch(n, wave, cu, layer).outputs # 0 <=> base < dim
  <2>1. base \in Nat
    BY <1>1, SMT
  <2>2. Dispatch(n, wave, cu, layer).outputs = IF base < dim THEN AtMost(dim - base, P) ELSE 0
    BY DEF Dispatch
  <2> HIDE DEF base, dim, P
  <2>3. QED BY <1>1, <2>1, <2>2, SMT DEF AtMost
<1>3. cu * P + P <= W
  BY <1>1, SMT
<1>4. WaveCount(n) \in Nat /\ \A w \in Nat : w < WaveCount(n) <=> w * W < dim
  BY <1>1, CeilingExceeds DEF WaveCount
<1>5. CASE wave + 1 < WaveCount(n)
  <2>1. cu \in ActiveCus(n, wave)
    BY <1>4, <1>5, SMT DEF ActiveCus
  <2>2. (wave + 1) * W < dim
    BY <1>4, <1>5, SMT
  <2>3. base < dim
    BY <1>1, <1>3, <2>2, SMT
  <2>4. QED BY <1>2, <2>1, <2>3
<1>6. CASE wave + 1 = WaveCount(n)
  <2> DEFINE rest == dim - wave * W
  <2>1. wave * W < dim
    BY <1>4, <1>6, SMT
  <2>2. rest \in Nat
    BY <1>1, <2>1, SMT
  <2>3. ActiveInLastWave(n) = CeilDiv(rest, P)
    BY <1>4, <1>6, SMT DEF ActiveInLastWave
  <2>4. cu < ActiveInLastWave(n) <=> cu * P < rest
    BY <1>1, <2>2, <2>3, CeilingExceeds
  <2>5. cu \in ActiveCus(n, wave) <=> cu < ActiveInLastWave(n)
    BY <1>4, <1>6, SMT DEF ActiveCus
  <2>6. cu * P < rest <=> base < dim
    BY <1>1, SMT
  <2>7. QED BY <1>2, <2>4, <2>5, <2>6
<1>7. CASE wave >= WaveCount(n)
  <2>1. cu \notin ActiveCus(n, wave)
    BY <1>4, <1>7, SMT DEF ActiveCus
  <2>2. wave * W >= dim
    BY <1>1, <1>4, <1>7, SMT
  <2>3. ~(base < dim)
    BY <1>1, <2>2, SMT
  <2>4. QED BY <1>2, <2>1, <2>3
<1>8. QED BY <1>4, <1>5, <1>6, <1>7, SMT

(***************************************************************************)
(* The host writes weight (output, input) of a projection where the unit   *)
(* that computes the output reads it: for output k of a dispatch the unit, *)
(* the lane and the word of get_quantized_w8_weight_location are the unit, *)
(* k and the dispatch's first word plus the input.                         *)
(***************************************************************************)
THEOREM HostWritesWhatUnitsRead ==
    ASSUME NEW n \in Kinds, NEW wave \in Nat, NEW cu \in CuSet, NEW layer \in Nat,
           NEW input \in Nat, NEW k \in Nat,
           k < Dispatch(n, wave, cu, layer).outputs
    PROVE  LET wanted == Dispatch(n, wave, cu, layer)
           IN  WeightLocation(n, wanted.elemBase + k, input, layer)
                 = [cu |-> cu, lane |-> k, word |-> wanted.firstWord + input]
<1> DEFINE W == OutputsPerWave
           P == OutputsPerCu
           part == cu * P + k
           out == wave * W + part
<1>1. /\ W \in Nat \ {0} /\ P \in Nat \ {0} /\ Cus \in Nat \ {0} /\ W = Cus * P
      /\ cu \in Nat /\ cu < Cus /\ OutDim(n) \in Nat
  BY Dimensions, SMT DEF OutputsPerWave, CuSet
<1>2. k < P
  <2> DEFINE base == wave * W + cu * P
  <2>1. base \in Nat
    BY <1>1, SMT
  <2>2. Dispatch(n, wave, cu, layer).outputs
          = IF base < OutDim(n) THEN AtMost(OutDim(n) - base, P) ELSE 0
    BY DEF Dispatch
  <2> HIDE DEF base, P
  <2>3. QED BY <1>1, <2>1, <2>2, SMT DEF AtMost
<1>3. part \in Nat /\ part < W
  BY <1>1, <1>2, SMT
<1>4. out \div W = wave /\ out % W = part
  <2> HIDE DEF part, W
  <2>1. QED BY <1>1, <1>3, DivisionUnique
<1>5. part \div P = cu /\ part % P = k
  <2> HIDE DEF P
  <2>1. QED BY <1>1, <1>2, DivisionUnique
<1>6. out % P = k
  <2> DEFINE q == wave * Cus + cu
  <2>1. q \in Nat /\ out = q * P + k
    BY <1>1, SMT
  <2> HIDE DEF q, P, out
  <2>2. QED BY <1>1, <1>2, <2>1, DivisionUnique
<1>7. Dispatch(n, wave, cu, layer).elemBase + k = out
  BY <1>1, SMT DEF Dispatch
<1>8. Dispatch(n, wave, cu, layer).firstWord
        = layer * LayerWords + ShardOffset(n) + wave * InDim(n)
  BY DEF Dispatch
<1> HIDE DEF out, part, W, P
<1>9. QED BY <1>4, <1>5, <1>6, <1>7, <1>8 DEF WeightLocation, W, P

-----------------------------------------------------------------------------
(* The words of a projection in a shard, and each projection begins where  *)
(* the one before it ends; the layer ends with the last one.               *)
Words(n) == WaveCount(n) * InDim(n)

LEMMA ProjectionsAbut ==
    /\ \A n \in Kinds : Words(n) \in Nat /\ ShardOffset(n) \in Nat
    /\ ShardOffset(0) = 0
    /\ \A n \in 0..5 : ShardOffset(n + 1) = ShardOffset(n) + Words(n)
    /\ LayerWords = ShardOffset(6) + Words(6)
<1> DEFINE hidden == CeilDiv(HiddenDim, OutputsPerWave)
           kvEnd == CeilDiv(KvDim, OutputsPerWave)
           wide == CeilDiv(WideDim, OutputsPerWave)
<1>1. /\ HiddenDim \in Nat \ {0} /\ KvDim \in Nat \ {0} /\ WideDim \in Nat \ {0}
      /\ OutputsPerWave \in Nat \ {0}
  BY Dimensions, QuantizedAssumption, SMT DEF QuantizedAssumption
<1>2. hidden \in Nat /\ kvEnd \in Nat /\ wide \in Nat
  BY <1>1, CeilingExceeds
<1>3. /\ WaveCount(0) = hidden /\ WaveCount(3) = hidden /\ WaveCount(6) = hidden
      /\ WaveCount(1) = kvEnd /\ WaveCount(2) = kvEnd
      /\ WaveCount(4) = wide /\ WaveCount(5) = wide
  BY DEF WaveCount, OutDim
<1>4. /\ Words(0) = hidden * HiddenDim /\ Words(1) = kvEnd * HiddenDim
      /\ Words(2) = kvEnd * HiddenDim /\ Words(3) = hidden * HiddenDim
      /\ Words(4) = wide * HiddenDim /\ Words(5) = wide * HiddenDim
      /\ Words(6) = hidden * WideDim
  BY <1>3 DEF Words, InDim
<1>5. /\ ShardOffset(0) = 0
      /\ ShardOffset(1) = hidden * HiddenDim
      /\ ShardOffset(2) = (hidden + kvEnd) * HiddenDim
      /\ ShardOffset(3) = (hidden + 2 * kvEnd) * HiddenDim
      /\ ShardOffset(4) = (2 * hidden + 2 * kvEnd) * HiddenDim
      /\ ShardOffset(5) = (2 * hidden + 2 * kvEnd + wide) * HiddenDim
      /\ ShardOffset(6) = (2 * hidden + 2 * kvEnd + 2 * wide) * HiddenDim
  BY DEF ShardOffset
<1>6. LayerWords = ShardOffset(6) + hidden * WideDim
  BY DEF LayerWords
<1> HIDE DEF hidden, kvEnd, wide
<1>7. \A n \in Kinds : Words(n) \in Nat /\ ShardOffset(n) \in Nat
  BY <1>1, <1>2, <1>4, <1>5, SMT DEF Kinds
<1>8. \A n \in 0..5 : ShardOffset(n + 1) = ShardOffset(n) + Words(n)
  BY <1>1, <1>2, <1>4, <1>5, SMT
<1>9. QED BY <1>4, <1>5, <1>6, <1>7, <1>8

(* Later projections lie wholly behind earlier ones, all inside the layer. *)
LEMMA ProjectionsInOrder ==
    /\ \A m, n \in Kinds : m < n => ShardOffset(m) + Words(m) <= ShardOffset(n)
    /\ \A n \in Kinds : ShardOffset(n) + Words(n) <= LayerWords
    /\ LayerWords \in Nat
<1>1. /\ ShardOffset(1) = ShardOffset(0) + Words(0)
      /\ ShardOffset(2) = ShardOffset(1) + Words(1)
      /\ ShardOffset(3) = ShardOffset(2) + Words(2)
      /\ ShardOffset(4) = ShardOffset(3) + Words(3)
      /\ ShardOffset(5) = ShardOffset(4) + Words(4)
      /\ ShardOffset(6) = ShardOffset(5) + Words(5)
  BY ProjectionsAbut, SMT
<1>2. QED BY <1>1, ProjectionsAbut, SMT DEF Kinds

(* An element of row u below c, at column i below d, is below c * d. *)
LEMMA ElementInside ==
    ASSUME NEW u \in Nat, NEW c \in Nat, NEW i \in Nat, NEW d \in Nat, u < c, i < d
    PROVE  u * d + i \in Nat /\ u * d + i < c * d
<1>1. (u + 1) * d <= c * d
  BY SMT
<1>2. (u + 1) * d = u * d + d /\ u * d \in Nat
  BY SMT
<1>3. QED BY <1>1, <1>2, SMT

(***************************************************************************)
(* No two weights of a shard share a word: the layer, the projection, the  *)
(* wave and the input are all determined by the word, so that the packing  *)
(* of one layer or projection never overwrites another's, whatever the     *)
(* layer stride, the shard offsets and the part-empty last waves are.      *)
(***************************************************************************)
THEOREM WordsDistinct ==
    ASSUME NEW m \in Kinds, NEW n \in Kinds, NEW u \in Nat, NEW w \in Nat,
           NEW i \in Nat, NEW j \in Nat, NEW layer \in Nat, NEW other \in Nat,
           NEW a \in CuSet, NEW b \in CuSet,
           u < WaveCount(m), w < WaveCount(n), i < InDim(m), j < InDim(n),
           Dispatch(m, u, a, layer).firstWord + i = Dispatch(n, w, b, other).firstWord + j
    PROVE  layer = other /\ m = n /\ u = w /\ i = j
<1> DEFINE In(p, wave, input) == ShardOffset(p) + wave * InDim(p) + input
<1>1. /\ InDim(m) \in Nat \ {0} /\ InDim(n) \in Nat \ {0}
      /\ WaveCount(m) \in Nat /\ WaveCount(n) \in Nat
      /\ ShardOffset(m) \in Nat /\ ShardOffset(n) \in Nat /\ LayerWords \in Nat
  BY Dimensions, CeilingExceeds, ProjectionsAbut, ProjectionsInOrder DEF WaveCount
<1>2. /\ u * InDim(m) + i \in Nat /\ u * InDim(m) + i < Words(m)
      /\ w * InDim(n) + j \in Nat /\ w * InDim(n) + j < Words(n)
  BY <1>1, ElementInside DEF Words
<1>3. In(m, u, i) \in Nat /\ In(n, w, j) \in Nat
  BY <1>1, <1>2, SMT
<1>4. In(m, u, i) < LayerWords /\ In(n, w, j) < LayerWords
  BY <1>1, <1>2, ProjectionsInOrder, ProjectionsAbut, SMT
<1>5. layer * LayerWords + In(m, u, i) = other * LayerWords + In(n, w, j)
  BY <1>1, SMT DEF Dispatch
<1>6. layer = other /\ In(m, u, i) = In(n, w, j)
  <2> HIDE DEF In
  <2>1. LayerWords \in Nat \ {0}
    BY <1>1, <1>3, <1>4, SMT
  <2>2. /\ (layer * LayerWords + In(m, u, i)) \div LayerWords = layer
        /\ (layer * LayerWords + In(m, u, i)) % LayerWords = In(m, u, i)
    BY <1>3, <1>4, <2>1, DivisionUnique
  <2>3. /\ (other * LayerWords + In(n, w, j)) \div LayerWords = other
        /\ (other * LayerWords + In(n, w, j)) % LayerWords = In(n, w, j)
    BY <1>3, <1>4, <2>1, DivisionUnique
  <2>4. QED BY <1>5, <2>2, <2>3
<1>7. m = n
  <2>1. m < n => In(m, u, i) < In(n, w, j)
    BY <1>1, <1>2, ProjectionsInOrder, ProjectionsAbut, SMT
  <2>2. n < m => In(n, w, j) < In(m, u, i)
    BY <1>1, <1>2, ProjectionsInOrder, ProjectionsAbut, SMT
  <2> HIDE DEF In
  <2>3. QED BY <1>3, <1>6, <2>1, <2>2, SMT DEF Kinds
<1>8. u = w /\ i = j
  <2>1. u * InDim(m) + i = w * InDim(m) + j
    BY <1>1, <1>2, <1>6, <1>7, SMT
  <2>2. (u * InDim(m) + i) \div InDim(m) = u /\ (u * InDim(m) + i) % InDim(m) = i
    BY <1>1, DivisionUnique
  <2>3. (w * InDim(m) + j) \div InDim(m) = w /\ (w * InDim(m) + j) % InDim(m) = j
    BY <1>1, <1>7, DivisionUnique
  <2>4. QED BY <2>1, <2>2, <2>3
<1>9. QED BY <1>6, <1>7, <1>8

-----------------------------------------------------------------------------
(* The controller.                                                         *)

(* The terms of a block. *)
Inputs(r, b) == [t \in 0..(BlockTokens(r, b) - 1) |-> Input(r, BlockBegin(r, b) + t)]
X == Inputs(req, block)
Norm0 == Normed(0, X)
Queries == Rotated(Position, Projected(0, Norm0))
TilesUpTo(n) ==
    [i \in 1..n |->
        TileOf(kv, (i - 1) * PositionTile, AtMost(i * PositionTile, Context))]
Contexts ==
    [t \in Active |-> Attend(t, Position, Queries, {TilesUpTo(Tiles(Context))})]
Attended == Projected(3, Contexts)
Residual == [t \in Active |-> Binary("RESIDUAL_ADD", X[t], Attended[t])]
Norm1 == Normed(1, Residual)
Gate == Projected(4, Norm1)
Up == Projected(5, Norm1)
Silus == [t \in Active |-> Unary("SILU", Gate[t])]
Products == [t \in Active |-> Binary("MUL", Silus[t], Up[t])]
Down == Projected(6, Products)

SourceBank(k) == IF k = 6 THEN "gate" ELSE "hidden0"
Source(k) ==
    CASE k \in {0, 1, 2} -> Norm0 [] k = 3 -> Contexts [] k \in {4, 5} -> Norm1
      [] OTHER -> Products
NextValid(name) == [t \in 0..(NextTokens - 1) |-> bank[name][t]]

Idle == {"start", "prefilled", "finished"}
Places == Idle \cup {"open", "step", "attend", "region", "close"}

(* Where the controller is, and with which request. *)
Control ==
    /\ build \in [pipeline : BOOLEAN, overlap : BOOLEAN, blockSize : 1..Rows]
    /\ build.overlap => build.pipeline
    /\ at \in Places /\ kind \in Kinds
    /\ filled \in Nat
    /\ at = "start" => filled = 0
    /\ at = "prefilled" => filled \in 1..MaxPrompt
    /\ IF at \in Idle THEN req = Nothing /\ block = 0 /\ kind = 0
       ELSE /\ req \in Requests /\ req.position = filled
            /\ IF req.decode THEN req.tokens = 1 ELSE req.position = 0
            /\ block \in 0..(BlockCount(req) - 1)
    /\ at \in {"open", "close"} => kind = 0
    /\ at = "attend" => kind = 3

Domains ==
    /\ DOMAIN bank = Banks \cup Lookahead
    /\ sent = [vector |-> sent.vector, matrix |-> sent.matrix]
    /\ DOMAIN kv = 0..(MaxSeq - 1)
    /\ DOMAIN output = 0..(MaxSeq - 1)

(* The processes of a region that have finished. *)
Overlapped ==
    at = "region" =>
        /\ done \subseteq {"tasks", "waves", "operands", "vector"}
        /\ done \cap {"tasks", "operands", "vector"} # {} => RidingOp # Nothing
        /\ "vector" \in done => {"tasks", "operands"} \subseteq done
        /\ RidingOp # Nothing /\ "waves" \in done => "tasks" \in done

-----------------------------------------------------------------------------
(* What the banks hold. *)
Held ==
    /\ at = "open" /\ Prepared =>
         Valid("next_source") = X /\ Valid("next_normalized") = Norm0
    /\ at \in {"step", "attend", "region"} /\ (kind < 4 \/ (kind = 4 /\ at = "step")) =>
         Valid("residual") = X
    /\ (at \in {"step", "region"} /\ kind > 4) \/ (at = "region" /\ kind = 4)
         \/ at = "close" =>
         Valid("residual") = Residual
    /\ at = "region" \/ (at = "step" /\ kind \in {0, 1, 2, 5}) =>
         Valid(SourceBank(kind)) = Source(kind) /\ scale = ScaleOf(Source(kind))
    /\ (at \in {"step", "region"} /\ kind \in {1, 2}) \/ (at = "step" /\ kind = 3) =>
         Valid("hidden1") = Projected(0, Norm0)
    /\ (at \in {"step", "region"} /\ kind = 2) \/ (at = "step" /\ kind = 3) =>
         Valid("key") = Projected(1, Norm0)
    /\ at = "step" /\ kind = 3 => Valid("value") = Projected(2, Norm0)
    /\ at = "attend" => Valid("hidden1") = Queries
    /\ at = "step" /\ kind = 4 => Valid("hidden1") = Attended
    /\ (at \in {"step", "region"} /\ kind = 5) \/ (at = "step" /\ kind = 6) =>
         Valid("gate") = Gate
    /\ at = "step" /\ kind = 6 =>
         IF Silu THEN Valid("up") = Silus /\ Valid("scratch") = Up
         ELSE Valid("up") = Up
    /\ at = "close" => Valid("hidden1") = Down

(* What is on its way in a region, and what the lookahead holds. *)
Moving ==
    /\ at = "region" /\ "waves" \in done => sent.matrix = Projected(kind, Source(kind))
    /\ at = "region" /\ kind = 5 /\ Silu =>
         /\ Valid("gate_for_silu") = Gate
         /\ "operands" \in done => sent.vector = Silus
         /\ "vector" \in done => Valid("up") = Silus
    /\ at = "region" /\ kind = 6 /\ HasNext =>
         /\ bank["norm_weight"][0] = NormWeight(0)
         /\ NextValid("next_source") = Inputs(req, block + 1)
         /\ "operands" \in done => sent.vector = Normed(0, Inputs(req, block + 1))
         /\ "vector" \in done =>
              NextValid("next_normalized") = Normed(0, Inputs(req, block + 1))
    /\ at = "close" /\ HasNext =>
         /\ NextValid("next_source") = Inputs(req, block + 1)
         /\ NextValid("next_normalized") = Normed(0, Inputs(req, block + 1))

(* How far the attention walk is: waves done of the tile at work. *)
Walking ==
    at = "attend" =>
        /\ att.tile \in 0..Tiles(Context) /\ att.wave \in 0..(AttentionWaves(req.decode) - 1)
        /\ att.tile = Tiles(Context) => att.wave = 0

(* The tiles every head has merged by then. *)
Merged ==
    at = "attend" =>
        att.merged = [h \in Heads |->
            TilesUpTo(att.tile + (IF WaveOfHead(req.decode, h) < att.wave THEN 1 ELSE 0))]

-----------------------------------------------------------------------------
(* The tasks of a unit. *)
One(p) == IF p THEN 1 ELSE 0
Takes(cu, rows, mode) == One(cu \in VectorCus(rows, mode, build.overlap))
Waves(cu, n) == Cardinality({w \in 0..(WaveCount(n) - 1) : cu \in ActiveCus(n, w)})
ProjectionsBefore(cu, k) ==
    Cardinality({s \in Kinds \X (0..(HiddenDim + KvDim + WideDim)) :
                    s[1] < k /\ cu \in ActiveCus(s[1], s[2])})
Assigned(decode, cu) ==
    IF cu < AttentionUnits(decode) THEN 1 + ((AttentionUnits(decode) - 1 - cu) \div Cus) ELSE 0
AttentionSoFar(cu, tile, wave) ==
    2 * (tile * Assigned(req.decode, cu) + AtMost(wave, Assigned(req.decode, cu)))

(* A unit's tasks in the first b blocks. *)
SumTo(f, r, cu, overlap) ==
    f = [b \in 0..BlockCount(r) |->
           IF b = 0 THEN 0 ELSE f[b - 1] + BlockTasksForCu(r, b - 1, cu, overlap)]
Sum(r, cu, overlap) == CHOOSE f : SumTo(f, r, cu, overlap)

MulOp == IF Silu THEN "MUL" ELSE "SILU_MUL"
Riding(cu) == IF RidingOp = Nothing THEN 0 ELSE Takes(cu, Cardinality(RidingRows), RidingOp)

(* Sent in this block when the projection of kind k is at its step. *)
StepTasks(cu, k) ==
    Takes(cu, Tokens, "RMSNORM") + ProjectionsBefore(cu, k)
      + (IF k > 3 THEN AttentionSoFar(cu, Tiles(Context), 0) ELSE 0)
      + (IF k > 4 THEN Takes(cu, Tokens, "RESIDUAL_ADD") + Takes(cu, Tokens, "RMSNORM") ELSE 0)
      + (IF k > 5 /\ Silu THEN Takes(cu, Tokens, "SILU_ONLY") ELSE 0)
(* And before the region of kind k. *)
RegionTasks(cu, k) ==
    StepTasks(cu, k)
      + (CASE k = 3 -> AttentionSoFar(cu, Tiles(Context), 0)
           [] k = 4 -> Takes(cu, Tokens, "RESIDUAL_ADD") + Takes(cu, Tokens, "RMSNORM")
           [] k = 6 -> Takes(cu, Tokens, MulOp)
           [] OTHER -> 0)

BlockSent(cu) ==
    CASE at = "open" -> IF Prepared THEN Takes(cu, Tokens, "RMSNORM") ELSE 0
      [] at = "step" -> StepTasks(cu, kind)
      [] at = "attend" -> StepTasks(cu, 3) + AttentionSoFar(cu, att.tile, att.wave)
      [] at = "region" -> RegionTasks(cu, kind)
                            + (IF "tasks" \in done THEN Riding(cu) ELSE 0)
                            + (IF "waves" \in done THEN Waves(cu, kind) ELSE 0)
      [] OTHER -> RegionTasks(cu, 6) + Waves(cu, 6)
                    + (IF HasNext THEN Takes(cu, NextTokens, "RMSNORM") ELSE 0)

Counted ==
    /\ issued = [cu \in CuSet |-> issued[cu]]
    /\ IF at \in Idle THEN issued = bound /\ \A cu \in CuSet : issued[cu] \in Nat
       ELSE /\ bound = [cu \in CuSet |-> HostTasksForCu(req, cu, build.overlap)]
            /\ \A cu \in CuSet :
                 issued[cu] = Sum(req, cu, build.overlap)[block] + BlockSent(cu)

CInv == Control /\ Overlapped /\ Walking /\ Counted
Content == Domains /\ Held /\ Moving /\ Merged
-----------------------------------------------------------------------------
(* Sizes and counts. *)

(* The sizes are positive. *)
LEMMA Sizes ==
    /\ Cus \in Nat \ {0} /\ OutputsPerCu \in Nat \ {0} /\ HiddenDim \in Nat \ {0}
    /\ KvDim \in Nat \ {0} /\ WideDim \in Nat \ {0} /\ KvHeads \in Nat \ {0}
    /\ GqaGroup \in Nat \ {0} /\ Lanes \in Nat \ {0} /\ Rows \in Nat \ {0}
    /\ PositionTile \in Nat \ {0} /\ MaxPrompt \in Nat /\ MaxSeq \in Nat
    /\ MaxPrompt < MaxSeq
BY QuantizedAssumption, PromptAssumption

(* Quotient and remainder are numbers, the remainder below the divisor. *)
LEMMA Division ==
    ASSUME NEW n \in Nat, NEW m \in Nat \ {0}
    PROVE  /\ n \div m \in Nat /\ n % m \in 0..(m - 1)
           /\ n = (n \div m) * m + (n % m)
BY SMT

(* The few facts of products used below. *)
LEMMA Product ==
    ASSUME NEW a \in Nat, NEW b \in Nat
    PROVE  /\ a * b \in Nat /\ a * b = b * a /\ 0 * a = 0 /\ 1 * a = a
           /\ (a + 1) * b = a * b + b
           /\ (b # 0 => a <= a * b)
BY SMT

(* A request, and a block of it: at most a bankful of rows, at least one, *)
(* and within the rows of the request.                                     *)
LEMMA Blocks ==
    ASSUME NEW r \in Requests, r.decode => r.tokens = 1,
           NEW b \in Nat, b < BlockCount(r)
    PROVE  /\ BlockSize(r) \in 1..Rows /\ BlockCount(r) \in Nat \ {0}
           /\ BlockBegin(r, b) \in Nat /\ BlockTokens(r, b) \in 1..Rows
           /\ BlockBegin(r, b) + BlockTokens(r, b) <= r.tokens
           /\ BlockPosition(r, b) \in Nat
           /\ BlockPosition(r, b) + BlockTokens(r, b) <= r.position + r.tokens
           /\ b + 1 = BlockCount(r) => BlockBegin(r, b) + BlockTokens(r, b) = r.tokens
<1> DEFINE size == BlockSize(r)
           begin == b * size
<1>1. /\ r.decode \in BOOLEAN /\ r.tokens \in Nat \ {0} /\ r.position \in Nat
      /\ r.blockSize \in 1..Rows
  <2>1. r.decode \in BOOLEAN /\ r.tokens \in 1..MaxPrompt /\ r.position \in 0..MaxPrompt
        /\ r.blockSize \in 1..Rows
    BY DEF Requests
  <2>2. QED BY <2>1, Sizes
<1>2. size \in 1..Rows /\ size \in Nat \ {0}
  BY <1>1, Sizes DEF BlockSize
<1>3. begin \in Nat /\ BlockBegin(r, b) = begin
  BY <1>2, Product DEF BlockBegin
<1> HIDE DEF size
<1>4. CASE r.decode
  <2>1. BlockCount(r) = 1 /\ b = 0 /\ BlockTokens(r, b) = 1 /\ r.tokens = 1
    BY <1>4 DEF BlockCount, BlockTokens
  <2>2. begin = 0
    BY <1>2, <2>1, Product
  <2>3. BlockPosition(r, b) = r.position + 0
    BY <1>4 DEF BlockPosition
  <2> HIDE DEF begin
  <2>4. QED BY <1>1, <1>2, <1>3, <2>1, <2>2, <2>3, Sizes DEF size
<1>5. CASE ~r.decode
  <2>1. BlockCount(r) = CeilDiv(r.tokens, size)
    BY <1>5 DEF BlockCount, size
  <2> DEFINE n == r.tokens
             c == BlockCount(r)
             t == BlockTokens(r, b)
             b1 == b + 1
  <2>2. n \in Nat \ {0} /\ b1 \in Nat /\ b < c
    BY <1>1
  <2>3. BlockTokens(r, b) = AtMost(n - begin, size)
    BY <1>3, <1>5 DEF BlockTokens, size
  <2>4. BlockPosition(r, b) = r.position + begin
    BY <1>3, <1>5 DEF BlockPosition
  <2> HIDE DEF c, n, b1
  <2>5. c \in Nat /\ (b < c <=> b * size < n) /\ (b1 < c <=> b1 * size < n)
    BY <1>2, <2>1, <2>2, CeilingExceeds DEF c, n
  <2>6. b1 * size = begin + size
    BY <1>2, Product DEF b1
  <2>7. begin < n /\ (b1 = c => ~(begin + size < n))
    BY <1>2, <2>2, <2>5, <2>6
  <2> HIDE DEF begin, t
  <2>8. t \in 1..size /\ begin + t <= n /\ (b1 = c => begin + t = n)
    <3>1. t = IF n - begin < size THEN n - begin ELSE size
      BY <2>3 DEF AtMost, t
    <3>2. QED BY <1>2, <1>3, <2>2, <2>7, <3>1
  <2>9. t \in 1..Rows
    BY <1>2, <2>8, Sizes
  <2>10. c \in Nat \ {0} /\ r.position + begin \in Nat
         /\ (r.position + begin) + t <= r.position + n
    BY <1>1, <1>3, <2>2, <2>5, <2>8, <2>9
  <2>11. QED BY <1>2, <1>3, <2>4, <2>8, <2>9, <2>10 DEF size, t, c, n, b1
<1>6. QED BY <1>1, <1>4, <1>5

(* A projection has no more waves than outputs. *)
LEMMA WaveBound ==
    ASSUME NEW n \in Kinds
    PROVE  WaveCount(n) \in Nat /\ WaveCount(n) <= HiddenDim + KvDim + WideDim
<1> DEFINE d == OutDim(n)
           c == CeilDiv(d, OutputsPerWave)
<1>1. d \in Nat \ {0} /\ OutputsPerWave \in Nat \ {0}
  BY Dimensions
<1>2. d <= HiddenDim + KvDim + WideDim
  BY Sizes DEF OutDim
<1> HIDE DEF d
<1>3. c \in Nat /\ (d < c <=> d * OutputsPerWave < d)
  BY <1>1, CeilingExceeds
<1>4. d <= d * OutputsPerWave /\ d * OutputsPerWave \in Nat
  BY <1>1, Product
<1>5. WaveCount(n) = c
  BY DEF WaveCount, d
<1> HIDE DEF c
<1>6. QED BY <1>1, <1>2, <1>3, <1>4, <1>5, Sizes

(* The tasks of a block's projections, one projection after the other. *)
LEMMA ProjectionsAdd ==
    ASSUME NEW cu \in CuSet, NEW k \in Kinds
    PROVE  /\ ProjectionsBefore(cu, k) \in Nat /\ Waves(cu, k) \in Nat
           /\ ProjectionsBefore(cu, k + 1) = ProjectionsBefore(cu, k) + Waves(cu, k)
<1> DEFINE Bound == HiddenDim + KvDim + WideDim
           Pairs == Kinds \X (0..Bound)
           Below(n) == {s \in Pairs : s[1] < n /\ cu \in ActiveCus(s[1], s[2])}
           Of == {s \in Pairs : s[1] = k /\ cu \in ActiveCus(s[1], s[2])}
           W == {w \in 0..(WaveCount(k) - 1) : cu \in ActiveCus(k, w)}
           f == [w \in W |-> <<k, w>>]
<1>1. Bound \in Nat /\ WaveCount(k) \in Nat /\ WaveCount(k) <= Bound
  BY Sizes, WaveBound
<1>2. IsFiniteSet(Pairs)
  <2>1. IsFiniteSet(Kinds)
    <3>1. 0 \in Int /\ 6 \in Int /\ Kinds = 0..6
      BY DEF Kinds
    <3>2. QED BY <3>1, FS_Interval
  <2>2. IsFiniteSet(0..Bound)
    BY <1>1, FS_Interval
  <2>3. QED BY <2>1, <2>2, FS_Product
<1>3. /\ IsFiniteSet(Below(k)) /\ IsFiniteSet(Of) /\ IsFiniteSet(Below(k + 1))
      /\ Cardinality(Below(k)) \in Nat
  <2>1. Below(k) \in SUBSET Pairs /\ Of \in SUBSET Pairs /\ Below(k + 1) \in SUBSET Pairs
    OBVIOUS
  <2> HIDE DEF Below, Of, Pairs
  <2>2. IsFiniteSet(Below(k)) /\ IsFiniteSet(Of) /\ IsFiniteSet(Below(k + 1))
    BY <1>2, <2>1, FS_Subset
  <2>3. QED BY <2>2, FS_CardinalityType
<1>4. Below(k + 1) = Below(k) \cup Of /\ Below(k) \cap Of = {}
  <2>1. \A s \in Pairs : s[1] \in Int
    BY DEF Kinds
  <2>2. k \in Int
    BY DEF Kinds
  <2> HIDE DEF Pairs
  <2>3. \A s \in Pairs : s[1] < k + 1 <=> s[1] < k \/ s[1] = k
    BY <2>1, <2>2
  <2>4. \A s \in Pairs : ~(s[1] < k /\ s[1] = k)
    BY <2>1, <2>2
  <2>5. QED BY <2>3, <2>4
<1>5. Cardinality(Below(k + 1)) = Cardinality(Below(k)) + Cardinality(Of)
  <2>1. Cardinality(Of) \in Nat
    BY <1>3, FS_CardinalityType
  <2>2. Cardinality(Below(k) \cup Of)
          = Cardinality(Below(k)) + Cardinality(Of) - Cardinality(Below(k) \cap Of)
    <3> HIDE DEF Below, Of
    <3> QED BY <1>3, FS_Union
  <2>3. Cardinality(Below(k) \cap Of) = 0
    BY <1>4, FS_EmptySet
  <2> DEFINE b == Cardinality(Below(k))
             o == Cardinality(Of)
             u == Cardinality(Below(k) \cup Of)
  <2>4. u = b + o - 0 /\ b \in Nat /\ o \in Nat
    BY <1>3, <2>1, <2>2, <2>3
  <2>5. u = b + o
    <3> HIDE DEF b, o, u
    <3> QED BY <2>4
  <2>6. QED BY <1>4, <2>5
<1>6. IsFiniteSet(W) /\ Cardinality(W) \in Nat
  <2>1. IsFiniteSet(0..(WaveCount(k) - 1))
    BY <1>1, FS_Interval
  <2>2. W \in SUBSET (0..(WaveCount(k) - 1))
    OBVIOUS
  <2> HIDE DEF W
  <2>3. IsFiniteSet(W)
    BY <2>1, <2>2, FS_Subset
  <2>4. QED BY <2>3, FS_CardinalityType
<1>7. Cardinality(Of) = Cardinality(W)
  <2>1. f \in [W -> Of]
    <3>1. ASSUME NEW w \in W PROVE <<k, w>> \in Of
      <4>1. w \in 0..Bound /\ cu \in ActiveCus(k, w)
        BY <1>1
      <4>2. <<k, w>> \in Pairs
        BY <4>1
      <4>3. QED BY <4>1, <4>2
    <3> HIDE DEF Of, W
    <3>2. QED BY <3>1
  <2>2. ASSUME NEW a \in W, NEW c \in W, f[a] = f[c] PROVE a = c
    BY <2>2
  <2>3. ASSUME NEW s \in Of PROVE \E w \in W : f[w] = s
    <3>1. s \in Pairs /\ s[1] = k /\ cu \in ActiveCus(k, s[2])
      OBVIOUS
    <3>2. s = <<k, s[2]>> /\ s[2] \in 0..Bound
      BY <3>1
    <3>3. s[2] < WaveCount(k)
      BY <3>1 DEF ActiveCus
    <3>4. s[2] \in W
      BY <1>1, <3>1, <3>2, <3>3
    <3>5. QED BY <3>2, <3>4
  <2> HIDE DEF f, W, Of
  <2>4. f \in Bijection(W, Of)
    BY <2>1, <2>2, <2>3 DEF Bijection, Injection, Surjection, IsInjective
  <2>5. ExistsBijection(W, Of)
    BY <2>4 DEF ExistsBijection
  <2>6. QED BY <1>6, <2>5, FS_Bijection
<1>8. /\ ProjectionsBefore(cu, k) = Cardinality(Below(k))
      /\ ProjectionsBefore(cu, k + 1) = Cardinality(Below(k + 1))
      /\ Waves(cu, k) = Cardinality(W)
  BY DEF ProjectionsBefore, Waves
<1> HIDE DEF Below, Of, W
<1>9. QED BY <1>3, <1>5, <1>6, <1>7, <1>8

(* None before the first, all before the one past the last. *)
LEMMA ProjectionsEnds ==
    ASSUME NEW cu \in CuSet
    PROVE  /\ ProjectionsBefore(cu, 0) = 0
           /\ ProjectionsBefore(cu, 7) = ProjectionTasksPerBlock(cu)
<1> DEFINE Pairs == Kinds \X (0..(HiddenDim + KvDim + WideDim))
<1>1. \A s \in Pairs : s[1] \in 0..6
  BY DEF Kinds
<1>2. {s \in Pairs : s[1] < 0 /\ cu \in ActiveCus(s[1], s[2])} = {}
  <2> HIDE DEF Pairs
  <2> QED BY <1>1
<1>3. {s \in Pairs : s[1] < 7 /\ cu \in ActiveCus(s[1], s[2])}
        = {s \in Pairs : cu \in ActiveCus(s[1], s[2])}
  <2> HIDE DEF Pairs
  <2> QED BY <1>1
<1>4. QED BY <1>2, <1>3, FS_EmptySet DEF ProjectionsBefore, ProjectionTasksPerBlock

(* The attention waves a unit works in are the first of them, as many as   *)
(* the host assigns it.                                                    *)
LEMMA WavesAssigned ==
    ASSUME NEW decode \in BOOLEAN, NEW cu \in CuSet
    PROVE  /\ AttentionUnits(decode) \in Nat \ {0} /\ AttentionWaves(decode) \in Nat \ {0}
           /\ Assigned(decode, cu) \in 0..AttentionWaves(decode)
           /\ \A wave \in Nat : cu \in UnitCus(decode, wave) <=> wave < Assigned(decode, cu)
<1> DEFINE units == AttentionUnits(decode)
           per == CeilDiv(GqaGroup, HeadsPerUnit(decode))
           waves == CeilDiv(units, Cus)
           assigned == Assigned(decode, cu)
<1>1. HeadsPerUnit(decode) \in Nat \ {0} /\ GqaGroup \in Nat \ {0} /\ KvHeads \in Nat \ {0}
      /\ Cus \in Nat \ {0} /\ cu \in Nat /\ cu < Cus
  BY Sizes DEF HeadsPerUnit, CuSet
<1>2. per \in Nat /\ (0 < per <=> 0 * HeadsPerUnit(decode) < GqaGroup)
  BY <1>1, CeilingExceeds
<1>3. per \in Nat \ {0}
  <2>1. 0 * HeadsPerUnit(decode) = 0
    BY <1>1
  <2> HIDE DEF per
  <2>2. QED BY <1>1, <1>2, <2>1
<1>4. units \in Nat \ {0}
  <2>1. units = KvHeads * per
    BY DEF AttentionUnits
  <2> HIDE DEF per, units
  <2>2. KvHeads * per \in Nat /\ KvHeads <= KvHeads * per
    BY <1>1, <1>3, Product
  <2>3. QED BY <1>1, <2>1, <2>2
<1> HIDE DEF units
<1>5. waves \in Nat /\ \A w \in Nat : w < waves <=> w * Cus < units
  BY <1>1, <1>4, CeilingExceeds
<1>6. waves \in Nat \ {0}
  <2>1. 0 < waves <=> 0 * Cus < units
    BY <1>5
  <2>2. 0 * Cus = 0
    BY <1>1
  <2> HIDE DEF waves
  <2>3. QED BY <1>4, <1>5, <2>1, <2>2
<1> HIDE DEF waves
<1>7. assigned \in Nat /\ \A w \in Nat : w * Cus + cu < units <=> w < assigned
  <2>1. CASE cu < units
    <3> DEFINE n == units - 1 - cu
               q == n \div Cus
               m == n % Cus
    <3>1. n \in Nat
      BY <1>1, <1>4, <2>1
    <3>2. q \in Nat /\ m \in 0..(Cus - 1) /\ n = q * Cus + m
      BY <1>1, <3>1, Division
    <3>3. assigned = 1 + q
      BY <2>1 DEF Assigned, units
    <3> HIDE DEF q, m, assigned
    <3>4. ASSUME NEW w \in Nat PROVE w * Cus + cu < units <=> w < assigned
      <4>1. w * Cus \in Nat /\ q * Cus \in Nat /\ (q + 1) * Cus = q * Cus + Cus
        BY <1>1, <3>2, Product
      <4>2. w <= q => w * Cus <= q * Cus
        BY <1>1, <3>2, SMT
      <4>3. q + 1 <= w => (q + 1) * Cus <= w * Cus
        BY <1>1, <3>2, SMT
      <4> DEFINE x == w * Cus
                 y == q * Cus
                 z == (q + 1) * Cus
      <4>4. /\ x \in Nat /\ y \in Nat /\ z = y + Cus
            /\ (w <= q => x <= y) /\ (q + 1 <= w => z <= x)
            /\ units - 1 - cu = y + m
        BY <3>2, <4>1, <4>2, <4>3
      <4> HIDE DEF x, y, z
      <4>5. x + cu < units <=> w < assigned
        BY <1>1, <1>4, <3>2, <3>3, <4>4
      <4>6. QED BY <4>5 DEF x
    <3>5. QED BY <3>2, <3>3, <3>4
  <2>2. CASE ~(cu < units)
    <3>1. assigned = 0
      BY <2>2 DEF Assigned, units
    <3>2. ASSUME NEW w \in Nat PROVE ~(w * Cus + cu < units)
      <4>1. w * Cus \in Nat
        BY <1>1, Product
      <4>2. QED BY <1>1, <1>4, <2>2, <4>1
    <3>3. QED BY <3>1, <3>2
  <2>3. QED BY <2>1, <2>2
<1>8. assigned <= waves
  <2>1. SUFFICES ASSUME waves < assigned PROVE FALSE
    BY <1>6, <1>7
  <2>2. waves * Cus + cu < units
    BY <1>6, <1>7, <2>1
  <2>3. waves * Cus \in Nat
    BY <1>1, <1>6, Product
  <2>4. waves * Cus < units
    BY <1>1, <1>4, <2>2, <2>3
  <2>5. QED BY <1>5, <1>6, <2>4
<1>9. AttentionWaves(decode) = waves
  BY DEF AttentionWaves, waves, units
<1>10. \A wave \in Nat : cu \in UnitCus(decode, wave) <=> wave * Cus + cu < units
  BY DEF UnitCus, units
<1> HIDE DEF assigned
<1>11. QED BY <1>4, <1>6, <1>7, <1>8, <1>9, <1>10 DEF assigned, units

(* One wave of the walk, and the walk from end to end.                     *)
LEMMA WalkCounts ==
    ASSUME req.decode \in BOOLEAN, NEW cu \in CuSet, NEW tile \in Nat,
           NEW wave \in Nat, wave < AttentionWaves(req.decode)
    PROVE  /\ AttentionSoFar(cu, tile, wave) \in Nat
           /\ AttentionSoFar(cu, 0, 0) = 0
           /\ AttentionSoFar(cu, tile, wave)
                + (IF cu \in UnitCus(req.decode, wave) THEN 1 ELSE 0)
                + (IF cu \in UnitCus(req.decode, wave) THEN 1 ELSE 0)
              = IF wave + 1 = AttentionWaves(req.decode)
                THEN AttentionSoFar(cu, tile + 1, 0)
                ELSE AttentionSoFar(cu, tile, wave + 1)
<1> DEFINE a == Assigned(req.decode, cu)
           n == AttentionWaves(req.decode)
           p == tile * a
           u == IF cu \in UnitCus(req.decode, wave) THEN 1 ELSE 0
<1>1. a \in Nat /\ a <= n /\ n \in Nat \ {0}
      /\ (cu \in UnitCus(req.decode, wave) <=> wave < a)
  BY WavesAssigned
<1>2. p \in Nat /\ (tile + 1) * a = p + a /\ 0 * a = 0
  BY <1>1, Product
<1> DEFINE S(x, y) == AttentionSoFar(cu, x, y)
<1>3. /\ S(tile, wave) = 2 * (p + AtMost(wave, a))
      /\ S(0, 0) = 2 * (0 + AtMost(0, a))
      /\ S(tile + 1, 0) = 2 * ((p + a) + AtMost(0, a))
      /\ S(tile, wave + 1) = 2 * (p + AtMost(wave + 1, a))
  BY <1>2 DEF AttentionSoFar
<1> HIDE DEF a, n, p
<1>4. AtMost(wave, a) \in Nat /\ AtMost(0, a) = 0
      /\ AtMost(wave + 1, a) = AtMost(wave, a) + u
  BY <1>1 DEF AtMost, a
<1>5. wave + 1 = n => AtMost(wave, a) + u = a
  <2>1. wave + 1 = n => AtMost(wave + 1, a) = a
    BY <1>1 DEF AtMost
  <2> HIDE DEF u
  <2>2. QED BY <1>4, <2>1
<1>6. u \in Nat
  OBVIOUS
<1> HIDE DEF u, S
<1>7. /\ S(tile, wave) \in Nat /\ S(0, 0) = 0
      /\ S(tile, wave) + u + u = IF wave + 1 = n THEN S(tile + 1, 0) ELSE S(tile, wave + 1)
  <2> DEFINE x == AtMost(wave, a)
             y == AtMost(wave + 1, a)
             z == AtMost(0, a)
  <2>1. /\ x \in Nat /\ z = 0 /\ y = x + u /\ (wave + 1 = n => x + u = a)
        /\ S(tile, wave) = 2 * (p + x) /\ S(0, 0) = 2 * (0 + z)
        /\ S(tile + 1, 0) = 2 * ((p + a) + z) /\ S(tile, wave + 1) = 2 * (p + y)
    BY <1>3, <1>4, <1>5
  <2> HIDE DEF x, y, z
  <2>2. QED BY <1>1, <1>2, <1>6, <2>1
<1>8. QED BY <1>7 DEF S, u, n

(* The host counts the whole walk. *)
LEMMA WalkAsCounted ==
    ASSUME req.decode \in BOOLEAN, NEW cu \in CuSet, NEW context \in Nat
    PROVE  /\ Tiles(context) \in Nat
           /\ AttentionTasksForCu(req.decode, cu, context)
                = AttentionSoFar(cu, Tiles(context), 0)
<1> DEFINE a == Assigned(req.decode, cu)
           n == Tiles(context)
<1>1. a \in Nat
  BY WavesAssigned
<1>2. n \in Nat
  BY Sizes, CeilingExceeds DEF Tiles
<1>3. AttentionTasksForCu(req.decode, cu, context) = 2 * a * n
  BY DEF AttentionTasksForCu, Assigned
<1>4. AttentionSoFar(cu, n, 0) = 2 * (n * a + AtMost(0, a))
  BY DEF AttentionSoFar
<1> HIDE DEF a, n
<1>5. AtMost(0, a) = 0
  BY <1>1 DEF AtMost
<1>6. 2 * a * n = 2 * (n * a + 0)
  BY <1>1, <1>2, SMT
<1>7. QED BY <1>2, <1>3, <1>4, <1>5, <1>6 DEF n

-----------------------------------------------------------------------------
(* Induction, for a set of numbers. *)
LEMMA SetInduction ==
    ASSUME NEW S, 0 \in S, \A n \in Nat : n \in S => n + 1 \in S
    PROVE  \A n \in Nat : n \in S
<1> DEFINE R == OpToRel(<, Nat)
           T == {n \in Nat : n \notin S}
<1> SUFFICES ASSUME T # {} PROVE FALSE
  OBVIOUS
<1>1. IsWellFoundedOn(R, Nat)
  BY NatLessThanWellFounded, Zenon
<1>2. PICK x \in T : \A y \in T : <<y, x>> \notin R
  <2>1. T \subseteq Nat
    OBVIOUS
  <2> HIDE DEF R, T
  <2>2. QED BY <1>1, <2>1, WFMin
<1>3. x # 0 /\ x \in Nat /\ x - 1 \in Nat
  BY SMT
<1>4. x - 1 \in T
  BY <1>3, SMT
<1>5. <<x - 1, x>> \in R
  BY <1>3, SMT DEF OpToRel
<1>6. QED BY <1>2, <1>4, <1>5

(* The host's sum over the blocks. *)
SumOf(f, g, n) == f = [b \in 0..n |-> IF b = 0 THEN 0 ELSE f[b - 1] + g[b - 1]]

(* The recursive sum exists (induction over the number of blocks). *)
LEMMA SumsExist == \A g : \A n \in Nat : \E f : SumOf(f, g, n)
<1> SUFFICES ASSUME NEW g PROVE \A n \in Nat : \E f : SumOf(f, g, n)
  OBVIOUS
<1> DEFINE S == {n \in Nat : \E f : SumOf(f, g, n)}
<1>1. 0 \in S
  <2> DEFINE f == [b \in 0..0 |-> 0]
  <2>1. \A b \in 0..0 : b = 0
    BY SMT
  <2>2. SumOf(f, g, 0)
    BY <2>1 DEF SumOf
  <2> HIDE DEF f
  <2>3. QED BY <2>2
<1>2. ASSUME NEW n \in Nat, n \in S PROVE n + 1 \in S
  <2>1. PICK f : SumOf(f, g, n)
    BY <1>2
  <2> DEFINE h == [b \in 0..(n + 1) |-> IF b = n + 1 THEN f[n] + g[n] ELSE f[b]]
  <2>2. f = [b \in 0..n |-> IF b = 0 THEN 0 ELSE f[b - 1] + g[b - 1]]
    BY <2>1 DEF SumOf
  <2>3. \A b \in 0..(n + 1) : h[b] = IF b = 0 THEN 0 ELSE h[b - 1] + g[b - 1]
    <3>0. SUFFICES ASSUME NEW b \in 0..(n + 1)
                   PROVE  h[b] = IF b = 0 THEN 0 ELSE h[b - 1] + g[b - 1]
      OBVIOUS
    <3>1. CASE b = n + 1
      <4>1. b # 0 /\ b - 1 = n /\ n \in 0..(n + 1) /\ n # n + 1
        BY <3>1, SMT
      <4>2. h[b - 1] = f[n]
        BY <4>1
      <4>3. QED BY <3>1, <4>1, <4>2
    <3>2. CASE b # n + 1
      <4>1. b \in 0..n
        BY <3>2, SMT
      <4>2. h[b] = IF b = 0 THEN 0 ELSE f[b - 1] + g[b - 1]
        BY <2>2, <3>2, <4>1
      <4>3. b # 0 => b - 1 \in 0..(n + 1) /\ b - 1 # n + 1
        BY <4>1, SMT
      <4>4. QED BY <4>2, <4>3
    <3>3. QED BY <3>1, <3>2
  <2>4. h = [b \in 0..(n + 1) |-> h[b]]
    OBVIOUS
  <2> HIDE DEF h
  <2>5. SumOf(h, g, n + 1)
    BY <2>3, <2>4 DEF SumOf
  <2>6. QED BY <2>5
<1>3. \A n \in Nat : n \in S
  <2> HIDE DEF S
  <2> QED BY <1>1, <1>2, SetInduction
<1>4. QED BY <1>3

(* It adds a block at a time. *)
LEMMA SumSteps ==
    ASSUME NEW r, NEW cu, NEW o, BlockCount(r) \in Nat
    PROVE  /\ HostTasksForCu(r, cu, o) = Sum(r, cu, o)[BlockCount(r)]
           /\ Sum(r, cu, o)[0] = 0
           /\ \A b \in 0..(BlockCount(r) - 1) :
                Sum(r, cu, o)[b + 1] = Sum(r, cu, o)[b] + BlockTasksForCu(r, b, cu, o)
<1> DEFINE n == BlockCount(r)
           g == [b \in Nat |-> BlockTasksForCu(r, b, cu, o)]
           s == Sum(r, cu, o)
<1>1. \E f : SumTo(f, r, cu, o)
  <2>1. PICK f : SumOf(f, g, n)
    BY SumsExist
  <2>2. f = [b \in 0..n |-> IF b = 0 THEN 0 ELSE f[b - 1] + g[b - 1]]
    BY <2>1 DEF SumOf
  <2>3. \A b \in 0..n : b # 0 => g[b - 1] = BlockTasksForCu(r, b - 1, cu, o)
    <3>1. ASSUME NEW b \in 0..n, b # 0 PROVE b - 1 \in Nat
      BY <3>1
    <3>2. QED BY <3>1
  <2> HIDE DEF g
  <2>4. [b \in 0..n |-> IF b = 0 THEN 0 ELSE f[b - 1] + g[b - 1]]
          = [b \in 0..n |-> IF b = 0 THEN 0 ELSE f[b - 1] + BlockTasksForCu(r, b - 1, cu, o)]
    BY <2>3
  <2>5. f = [b \in 0..n |-> IF b = 0 THEN 0 ELSE f[b - 1] + BlockTasksForCu(r, b - 1, cu, o)]
    BY <2>2, <2>4
  <2>6. SumTo(f, r, cu, o)
    BY <2>5 DEF SumTo
  <2>7. QED BY <2>6
<1>2. SumTo(s, r, cu, o)
  BY <1>1 DEF Sum
<1>3. HostTasksForCu(r, cu, o) = s[n]
  BY DEF HostTasksForCu, Sum, SumTo
<1>4. s = [b \in 0..n |-> IF b = 0 THEN 0 ELSE s[b - 1] + BlockTasksForCu(r, b - 1, cu, o)]
  BY <1>2 DEF SumTo
<1> HIDE DEF s, n
<1>5. n \in Nat
  BY DEF n
<1>6. s[0] = 0
  BY <1>4, <1>5
<1>7. ASSUME NEW b \in 0..(n - 1) PROVE s[b + 1] = s[b] + BlockTasksForCu(r, b, cu, o)
  <2>1. b + 1 \in 0..n /\ b + 1 # 0 /\ (b + 1) - 1 = b
    BY <1>5
  <2>2. s[b + 1] = IF b + 1 = 0 THEN 0
                   ELSE s[(b + 1) - 1] + BlockTasksForCu(r, (b + 1) - 1, cu, o)
    BY <1>4, <2>1
  <2>3. QED BY <2>1, <2>2
<1>8. QED BY <1>3, <1>6, <1>7 DEF s, n

(* Every block adds a number of tasks, so later sums are no smaller. *)
LEMMA SumGrows ==
    ASSUME NEW r, NEW cu, NEW o, BlockCount(r) \in Nat,
           \A b \in 0..(BlockCount(r) - 1) : BlockTasksForCu(r, b, cu, o) \in Nat
    PROVE  \A b \in 0..BlockCount(r) :
             /\ Sum(r, cu, o)[b] \in Nat
             /\ Sum(r, cu, o)[b] <= Sum(r, cu, o)[BlockCount(r)]
<1> DEFINE n == BlockCount(r)
           s == Sum(r, cu, o)
           t(b) == BlockTasksForCu(r, b, cu, o)
           P(b) == s[b] \in Nat
           A == {b \in Nat : b <= n => s[b] \in Nat}
           B == {k \in Nat : k <= n => s[n - k] <= s[n]}
<1>1. s[0] = 0 /\ \A b \in 0..(n - 1) : s[b + 1] = s[b] + t(b)
  BY SumSteps
<1>2. n \in Nat /\ \A b \in 0..(n - 1) : t(b) \in Nat
  OBVIOUS
<1> HIDE DEF n, s, t
<1>3. \A b \in Nat : b \in A
  <2>1. 0 \in A
    BY <1>1
  <2>2. ASSUME NEW b \in Nat, b \in A PROVE b + 1 \in A
    <3>1. SUFFICES ASSUME b + 1 <= n PROVE s[b + 1] \in Nat
      OBVIOUS
    <3>2. b \in 0..(n - 1) /\ b <= n
      BY <1>2, <3>1
    <3>3. s[b] \in Nat /\ t(b) \in Nat /\ s[b + 1] = s[b] + t(b)
      BY <1>1, <1>2, <2>2, <3>2
    <3>4. QED BY <3>3
  <2> HIDE DEF A
  <2>3. QED BY <2>1, <2>2, SetInduction
<1>4. \A b \in 0..n : s[b] \in Nat
  BY <1>2, <1>3
<1>5. \A k \in Nat : k \in B
  <2>1. 0 \in B
    <3>1. n - 0 = n /\ s[n] \in Nat
      BY <1>2, <1>4
    <3>2. QED BY <3>1
  <2>2. ASSUME NEW k \in Nat, k \in B PROVE k + 1 \in B
    <3>1. SUFFICES ASSUME k + 1 <= n PROVE s[n - (k + 1)] <= s[n]
      OBVIOUS
    <3> DEFINE b == n - (k + 1)
    <3>2. b \in 0..(n - 1) /\ b + 1 = n - k /\ b \in 0..n /\ n - k \in 0..n /\ k <= n
          /\ n \in 0..n
      BY <1>2, <3>1
    <3>3. s[n - k] <= s[n] /\ s[n] \in Nat /\ s[n - k] \in Nat /\ s[b] \in Nat
      BY <1>4, <2>2, <3>2
    <3>4. s[n - k] = s[b] + t(b) /\ t(b) \in Nat
      BY <1>1, <1>2, <3>2
    <3> HIDE DEF b
    <3>5. s[b] <= s[n]
      BY <3>3, <3>4
    <3>6. QED BY <3>5 DEF b
  <2> HIDE DEF B
  <2>3. QED BY <2>1, <2>2, SetInduction
<1>6. ASSUME NEW b \in 0..n PROVE s[b] <= s[n]
  <2>1. n - b \in Nat /\ n - b <= n /\ n - (n - b) = b
    BY <1>2
  <2>2. QED BY <1>5, <2>1
<1>7. QED BY <1>4, <1>6 DEF n, s

-----------------------------------------------------------------------------
(* The request at work is a request, and its block one of its blocks.      *)
LEMMA WorkFacts ==
    ASSUME Control, at \notin Idle
    PROVE  /\ req \in Requests /\ req.position = filled
           /\ req.decode \in BOOLEAN /\ (req.decode => req.tokens = 1)
           /\ req.tokens \in Nat \ {0} /\ req.position \in Nat
           /\ build.overlap \in BOOLEAN /\ build.pipeline \in BOOLEAN
           /\ (build.overlap => build.pipeline)
           /\ block \in Nat /\ block < BlockCount(req) /\ BlockCount(req) \in Nat \ {0}
           /\ Tokens \in 1..Rows /\ Position \in Nat /\ Begin \in Nat
           /\ Begin + Tokens <= req.tokens /\ Position + Tokens <= req.position + req.tokens
           /\ (block + 1 = BlockCount(req) => Begin + Tokens = req.tokens)
           /\ Context \in Nat \ {0} /\ Active = 0..(Tokens - 1)
<1>1. /\ req \in Requests /\ req.position = filled
      /\ (req.decode => req.tokens = 1)
      /\ block \in 0..(BlockCount(req) - 1)
      /\ build \in [pipeline : BOOLEAN, overlap : BOOLEAN, blockSize : 1..Rows]
      /\ (build.overlap => build.pipeline)
  BY DEF Control
<1>2. build.overlap \in BOOLEAN /\ build.pipeline \in BOOLEAN
  BY <1>1
<1>3. req.decode \in BOOLEAN /\ req.tokens \in Nat \ {0} /\ req.position \in Nat
  <2>1. req.decode \in BOOLEAN /\ req.tokens \in 1..MaxPrompt /\ req.position \in 0..MaxPrompt
    BY <1>1 DEF Requests
  <2>2. QED BY <2>1, Sizes
<1>4. BlockCount(req) \in Nat
  <2>1. req.blockSize \in 1..Rows
    BY <1>1 DEF Requests
  <2>2. BlockSize(req) \in Nat \ {0}
    BY <2>1, Sizes DEF BlockSize
  <2>3. CeilDiv(req.tokens, BlockSize(req)) \in Nat
    BY <1>3, <2>2, CeilingExceeds
  <2>4. QED BY <2>3 DEF BlockCount
<1>5. block \in Nat /\ block < BlockCount(req)
  BY <1>1, <1>4
<1>6. /\ BlockCount(req) \in Nat \ {0} /\ BlockBegin(req, block) \in Nat
      /\ BlockTokens(req, block) \in 1..Rows
      /\ BlockBegin(req, block) + BlockTokens(req, block) <= req.tokens
      /\ BlockPosition(req, block) \in Nat
      /\ BlockPosition(req, block) + BlockTokens(req, block) <= req.position + req.tokens
      /\ (block + 1 = BlockCount(req) =>
            BlockBegin(req, block) + BlockTokens(req, block) = req.tokens)
  BY <1>1, <1>5, Blocks
<1>7. Context \in Nat \ {0}
  BY <1>6, Sizes DEF Context, Position, Tokens
<1>8. QED BY <1>1, <1>2, <1>3, <1>5, <1>6, <1>7 DEF Tokens, Position, Begin, Active

(* The block a lookahead prepares. *)
LEMMA NextFacts ==
    ASSUME Control, at \notin Idle, HasNext
    PROVE  /\ NextTokens \in 1..Rows /\ ~req.decode
           /\ block + 1 \in Nat /\ block + 1 < BlockCount(req)
           /\ RidingRows \in {0..(NextTokens - 1), Active}
<1>1. block + 1 < BlockCount(req) /\ ~req.decode
  BY DEF HasNext
<1>2. req \in Requests /\ block + 1 \in Nat /\ (req.decode => req.tokens = 1)
  BY WorkFacts
<1>3. BlockTokens(req, block + 1) \in 1..Rows
  BY <1>1, <1>2, Blocks
<1>4. QED BY <1>1, <1>2, <1>3 DEF NextTokens, RidingRows

(* A unit takes one task of a vector operation or none. *)
LEMMA TakesOne ==
    ASSUME NEW cu, NEW rows, NEW mode
    PROVE  Takes(cu, rows, mode) \in {0, 1} /\ Takes(cu, rows, mode) \in Nat
BY DEF Takes, One

(* What the host counts a unit takes. *)
LEMMA TakesAsCounted ==
    ASSUME NEW cu \in CuSet, build.overlap \in BOOLEAN, NEW rows
    PROVE  /\ \A mode : (IF TaskRows(rows, cu, mode, build.overlap) # 0 THEN 1 ELSE 0)
                          = Takes(cu, rows, mode)
           /\ build.overlap => Takes(cu, rows, "MUL") = Takes(cu, rows, "SILU_MUL")
<1>1. \A mode : cu \in VectorCus(rows, mode, build.overlap)
                  <=> TaskRows(rows, cu, mode, build.overlap) # 0
  BY DEF VectorCus
<1>2. build.overlap =>
        TaskRows(rows, cu, "MUL", build.overlap) = TaskRows(rows, cu, "SILU_MUL", build.overlap)
  <2>1. Elements("MUL") = Elements("SILU_MUL")
    BY DEF Elements
  <2>2. build.overlap => SplitColumns(rows, "MUL", build.overlap)
                           = SplitColumns(rows, "SILU_MUL", build.overlap)
    BY DEF SplitColumns
  <2>3. QED BY <2>1, <2>2 DEF TaskRows
<1>3. QED BY <1>1, <1>2 DEF Takes, One

(* The host's count of a block is a number ...                             *)
LEMMA BlockCounted ==
    ASSUME Control, at \notin Idle, NEW cu \in CuSet, NEW b \in Nat, b < BlockCount(req)
    PROVE  /\ BlockTasksForCu(req, b, cu, build.overlap) \in Nat
           /\ Takes(cu, BlockTokens(req, b), "RMSNORM")
                <= BlockTasksForCu(req, b, cu, build.overlap)
<1> DEFINE ov == build.overlap
           T == BlockTokens(req, b)
           c == BlockPosition(req, b) + T
           p == ProjectionTasksPerBlock(cu)
           a == AttentionTasksForCu(req.decode, cu, c)
           n == Takes(cu, T, "RMSNORM")
           v == VectorTasksPerBlock(T, cu, ov)
           s == SiluTask(req, b, cu, ov)
<1>1. p \in Nat
  <2>1. ProjectionsBefore(cu, 6 + 1) = ProjectionsBefore(cu, 6) + Waves(cu, 6)
        /\ ProjectionsBefore(cu, 6) \in Nat /\ Waves(cu, 6) \in Nat
    BY ProjectionsAdd DEF Kinds
  <2>2. 6 + 1 = 7
    OBVIOUS
  <2>3. QED BY <2>1, <2>2, ProjectionsEnds
<1>2. a \in Nat
  <2>1. req.decode \in BOOLEAN /\ c \in Nat
    <3>1. req \in Requests /\ (req.decode => req.tokens = 1) /\ req.decode \in BOOLEAN
      BY WorkFacts
    <3>2. T \in 1..Rows /\ BlockPosition(req, b) \in Nat
      BY <3>1, Blocks
    <3>3. QED BY <3>1, <3>2, Sizes
  <2> HIDE DEF c
  <2>2. a = AttentionSoFar(cu, Tiles(c), 0) /\ Tiles(c) \in Nat
    BY <2>1, WalkAsCounted
  <2>3. AttentionWaves(req.decode) \in Nat \ {0}
    BY <2>1, WavesAssigned
  <2>4. AttentionSoFar(cu, Tiles(c), 0) \in Nat
    BY <2>1, <2>2, <2>3, WalkCounts
  <2>5. QED BY <2>2, <2>4
<1>3. s \in Nat
  BY DEF SiluTask
<1>4. build.overlap \in BOOLEAN
  BY WorkFacts
<1>5. v = 2 * n + 2 * Takes(cu, T, "RESIDUAL_ADD") + Takes(cu, T, "SILU_MUL")
  BY <1>4, TakesAsCounted DEF VectorTasksPerBlock
<1>6. n \in Nat /\ Takes(cu, T, "RESIDUAL_ADD") \in Nat /\ Takes(cu, T, "SILU_MUL") \in Nat
  BY TakesOne
<1>7. BlockTasksForCu(req, b, cu, build.overlap) = p + a + v + s
  BY DEF BlockTasksForCu
<1> HIDE DEF p, a, v, s, n
<1>8. QED BY <1>1, <1>2, <1>3, <1>5, <1>6, <1>7 DEF n

(* ... and is made up as the controller's schedule is. *)
LEMMA BlockTotal ==
    ASSUME Control, at \notin Idle, NEW cu \in CuSet
    PROVE  BlockTasksForCu(req, block, cu, build.overlap)
             = ProjectionsBefore(cu, 7) + AttentionSoFar(cu, Tiles(Context), 0)
                 + 2 * Takes(cu, Tokens, "RMSNORM") + 2 * Takes(cu, Tokens, "RESIDUAL_ADD")
                 + Takes(cu, Tokens, MulOp)
                 + (IF Silu THEN Takes(cu, Tokens, "SILU_ONLY") ELSE 0)
<1>1. /\ build.overlap \in BOOLEAN /\ req.decode \in BOOLEAN /\ Context \in Nat
      /\ Context = BlockPosition(req, block) + BlockTokens(req, block)
      /\ Tokens = BlockTokens(req, block)
  BY WorkFacts DEF Context, Position, Tokens
<1>2. AttentionTasksForCu(req.decode, cu, Context) = AttentionSoFar(cu, Tiles(Context), 0)
  BY <1>1, WalkAsCounted
<1>3. VectorTasksPerBlock(Tokens, cu, build.overlap)
        = 2 * Takes(cu, Tokens, "RMSNORM") + 2 * Takes(cu, Tokens, "RESIDUAL_ADD")
            + Takes(cu, Tokens, "SILU_MUL")
  BY <1>1, TakesAsCounted DEF VectorTasksPerBlock
<1>4. Takes(cu, Tokens, MulOp) = Takes(cu, Tokens, "SILU_MUL")
  BY <1>1, TakesAsCounted DEF MulOp, Silu
<1>5. SiluTask(req, block, cu, build.overlap)
        = IF Silu THEN Takes(cu, Tokens, "SILU_ONLY") ELSE 0
  BY <1>1, TakesAsCounted DEF SiluTask, Silu
<1>6. ProjectionTasksPerBlock(cu) = ProjectionsBefore(cu, 7)
  BY ProjectionsEnds
<1> DEFINE p == ProjectionsBefore(cu, 7)
           a == AttentionSoFar(cu, Tiles(Context), 0)
           n == Takes(cu, Tokens, "RMSNORM")
           d == Takes(cu, Tokens, "RESIDUAL_ADD")
           m == Takes(cu, Tokens, MulOp)
           u == IF Silu THEN Takes(cu, Tokens, "SILU_ONLY") ELSE 0
<1>7. BlockTasksForCu(req, block, cu, build.overlap) = p + a + (2 * n + 2 * d + m) + u
  BY <1>1, <1>2, <1>3, <1>4, <1>5, <1>6 DEF BlockTasksForCu
<1>8. p \in Nat /\ a \in Nat /\ n \in Nat /\ d \in Nat /\ m \in Nat /\ u \in Nat
  <2>1. p \in Nat
    <3>1. ProjectionsBefore(cu, 6 + 1) = ProjectionsBefore(cu, 6) + Waves(cu, 6)
          /\ ProjectionsBefore(cu, 6) \in Nat /\ Waves(cu, 6) \in Nat
      BY ProjectionsAdd DEF Kinds
    <3>2. 6 + 1 = 7
      OBVIOUS
    <3>3. QED BY <3>1, <3>2
  <2>2. a \in Nat
    <3>1. AttentionWaves(req.decode) \in Nat \ {0}
      BY <1>1, WavesAssigned
    <3>2. Tiles(Context) \in Nat
      BY <1>1, WalkAsCounted
    <3>3. QED BY <1>1, <3>1, <3>2, WalkCounts
  <2>3. QED BY <2>1, <2>2, TakesOne
<1> HIDE DEF p, a, n, d, m, u
<1>9. p + a + (2 * n + 2 * d + m) + u = p + a + 2 * n + 2 * d + m + u
  BY <1>8
<1>10. QED BY <1>7, <1>9 DEF p, a, n, d, m, u

-----------------------------------------------------------------------------
(* Where the controller can be. *)

(* A step within a request. *)
LEMMA ControlStep ==
    ASSUME Control, at \notin Idle, UNCHANGED <<build, req, block, filled>>,
           at' \in Places, at' \notin Idle, kind' \in Kinds,
           at' \in {"open", "close"} => kind' = 0, at' = "attend" => kind' = 3
    PROVE  Control'
BY DEF Control, Idle

(* The places are different. *)
LEMMA PlacesApart ==
    /\ \A p \in {"open", "step", "attend", "region", "close"} : p \in Places /\ p \notin Idle
    /\ Idle \subseteq Places
BY DEF Places, Idle

(* A request of the host is served from its first block. *)
LEMMA Starts ==
    ASSUME Control, at \in Idle, NEW r \in Requests, r.position = filled,
           IF r.decode THEN r.tokens = 1 ELSE r.position = 0,
           req' = r, block' = 0, at' = "open", kind' = kind, filled' = filled, build' = build
    PROVE  Control'
<1>1. kind = 0
  BY DEF Control
<1>2. r.tokens \in Nat \ {0} /\ r.blockSize \in 1..Rows
  <2>1. r.tokens \in 1..MaxPrompt /\ r.blockSize \in 1..Rows
    BY DEF Requests
  <2>2. QED BY <2>1, Sizes
<1>3. BlockSize(r) \in Nat \ {0}
  BY <1>2, Sizes DEF BlockSize
<1>4. CeilDiv(r.tokens, BlockSize(r)) \in Nat \ {0}
  <2> DEFINE c == CeilDiv(r.tokens, BlockSize(r))
  <2>1. c \in Nat /\ (0 < c <=> 0 * BlockSize(r) < r.tokens)
    BY <1>2, <1>3, CeilingExceeds
  <2>2. 0 * BlockSize(r) = 0
    BY <1>3
  <2> HIDE DEF c
  <2>3. c \in Nat \ {0}
    BY <1>2, <2>1, <2>2
  <2>4. QED BY <2>3 DEF c
<1>5. 0 \in 0..(BlockCount(r) - 1)
  <2>1. BlockCount(r) \in Nat \ {0}
    BY <1>4 DEF BlockCount
  <2>2. QED BY <2>1
<1>6. QED BY <1>1, <1>5, PlacesApart DEF Control, Idle, Kinds

(* Prefill starts from an empty cache, decode behind the prompt. *)
LEMMA PrefillStarts ==
    ASSUME Control, NEW n \in 1..MaxPrompt, RunPrefill(n)
    PROVE  Control'
<1> DEFINE r == Request(FALSE, n, 0, build.blockSize)
<1>1. at = "start" /\ at \in Idle /\ filled = 0 /\ build.blockSize \in 1..Rows
  BY DEF RunPrefill, Control, Idle
<1>2. r \in Requests
  <2>1. 0 \in 0..MaxPrompt
    BY Sizes
  <2>2. QED BY <1>1, <2>1 DEF Request, Requests
<1>3. r.position = 0 /\ ~r.decode
  BY DEF Request
<1>4. req' = r /\ block' = 0 /\ at' = "open" /\ kind' = kind /\ filled' = filled /\ build' = build
  BY DEF RunPrefill, RunRequest
<1> HIDE DEF r
<1>5. QED BY <1>1, <1>2, <1>3, <1>4, Starts

(* Decode starts behind what the prefill left in the cache. *)
LEMMA DecodeStarts ==
    ASSUME Control, RunDecode
    PROVE  Control'
<1> DEFINE r == Request(TRUE, 1, filled, build.blockSize)
<1>1. at = "prefilled" /\ at \in Idle /\ filled \in 1..MaxPrompt /\ build.blockSize \in 1..Rows
  BY DEF RunDecode, Control, Idle
<1>2. r \in Requests
  <2>1. filled \in 0..MaxPrompt /\ 1 \in 1..MaxPrompt
    BY <1>1, Sizes
  <2>2. QED BY <1>1, <2>1 DEF Request, Requests
<1>3. r.position = filled /\ r.decode /\ r.tokens = 1
  BY DEF Request
<1>4. req' = r /\ block' = 0 /\ at' = "open" /\ kind' = kind /\ filled' = filled /\ build' = build
  BY DEF RunDecode, RunRequest
<1> HIDE DEF r
<1>5. QED BY <1>1, <1>2, <1>3, <1>4, Starts

(* A request ends with its last block. *)
LEMMA BlockCloses ==
    ASSUME Control, CloseBlock
    PROVE  Control'
<1>1. at = "close" /\ at \notin Idle /\ kind = 0
  BY PlacesApart DEF CloseBlock, Control
<1>2. /\ req \in Requests /\ req.position = filled /\ req.tokens \in Nat \ {0}
      /\ req.decode \in BOOLEAN /\ req.position \in Nat
      /\ block \in Nat /\ block < BlockCount(req) /\ BlockCount(req) \in Nat \ {0}
  BY <1>1, WorkFacts
<1>3. /\ at' = IF block + 1 # BlockCount(req) THEN "open"
               ELSE IF req.decode THEN "finished" ELSE "prefilled"
      /\ block' = IF block + 1 = BlockCount(req) THEN 0 ELSE block + 1
      /\ req' = IF block + 1 = BlockCount(req) THEN Nothing ELSE req
      /\ filled' = IF block + 1 = BlockCount(req) THEN req.position + req.tokens ELSE filled
      /\ kind' = kind /\ build' = build
  BY DEF CloseBlock
<1>4. CASE block + 1 # BlockCount(req)
  <2>1. block' \in 0..(BlockCount(req) - 1)
    BY <1>2, <1>3, <1>4
  <2>2. at' = "open" /\ req' = req /\ filled' = filled /\ kind' = 0 /\ build' = build
    BY <1>1, <1>3, <1>4
  <2>3. QED BY <1>1, <2>1, <2>2, PlacesApart DEF Control, Idle
<1>5. CASE block + 1 = BlockCount(req)
  <2>1. filled' \in Nat /\ (~req.decode => filled' \in 1..MaxPrompt)
    <3>1. req.tokens \in 1..MaxPrompt
      BY <1>2 DEF Requests
    <3>2. ~req.decode => req.position = 0
      BY <1>1 DEF Control
    <3>3. QED BY <1>2, <1>3, <1>5, <3>1, <3>2, Sizes
  <2>2. at' \in {"finished", "prefilled"} /\ (at' = "prefilled" => ~req.decode)
        /\ req' = Nothing /\ block' = 0 /\ kind' = 0 /\ build' = build
    BY <1>1, <1>3, <1>5
  <2>3. QED BY <1>1, <2>1, <2>2, PlacesApart DEF Control, Idle
<1>6. QED BY <1>4, <1>5

(* The controller's steps between and in the projections. *)
LEMMA ControlStays ==
    ASSUME Control, Next, ~(\E n \in 1..MaxPrompt : RunPrefill(n)), ~RunDecode, ~CloseBlock
    PROVE  /\ Control' /\ at \notin Idle /\ at' \notin Idle
           /\ build' = build /\ req' = req /\ block' = block /\ bound' = bound
<1> USE PlacesApart
<1>1. CASE LoadBlock
  <2>1. /\ at = "open" /\ at' = "step" /\ kind' = 0
        /\ UNCHANGED <<build, req, block, filled, bound>>
    BY <1>1 DEF LoadBlock, Opened
  <2>2. QED BY <2>1, ControlStep DEF Kinds
<1>2. CASE AdoptPrepared
  <2>1. /\ at = "open" /\ at' = "step" /\ kind' = 0
        /\ UNCHANGED <<build, req, block, filled, bound>>
    BY <1>2 DEF AdoptPrepared, Opened
  <2>2. QED BY <2>1, ControlStep DEF Kinds
<1>3. CASE GoOn \/ FinishAttention \/ NormalizeFfn \/ Multiply
  <2>1. /\ at \in {"step", "attend"} /\ at' = "region" /\ kind' = kind
        /\ UNCHANGED <<build, req, block, filled, bound>>
    BY <1>3 DEF GoOn, FinishAttention, NormalizeFfn, Multiply, ToRegion
  <2>2. kind \in Kinds
    BY DEF Control
  <2>3. QED BY <2>1, <2>2, ControlStep
<1>4. CASE AppendToCache
  <2>1. /\ at = "step" /\ at' = "attend" /\ kind' = 3
        /\ UNCHANGED <<build, req, block, filled, bound>>
    BY <1>4 DEF AppendToCache
  <2>2. QED BY <2>1, ControlStep DEF Kinds
<1>5. CASE AttendWave
  <2>1. /\ at = "attend" /\ at' = "attend" /\ kind' = kind
        /\ UNCHANGED <<build, req, block, filled, bound>>
    BY <1>5 DEF AttendWave
  <2>2. kind \in Kinds /\ kind = 3
    BY <2>1 DEF Control
  <2>3. QED BY <2>1, <2>2, ControlStep
<1>6. CASE IssueRidingTasks \/ DriveWaves \/ EmitRidingOperands \/ CollectRiding
  <2>1. /\ at = "region" /\ at' = at /\ kind' = kind
        /\ UNCHANGED <<build, req, block, filled, bound>>
    BY <1>6 DEF IssueRidingTasks, DriveWaves, EmitRidingOperands, CollectRiding,
                RegionStep, InRegion
  <2>2. kind \in Kinds
    BY DEF Control
  <2>3. QED BY <2>1, <2>2, ControlStep
<1>7. CASE CommitAndCopy
  <2>1. /\ at = "region" /\ at' = (IF kind = 6 THEN "close" ELSE "step")
        /\ kind' = (IF kind = 6 THEN 0 ELSE kind + 1)
        /\ UNCHANGED <<build, req, block, filled, bound>>
    BY <1>7 DEF CommitAndCopy, RegionStep, InRegion
  <2>2. kind \in Kinds
    BY DEF Control
  <2>3. kind' \in Kinds
    BY <2>1, <2>2 DEF Kinds
  <2>4. QED BY <2>1, <2>3, ControlStep
<1>8. QED BY <1>1, <1>2, <1>3, <1>4, <1>5, <1>6, <1>7 DEF Next, Region

(* Where the controller is stays described. *)
LEMMA ControlKept ==
    ASSUME Control, Next PROVE Control'
BY ControlStays, PrefillStarts, DecodeStarts, BlockCloses

(* Within a block its sizes and its tasks do not change. *)
LEMMA SameBlock ==
    ASSUME UNCHANGED <<build, req, block>>
    PROVE  /\ Tokens' = Tokens /\ Position' = Position /\ Context' = Context
           /\ Active' = Active /\ HasNext' = HasNext /\ Silu' = Silu /\ MulOp' = MulOp
           /\ Prepared' = Prepared /\ NextTokens' = NextTokens
           /\ \A cu, rows, mode : Takes(cu, rows, mode)' = Takes(cu, rows, mode)
           /\ \A cu, tile, wave : AttentionSoFar(cu, tile, wave)' = AttentionSoFar(cu, tile, wave)
           /\ \A cu, k : StepTasks(cu, k)' = StepTasks(cu, k)
           /\ \A cu, k : RegionTasks(cu, k)' = RegionTasks(cu, k)
<1>1. /\ Tokens' = Tokens /\ Position' = Position /\ HasNext' = HasNext /\ Silu' = Silu
      /\ Prepared' = Prepared /\ NextTokens' = NextTokens
  BY DEF Tokens, Position, HasNext, Silu, Prepared, NextTokens
<1>2. Context' = Context /\ Active' = Active /\ MulOp' = MulOp
  BY <1>1 DEF Context, Active, MulOp
<1>3. \A cu, rows, mode : Takes(cu, rows, mode)' = Takes(cu, rows, mode)
  BY DEF Takes
<1>4. \A cu, tile, wave : AttentionSoFar(cu, tile, wave)' = AttentionSoFar(cu, tile, wave)
  BY DEF AttentionSoFar
<1>5. \A cu, k : StepTasks(cu, k)' = StepTasks(cu, k)
  BY <1>1, <1>2, <1>3, <1>4 DEF StepTasks
<1>6. \A cu, k : RegionTasks(cu, k)' = RegionTasks(cu, k)
  BY <1>1, <1>2, <1>3, <1>4, <1>5 DEF RegionTasks
<1>7. QED BY <1>1, <1>2, <1>3, <1>4, <1>5, <1>6

(* The exchange that rides in a region does not change in it. *)
LEMMA SameRiding ==
    ASSUME UNCHANGED <<build, req, block, kind>>
    PROVE  /\ RidingOp' = RidingOp /\ RidingRows' = RidingRows
           /\ \A cu : Riding(cu)' = Riding(cu)
<1>1. /\ HasNext' = HasNext /\ Silu' = Silu /\ NextTokens' = NextTokens /\ Active' = Active
      /\ \A cu, rows, mode : Takes(cu, rows, mode)' = Takes(cu, rows, mode)
  BY SameBlock
<1>2. RidingOp' = RidingOp
  BY <1>1 DEF RidingOp
<1>3. RidingRows' = RidingRows
  BY <1>1, <1>2 DEF RidingRows
<1>4. \A cu : Riding(cu)' = Riding(cu)
  BY <1>1, <1>2, <1>3 DEF Riding
<1>5. QED BY <1>2, <1>3, <1>4

(* The processes of a region finish in the order their results need. *)
LEMMA OverlapKept ==
    ASSUME Control, Overlapped, Next
    PROVE  Overlapped'
<1>1. CASE at' # "region"
  BY <1>1 DEF Overlapped
<1>2. CASE done' = {}
  BY <1>2 DEF Overlapped
<1>3. CASE IssueRidingTasks \/ DriveWaves \/ EmitRidingOperands \/ CollectRiding
  <2>1. UNCHANGED <<build, req, block, kind, at>> /\ at = "region"
    BY <1>3 DEF IssueRidingTasks, DriveWaves, EmitRidingOperands, CollectRiding,
                RegionStep, InRegion
  <2>2. RidingOp' = RidingOp
    BY <2>1, SameRiding
  <2>3. /\ done \subseteq {"tasks", "waves", "operands", "vector"}
        /\ done \cap {"tasks", "operands", "vector"} # {} => RidingOp # Nothing
        /\ "vector" \in done => {"tasks", "operands"} \subseteq done
        /\ RidingOp # Nothing /\ "waves" \in done => "tasks" \in done
    BY <2>1 DEF Overlapped
  <2>4. CASE IssueRidingTasks
    <3>1. done' = done \cup {"tasks"} /\ RidingOp # Nothing
      BY <2>4 DEF IssueRidingTasks, RegionStep
    <3>2. QED BY <2>2, <2>3, <3>1 DEF Overlapped
  <2>5. CASE DriveWaves
    <3>1. done' = done \cup {"waves"} /\ (RidingOp # Nothing => "tasks" \in done)
      BY <2>5 DEF DriveWaves, RegionStep
    <3>2. QED BY <2>2, <2>3, <3>1 DEF Overlapped
  <2>6. CASE EmitRidingOperands
    <3>1. done' = done \cup {"operands"} /\ RidingOp # Nothing
      BY <2>6 DEF EmitRidingOperands, RegionStep
    <3>2. QED BY <2>2, <2>3, <3>1 DEF Overlapped
  <2>7. CASE CollectRiding
    <3>1. done' = done \cup {"vector"} /\ {"tasks", "operands"} \subseteq done
      BY <2>7 DEF CollectRiding, RegionStep
    <3>2. QED BY <2>2, <2>3, <3>1 DEF Overlapped
  <2>8. QED BY <1>3, <2>4, <2>5, <2>6, <2>7
<1>4. CASE CommitAndCopy
  <2>1. at' # "region"
    BY <1>4 DEF CommitAndCopy
  <2>2. QED BY <2>1 DEF Overlapped
<1>5. CASE GoOn \/ FinishAttention \/ NormalizeFfn \/ Multiply
  <2>1. done' = {}
    BY <1>5 DEF GoOn, FinishAttention, NormalizeFfn, Multiply, ToRegion
  <2>2. QED BY <2>1, <1>2
<1>6. CASE RunDecode \/ (\E n \in 1..MaxPrompt : RunPrefill(n)) \/ LoadBlock \/ AdoptPrepared
             \/ AppendToCache \/ AttendWave \/ CloseBlock
  <2>1. at' # "region"
    BY <1>6 DEF RunDecode, RunPrefill, RunRequest, LoadBlock, AdoptPrepared, Opened,
                AppendToCache, AttendWave, CloseBlock
  <2>2. QED BY <2>1, <1>1
<1>7. QED BY <1>3, <1>4, <1>5, <1>6 DEF Next, Region

(* The walk over tiles and waves stays within them. *)
LEMMA WalkKept ==
    ASSUME Control, Walking, Next
    PROVE  Walking'
<1>1. CASE at' # "attend"
  BY <1>1 DEF Walking
<1>2. CASE AppendToCache
  <2>1. UNCHANGED <<build, req, block>> /\ at = "step" /\ att'.tile = 0 /\ att'.wave = 0
    BY <1>2 DEF AppendToCache
  <2>2. Context \in Nat /\ req.decode \in BOOLEAN
    BY <2>1, PlacesApart, WorkFacts
  <2>3. Tiles(Context) \in Nat
    BY <2>2, Sizes, CeilingExceeds DEF Tiles
  <2>4. AttentionWaves(req.decode) \in Nat \ {0}
    <3>1. 0 \in CuSet
      BY Sizes DEF CuSet
    <3>2. QED BY <2>2, <3>1, WavesAssigned
  <2>5. Context' = Context
    BY <2>1, SameBlock
  <2>6. 0 \in 0..Tiles(Context) /\ 0 \in 0..(AttentionWaves(req.decode) - 1)
    BY <2>3, <2>4
  <2>7. QED BY <2>1, <2>5, <2>6 DEF Walking
<1>3. CASE AttendWave
  <2>1. /\ UNCHANGED <<build, req, block>> /\ at = "attend" /\ att.tile < Tiles(Context)
        /\ att'.tile = IF att.wave + 1 = AttentionWaves(req.decode)
                       THEN att.tile + 1 ELSE att.tile
        /\ att'.wave = IF att.wave + 1 = AttentionWaves(req.decode) THEN 0 ELSE att.wave + 1
    BY <1>3 DEF AttendWave
  <2>2. Context \in Nat /\ req.decode \in BOOLEAN
    BY <2>1, PlacesApart, WorkFacts
  <2>3. Tiles(Context) \in Nat
    BY <2>2, Sizes, CeilingExceeds DEF Tiles
  <2>4. AttentionWaves(req.decode) \in Nat \ {0}
    <3>1. 0 \in CuSet
      BY Sizes DEF CuSet
    <3>2. QED BY <2>2, <3>1, WavesAssigned
  <2>5. Context' = Context
    BY <2>1, SameBlock
  <2>6. att.tile \in 0..Tiles(Context) /\ att.wave \in 0..(AttentionWaves(req.decode) - 1)
    BY <2>1 DEF Walking
  <2> DEFINE n == Tiles(Context)
             m == AttentionWaves(req.decode)
  <2>7. /\ att'.tile \in 0..n /\ att'.wave \in 0..(m - 1)
        /\ att'.tile = n => att'.wave = 0
    <3>1. n \in Nat /\ m \in Nat \ {0} /\ att.tile \in 0..n /\ att.wave \in 0..(m - 1)
          /\ att.tile < n
          /\ att'.tile = (IF att.wave + 1 = m THEN att.tile + 1 ELSE att.tile)
          /\ att'.wave = IF att.wave + 1 = m THEN 0 ELSE att.wave + 1
      BY <2>1, <2>3, <2>4, <2>6
    <3> HIDE DEF n, m
    <3>2. QED BY <3>1
  <2>8. QED BY <2>1, <2>5, <2>7 DEF Walking
<1>4. CASE ~AppendToCache /\ ~AttendWave
  <2>1. at' # "attend"
    BY <1>4 DEF Next, Region, RunDecode, RunPrefill, RunRequest, LoadBlock, AdoptPrepared,
                Opened, GoOn, FinishAttention, NormalizeFfn, Multiply, ToRegion,
                IssueRidingTasks, DriveWaves, EmitRidingOperands, CollectRiding,
                CommitAndCopy, RegionStep, InRegion, CloseBlock
  <2>2. QED BY <2>1, <1>1
<1>5. QED BY <1>2, <1>3, <1>4

-----------------------------------------------------------------------------
(* What has been sent, step by step. *)

(* Every part of the count is a number. *)
LEMMA SentFacts ==
    ASSUME Control, Walking, at \notin Idle, NEW cu \in CuSet
    PROVE  /\ \A k \in Kinds : /\ StepTasks(cu, k) \in Nat /\ RegionTasks(cu, k) \in Nat
                               /\ Waves(cu, k) \in Nat /\ ProjectionsBefore(cu, k) \in Nat
           /\ AttentionSoFar(cu, Tiles(Context), 0) \in Nat
           /\ Riding(cu) \in Nat
           /\ Sum(req, cu, build.overlap)[block] \in Nat
           /\ BlockSent(cu) \in Nat
<1>1. Context \in Nat /\ req.decode \in BOOLEAN /\ AttentionWaves(req.decode) \in Nat \ {0}
  BY WorkFacts, WavesAssigned
<1>2. Tiles(Context) \in Nat /\ AttentionSoFar(cu, Tiles(Context), 0) \in Nat
  BY <1>1, WalkAsCounted, WalkCounts
<1>3. \A rows, mode : Takes(cu, rows, mode) \in Nat
  BY TakesOne
<1>4. \A k \in Kinds : Waves(cu, k) \in Nat /\ ProjectionsBefore(cu, k) \in Nat
  BY ProjectionsAdd
<1>5. \A k \in Kinds : StepTasks(cu, k) \in Nat
  <2>1. SUFFICES ASSUME NEW k \in Kinds PROVE StepTasks(cu, k) \in Nat
    OBVIOUS
  <2> DEFINE a == Takes(cu, Tokens, "RMSNORM")
             b == IF k > 3 THEN AttentionSoFar(cu, Tiles(Context), 0) ELSE 0
             c == IF k > 4 THEN Takes(cu, Tokens, "RESIDUAL_ADD") + Takes(cu, Tokens, "RMSNORM")
                  ELSE 0
             d == IF k > 5 /\ Silu THEN Takes(cu, Tokens, "SILU_ONLY") ELSE 0
  <2>2. a \in Nat /\ b \in Nat /\ c \in Nat /\ d \in Nat
    <3>1. Takes(cu, Tokens, "RESIDUAL_ADD") + Takes(cu, Tokens, "RMSNORM") \in Nat
      BY <1>3
    <3>2. QED BY <1>2, <1>3, <3>1
  <2>3. StepTasks(cu, k) = a + ProjectionsBefore(cu, k) + b + c + d
    BY DEF StepTasks
  <2> HIDE DEF a, b, c, d
  <2>4. QED BY <1>4, <2>2, <2>3
<1>6. \A k \in Kinds : RegionTasks(cu, k) \in Nat
  <2>1. SUFFICES ASSUME NEW k \in Kinds PROVE RegionTasks(cu, k) \in Nat
    OBVIOUS
  <2> DEFINE e == CASE k = 3 -> AttentionSoFar(cu, Tiles(Context), 0)
                    [] k = 4 -> Takes(cu, Tokens, "RESIDUAL_ADD") + Takes(cu, Tokens, "RMSNORM")
                    [] k = 6 -> Takes(cu, Tokens, MulOp)
                    [] OTHER -> 0
  <2>2. e \in Nat
    <3>1. Takes(cu, Tokens, "RESIDUAL_ADD") + Takes(cu, Tokens, "RMSNORM") \in Nat
          /\ Takes(cu, Tokens, MulOp) \in Nat
      BY <1>3
    <3>2. QED BY <1>2, <3>1
  <2>3. RegionTasks(cu, k) = StepTasks(cu, k) + e
    BY DEF RegionTasks
  <2> HIDE DEF e
  <2>4. QED BY <1>5, <2>2, <2>3
<1>7. Riding(cu) \in Nat
  BY <1>3 DEF Riding
<1>8. Sum(req, cu, build.overlap)[block] \in Nat
  <2>1. BlockCount(req) \in Nat /\ block \in 0..BlockCount(req)
    BY WorkFacts
  <2>2. \A b \in 0..(BlockCount(req) - 1) : BlockTasksForCu(req, b, cu, build.overlap) \in Nat
    <3>1. SUFFICES ASSUME NEW b \in 0..(BlockCount(req) - 1)
                   PROVE  BlockTasksForCu(req, b, cu, build.overlap) \in Nat
      OBVIOUS
    <3>2. b \in Nat /\ b < BlockCount(req)
      BY <2>1
    <3>3. QED BY <3>2, BlockCounted
  <2>3. QED BY <2>1, <2>2, SumGrows
<1>9. BlockSent(cu) \in Nat
  <2>1. kind \in Kinds /\ 3 \in Kinds /\ 6 \in Kinds
    BY DEF Control, Kinds
  <2>2. at = "attend" => AttentionSoFar(cu, att.tile, att.wave) \in Nat
    <3>1. at = "attend" => att.tile \in Nat /\ att.wave \in Nat
                             /\ att.wave < AttentionWaves(req.decode)
      BY <1>1, <1>2 DEF Walking
    <3>2. QED BY <1>1, <3>1, WalkCounts
  <2> DEFINE a == Takes(cu, Tokens, "RMSNORM")
             b == AttentionSoFar(cu, att.tile, att.wave)
             c == Riding(cu)
             e == Waves(cu, kind)
             f == RegionTasks(cu, kind)
             g == RegionTasks(cu, 6) + Waves(cu, 6)
             h == Takes(cu, NextTokens, "RMSNORM")
             s == StepTasks(cu, kind)
             u == StepTasks(cu, 3)
  <2>3. /\ a \in Nat /\ c \in Nat /\ e \in Nat /\ f \in Nat /\ h \in Nat /\ s \in Nat
        /\ u \in Nat /\ g \in Nat /\ (at = "attend" => b \in Nat)
    BY <1>3, <1>4, <1>5, <1>6, <1>7, <2>1, <2>2
  <2>4. BlockSent(cu) =
          CASE at = "open" -> IF Prepared THEN a ELSE 0
            [] at = "step" -> s
            [] at = "attend" -> u + b
            [] at = "region" -> f + (IF "tasks" \in done THEN c ELSE 0)
                                  + (IF "waves" \in done THEN e ELSE 0)
            [] OTHER -> g + (IF HasNext THEN h ELSE 0)
    BY DEF BlockSent
  <2> HIDE DEF a, b, c, e, f, g, h, s, u
  <2>5. QED BY <2>3, <2>4
<1>10. QED BY <1>2, <1>4, <1>5, <1>6, <1>7, <1>8, <1>9

(* A step of the block keeps the count when it sends what it adds to it. *)
LEMMA CountStep ==
    ASSUME Control, Walking, at \notin Idle, at' \notin Idle, Counted,
           UNCHANGED <<build, req, block, bound>>,
           NEW n, issued' = [cu \in CuSet |-> issued[cu] + n[cu]],
           \A cu \in CuSet : n[cu] \in Nat /\ BlockSent(cu)' = BlockSent(cu) + n[cu]
    PROVE  Counted'
<1>1. /\ bound = [cu \in CuSet |-> HostTasksForCu(req, cu, build.overlap)]
      /\ \A cu \in CuSet : issued[cu] = Sum(req, cu, build.overlap)[block] + BlockSent(cu)
  BY DEF Counted
<1>2. \A cu \in CuSet : issued'[cu] = Sum(req, cu, build.overlap)[block] + BlockSent(cu)'
  <2>1. SUFFICES ASSUME NEW cu \in CuSet
                 PROVE  issued'[cu] = Sum(req, cu, build.overlap)[block] + BlockSent(cu)'
    OBVIOUS
  <2> DEFINE s == Sum(req, cu, build.overlap)[block]
             b == BlockSent(cu)
             c == BlockSent(cu)'
  <2>2. s \in Nat /\ b \in Nat /\ n[cu] \in Nat /\ c = b + n[cu] /\ issued[cu] = s + b
        /\ issued'[cu] = issued[cu] + n[cu]
    BY <1>1, <2>1, SentFacts
  <2> HIDE DEF s, b, c
  <2>3. issued'[cu] = s + c
    BY <2>2
  <2>4. QED BY <2>3 DEF s, c
<1>3. issued' = [cu \in CuSet |-> issued'[cu]]
  OBVIOUS
<1>4. QED BY <1>1, <1>2, <1>3 DEF Counted

(* A vector operation sends each unit its task. *)
LEMMA VectorAdds ==
    ASSUME NEW count, NEW rows, NEW mode
    PROVE  VectorRows(count, rows, mode) = [cu \in CuSet |-> count[cu] + Takes(cu, rows, mode)]
BY DEF VectorRows, Vector, Takes, One

(* The rows from the first are as many as their number. *)
LEMMA RowsCount ==
    ASSUME NEW n \in Nat \ {0}
    PROVE  Cardinality(0..(n - 1)) = n
<1>1. 0 \in Int /\ n - 1 \in Int /\ 0 <= n - 1
  OBVIOUS
<1>2. Cardinality(0..(n - 1)) = (n - 1) - 0 + 1
  <2> DEFINE m == n - 1
  <2>1. m \in Int /\ 0 <= m
    BY <1>1
  <2> HIDE DEF m
  <2>2. Cardinality(0..m) = IF 0 > m THEN 0 ELSE m - 0 + 1
    BY <2>1, <1>1, FS_Interval
  <2>3. Cardinality(0..m) = m - 0 + 1
    BY <2>1, <2>2
  <2>4. QED BY <2>3 DEF m
<1>3. QED BY <1>2

(* The exchange that rides: SiLU in the overlap build's Up region, the     *)
(* next block's normalisation in a Down region.                            *)
LEMMA RidingTasks ==
    ASSUME Control, at \notin Idle, NEW cu \in CuSet
    PROVE  Riding(cu) =
             CASE kind = 5 -> IF Silu THEN Takes(cu, Tokens, "SILU_ONLY") ELSE 0
               [] kind = 6 -> IF HasNext THEN Takes(cu, NextTokens, "RMSNORM") ELSE 0
               [] OTHER -> 0
<1>1. Nothing # "SILU_ONLY" /\ Nothing # "RMSNORM" /\ "SILU_ONLY" # "RMSNORM"
  BY NothingAssumption
<1>2. Tokens \in Nat \ {0} /\ Active = 0..(Tokens - 1)
  BY WorkFacts, Sizes
<1>3. CASE kind = 5 /\ Silu
  <2>1. RidingOp = "SILU_ONLY"
    BY <1>3 DEF RidingOp
  <2>2. RidingRows = Active
    BY <2>1 DEF RidingRows
  <2>3. Cardinality(RidingRows) = Tokens
    BY <1>2, <2>2, RowsCount
  <2>4. QED BY <1>1, <1>3, <2>1, <2>3 DEF Riding
<1>4. CASE kind = 6 /\ HasNext
  <2>1. RidingOp = "RMSNORM"
    BY <1>4 DEF RidingOp
  <2>2. RidingRows = 0..(NextTokens - 1)
    BY <2>1 DEF RidingRows
  <2>3. NextTokens \in Nat \ {0}
    BY <1>4, NextFacts, Sizes
  <2>4. Cardinality(RidingRows) = NextTokens
    BY <2>2, <2>3, RowsCount
  <2>5. QED BY <1>1, <1>4, <2>1, <2>4 DEF Riding
<1>5. CASE ~(kind = 5 /\ Silu) /\ ~(kind = 6 /\ HasNext)
  <2>1. RidingOp = Nothing
    BY <1>5 DEF RidingOp
  <2>2. QED BY <1>5, <2>1 DEF Riding
<1>6. QED BY <1>3, <1>4, <1>5

(* From a region to the next step. *)
LEMMA StepAdds ==
    ASSUME Control, Walking, at \notin Idle, NEW cu \in CuSet, kind # 6
    PROVE  StepTasks(cu, kind + 1) = RegionTasks(cu, kind) + Riding(cu) + Waves(cu, kind)
<1> DEFINE a == AttentionSoFar(cu, Tiles(Context), 0)
           n == Takes(cu, Tokens, "RMSNORM")
           d == Takes(cu, Tokens, "RESIDUAL_ADD")
           u == Takes(cu, Tokens, "SILU_ONLY")
           p == ProjectionsBefore(cu, kind)
           w == Waves(cu, kind)
           q == ProjectionsBefore(cu, kind + 1)
<1>1. kind \in Kinds /\ kind \in 0..5 /\ Silu \in BOOLEAN
  BY DEF Control, Kinds, Silu
<1>2. p \in Nat /\ w \in Nat /\ q = p + w
  BY <1>1, ProjectionsAdd
<1>3. a \in Nat /\ n \in Nat /\ d \in Nat /\ u \in Nat
  BY SentFacts, TakesOne
<1>4. Riding(cu) = IF kind = 5 /\ Silu THEN u ELSE 0
  BY <1>1, RidingTasks
<1>5. /\ StepTasks(cu, kind + 1)
           = n + q + (IF kind + 1 > 3 THEN a ELSE 0) + (IF kind + 1 > 4 THEN d + n ELSE 0)
               + (IF kind + 1 > 5 /\ Silu THEN u ELSE 0)
      /\ RegionTasks(cu, kind)
           = (n + p + (IF kind > 3 THEN a ELSE 0) + (IF kind > 4 THEN d + n ELSE 0)
               + (IF kind > 5 /\ Silu THEN u ELSE 0))
             + (IF kind = 3 THEN a ELSE IF kind = 4 THEN d + n ELSE 0)
  <2>1. (CASE kind = 3 -> a [] kind = 4 -> d + n
           [] kind = 6 -> Takes(cu, Tokens, MulOp) [] OTHER -> 0)
          = (IF kind = 3 THEN a ELSE IF kind = 4 THEN d + n ELSE 0)
    <3> HIDE DEF a, n, d
    <3> QED BY <1>1
  <2>2. QED BY <2>1 DEF StepTasks, RegionTasks
<1> HIDE DEF a, n, d, u, p, w, q
<1>6. StepTasks(cu, kind + 1) = RegionTasks(cu, kind) + (IF kind = 5 /\ Silu THEN u ELSE 0) + w
  BY <1>1, <1>2, <1>3, <1>5
<1>7. QED BY <1>4, <1>6 DEF w

(* The steps outside the regions. *)
LEMMA OpenCounts ==
    ASSUME CInv, LoadBlock \/ AdoptPrepared
    PROVE  Counted'
<1>1. /\ Control /\ Walking /\ Counted /\ at = "open" /\ at \notin Idle
      /\ at' = "step" /\ kind' = 0 /\ at' \notin Idle
      /\ UNCHANGED <<build, req, block, bound>>
      /\ issued = [cu \in CuSet |-> issued[cu]]
  BY PlacesApart DEF CInv, LoadBlock, AdoptPrepared, Opened, Counted
<1> DEFINE n == [cu \in CuSet |-> IF Prepared THEN 0 ELSE Takes(cu, Tokens, "RMSNORM")]
<1>2. \A cu \in CuSet : n[cu] \in Nat
  BY TakesOne
<1>3. ASSUME NEW cu \in CuSet PROVE BlockSent(cu)' = BlockSent(cu) + n[cu]
  <2> DEFINE t == Takes(cu, Tokens, "RMSNORM")
  <2>1. BlockSent(cu) = IF Prepared THEN t ELSE 0
    BY <1>1 DEF BlockSent
  <2>2. BlockSent(cu)' = StepTasks(cu, 0)'
    BY <1>1 DEF BlockSent
  <2>3. StepTasks(cu, 0)' = StepTasks(cu, 0)
    BY <1>1, SameBlock
  <2>4. ProjectionsBefore(cu, 0) = 0
    BY ProjectionsEnds
  <2>5. StepTasks(cu, 0) = t
    <3>1. StepTasks(cu, 0) = t + 0 + 0 + 0 + 0
      BY <2>4 DEF StepTasks
    <3>2. t \in Nat
      BY TakesOne
    <3> HIDE DEF t
    <3>3. QED BY <3>1, <3>2
  <2>6. n[cu] = IF Prepared THEN 0 ELSE t
    OBVIOUS
  <2>7. t \in Nat
    BY TakesOne
  <2> HIDE DEF n, t
  <2>8. QED BY <2>1, <2>2, <2>3, <2>5, <2>6, <2>7
<1>4. issued' = [cu \in CuSet |-> issued[cu] + n[cu]]
  <2>1. CASE LoadBlock
    <3>1. issued' = VectorRows(issued, Tokens, "RMSNORM") /\ ~Prepared
      BY <2>1 DEF LoadBlock
    <3>2. QED BY <3>1, VectorAdds
  <2>2. CASE AdoptPrepared
    <3>1. issued' = issued /\ Prepared
      BY <2>2 DEF AdoptPrepared
    <3>2. \A cu \in CuSet : issued[cu] \in Nat
      <4>1. \A cu \in CuSet : issued[cu] = Sum(req, cu, build.overlap)[block] + BlockSent(cu)
        BY <1>1 DEF Counted
      <4>2. \A cu \in CuSet : Sum(req, cu, build.overlap)[block] \in Nat /\ BlockSent(cu) \in Nat
        BY <1>1, SentFacts
      <4>3. QED BY <4>1, <4>2
    <3>3. \A cu \in CuSet : issued[cu] + n[cu] = issued[cu]
      BY <3>1, <3>2
    <3>4. QED BY <1>1, <3>1, <3>3
  <2>3. QED BY <2>1, <2>2
<1> HIDE DEF n
<1>5. QED BY <1>1, <1>2, <1>3, <1>4, CountStep

(* A step that sends nothing keeps the count. *)
LEMMA CountStays ==
    ASSUME Control, Walking, at \notin Idle, at' \notin Idle, Counted,
           UNCHANGED <<build, req, block, bound, issued>>,
           \A cu \in CuSet : BlockSent(cu)' = BlockSent(cu)
    PROVE  Counted'
<1>1. issued = [cu \in CuSet |-> issued[cu]]
  BY DEF Counted
<1>2. \A cu \in CuSet : issued[cu] = Sum(req, cu, build.overlap)[block] + BlockSent(cu)'
  BY DEF Counted
<1>3. bound = [cu \in CuSet |-> HostTasksForCu(req, cu, build.overlap)]
  BY DEF Counted
<1>4. QED BY <1>1, <1>2, <1>3 DEF Counted

(* A projection that goes on sends nothing before its region. *)
LEMMA GoOnCounts ==
    ASSUME CInv, GoOn
    PROVE  Counted'
<1>1. /\ Control /\ Walking /\ Counted /\ at = "step" /\ at \notin Idle
      /\ at' = "region" /\ kind' = kind /\ at' \notin Idle /\ done' = {}
      /\ UNCHANGED <<build, req, block, bound, issued>> /\ kind \in {0, 1, 2, 5}
  BY PlacesApart DEF CInv, GoOn, ToRegion
<1>2. ASSUME NEW cu \in CuSet PROVE BlockSent(cu)' = BlockSent(cu)
  <2>1. BlockSent(cu) = StepTasks(cu, kind)
    BY <1>1 DEF BlockSent
  <2>2. BlockSent(cu)' = RegionTasks(cu, kind) + 0 + 0
    <3>1. RegionTasks(cu, kind)' = RegionTasks(cu, kind)
      <4>1. \A k : RegionTasks(cu, k)' = RegionTasks(cu, k)
        BY <1>1, SameBlock
      <4>2. QED BY <1>1, <4>1 DEF RegionTasks, StepTasks
    <3>2. QED BY <1>1, <3>1 DEF BlockSent
  <2>3. RegionTasks(cu, kind) = StepTasks(cu, kind) + 0
    BY <1>1 DEF RegionTasks
  <2>4. StepTasks(cu, kind) \in Nat
    BY <1>1, SentFacts DEF Control
  <2>5. QED BY <2>1, <2>2, <2>3, <2>4
<1>3. QED BY <1>1, <1>2, CountStays

(* The append sends nothing; the attention walk starts at its first tile. *)
LEMMA AppendCounts ==
    ASSUME CInv, AppendToCache
    PROVE  Counted'
<1>1. /\ Control /\ Walking /\ Counted /\ at = "step" /\ at \notin Idle /\ kind = 3
      /\ at' = "attend" /\ at' \notin Idle /\ att'.tile = 0 /\ att'.wave = 0
      /\ UNCHANGED <<build, req, block, bound, issued>>
  BY PlacesApart DEF CInv, AppendToCache
<1>2. ASSUME NEW cu \in CuSet PROVE BlockSent(cu)' = BlockSent(cu)
  <2>1. BlockSent(cu) = StepTasks(cu, 3) /\ StepTasks(cu, 3) \in Nat
    BY <1>1, SentFacts DEF BlockSent, Kinds
  <2>2. /\ StepTasks(cu, 3)' = StepTasks(cu, 3)
        /\ AttentionSoFar(cu, 0, 0)' = AttentionSoFar(cu, 0, 0)
    BY <1>1, SameBlock
  <2>3. AttentionSoFar(cu, 0, 0) = 0
    <3>1. req.decode \in BOOLEAN
      BY <1>1, WorkFacts
    <3>2. AttentionWaves(req.decode) \in Nat \ {0}
      BY <3>1, WavesAssigned
    <3>3. QED BY <3>1, <3>2, WalkCounts
  <2>4. AttentionSoFar(cu, att.tile, att.wave)' = AttentionSoFar(cu, 0, 0)'
    BY <1>1 DEF AttentionSoFar
  <2>5. BlockSent(cu)' = StepTasks(cu, 3)' + AttentionSoFar(cu, att.tile, att.wave)'
    BY <1>1 DEF BlockSent
  <2>6. QED BY <2>1, <2>2, <2>3, <2>4, <2>5
<1>3. QED BY <1>1, <1>2, CountStays

(* A wave sends its two tasks to each of its units. *)
LEMMA AttendCounts ==
    ASSUME CInv, AttendWave
    PROVE  Counted'
<1> DEFINE u(cu) == IF cu \in UnitCus(req.decode, att.wave) THEN 1 ELSE 0
           n == [cu \in CuSet |-> u(cu) + u(cu)]
           last == att.wave + 1 = AttentionWaves(req.decode)
<1>1. /\ Control /\ Walking /\ Counted /\ at = "attend" /\ at \notin Idle
      /\ at' = "attend" /\ at' \notin Idle
      /\ att'.tile = (IF last THEN att.tile + 1 ELSE att.tile)
      /\ att'.wave = (IF last THEN 0 ELSE att.wave + 1)
      /\ UNCHANGED <<build, req, block, bound>>
  BY PlacesApart DEF CInv, AttendWave
<1>2. /\ req.decode \in BOOLEAN /\ AttentionWaves(req.decode) \in Nat \ {0}
      /\ att.tile \in Nat /\ att.wave \in Nat /\ att.wave < AttentionWaves(req.decode)
  <2>1. req.decode \in BOOLEAN /\ Context \in Nat
    BY <1>1, WorkFacts
  <2>2. AttentionWaves(req.decode) \in Nat \ {0}
    <3>1. 0 \in CuSet
      BY Sizes DEF CuSet
    <3>2. QED BY <2>1, <3>1, WavesAssigned
  <2>3. Tiles(Context) \in Nat
    BY <2>1, Sizes, CeilingExceeds DEF Tiles
  <2>4. QED BY <1>1, <2>1, <2>2, <2>3 DEF Walking
<1>3. ASSUME NEW cu \in CuSet PROVE BlockSent(cu)' = BlockSent(cu) + n[cu]
  <2> DEFINE a == AttentionSoFar(cu, att.tile, att.wave)
             b == IF last THEN AttentionSoFar(cu, att.tile + 1, 0)
                  ELSE AttentionSoFar(cu, att.tile, att.wave + 1)
             s == StepTasks(cu, 3)
  <2>1. a \in Nat /\ a + u(cu) + u(cu) = b
    BY <1>2, WalkCounts
  <2>2. BlockSent(cu) = s + a
    BY <1>1 DEF BlockSent
  <2>3. s \in Nat /\ s' = s
    <3>1. 3 \in Kinds
      BY DEF Kinds
    <3>2. s' = s
      BY <1>1, SameBlock
    <3>3. QED BY <1>1, <3>1, <3>2, SentFacts
  <2>4. AttentionSoFar(cu, att.tile, att.wave)' = b
    <3>1. CASE last
      <4>1. AttentionSoFar(cu, att.tile, att.wave)' = AttentionSoFar(cu, att.tile + 1, 0)
        BY <1>1, <3>1 DEF AttentionSoFar
      <4>2. QED BY <3>1, <4>1
    <3>2. CASE ~last
      <4>1. AttentionSoFar(cu, att.tile, att.wave)' = AttentionSoFar(cu, att.tile, att.wave + 1)
        BY <1>1, <3>2 DEF AttentionSoFar
      <4>2. QED BY <3>2, <4>1
    <3>3. QED BY <3>1, <3>2
  <2>5. BlockSent(cu)' = s' + b
    BY <1>1, <2>4 DEF BlockSent
  <2>6. u(cu) \in Nat /\ n[cu] = u(cu) + u(cu)
    OBVIOUS
  <2> HIDE DEF a, b, s, n, u
  <2>7. QED BY <2>1, <2>2, <2>3, <2>5, <2>6
<1>4. \A cu \in CuSet : n[cu] \in Nat
  OBVIOUS
<1>5. issued' = [cu \in CuSet |-> issued[cu] + n[cu]]
  <2>1. issued' = Vector(Vector(issued, UnitCus(req.decode, att.wave)),
                         UnitCus(req.decode, att.wave))
    BY DEF AttendWave
  <2>2. issued' = [cu \in CuSet |-> (issued[cu] + u(cu)) + u(cu)]
    BY <2>1 DEF Vector
  <2>3. \A cu \in CuSet : issued[cu] \in Nat
    <3>1. \A cu \in CuSet : issued[cu] = Sum(req, cu, build.overlap)[block] + BlockSent(cu)
      BY <1>1 DEF Counted
    <3>2. \A cu \in CuSet : Sum(req, cu, build.overlap)[block] \in Nat /\ BlockSent(cu) \in Nat
      BY <1>1, SentFacts
    <3>3. QED BY <3>1, <3>2
  <2>4. \A cu \in CuSet : (issued[cu] + u(cu)) + u(cu) = issued[cu] + n[cu]
    <3>1. SUFFICES ASSUME NEW cu \in CuSet
                   PROVE  (issued[cu] + u(cu)) + u(cu) = issued[cu] + n[cu]
      OBVIOUS
    <3>2. issued[cu] \in Nat /\ u(cu) \in Nat /\ n[cu] = u(cu) + u(cu)
      BY <2>3
    <3> HIDE DEF n, u
    <3>3. QED BY <3>2
  <2> HIDE DEF n, u
  <2>5. QED BY <2>2, <2>4
<1> HIDE DEF n
<1>6. QED BY <1>1, <1>3, <1>4, <1>5, CountStep

(* After the last tile the attention tasks of the block are sent. *)
LEMMA FinishCounts ==
    ASSUME CInv, FinishAttention
    PROVE  Counted'
<1>1. /\ Control /\ Walking /\ Counted /\ at = "attend" /\ at \notin Idle /\ kind = 3
      /\ att.tile = Tiles(Context)
      /\ at' = "region" /\ kind' = 3 /\ at' \notin Idle /\ done' = {}
      /\ UNCHANGED <<build, req, block, bound, issued>>
  BY PlacesApart DEF CInv, FinishAttention, ToRegion, Control
<1>2. att.wave = 0
  BY <1>1 DEF Walking
<1>3. ASSUME NEW cu \in CuSet PROVE BlockSent(cu)' = BlockSent(cu)
  <2>1. BlockSent(cu) = StepTasks(cu, 3) + AttentionSoFar(cu, Tiles(Context), 0)
    BY <1>1, <1>2 DEF BlockSent
  <2>2. BlockSent(cu)' = RegionTasks(cu, 3) + 0 + 0
    <3>1. RegionTasks(cu, 3)' = RegionTasks(cu, 3)
      BY <1>1, SameBlock
    <3>2. QED BY <1>1, <3>1 DEF BlockSent
  <2>3. RegionTasks(cu, 3) = StepTasks(cu, 3) + AttentionSoFar(cu, Tiles(Context), 0)
    BY DEF RegionTasks
  <2>4. RegionTasks(cu, 3) \in Nat
    BY <1>1, SentFacts DEF Kinds
  <2>5. QED BY <2>1, <2>2, <2>3, <2>4
<1>4. QED BY <1>1, <1>3, CountStays

(* The residual and the norm before the FFN are tasks of the block. *)
LEMMA NormalizeCounts ==
    ASSUME CInv, NormalizeFfn
    PROVE  Counted'
<1>1. /\ Control /\ Walking /\ Counted /\ at = "step" /\ at \notin Idle /\ kind = 4
      /\ at' = "region" /\ kind' = 4 /\ at' \notin Idle /\ done' = {}
      /\ UNCHANGED <<build, req, block, bound>>
  BY PlacesApart DEF CInv, NormalizeFfn, ToRegion
<1> DEFINE d(cu) == Takes(cu, Tokens, "RESIDUAL_ADD")
           t(cu) == Takes(cu, Tokens, "RMSNORM")
           n == [cu \in CuSet |-> d(cu) + t(cu)]
<1>2. \A cu \in CuSet : d(cu) \in Nat /\ t(cu) \in Nat /\ issued[cu] \in Nat
  <2>1. \A cu \in CuSet : issued[cu] = Sum(req, cu, build.overlap)[block] + BlockSent(cu)
    BY <1>1 DEF Counted
  <2>2. \A cu \in CuSet : Sum(req, cu, build.overlap)[block] \in Nat /\ BlockSent(cu) \in Nat
    BY <1>1, SentFacts
  <2>3. QED BY <2>1, <2>2, TakesOne
<1>3. ASSUME NEW cu \in CuSet PROVE BlockSent(cu)' = BlockSent(cu) + n[cu]
  <2>1. BlockSent(cu) = StepTasks(cu, 4) /\ StepTasks(cu, 4) \in Nat
    BY <1>1, SentFacts DEF BlockSent, Kinds
  <2>2. BlockSent(cu)' = RegionTasks(cu, 4) + 0 + 0
    <3>1. RegionTasks(cu, 4)' = RegionTasks(cu, 4)
      BY <1>1, SameBlock
    <3>2. QED BY <1>1, <3>1 DEF BlockSent
  <2>3. RegionTasks(cu, 4) = StepTasks(cu, 4) + (d(cu) + t(cu))
    BY DEF RegionTasks
  <2>4. n[cu] = d(cu) + t(cu) /\ d(cu) \in Nat /\ t(cu) \in Nat
    BY <1>2
  <2> HIDE DEF n, d, t
  <2>5. QED BY <2>1, <2>2, <2>3, <2>4
<1>4. issued' = [cu \in CuSet |-> issued[cu] + n[cu]]
  <2>1. issued' = VectorRows(VectorRows(issued, Tokens, "RESIDUAL_ADD"), Tokens, "RMSNORM")
    BY DEF NormalizeFfn
  <2>2. VectorRows(issued, Tokens, "RESIDUAL_ADD") = [cu \in CuSet |-> issued[cu] + d(cu)]
    BY VectorAdds
  <2>3. issued' = [cu \in CuSet |-> VectorRows(issued, Tokens, "RESIDUAL_ADD")[cu] + t(cu)]
    BY <2>1, VectorAdds
  <2>4. \A cu \in CuSet : VectorRows(issued, Tokens, "RESIDUAL_ADD")[cu] + t(cu)
                            = issued[cu] + n[cu]
    <3>1. SUFFICES ASSUME NEW cu \in CuSet
                   PROVE  VectorRows(issued, Tokens, "RESIDUAL_ADD")[cu] + t(cu)
                            = issued[cu] + n[cu]
      OBVIOUS
    <3>2. /\ VectorRows(issued, Tokens, "RESIDUAL_ADD")[cu] = issued[cu] + d(cu)
          /\ n[cu] = d(cu) + t(cu) /\ d(cu) \in Nat /\ t(cu) \in Nat /\ issued[cu] \in Nat
      BY <1>2, <2>2
    <3> HIDE DEF n, d, t
    <3>3. QED BY <3>2
  <2> HIDE DEF n, t
  <2>5. QED BY <2>3, <2>4
<1>5. \A cu \in CuSet : n[cu] \in Nat
  BY <1>2
<1> HIDE DEF n
<1>6. QED BY <1>1, <1>3, <1>4, <1>5, CountStep

(* The product before Down is one task, whichever build computes it. *)
LEMMA MultiplyCounts ==
    ASSUME CInv, Multiply
    PROVE  Counted'
<1>1. /\ Control /\ Walking /\ Counted /\ at = "step" /\ at \notin Idle /\ kind = 6
      /\ at' = "region" /\ kind' = 6 /\ at' \notin Idle /\ done' = {}
      /\ UNCHANGED <<build, req, block, bound>>
  BY PlacesApart DEF CInv, Multiply, ToRegion
<1> DEFINE n == [cu \in CuSet |-> Takes(cu, Tokens, MulOp)]
<1>2. ASSUME NEW cu \in CuSet PROVE n[cu] \in Nat /\ BlockSent(cu)' = BlockSent(cu) + n[cu]
  <2>1. BlockSent(cu) = StepTasks(cu, 6) /\ StepTasks(cu, 6) \in Nat
    BY <1>1, SentFacts DEF BlockSent, Kinds
  <2>2. BlockSent(cu)' = RegionTasks(cu, 6) + 0 + 0
    <3>1. RegionTasks(cu, 6)' = RegionTasks(cu, 6)
      BY <1>1, SameBlock
    <3>2. QED BY <1>1, <3>1 DEF BlockSent
  <2>3. RegionTasks(cu, 6) = StepTasks(cu, 6) + n[cu]
    BY DEF RegionTasks
  <2>4. n[cu] \in Nat
    BY TakesOne
  <2> HIDE DEF n
  <2>5. QED BY <2>1, <2>2, <2>3, <2>4
<1>3. issued' = [cu \in CuSet |-> issued[cu] + n[cu]]
  <2>1. issued' = VectorRows(issued, Tokens, MulOp)
    BY DEF Multiply, MulOp
  <2>2. QED BY <2>1, VectorAdds
<1> HIDE DEF n
<1>4. QED BY <1>1, <1>2, <1>3, CountStep

(* The steps of a region. *)
LEMMA RegionCounts ==
    ASSUME CInv, IssueRidingTasks \/ DriveWaves \/ EmitRidingOperands \/ CollectRiding
    PROVE  Counted'
<1>1. /\ Control /\ Walking /\ Counted /\ at = "region" /\ at \notin Idle
      /\ at' = "region" /\ kind' = kind /\ at' \notin Idle
      /\ UNCHANGED <<build, req, block, bound>>
  BY PlacesApart DEF CInv, IssueRidingTasks, DriveWaves, EmitRidingOperands, CollectRiding,
                     RegionStep, InRegion
<1>2. ASSUME NEW cu \in CuSet
      PROVE  /\ BlockSent(cu) = RegionTasks(cu, kind)
                                  + (IF "tasks" \in done THEN Riding(cu) ELSE 0)
                                  + (IF "waves" \in done THEN Waves(cu, kind) ELSE 0)
             /\ BlockSent(cu)' = RegionTasks(cu, kind)
                                   + (IF "tasks" \in done' THEN Riding(cu) ELSE 0)
                                   + (IF "waves" \in done' THEN Waves(cu, kind) ELSE 0)
             /\ RegionTasks(cu, kind) \in Nat /\ Riding(cu) \in Nat /\ Waves(cu, kind) \in Nat
  <2>1. RegionTasks(cu, kind)' = RegionTasks(cu, kind)
    <3>1. \A k : RegionTasks(cu, k)' = RegionTasks(cu, k)
      BY <1>1, SameBlock
    <3>2. QED BY <1>1, <3>1 DEF RegionTasks, StepTasks
  <2>2. Riding(cu)' = Riding(cu)
    BY <1>1, SameRiding
  <2>3. Waves(cu, kind)' = Waves(cu, kind)
    BY <1>1 DEF Waves
  <2>4. BlockSent(cu)' = RegionTasks(cu, kind)'
                           + (IF "tasks" \in done' THEN Riding(cu)' ELSE 0)
                           + (IF "waves" \in done' THEN Waves(cu, kind)' ELSE 0)
    BY <1>1 DEF BlockSent
  <2>5. QED BY <1>1, <2>1, <2>2, <2>3, <2>4, SentFacts DEF BlockSent, Control
<1>3. CASE IssueRidingTasks
  <2> DEFINE n == [cu \in CuSet |-> Riding(cu)]
  <2>1. "tasks" \notin done /\ done' = done \cup {"tasks"} /\ RidingOp # Nothing
        /\ issued' = VectorRows(issued, Cardinality(RidingRows), RidingOp)
    BY <1>3 DEF IssueRidingTasks, RegionStep, InRegion
  <2>2. ASSUME NEW cu \in CuSet PROVE n[cu] \in Nat /\ BlockSent(cu)' = BlockSent(cu) + n[cu]
    <3> DEFINE a == RegionTasks(cu, kind)
               b == Riding(cu)
               c == IF "waves" \in done THEN Waves(cu, kind) ELSE 0
    <3>1. BlockSent(cu) = a + 0 + c
      BY <1>2, <2>1
    <3>2. BlockSent(cu)' = a + b + c
      <4>1. ("waves" \in done' <=> "waves" \in done) /\ "tasks" \in done'
        BY <2>1
      <4>2. QED BY <1>2, <4>1
    <3>3. a \in Nat /\ b \in Nat /\ c \in Nat /\ n[cu] = b
      BY <1>2
    <3> HIDE DEF a, b, c, n
    <3>4. QED BY <3>1, <3>2, <3>3
  <2>3. issued' = [cu \in CuSet |-> issued[cu] + n[cu]]
    <3>1. issued' = [cu \in CuSet |-> issued[cu] + Takes(cu, Cardinality(RidingRows), RidingOp)]
      BY <2>1, VectorAdds
    <3>2. \A cu \in CuSet : n[cu] = Takes(cu, Cardinality(RidingRows), RidingOp)
      BY <2>1 DEF Riding
    <3> HIDE DEF n
    <3>3. QED BY <3>1, <3>2
  <2> HIDE DEF n
  <2>4. QED BY <1>1, <2>2, <2>3, CountStep
<1>4. CASE DriveWaves
  <2> DEFINE n == [cu \in CuSet |-> Waves(cu, kind)]
  <2>1. "waves" \notin done /\ done' = done \cup {"waves"}
        /\ issued' = [cu \in CuSet |-> issued[cu] + Waves(cu, kind)]
    BY <1>4 DEF DriveWaves, RegionStep, InRegion, Waves
  <2>2. ASSUME NEW cu \in CuSet PROVE n[cu] \in Nat /\ BlockSent(cu)' = BlockSent(cu) + n[cu]
    <3> DEFINE a == RegionTasks(cu, kind)
               b == IF "tasks" \in done THEN Riding(cu) ELSE 0
               c == Waves(cu, kind)
    <3>1. BlockSent(cu) = a + b + 0
      BY <1>2, <2>1
    <3>2. BlockSent(cu)' = a + b + c
      <4>1. ("tasks" \in done' <=> "tasks" \in done) /\ "waves" \in done'
        BY <2>1
      <4>2. QED BY <1>2, <4>1
    <3>3. a \in Nat /\ b \in Nat /\ c \in Nat /\ n[cu] = c
      BY <1>2
    <3> HIDE DEF a, b, c, n
    <3>4. QED BY <3>1, <3>2, <3>3
  <2>3. issued' = [cu \in CuSet |-> issued[cu] + n[cu]]
    <3>1. \A cu \in CuSet : n[cu] = Waves(cu, kind)
      OBVIOUS
    <3> HIDE DEF n
    <3>2. QED BY <2>1, <3>1
  <2> HIDE DEF n
  <2>4. QED BY <1>1, <2>2, <2>3, CountStep
<1>5. CASE EmitRidingOperands \/ CollectRiding
  <2>1. /\ issued' = issued /\ ("tasks" \in done' <=> "tasks" \in done)
        /\ ("waves" \in done' <=> "waves" \in done)
    BY <1>5 DEF EmitRidingOperands, CollectRiding, RegionStep
  <2>2. \A cu \in CuSet : BlockSent(cu)' = BlockSent(cu)
    BY <1>2, <2>1
  <2>3. QED BY <1>1, <2>1, <2>2, CountStays
<1>6. QED BY <1>3, <1>4, <1>5

(* The end of a region: all its tasks have been sent. *)
LEMMA CommitCounts ==
    ASSUME CInv, CommitAndCopy
    PROVE  Counted'
<1>1. /\ Control /\ Walking /\ Counted /\ at = "region" /\ at \notin Idle /\ kind \in Kinds
      /\ at' = (IF kind = 6 THEN "close" ELSE "step")
      /\ kind' = (IF kind = 6 THEN 0 ELSE kind + 1) /\ at' \notin Idle
      /\ "waves" \in done /\ (RidingOp # Nothing => "vector" \in done)
      /\ UNCHANGED <<build, req, block, bound, issued>>
  BY PlacesApart DEF CInv, CommitAndCopy, RegionStep, InRegion, Control
<1>2. RidingOp # Nothing => "tasks" \in done
  BY <1>1 DEF CInv, Overlapped
<1>3. ASSUME NEW cu \in CuSet PROVE BlockSent(cu)' = BlockSent(cu)
  <2> DEFINE a == RegionTasks(cu, kind)
             b == Riding(cu)
             c == Waves(cu, kind)
  <2>1. a \in Nat /\ b \in Nat /\ c \in Nat
    BY <1>1, SentFacts
  <2>2. BlockSent(cu) = a + b + c
    <3>1. BlockSent(cu) = a + (IF "tasks" \in done THEN b ELSE 0) + c
      BY <1>1 DEF BlockSent
    <3>2. RidingOp = Nothing => b = 0
      BY DEF Riding
    <3> HIDE DEF b
    <3>3. (IF "tasks" \in done THEN b ELSE 0) = b
      BY <1>2, <3>2
    <3>4. QED BY <3>1, <3>3
  <2>3. CASE kind # 6
    <3>1. BlockSent(cu)' = StepTasks(cu, kind)'
      BY <1>1, <2>3 DEF BlockSent
    <3>2. StepTasks(cu, kind)' = StepTasks(cu, kind + 1)
      <4>1. \A k : StepTasks(cu, k)' = StepTasks(cu, k)
        BY <1>1, SameBlock
      <4>2. kind' = kind + 1
        BY <1>1, <2>3
      <4>3. QED BY <4>1, <4>2 DEF StepTasks
    <3>3. StepTasks(cu, kind + 1) = a + b + c
      BY <1>1, <2>3, StepAdds
    <3>4. QED BY <2>2, <3>1, <3>2, <3>3
  <2>4. CASE kind = 6
    <3> DEFINE h == IF HasNext THEN Takes(cu, NextTokens, "RMSNORM") ELSE 0
    <3>1. BlockSent(cu)' = RegionTasks(cu, 6) + Waves(cu, 6) + h
      <4>1. /\ RegionTasks(cu, 6)' = RegionTasks(cu, 6) /\ HasNext' = HasNext
            /\ Takes(cu, NextTokens, "RMSNORM")' = Takes(cu, NextTokens, "RMSNORM")
        <5>1. /\ HasNext' = HasNext /\ NextTokens' = NextTokens
              /\ RegionTasks(cu, 6)' = RegionTasks(cu, 6)
          BY <1>1, SameBlock
        <5>2. Takes(cu, NextTokens, "RMSNORM")' = Takes(cu, NextTokens, "RMSNORM")
          BY <1>1, <5>1 DEF Takes
        <5>3. QED BY <5>1, <5>2
      <4>2. at' = "close"
        BY <1>1, <2>4
      <4>3. QED BY <4>1, <4>2 DEF BlockSent
    <3>2. b = h
      BY <1>1, <2>4, RidingTasks
    <3>3. RegionTasks(cu, 6) = a /\ Waves(cu, 6) = c
      BY <2>4
    <3> HIDE DEF a, b, c, h
    <3>4. QED BY <2>1, <2>2, <3>1, <3>2, <3>3
  <2>5. QED BY <2>3, <2>4
<1>4. QED BY <1>1, <1>3, CountStays

(* A block has taken the tasks the host counted for it, and the tasks it    *)
(* has sent ahead for the next block.                                      *)
LEMMA BlockTaken ==
    ASSUME Control, Walking, at \notin Idle, NEW cu \in CuSet
    PROVE  RegionTasks(cu, 6) + Waves(cu, 6) + Takes(cu, Tokens, "RESIDUAL_ADD")
             = BlockTasksForCu(req, block, cu, build.overlap)
<1> DEFINE a == AttentionSoFar(cu, Tiles(Context), 0)
           n == Takes(cu, Tokens, "RMSNORM")
           d == Takes(cu, Tokens, "RESIDUAL_ADD")
           m == Takes(cu, Tokens, MulOp)
           u == IF Silu THEN Takes(cu, Tokens, "SILU_ONLY") ELSE 0
           p == ProjectionsBefore(cu, 6)
           w == Waves(cu, 6)
           q == ProjectionsBefore(cu, 7)
<1>1. p \in Nat /\ w \in Nat /\ q = p + w
  <2>1. 6 + 1 = 7 /\ 6 \in Kinds
    BY DEF Kinds
  <2>2. ProjectionsBefore(cu, 6 + 1) = p + w /\ p \in Nat /\ w \in Nat
    BY <2>1, ProjectionsAdd
  <2>3. QED BY <2>1, <2>2
<1>2. a \in Nat /\ n \in Nat /\ d \in Nat /\ m \in Nat /\ u \in Nat
  BY SentFacts, TakesOne
<1>3. BlockTasksForCu(req, block, cu, build.overlap) = q + a + 2 * n + 2 * d + m + u
  BY BlockTotal
<1>4. RegionTasks(cu, 6) = (n + p + a + (d + n) + u) + m
  BY DEF RegionTasks, StepTasks
<1> HIDE DEF a, n, d, m, u, p, w, q
<1>5. RegionTasks(cu, 6) + w + d = BlockTasksForCu(req, block, cu, build.overlap)
  BY <1>1, <1>2, <1>3, <1>4
<1>6. QED BY <1>5 DEF w, d

(* The last residual completes a block, and the last block the request. *)
LEMMA CloseCounts ==
    ASSUME CInv, CloseBlock
    PROVE  Counted'
<1> DEFINE d(cu) == Takes(cu, Tokens, "RESIDUAL_ADD")
           h(cu) == IF HasNext THEN Takes(cu, NextTokens, "RMSNORM") ELSE 0
           s(cu, b) == Sum(req, cu, build.overlap)[b]
           t(cu) == BlockTasksForCu(req, block, cu, build.overlap)
           last == block + 1 = BlockCount(req)
<1>1. /\ Control /\ Walking /\ Counted /\ at = "close" /\ at \notin Idle
      /\ issued' = VectorRows(issued, Tokens, "RESIDUAL_ADD")
      /\ UNCHANGED <<build, bound>>
      /\ (last => at' \in Idle)
      /\ (~last => at' = "open" /\ at' \notin Idle /\ req' = req /\ block' = block + 1)
  BY PlacesApart DEF CInv, CloseBlock, Idle
<1>2. block \in Nat /\ BlockCount(req) \in Nat /\ block < BlockCount(req)
  BY <1>1, WorkFacts
<1>3. \A cu \in CuSet : issued'[cu] = issued[cu] + d(cu)
  BY <1>1, VectorAdds
<1>4. issued' = [cu \in CuSet |-> issued'[cu]]
  BY <1>1, VectorAdds
<1>5. bound = [cu \in CuSet |-> HostTasksForCu(req, cu, build.overlap)]
  BY <1>1 DEF Counted
<1>6. ASSUME NEW cu \in CuSet
      PROVE  issued'[cu] = s(cu, block + 1) + h(cu) /\ s(cu, block + 1) \in Nat /\ h(cu) \in Nat
  <2> DEFINE a == RegionTasks(cu, 6)
             w == Waves(cu, 6)
  <2>1. issued[cu] = s(cu, block) + (a + w + h(cu))
    <3>1. issued[cu] = s(cu, block) + BlockSent(cu)
      BY <1>1 DEF Counted
    <3>2. BlockSent(cu) = a + w + h(cu)
      BY <1>1 DEF BlockSent
    <3>3. QED BY <3>1, <3>2
  <2>2. a + w + d(cu) = t(cu)
    BY <1>1, BlockTaken
  <2>3. s(cu, block + 1) = s(cu, block) + t(cu)
    <3>1. block \in 0..(BlockCount(req) - 1)
      BY <1>2
    <3>2. QED BY <1>2, <3>1, SumSteps
  <2>4. /\ a \in Nat /\ w \in Nat /\ s(cu, block) \in Nat /\ t(cu) \in Nat
        /\ d(cu) \in Nat /\ h(cu) \in Nat
    <3>1. a \in Nat /\ w \in Nat /\ s(cu, block) \in Nat
      BY <1>1, SentFacts DEF Kinds
    <3>2. t(cu) \in Nat
      BY <1>1, <1>2, BlockCounted
    <3>3. QED BY <3>1, <3>2, TakesOne
  <2>5. issued'[cu] = issued[cu] + d(cu)
    BY <1>3
  <2> HIDE DEF a, w, d, h, s, t
  <2>6. issued'[cu] = s(cu, block + 1) + h(cu)
    BY <2>1, <2>2, <2>3, <2>4, <2>5
  <2>7. s(cu, block + 1) \in Nat
    BY <2>3, <2>4
  <2>8. QED BY <2>4, <2>6, <2>7
<1>7. CASE last
  <2>1. ~HasNext
    BY <1>2, <1>7 DEF HasNext
  <2>2. \A cu \in CuSet : issued'[cu] = bound[cu]
    <3>1. SUFFICES ASSUME NEW cu \in CuSet PROVE issued'[cu] = bound[cu]
      OBVIOUS
    <3>2. bound[cu] = s(cu, BlockCount(req))
      BY <1>2, <1>5, SumSteps
    <3>3. h(cu) = 0
      BY <2>1
    <3>4. issued'[cu] = s(cu, block + 1) + h(cu) /\ s(cu, block + 1) \in Nat
      BY <1>6
    <3>5. s(cu, block + 1) = s(cu, BlockCount(req))
      BY <1>7
    <3> HIDE DEF s, h
    <3>6. QED BY <3>2, <3>3, <3>4, <3>5
  <2>3. issued' = bound
    BY <1>4, <1>5, <2>2
  <2>4. at' \in Idle /\ bound' = bound
    BY <1>1, <1>7
  <2>5. \A cu \in CuSet : issued'[cu] \in Nat
    <3>1. SUFFICES ASSUME NEW cu \in CuSet PROVE issued'[cu] \in Nat
      OBVIOUS
    <3>2. issued'[cu] = s(cu, block + 1) + h(cu) /\ s(cu, block + 1) \in Nat /\ h(cu) \in Nat
      BY <1>6
    <3> HIDE DEF s, h
    <3>3. QED BY <3>2
  <2>6. QED BY <1>4, <2>3, <2>4, <2>5 DEF Counted
<1>8. CASE ~last
  <2>1. /\ at' = "open" /\ at' \notin Idle /\ req' = req /\ block' = block + 1
        /\ build' = build /\ bound' = bound
    BY <1>1, <1>8
  <2>2. Prepared' <=> HasNext
    <3>1. block + 1 < BlockCount(req)
      BY <1>2, <1>8
    <3>2. block + 1 # 0
      BY <1>2
    <3>3. QED BY <2>1, <3>1, <3>2 DEF Prepared, HasNext
  <2>3. Tokens' = NextTokens
    BY <2>1 DEF Tokens, NextTokens
  <2>4. \A cu \in CuSet : BlockSent(cu)' = h(cu)
    <3>1. SUFFICES ASSUME NEW cu \in CuSet PROVE BlockSent(cu)' = h(cu)
      OBVIOUS
    <3>2. Takes(cu, Tokens, "RMSNORM")' = Takes(cu, NextTokens, "RMSNORM")
      BY <2>1, <2>3 DEF Takes
    <3>3. BlockSent(cu)' = IF Prepared' THEN Takes(cu, Tokens, "RMSNORM")' ELSE 0
      BY <2>1 DEF BlockSent
    <3>4. QED BY <2>2, <3>2, <3>3
  <2>5. \A cu \in CuSet : issued'[cu] = Sum(req, cu, build.overlap)[block + 1] + BlockSent(cu)'
    BY <1>6, <2>4
  <2>6. /\ bound' = [cu \in CuSet |-> HostTasksForCu(req, cu, build.overlap)']
        /\ \A cu \in CuSet : issued'[cu]
             = Sum(req', cu, build'.overlap)[block'] + BlockSent(cu)'
    BY <1>5, <2>1, <2>5
  <2>7. QED BY <1>4, <2>1, <2>6 DEF Counted
<1>9. QED BY <1>7, <1>8

(* The host sets the counts and starts from none. *)
LEMMA RunCounts ==
    ASSUME CInv, RunDecode \/ \E n \in 1..MaxPrompt : RunPrefill(n)
    PROVE  Counted'
<1>1. PICK r : RunRequest(r)
  BY DEF RunDecode, RunPrefill
<1>2. /\ req' = r /\ block' = 0 /\ at' = "open" /\ issued' = [cu \in CuSet |-> 0]
      /\ bound' = [cu \in CuSet |-> HostTasksForCu(r, cu, build.overlap)]
      /\ build' = build /\ at' \notin Idle
  BY <1>1, PlacesApart DEF RunRequest
<1>3. Control'
  BY PrefillStarts, DecodeStarts DEF CInv
<1>4. BlockCount(r) \in Nat
  <2>1. r \in Requests /\ 0 \in 0..(BlockCount(r) - 1)
    BY <1>2, <1>3 DEF Control
  <2>2. r.decode => r.tokens = 1
    BY <1>2, <1>3 DEF Control
  <2>3. 0 < BlockCount(r) => BlockCount(r) \in Nat
    BY <2>1, <2>2, Blocks
  <2>4. BlockCount(r) = 1 \/ BlockCount(r) = CeilDiv(r.tokens, BlockSize(r))
    BY DEF BlockCount
  <2>5. r.tokens \in Nat /\ BlockSize(r) \in Nat \ {0}
    <3>1. r.tokens \in 1..MaxPrompt /\ r.blockSize \in 1..Rows
      BY <2>1 DEF Requests
    <3>2. QED BY <3>1, Sizes DEF BlockSize
  <2>6. CeilDiv(r.tokens, BlockSize(r)) \in Nat
    BY <2>5, CeilingExceeds
  <2>7. QED BY <2>4, <2>6
<1>5. ~Prepared'
  BY <1>2 DEF Prepared
<1>6. \A cu \in CuSet : issued'[cu] = Sum(req', cu, build'.overlap)[block'] + BlockSent(cu)'
  <2>1. SUFFICES ASSUME NEW cu \in CuSet
                 PROVE  issued'[cu] = Sum(req', cu, build'.overlap)[block'] + BlockSent(cu)'
    OBVIOUS
  <2>2. Sum(r, cu, build.overlap)[0] = 0
    BY <1>4, SumSteps
  <2>3. BlockSent(cu)' = 0
    BY <1>2, <1>5 DEF BlockSent
  <2>4. issued'[cu] = 0
    BY <1>2
  <2>5. QED BY <1>2, <2>2, <2>3, <2>4
<1>7. issued' = [cu \in CuSet |-> issued'[cu]]
  BY <1>2
<1>8. bound' = [cu \in CuSet |-> HostTasksForCu(req, cu, build.overlap)']
  BY <1>2
<1>9. QED BY <1>2, <1>6, <1>7, <1>8 DEF Counted

-----------------------------------------------------------------------------
(* The counts hold from the start and through every step. *)
LEMMA CountInvariant == Spec => []CInv
<1>1. Init => CInv
  <2> SUFFICES ASSUME Init PROVE CInv
    OBVIOUS
  <2>1. Control
    BY DEF Init, Control, Idle, Places, Kinds
  <2>2. Overlapped /\ Walking
    BY DEF Init, Overlapped, Walking
  <2>3. Counted
    BY DEF Init, Counted, Idle
  <2>4. QED BY <2>1, <2>2, <2>3 DEF CInv
<1>2. CInv /\ [Next]_layerVars => CInv'
  <2> SUFFICES ASSUME CInv, [Next]_layerVars PROVE CInv'
    OBVIOUS
  <2>1. CASE UNCHANGED layerVars
    <3>1. UNCHANGED <<build, req, block, at, kind, filled, done, att, issued, bound>>
      BY <2>1 DEF layerVars
    <3>2. Control' /\ Walking'
      BY <3>1 DEF CInv, Control, Walking, Context, Position, Tokens
    <3>3. Overlapped'
      BY <3>1, SameRiding DEF CInv, Overlapped
    <3>4. Counted'
      <4>1. CASE at \in Idle
        BY <3>1, <4>1 DEF CInv, Counted
      <4>2. CASE at \notin Idle
        <5>1. \A cu \in CuSet : BlockSent(cu)' = BlockSent(cu)
          <6>1. ASSUME NEW cu \in CuSet PROVE BlockSent(cu)' = BlockSent(cu)
            <7>1. /\ \A k : StepTasks(cu, k)' = StepTasks(cu, k)
                  /\ \A k : RegionTasks(cu, k)' = RegionTasks(cu, k)
                  /\ \A tile, wave : AttentionSoFar(cu, tile, wave)'
                                       = AttentionSoFar(cu, tile, wave)
                  /\ Prepared' = Prepared /\ HasNext' = HasNext
              BY <3>1, SameBlock
            <7>2. /\ Takes(cu, Tokens, "RMSNORM")' = Takes(cu, Tokens, "RMSNORM")
                  /\ Takes(cu, NextTokens, "RMSNORM")' = Takes(cu, NextTokens, "RMSNORM")
              BY <3>1 DEF Takes, Tokens, NextTokens
            <7>3. Riding(cu)' = Riding(cu)
              BY <3>1, SameRiding
            <7>4. /\ StepTasks(cu, kind)' = StepTasks(cu, kind)
                  /\ RegionTasks(cu, kind)' = RegionTasks(cu, kind)
                  /\ Waves(cu, kind)' = Waves(cu, kind)
                  /\ AttentionSoFar(cu, att.tile, att.wave)'
                       = AttentionSoFar(cu, att.tile, att.wave)
              BY <3>1, <7>1 DEF StepTasks, RegionTasks, Waves, AttentionSoFar
            <7>5. QED BY <3>1, <7>1, <7>2, <7>3, <7>4 DEF BlockSent
          <6>2. QED BY <6>1
        <5>2. QED BY <3>1, <4>2, <5>1, CountStays DEF CInv
      <4>3. QED BY <4>1, <4>2
    <3>5. QED BY <3>2, <3>3, <3>4 DEF CInv
  <2>2. CASE Next
    <3>1. Control' /\ Overlapped' /\ Walking'
      BY <2>2, ControlKept, OverlapKept, WalkKept DEF CInv
    <3>2. Counted'
      BY <2>2, RunCounts, OpenCounts, GoOnCounts, AppendCounts, AttendCounts, FinishCounts,
         NormalizeCounts, MultiplyCounts, RegionCounts, CommitCounts, CloseCounts DEF Next, Region
    <3>3. QED BY <3>1, <3>2 DEF CInv
  <2>3. QED BY <2>1, <2>2
<1>3. QED BY <1>1, <1>2, PTL DEF Spec

(* The projections up to one are part of them all. *)
LEMMA ProjectionsGrow ==
    ASSUME NEW cu \in CuSet, NEW k \in Kinds
    PROVE  /\ ProjectionsBefore(cu, k) <= ProjectionsBefore(cu, 7)
           /\ ProjectionsBefore(cu, k + 1) <= ProjectionsBefore(cu, 7)
           /\ ProjectionsBefore(cu, 7) \in Nat
<1> DEFINE p(i) == ProjectionsBefore(cu, i)
<1>1. \A i \in Kinds : p(i) \in Nat /\ p(i + 1) \in Nat /\ p(i) <= p(i + 1)
  <2>1. SUFFICES ASSUME NEW i \in Kinds PROVE p(i) \in Nat /\ p(i + 1) \in Nat /\ p(i) <= p(i + 1)
    OBVIOUS
  <2> DEFINE w == Waves(cu, i)
  <2>2. p(i) \in Nat /\ w \in Nat /\ p(i + 1) = p(i) + w
    BY ProjectionsAdd
  <2> HIDE DEF p, w
  <2>3. QED BY <2>2
<1> HIDE DEF p
<1>2. /\ p(0) <= p(1) /\ p(1) <= p(2) /\ p(2) <= p(3) /\ p(3) <= p(4) /\ p(4) <= p(5)
      /\ p(5) <= p(6) /\ p(6) <= p(7)
      /\ p(0) \in Nat /\ p(1) \in Nat /\ p(2) \in Nat /\ p(3) \in Nat /\ p(4) \in Nat
      /\ p(5) \in Nat /\ p(6) \in Nat /\ p(7) \in Nat
  <2>1. /\ 0 + 1 = 1 /\ 1 + 1 = 2 /\ 2 + 1 = 3 /\ 3 + 1 = 4 /\ 4 + 1 = 5 /\ 5 + 1 = 6 /\ 6 + 1 = 7
        /\ 0 \in Kinds /\ 1 \in Kinds /\ 2 \in Kinds /\ 3 \in Kinds /\ 4 \in Kinds
        /\ 5 \in Kinds /\ 6 \in Kinds
    BY DEF Kinds
  <2>2. /\ p(0) \in Nat /\ p(0 + 1) \in Nat /\ p(0) <= p(0 + 1)
        /\ p(1 + 1) \in Nat /\ p(1) <= p(1 + 1)
        /\ p(2 + 1) \in Nat /\ p(2) <= p(2 + 1)
        /\ p(3 + 1) \in Nat /\ p(3) <= p(3 + 1)
        /\ p(4 + 1) \in Nat /\ p(4) <= p(4 + 1)
        /\ p(5 + 1) \in Nat /\ p(5) <= p(5 + 1)
        /\ p(6 + 1) \in Nat /\ p(6) <= p(6 + 1)
    BY <1>1, <2>1
  <2>3. QED BY <2>1, <2>2
<1>3. /\ p(0) <= p(7) /\ p(1) <= p(7) /\ p(2) <= p(7) /\ p(3) <= p(7) /\ p(4) <= p(7)
      /\ p(5) <= p(7) /\ p(6) <= p(7) /\ p(7) <= p(7)
  BY <1>2
<1>4. /\ k \in {0, 1, 2, 3, 4, 5, 6} /\ k + 1 \in {1, 2, 3, 4, 5, 6, 7}
  BY DEF Kinds
<1>5. p(k) <= p(7) /\ p(k + 1) <= p(7)
  BY <1>3, <1>4
<1>6. QED BY <1>2, <1>5 DEF p

(* A part of the walk is not longer than the walk. *)
LEMMA WalkGrows ==
    ASSUME Control, Walking, at = "attend", NEW cu \in CuSet
    PROVE  AttentionSoFar(cu, att.tile, att.wave) <= AttentionSoFar(cu, Tiles(Context), 0)
<1> DEFINE a == Assigned(req.decode, cu)
           n == Tiles(Context)
           i == att.tile
           w == att.wave
           x == i * a
           y == n * a
<1>1. req.decode \in BOOLEAN /\ Context \in Nat
  BY PlacesApart, WorkFacts
<1>2. a \in Nat /\ AttentionWaves(req.decode) \in Nat
  BY <1>1, WavesAssigned
<1>3. n \in Nat
  BY <1>1, Sizes, CeilingExceeds DEF Tiles
<1>4. i \in 0..n /\ w \in Nat /\ (i = n => w = 0)
  BY <1>2 DEF Walking
<1>5. AttentionSoFar(cu, i, w) = 2 * (x + AtMost(w, a)) /\ AttentionSoFar(cu, n, 0) = 2 * (y + AtMost(0, a))
  BY DEF AttentionSoFar
<1> HIDE DEF a, n, i, w
<1>6. x \in Nat /\ y \in Nat /\ (i + 1) * a = x + a
  BY <1>2, <1>3, <1>4, Product
<1>7. i + 1 <= n => (i + 1) * a <= n * a
  BY <1>2, <1>3, <1>4, SMT
<1>8. AtMost(0, a) = 0 /\ AtMost(w, a) \in Nat /\ AtMost(w, a) <= a /\ (w = 0 => AtMost(w, a) = 0)
  BY <1>2, <1>4 DEF AtMost
<1> DEFINE z == AtMost(w, a)
           q == (i + 1) * a
<1>9. /\ x \in Nat /\ y \in Nat /\ q = x + a /\ (i + 1 <= n => q <= y) /\ (i = n => x = y)
      /\ z \in Nat /\ z <= a /\ (i = n => z = 0)
  BY <1>4, <1>6, <1>7, <1>8
<1> HIDE DEF x, y, z, q
<1>10. x + z <= y
  BY <1>2, <1>3, <1>4, <1>9
<1>11. 2 * (x + z) <= 2 * (y + 0)
  BY <1>9, <1>10
<1>12. QED BY <1>5, <1>8, <1>11 DEF i, w, n, z

(* What a block has sent is at most its count and the lookahead's. *)
LEMMA SentBound ==
    ASSUME Control, Overlapped, Walking, at \notin Idle, NEW cu \in CuSet
    PROVE  BlockSent(cu) <= BlockTasksForCu(req, block, cu, build.overlap)
                              + (IF HasNext THEN Takes(cu, NextTokens, "RMSNORM") ELSE 0)
<1> DEFINE T == BlockTasksForCu(req, block, cu, build.overlap)
           h == IF HasNext THEN Takes(cu, NextTokens, "RMSNORM") ELSE 0
           a == AttentionSoFar(cu, Tiles(Context), 0)
           n == Takes(cu, Tokens, "RMSNORM")
           d == Takes(cu, Tokens, "RESIDUAL_ADD")
           m == Takes(cu, Tokens, MulOp)
           u == Takes(cu, Tokens, "SILU_ONLY")
           q == ProjectionsBefore(cu, 7)
<1> SUFFICES BlockSent(cu) <= T + h
  OBVIOUS
<1>1. /\ a \in Nat /\ n \in Nat /\ d \in Nat /\ m \in Nat /\ u \in Nat /\ h \in Nat
      /\ kind \in Kinds
  BY SentFacts, TakesOne DEF Control
<1>2. T = q + a + 2 * n + 2 * d + m + (IF Silu THEN u ELSE 0)
  BY BlockTotal
<1>3. q \in Nat
  BY <1>1, ProjectionsGrow
<1>4. T \in Nat
  <2>1. block \in Nat /\ block < BlockCount(req)
    BY WorkFacts
  <2>2. QED BY <2>1, BlockCounted
<1>5. \A k \in 0..7 : ProjectionsBefore(cu, k) \in Nat /\ ProjectionsBefore(cu, k) <= q
        => StepTasks(cu, k) \in Nat /\ StepTasks(cu, k) <= T
  <2>1. SUFFICES ASSUME NEW k \in 0..7, ProjectionsBefore(cu, k) \in Nat, ProjectionsBefore(cu, k) <= q
                 PROVE  StepTasks(cu, k) \in Nat /\ StepTasks(cu, k) <= T
    OBVIOUS
  <2> DEFINE p == ProjectionsBefore(cu, k)
             b == IF k > 3 THEN a ELSE 0
             c == IF k > 4 THEN d + n ELSE 0
             e == IF k > 5 /\ Silu THEN u ELSE 0
             f == IF Silu THEN u ELSE 0
  <2>2. StepTasks(cu, k) = n + p + b + c + e
    BY DEF StepTasks
  <2>3. /\ b \in Nat /\ b <= a /\ c \in Nat /\ c <= d + n /\ e \in Nat /\ e <= f /\ f \in Nat
        /\ p \in Nat /\ p <= q /\ T = q + a + 2 * n + 2 * d + m + f
    <3> HIDE DEF a, n, d, u, q, m, T
    <3> QED BY <1>1, <1>2, <2>1
  <2> HIDE DEF a, n, d, u, q, m, T, p, b, c, e, f
  <2>4. QED BY <1>1, <1>3, <2>2, <2>3
<1>6. \A k \in Kinds : StepTasks(cu, k) \in Nat /\ StepTasks(cu, k) <= T
  <2>1. SUFFICES ASSUME NEW k \in Kinds PROVE StepTasks(cu, k) \in Nat /\ StepTasks(cu, k) <= T
    OBVIOUS
  <2>2. k \in 0..7
    BY DEF Kinds
  <2>3. ProjectionsBefore(cu, k) \in Nat /\ ProjectionsBefore(cu, k) <= q
    BY ProjectionsAdd, ProjectionsGrow
  <2> HIDE DEF T, q
  <2>4. QED BY <1>5, <2>2, <2>3
<1>7. RegionTasks(cu, kind) + Riding(cu) + Waves(cu, kind) <= T + h
  <2>1. CASE kind # 6
    <3>1. StepTasks(cu, kind + 1) = RegionTasks(cu, kind) + Riding(cu) + Waves(cu, kind)
      BY <2>1, StepAdds
    <3>2. kind + 1 \in Kinds
      BY <1>1, <2>1 DEF Kinds
    <3>3. StepTasks(cu, kind + 1) \in Nat /\ StepTasks(cu, kind + 1) <= T
      <4> HIDE DEF T
      <4> QED BY <1>6, <3>2
    <3> HIDE DEF T, h
    <3>4. QED BY <1>1, <1>4, <3>1, <3>3
  <2>2. CASE kind = 6
    <3> DEFINE r == RegionTasks(cu, 6)
               w == Waves(cu, 6)
    <3>1. Riding(cu) = h
      BY <2>2, RidingTasks
    <3>2. r + w + d = T
      BY BlockTaken
    <3>3. r \in Nat /\ w \in Nat
      BY <1>1, <2>2, SentFacts
    <3>4. RegionTasks(cu, kind) = r /\ Waves(cu, kind) = w
      BY <2>2
    <3> HIDE DEF T, h, d, r, w
    <3>5. QED BY <1>1, <1>4, <3>1, <3>2, <3>3, <3>4
  <2>3. QED BY <2>1, <2>2
<1>8. CASE at = "open"
  <2>1. BlockSent(cu) = IF Prepared THEN n ELSE 0
    BY <1>8 DEF BlockSent
  <2>2. n <= T
    <3>1. block \in Nat /\ block < BlockCount(req)
      BY WorkFacts
    <3>2. QED BY <3>1, BlockCounted DEF Tokens
  <2> HIDE DEF T, h, n
  <2>3. QED BY <1>1, <1>4, <2>1, <2>2
<1>9. CASE at = "step"
  <2>1. BlockSent(cu) = StepTasks(cu, kind)
    BY <1>9 DEF BlockSent
  <2>2. StepTasks(cu, kind) \in Nat /\ StepTasks(cu, kind) <= T
    BY <1>1, <1>6
  <2> HIDE DEF T, h
  <2>3. QED BY <1>1, <1>4, <2>1, <2>2
<1>10. CASE at = "attend"
  <2> DEFINE s == AttentionSoFar(cu, att.tile, att.wave)
             t == StepTasks(cu, 3)
  <2>1. BlockSent(cu) = t + s
    BY <1>10 DEF BlockSent
  <2>2. s <= a
    BY <1>10, WalkGrows
  <2>3. BlockSent(cu) \in Nat /\ t \in Nat
    BY SentFacts DEF Kinds
  <2>4. t = n + ProjectionsBefore(cu, 3) + 0 + 0 + 0
    BY DEF StepTasks
  <2>5. ProjectionsBefore(cu, 3) \in Nat /\ ProjectionsBefore(cu, 3) <= q
    BY ProjectionsAdd, ProjectionsGrow DEF Kinds
  <2>6. s \in Nat
    <3>1. req.decode \in BOOLEAN /\ Context \in Nat
      BY WorkFacts
    <3>2. AttentionWaves(req.decode) \in Nat \ {0} /\ Tiles(Context) \in Nat
      BY <3>1, WavesAssigned, WalkAsCounted
    <3>3. att.tile \in Nat /\ att.wave \in Nat /\ att.wave < AttentionWaves(req.decode)
      BY <1>10, <3>2 DEF Walking
    <3>4. QED BY <3>1, <3>3, WalkCounts
  <2> DEFINE p == ProjectionsBefore(cu, 3)
             f == IF Silu THEN u ELSE 0
  <2>7. f \in Nat /\ T = q + a + 2 * n + 2 * d + m + f
    BY <1>1, <1>2
  <2> HIDE DEF T, h, a, n, d, m, u, q, s, t, p, f
  <2>8. t + s <= T + h
    <3>1. t = n + p /\ p \in Nat /\ p <= q
      BY <1>1, <2>4, <2>5 DEF p
    <3>2. QED BY <1>1, <1>3, <2>2, <2>6, <2>7, <3>1
  <2>9. QED BY <2>1, <2>8
<1>11. CASE at = "region"
  <2> DEFINE r == RegionTasks(cu, kind)
             c == Riding(cu)
             w == Waves(cu, kind)
  <2>1. BlockSent(cu) = r + (IF "tasks" \in done THEN c ELSE 0) + (IF "waves" \in done THEN w ELSE 0)
    BY <1>11 DEF BlockSent
  <2>2. r \in Nat /\ c \in Nat /\ w \in Nat /\ r + c + w <= T + h
    BY <1>1, <1>7, SentFacts
  <2> HIDE DEF T, h, r, c, w
  <2>3. QED BY <1>1, <1>4, <2>1, <2>2
<1>12. CASE at \notin {"open", "step", "attend", "region"}
  <2> DEFINE r == RegionTasks(cu, 6)
             w == Waves(cu, 6)
  <2>1. BlockSent(cu) = r + w + h
    BY <1>12 DEF BlockSent
  <2>2. r + w + d = T
    BY BlockTaken
  <2>3. r \in Nat /\ w \in Nat
    BY SentFacts DEF Kinds
  <2> HIDE DEF T, h, d, r, w
  <2>4. QED BY <1>1, <1>4, <2>1, <2>2, <2>3
<1>13. QED BY <1>8, <1>9, <1>10, <1>11, <1>12

(* A unit is never sent more than the host lets it serve, and when a       *)
(* request ends it has been sent all of it (the hang on either side that   *)
(* a miscount would be).                                                   *)
THEOREM UnitsServeWhatIsSent == Spec => []TasksAsCounted
<1>1. CInv => TasksAsCounted
  <2> SUFFICES ASSUME CInv PROVE TasksAsCounted
    OBVIOUS
  <2>1. Control /\ Overlapped /\ Walking /\ Counted
    BY DEF CInv
  <2>2. CASE at \in Idle
    <3>1. issued = bound /\ \A cu \in CuSet : issued[cu] \in Nat
      BY <2>1, <2>2 DEF Counted
    <3>2. \A cu \in CuSet : issued[cu] <= bound[cu]
      BY <3>1
    <3>3. QED BY <3>1, <3>2 DEF TasksAsCounted
  <2>3. CASE at \notin Idle
    <3>1. req # Nothing
      BY <2>1, <2>3, WorkFacts, NothingAssumption
    <3>2. ASSUME NEW cu \in CuSet PROVE issued[cu] <= bound[cu]
      <4> DEFINE s(b) == Sum(req, cu, build.overlap)[b]
                 t(b) == BlockTasksForCu(req, b, cu, build.overlap)
                 h == IF HasNext THEN Takes(cu, NextTokens, "RMSNORM") ELSE 0
                 c == BlockCount(req)
                 sent0 == BlockSent(cu)
      <4>1. issued[cu] = s(block) + sent0 /\ bound[cu] = s(c)
        <5>1. BlockCount(req) \in Nat
          BY <2>1, <2>3, WorkFacts
        <5>2. QED BY <2>1, <2>3, <5>1, SumSteps DEF Counted
      <4>2. block \in Nat /\ block < c /\ c \in Nat
        BY <2>1, <2>3, WorkFacts
      <4>3. \A b \in 0..(c - 1) : t(b) \in Nat
        <5>1. SUFFICES ASSUME NEW b \in 0..(c - 1) PROVE t(b) \in Nat
          OBVIOUS
        <5>2. b \in Nat /\ b < BlockCount(req)
          BY <4>2
        <5>3. QED BY <2>1, <2>3, <5>2, BlockCounted
      <4>4. \A b \in 0..c : s(b) \in Nat /\ s(b) <= s(c)
        BY <4>2, <4>3, SumGrows
      <4>5. \A b \in 0..(c - 1) : s(b + 1) = s(b) + t(b)
        BY <4>2, SumSteps
      <4>6. sent0 <= t(block) + h /\ sent0 \in Nat
        BY <2>1, <2>3, SentBound, SentFacts
      <4>7. CASE HasNext
        <5>1. block + 1 < c /\ h <= t(block + 1) /\ h \in Nat
          <6>1. block + 1 < c /\ block + 1 \in Nat
            BY <2>1, <2>3, <4>7, NextFacts
          <6>2. Takes(cu, NextTokens, "RMSNORM") <= t(block + 1)
            BY <2>1, <2>3, <6>1, BlockCounted DEF NextTokens
          <6>3. QED BY <4>7, <6>1, <6>2, TakesOne
        <5> HIDE DEF s, t, h, c, sent0
        <5>2. /\ s(block + 1) = s(block) + t(block)
              /\ s((block + 1) + 1) = s(block + 1) + t(block + 1)
              /\ s((block + 1) + 1) <= s(c) /\ s(block) \in Nat /\ s(block + 1) \in Nat
              /\ s((block + 1) + 1) \in Nat /\ s(c) \in Nat
              /\ t(block) \in Nat /\ t(block + 1) \in Nat
          <6>1. /\ block \in 0..(c - 1) /\ block + 1 \in 0..(c - 1) /\ block \in 0..c
                /\ block + 1 \in 0..c /\ (block + 1) + 1 \in 0..c /\ c \in 0..c
            BY <4>2, <5>1
          <6>2. QED BY <4>3, <4>4, <4>5, <6>1
        <5>3. QED BY <4>1, <4>6, <5>1, <5>2
      <4>8. CASE ~HasNext
        <5>1. h = 0
          BY <4>8
        <5> HIDE DEF s, t, h, c, sent0
        <5>2. /\ s(block + 1) = s(block) + t(block) /\ s(block + 1) <= s(c)
              /\ s(block) \in Nat /\ s(block + 1) \in Nat /\ s(c) \in Nat /\ t(block) \in Nat
          <6>1. block \in 0..(c - 1) /\ block \in 0..c /\ block + 1 \in 0..c /\ c \in 0..c
            BY <4>2
          <6>2. QED BY <4>3, <4>4, <4>5, <6>1
        <5>3. QED BY <4>1, <4>6, <5>1, <5>2
      <4>9. QED BY <4>7, <4>8
    <3>3. QED BY <3>1, <3>2 DEF TasksAsCounted
  <2>4. QED BY <2>2, <2>3
<1>2. QED BY <1>1, CountInvariant, PTL

-----------------------------------------------------------------------------
(* What the banks hold, step by step. *)

(* The first n rows of a bank. *)
Of(banks, name, n) == [t \in 0..(n - 1) |-> banks[name][t]]

(* A write puts its rows in the bank it names, and in no other. *)
LEMMA Writes ==
    ASSUME NEW banks, NEW name \in DOMAIN banks, NEW rows
    PROVE  /\ DOMAIN With(banks, name, rows) = DOMAIN banks
           /\ \A n \in 1..Rows : 0..(n - 1) \subseteq DOMAIN rows =>
                Of(With(banks, name, rows), name, n) = [t \in 0..(n - 1) |-> rows[t]]
           /\ \A other \in DOMAIN banks : \A n : other # name =>
                Of(With(banks, name, rows), other, n) = Of(banks, other, n)
           /\ \A other \in DOMAIN banks : other # name =>
                With(banks, name, rows)[other] = banks[other]
<1> DEFINE w == With(banks, name, rows)
           new == [t \in 0..(Rows - 1) |-> IF t \in DOMAIN rows THEN rows[t] ELSE banks[name][t]]
<1>1. w = [banks EXCEPT ![name] = new]
  BY DEF With
<1> HIDE DEF w
<1>2. DOMAIN w = DOMAIN banks /\ w[name] = new
  BY <1>1
<1>3. \A other \in DOMAIN banks : other # name => w[other] = banks[other]
  BY <1>1
<1>4. \A other \in DOMAIN banks : \A n : other # name => Of(w, other, n) = Of(banks, other, n)
  BY <1>3 DEF Of
<1>5. ASSUME NEW n \in 1..Rows, 0..(n - 1) \subseteq DOMAIN rows
      PROVE  Of(w, name, n) = [t \in 0..(n - 1) |-> rows[t]]
  <2>1. \A t \in 0..(n - 1) : t \in 0..(Rows - 1)
    BY Sizes
  <2>2. \A t \in 0..(n - 1) : w[name][t] = rows[t]
    BY <1>2, <1>5, <2>1
  <2>3. QED BY <2>2 DEF Of
<1>6. QED BY <1>2, <1>3, <1>4, <1>5 DEF w

(* The banks by name. *)
LEMMA BankNames ==
    ASSUME Domains
    PROVE  /\ "residual" \in DOMAIN bank /\ "hidden0" \in DOMAIN bank /\ "hidden1" \in DOMAIN bank
           /\ "norm_weight" \in DOMAIN bank /\ "key" \in DOMAIN bank /\ "value" \in DOMAIN bank
           /\ "gate" \in DOMAIN bank /\ "up" \in DOMAIN bank /\ "scratch" \in DOMAIN bank
           /\ "gate_for_silu" \in DOMAIN bank /\ "next_source" \in DOMAIN bank
           /\ "next_normalized" \in DOMAIN bank
BY DEF Domains, Banks, Lookahead

(* The rows of the block, as rows of a bank. *)
LEMMA RowsOfBlock ==
    /\ \A name : Valid(name) = Of(bank, name, Tokens)
    /\ \A name : NextValid(name) = Of(bank, name, NextTokens)
    /\ \A name, t : t \in Active => bank[name][t] = Valid(name)[t]
BY DEF Valid, NextValid, Of, Active

(* A block's terms are functions of its rows. *)
LEMMA Terms ==
    /\ X = [t \in Active |-> X[t]]
    /\ Norm0 = [t \in Active |-> Norm(NormWeight(0), X[t])]
    /\ \A n, f : f = [t \in Active |-> f[t]] =>
         Projected(n, f) = [t \in Active |-> Project(n, f[t], ScaleOf(f))]
    /\ \A p, f : f = [t \in Active |-> f[t]] =>
         Rotated(p, f) = [t \in Active |-> Rope(p + t, f[t])]
    /\ \A w, f : f = [t \in Active |-> f[t]] =>
         Normed(w, f) = [t \in Active |-> Norm(NormWeight(w), f[t])]
<1>1. X = [t \in Active |-> X[t]] /\ DOMAIN X = Active
  BY DEF X, Inputs, Active, Tokens
<1>2. \A n, f : f = [t \in Active |-> f[t]] =>
        Projected(n, f) = [t \in Active |-> Project(n, f[t], ScaleOf(f))]
  BY DEF Projected, EachRow
<1>3. \A p, f : f = [t \in Active |-> f[t]] =>
        Rotated(p, f) = [t \in Active |-> Rope(p + t, f[t])]
  BY DEF Rotated
<1>4. \A w, f : f = [t \in Active |-> f[t]] =>
        Normed(w, f) = [t \in Active |-> Norm(NormWeight(w), f[t])]
  BY DEF Normed, EachRow
<1>5. Norm0 = [t \in Active |-> Norm(NormWeight(0), X[t])]
  BY <1>1, <1>4 DEF Norm0
<1>6. QED BY <1>1, <1>2, <1>3, <1>4, <1>5

(* ... every one of them over the rows of the block. *)
LEMMA TermRows ==
    /\ Norm0 = [t \in Active |-> Norm0[t]] /\ Contexts = [t \in Active |-> Contexts[t]]
    /\ Residual = [t \in Active |-> Residual[t]] /\ Norm1 = [t \in Active |-> Norm1[t]]
    /\ Gate = [t \in Active |-> Gate[t]] /\ Up = [t \in Active |-> Up[t]]
    /\ Silus = [t \in Active |-> Silus[t]] /\ Products = [t \in Active |-> Products[t]]
    /\ \A k : Source(k) = [t \in Active |-> Source(k)[t]]
<1>1. Norm0 = [t \in Active |-> Norm0[t]]
  BY Terms
<1>2. Contexts = [t \in Active |-> Contexts[t]] /\ Residual = [t \in Active |-> Residual[t]]
      /\ Silus = [t \in Active |-> Silus[t]] /\ Products = [t \in Active |-> Products[t]]
  BY DEF Contexts, Residual, Silus, Products
<1>3. Norm1 = [t \in Active |-> Norm1[t]]
  BY <1>2, Terms DEF Norm1
<1>4. Gate = [t \in Active |-> Gate[t]] /\ Up = [t \in Active |-> Up[t]]
  BY <1>3, Terms DEF Gate, Up
<1>5. \A k : Source(k) = [t \in Active |-> Source(k)[t]]
  BY <1>1, <1>2, <1>3 DEF Source
<1>6. QED BY <1>1, <1>2, <1>3, <1>4, <1>5

(* A block's terms do not change while it is at work; those that rest on   *)
(* the attention, while the cache does not.                                *)
LEMMA SameTerms ==
    ASSUME UNCHANGED <<build, req, block>>
    PROVE  /\ X' = X /\ Norm0' = Norm0 /\ Queries' = Queries
           /\ Inputs(req, block + 1)' = Inputs(req, block + 1)
           /\ kv' = kv =>
                /\ \A n : TilesUpTo(n)' = TilesUpTo(n)
                /\ Contexts' = Contexts /\ Attended' = Attended /\ Residual' = Residual
                /\ Norm1' = Norm1 /\ Gate' = Gate /\ Up' = Up /\ Silus' = Silus
                /\ Products' = Products /\ Down' = Down
                /\ \A k : Source(k)' = Source(k)
<1>1. Tokens' = Tokens /\ Position' = Position /\ Context' = Context /\ Active' = Active
  BY SameBlock
<1>2. X' = X /\ Inputs(req, block + 1)' = Inputs(req, block + 1)
  BY DEF X, Inputs
<1>3. Norm0' = Norm0
  BY <1>2 DEF Norm0
<1>4. Queries' = Queries
  BY <1>1, <1>3 DEF Queries
<1>5. ASSUME kv' = kv
      PROVE  /\ \A n : TilesUpTo(n)' = TilesUpTo(n)
             /\ Contexts' = Contexts /\ Attended' = Attended /\ Residual' = Residual
             /\ Norm1' = Norm1 /\ Gate' = Gate /\ Up' = Up /\ Silus' = Silus
             /\ Products' = Products /\ Down' = Down
             /\ \A k : Source(k)' = Source(k)
  <2>1. \A n : TilesUpTo(n)' = TilesUpTo(n)
    BY <1>1, <1>5 DEF TilesUpTo
  <2>2. Contexts' = Contexts
    <3>1. TilesUpTo(Tiles(Context))' = TilesUpTo(Tiles(Context))
      BY <1>1, <1>5 DEF TilesUpTo
    <3>2. QED BY <1>1, <1>4, <3>1 DEF Contexts
  <2>3. Attended' = Attended
    BY <2>2 DEF Attended
  <2>4. Residual' = Residual
    BY <1>1, <1>2, <2>3 DEF Residual
  <2>5. Norm1' = Norm1
    BY <2>4 DEF Norm1
  <2>6. Gate' = Gate /\ Up' = Up
    BY <2>5 DEF Gate, Up
  <2>7. Silus' = Silus
    BY <1>1, <2>6 DEF Silus
  <2>8. Products' = Products
    BY <1>1, <2>6, <2>7 DEF Products
  <2>9. Down' = Down
    BY <2>8 DEF Down
  <2>10. \A k : Source(k)' = Source(k)
    BY <1>3, <2>2, <2>5, <2>8 DEF Source
  <2>11. QED BY <2>1, <2>2, <2>3, <2>4, <2>5, <2>6, <2>7, <2>8, <2>9, <2>10
<1>6. QED BY <1>2, <1>3, <1>4, <1>5

(* The rows of a bank after a step of the block. *)
LEMMA RowsAfter ==
    ASSUME UNCHANGED <<build, req, block>>
    PROVE  /\ \A name : Valid(name)' = Of(bank', name, Tokens)
           /\ \A name : NextValid(name)' = Of(bank', name, NextTokens)
<1>1. Active' = Active /\ NextTokens' = NextTokens
  BY SameBlock
<1>2. QED BY <1>1 DEF Valid, NextValid, Of, Active

(* The block's own rows, loaded and normalised.                            *)
LEMMA LoadHolds ==
    ASSUME CInv, Content, LoadBlock
    PROVE  Content'
<1> DEFINE x == Loaded(req, block)
           b1 == With(Fresh, "residual", x)
           b2 == With(b1, "norm_weight", Weight(0))
           y == [t \in Active |-> Norm(NormWeight(0), x[t])]
           b3 == With(b2, "hidden0", y)
<1>1. /\ Control /\ Domains /\ at = "open" /\ at \notin Idle
      /\ at' = "step" /\ kind' = 0 /\ UNCHANGED <<build, req, block, sent, kv, output>>
      /\ bank' = b3 /\ scale' = ScaleOf([t \in Active |-> b3["hidden0"][t]])
  BY PlacesApart DEF CInv, Content, LoadBlock, Opened
<1>2. Tokens \in 1..Rows /\ Active = 0..(Tokens - 1)
  BY <1>1, WorkFacts
<1>3. DOMAIN Fresh = DOMAIN bank
  BY DEF Fresh
<1>4. DOMAIN x = 0..(Rows - 1) /\ DOMAIN y = Active /\ Active \subseteq DOMAIN x
      /\ \A t \in Active : x[t] = X[t]
  <2>1. Active \subseteq 0..(Rows - 1)
    BY <1>2, Sizes
  <2>2. \A t \in Active : t < BlockTokens(req, block)
    BY <1>2 DEF Tokens
  <2>3. \A t \in Active : X[t] = Input(req, BlockBegin(req, block) + t)
    BY <1>2 DEF X, Inputs, Tokens
  <2>4. \A t \in Active : x[t] = Input(req, BlockBegin(req, block) + t)
    BY <2>1, <2>2 DEF Loaded
  <2>5. QED BY <2>1, <2>3, <2>4 DEF Loaded
<1> HIDE DEF x, y, b1, b2, b3
<1>5. /\ DOMAIN b1 = DOMAIN bank /\ DOMAIN b2 = DOMAIN bank /\ DOMAIN b3 = DOMAIN bank
      /\ Of(b3, "residual", Tokens) = [t \in Active |-> x[t]]
      /\ Of(b3, "hidden0", Tokens) = [t \in Active |-> y[t]]
  <2>1. /\ "residual" \in DOMAIN bank /\ "norm_weight" \in DOMAIN bank
        /\ "hidden0" \in DOMAIN bank
    BY <1>1, BankNames
  <2>2. DOMAIN b1 = DOMAIN bank /\ Of(b1, "residual", Tokens) = [t \in Active |-> x[t]]
    <3>1. 0..(Tokens - 1) \subseteq DOMAIN x /\ "residual" \in DOMAIN Fresh
      BY <1>2, <1>3, <1>4, <2>1
    <3>2. /\ DOMAIN b1 = DOMAIN Fresh
          /\ Of(b1, "residual", Tokens) = [t \in 0..(Tokens - 1) |-> x[t]]
      BY <1>2, <3>1, Writes DEF b1
    <3>3. QED BY <1>2, <1>3, <3>2
  <2>3. DOMAIN b2 = DOMAIN bank /\ Of(b2, "residual", Tokens) = [t \in Active |-> x[t]]
    <3>1. /\ DOMAIN b2 = DOMAIN b1
          /\ Of(b2, "residual", Tokens) = Of(b1, "residual", Tokens)
      BY <2>1, <2>2, Writes DEF b2
    <3>2. QED BY <2>2, <3>1
  <2>4. /\ DOMAIN b3 = DOMAIN b2 /\ Of(b3, "hidden0", Tokens) = [t \in Active |-> y[t]]
        /\ Of(b3, "residual", Tokens) = Of(b2, "residual", Tokens)
    BY <1>2, <1>4, <2>1, <2>3, Writes DEF b3
  <2>5. QED BY <2>2, <2>3, <2>4
<1>6. Of(b3, "residual", Tokens) = X /\ Of(b3, "hidden0", Tokens) = Norm0
  <2>1. [t \in Active |-> x[t]] = X
    BY <1>4, Terms
  <2>2. [t \in Active |-> y[t]] = Norm0
    <3>1. \A t \in Active : y[t] = Norm(NormWeight(0), X[t])
      BY <1>4 DEF y
    <3>2. Norm0 = [t \in Active |-> Norm(NormWeight(0), X[t])]
      BY Terms
    <3>3. QED BY <3>1, <3>2
  <2>3. QED BY <1>5, <2>1, <2>2
<1>7. scale' = ScaleOf(Norm0)
  BY <1>1, <1>2, <1>6 DEF Of
<1>8. Valid("residual")' = X /\ Valid("hidden0")' = Norm0
  BY <1>1, <1>6, RowsAfter
<1>9. X' = X /\ Norm0' = Norm0
  BY <1>1, SameTerms
<1>10. Domains'
  BY <1>1, <1>5 DEF Domains
<1>11. Held'
  <2>1. Valid(SourceBank(kind))' = Valid("hidden0")' /\ Source(kind)' = Norm0'
    BY <1>1 DEF SourceBank, Source, Valid
  <2>2. QED BY <1>1, <1>7, <1>8, <1>9, <2>1 DEF Held
<1>12. Moving' /\ Merged'
  BY <1>1 DEF Moving, Merged
<1>13. QED BY <1>10, <1>11, <1>12 DEF Content

(* The rows the block before has prepared. *)
LEMMA AdoptHolds ==
    ASSUME CInv, Content, AdoptPrepared
    PROVE  Content'
<1> DEFINE x == Valid("next_source")
           y == Valid("next_normalized")
           b1 == With(Fresh, "residual", x)
           b2 == With(b1, "hidden0", y)
<1>1. /\ Control /\ Domains /\ at = "open" /\ at \notin Idle /\ Prepared
      /\ at' = "step" /\ kind' = 0 /\ UNCHANGED <<build, req, block, sent, kv, output>>
      /\ bank' = b2 /\ scale' = ScaleOf([t \in Active |-> b2["hidden0"][t]])
  BY PlacesApart DEF CInv, Content, AdoptPrepared, Opened
<1>2. Tokens \in 1..Rows /\ Active = 0..(Tokens - 1)
  BY <1>1, WorkFacts
<1>3. DOMAIN Fresh = DOMAIN bank
  BY DEF Fresh
<1>4. x = X /\ y = Norm0 /\ DOMAIN x = Active /\ DOMAIN y = Active
  BY <1>1 DEF Content, Held, Valid
<1> HIDE DEF x, y, b1, b2
<1>5. /\ DOMAIN b2 = DOMAIN bank
      /\ Of(b2, "residual", Tokens) = [t \in Active |-> x[t]]
      /\ Of(b2, "hidden0", Tokens) = [t \in Active |-> y[t]]
  <2>1. "residual" \in DOMAIN bank /\ "hidden0" \in DOMAIN bank
    BY <1>1, BankNames
  <2>2. DOMAIN b1 = DOMAIN bank /\ Of(b1, "residual", Tokens) = [t \in Active |-> x[t]]
    BY <1>2, <1>3, <1>4, <2>1, Writes DEF b1
  <2>3. /\ DOMAIN b2 = DOMAIN b1 /\ Of(b2, "hidden0", Tokens) = [t \in Active |-> y[t]]
        /\ Of(b2, "residual", Tokens) = Of(b1, "residual", Tokens)
    BY <1>2, <1>4, <2>1, <2>2, Writes DEF b2
  <2>4. QED BY <2>2, <2>3
<1>6. Of(b2, "residual", Tokens) = X /\ Of(b2, "hidden0", Tokens) = Norm0
  BY <1>4, <1>5, Terms, TermRows
<1>7. scale' = ScaleOf(Norm0)
  BY <1>1, <1>2, <1>6 DEF Of
<1>8. Valid("residual")' = X /\ Valid("hidden0")' = Norm0
  BY <1>1, <1>6, RowsAfter
<1>9. X' = X /\ Norm0' = Norm0
  BY <1>1, SameTerms
<1>10. Domains'
  BY <1>1, <1>5 DEF Domains
<1>11. Held'
  <2>1. Valid(SourceBank(kind))' = Valid("hidden0")' /\ Source(kind)' = Norm0'
    BY <1>1 DEF SourceBank, Source, Valid
  <2>2. QED BY <1>1, <1>7, <1>8, <1>9, <2>1 DEF Held
<1>12. Moving' /\ Merged'
  BY <1>1 DEF Moving, Merged
<1>13. QED BY <1>10, <1>11, <1>12 DEF Content

(* Q, K, V and UP start from what is there. *)
LEMMA GoOnHolds ==
    ASSUME CInv, Content, GoOn
    PROVE  Content'
<1>1. /\ Control /\ Domains /\ Held /\ at = "step" /\ at \notin Idle
      /\ at' = "region" /\ kind' = kind /\ kind \in {0, 1, 2, 5} /\ done' = {}
      /\ UNCHANGED <<build, req, block, kv, output, scale>>
      /\ sent' = [vector |-> Nothing, matrix |-> Nothing]
      /\ bank' = IF kind = 5 /\ Silu THEN With(bank, "gate_for_silu", Valid("gate")) ELSE bank
  BY PlacesApart DEF CInv, Content, GoOn, ToRegion
<1>2. Tokens \in 1..Rows /\ Active = 0..(Tokens - 1) /\ DOMAIN Valid("gate") = Active
  BY <1>1, WorkFacts DEF Valid
<1>3. /\ DOMAIN bank' = DOMAIN bank
      /\ \A name \in DOMAIN bank : name # "gate_for_silu" =>
           Of(bank', name, Tokens) = Of(bank, name, Tokens)
      /\ kind = 5 /\ Silu => Of(bank', "gate_for_silu", Tokens) = Valid("gate")
  <2>1. CASE kind = 5 /\ Silu
    <3>1. bank' = With(bank, "gate_for_silu", Valid("gate")) /\ "gate_for_silu" \in DOMAIN bank
      BY <1>1, <2>1, BankNames
    <3>2. [t \in 0..(Tokens - 1) |-> Valid("gate")[t]] = Valid("gate")
      BY <1>2 DEF Valid
    <3>3. QED BY <1>2, <3>1, <3>2, Writes
  <2>2. CASE ~(kind = 5 /\ Silu)
    <3>1. bank' = bank
      BY <1>1, <2>2
    <3>2. QED BY <2>2, <3>1
  <2>3. QED BY <2>1, <2>2
<1>4. /\ Valid("residual")' = Valid("residual") /\ Valid("hidden0")' = Valid("hidden0")
      /\ Valid("hidden1")' = Valid("hidden1") /\ Valid("key")' = Valid("key")
      /\ Valid("gate")' = Valid("gate")
      /\ kind = 5 /\ Silu => Valid("gate_for_silu")' = Valid("gate")
  <2>1. /\ "residual" \in DOMAIN bank /\ "hidden0" \in DOMAIN bank /\ "hidden1" \in DOMAIN bank
        /\ "key" \in DOMAIN bank /\ "gate" \in DOMAIN bank
    BY <1>1, BankNames
  <2>2. QED BY <1>1, <1>3, <2>1, RowsAfter, RowsOfBlock
<1>5. /\ X' = X /\ Norm0' = Norm0 /\ Residual' = Residual /\ Gate' = Gate
      /\ \A k : Source(k)' = Source(k)
  BY <1>1, SameTerms
<1>6. Silu' = Silu
  BY <1>1, SameBlock
<1>7. Domains'
  BY <1>1, <1>3 DEF Domains
<1>8. Held'
  <2>1. /\ Valid(SourceBank(kind))' = Valid("hidden0")' /\ SourceBank(kind) = "hidden0"
        /\ Source(kind)' = Source(kind)
    <3>1. SourceBank(kind) = "hidden0" /\ kind' = kind
      BY <1>1 DEF SourceBank
    <3>2. Valid(SourceBank(kind))' = Valid("hidden0")'
      BY <3>1 DEF Valid, SourceBank
    <3>3. Source(kind)' = Source(kind)
      BY <1>5, <3>1 DEF Source
    <3>4. QED BY <3>1, <3>2, <3>3
  <2>2. Norm0' = Norm0 /\ Projected(0, Norm0)' = Projected(0, Norm0)
        /\ Projected(1, Norm0)' = Projected(1, Norm0)
    BY <1>5
  <2>3. QED BY <1>1, <1>4, <1>5, <2>1, <2>2 DEF Held
<1>9. Moving'
  <2>1. kind = 5 => Valid("gate") = Gate
    BY <1>1 DEF Held
  <2>2. QED BY <1>1, <1>4, <1>5, <1>6, <2>1 DEF Moving
<1>10. Merged'
  BY <1>1 DEF Merged
<1>11. QED BY <1>7, <1>8, <1>9, <1>10 DEF Content

(* The heads: no head of a group is worked on before its wave or after the *)
(* last, and in its wave it is one of those worked on.                     *)
LEMMA EveryHeadWorked ==
    ASSUME NEW decode \in BOOLEAN, NEW h \in Heads
    PROVE  /\ WaveOfHead(decode, h) \in 0..(AttentionWaves(decode) - 1)
           /\ h \in UNION {UnitHeads(decode, WaveOfHead(decode, h), cu) :
                             cu \in UnitCus(decode, WaveOfHead(decode, h))}
<1> DEFINE k == h[1]
           g == h[2]
           n == HeadsPerUnit(decode)
           p == g \div n
           index == k + p * KvHeads
           wave == index \div Cus
           cu == index % Cus
           per == CeilDiv(GqaGroup, n)
           units == AttentionUnits(decode)
<1>1. /\ Cus \in Nat \ {0} /\ KvHeads \in Nat \ {0} /\ GqaGroup \in Nat \ {0}
      /\ n \in Nat \ {0}
  BY Sizes DEF HeadsPerUnit
<1>2. /\ k \in Nat /\ k < KvHeads /\ g \in Nat /\ g < GqaGroup /\ h = <<k, g>>
      /\ g \in 0..(GqaGroup - 1)
  <2>1. k \in 0..(KvHeads - 1) /\ g \in 0..(GqaGroup - 1) /\ h = <<k, g>>
    BY DEF Heads
  <2> HIDE DEF k, g
  <2>2. QED BY <1>1, <2>1
<1> HIDE DEF k, g, n
<1>3. p \in Nat /\ p * n <= g /\ g < p * n + n /\ p * n \in Nat
  <2> DEFINE m == g % n
             x == p * n
  <2>1. p \in Nat /\ m \in 0..(n - 1) /\ g = p * n + m
    BY <1>1, <1>2, Division
  <2> HIDE DEF p, m
  <2>2. x \in Nat
    BY <1>1, <2>1, Product
  <2>3. g = x + m
    BY <2>1
  <2> HIDE DEF x
  <2>4. x <= g /\ g < x + n
    BY <1>1, <1>2, <2>1, <2>2, <2>3
  <2>5. QED BY <2>1, <2>2, <2>4 DEF x
<1>4. per \in Nat /\ p < per
  <2>1. per \in Nat /\ (p < per <=> p * n < GqaGroup)
    BY <1>1, <1>3, CeilingExceeds
  <2> DEFINE x == p * n
  <2>2. x < GqaGroup
    <3>1. x \in Nat /\ x <= g
      BY <1>3
    <3> HIDE DEF x
    <3>2. QED BY <1>1, <1>2, <3>1
  <2>3. QED BY <2>1, <2>2
<1> HIDE DEF p, per
<1>5. index \in Nat /\ index \div KvHeads = p /\ index % KvHeads = k
  <2>1. p * KvHeads \in Nat
    BY <1>1, <1>3, Product
  <2>2. (p * KvHeads + k) \div KvHeads = p /\ (p * KvHeads + k) % KvHeads = k
    BY <1>1, <1>2, <1>3, DivisionUnique
  <2>3. index = p * KvHeads + k
    BY <1>2, <2>1
  <2>4. index \in Nat
    BY <1>2, <2>1
  <2>5. QED BY <2>2, <2>3, <2>4
<1>6. units \in Nat /\ index < units
  <2>1. units = KvHeads * per
    BY DEF AttentionUnits, per, n
  <2>2. (p + 1) * KvHeads <= per * KvHeads
    BY <1>1, <1>3, <1>4, SMT
  <2>3. (p + 1) * KvHeads = p * KvHeads + KvHeads /\ p * KvHeads \in Nat
        /\ per * KvHeads = KvHeads * per /\ KvHeads * per \in Nat
    BY <1>1, <1>3, <1>4, Product
  <2> DEFINE x == p * KvHeads
             y == KvHeads * per
             z == (p + 1) * KvHeads
  <2>4. z = x + KvHeads /\ x \in Nat /\ z <= y /\ y \in Nat /\ index = k + x /\ units = y
    BY <2>1, <2>2, <2>3
  <2> HIDE DEF x, y, z, index, units
  <2>5. QED BY <1>1, <1>2, <2>4
<1> HIDE DEF index
<1>7. wave \in Nat /\ cu \in CuSet /\ index = wave * Cus + cu
  <2>1. wave \in Nat /\ cu \in 0..(Cus - 1) /\ index = wave * Cus + cu
    BY <1>1, <1>5, Division
  <2>2. QED BY <2>1 DEF CuSet
<1>8. WaveOfHead(decode, h) = wave
  BY DEF WaveOfHead, wave, index, p, k, g, n
<1> HIDE DEF wave, cu, units
<1>9. cu \in UnitCus(decode, wave)
  BY <1>6, <1>7 DEF UnitCus, units
<1>10. wave < AttentionWaves(decode) /\ AttentionWaves(decode) \in Nat
  <2>1. \A c \in CuSet : AttentionWaves(decode) \in Nat \ {0}
          /\ Assigned(decode, c) \in 0..AttentionWaves(decode)
          /\ (c \in UnitCus(decode, wave) <=> wave < Assigned(decode, c))
    BY <1>7, WavesAssigned
  <2>2. /\ AttentionWaves(decode) \in Nat \ {0}
        /\ Assigned(decode, cu) \in 0..AttentionWaves(decode) /\ wave < Assigned(decode, cu)
    BY <1>7, <1>9, <2>1
  <2>3. QED BY <1>7, <2>2
<1>11. h \in UnitHeads(decode, wave, cu)
  <2>1. wave * Cus + cu = index
    BY <1>7
  <2>2. UnitHeads(decode, wave, cu)
          = {<<index % KvHeads, e>> : e \in {f \in 0..(GqaGroup - 1) :
               (index \div KvHeads) * n <= f /\ f < (index \div KvHeads) * n + n}}
    BY <2>1 DEF UnitHeads, n
  <2>3. g \in {f \in 0..(GqaGroup - 1) : p * n <= f /\ f < p * n + n}
    BY <1>2, <1>3
  <2>4. QED BY <1>2, <1>5, <2>2, <2>3
<1>12. QED BY <1>7, <1>8, <1>9, <1>10, <1>11

(* Before O, the queries are rotated, the keys and values appended.        *)
LEMMA AppendHolds ==
    ASSUME CInv, Content, AppendToCache
    PROVE  Content'
<1> DEFINE q == [t \in Active |-> Rope(Position + t, bank["hidden1"][t])]
           k == [t \in Active |-> Rope(Position + t, bank["key"][t])]
           b1 == With(bank, "hidden1", q)
           b2 == With(b1, "key", k)
<1>1. /\ Control /\ Domains /\ Held /\ at = "step" /\ at \notin Idle /\ kind = 3
      /\ at' = "attend" /\ kind' = 3 /\ UNCHANGED <<build, req, block, sent, output>>
      /\ bank' = b2 /\ DOMAIN kv' = DOMAIN kv
      /\ att' = [tile |-> 0, wave |-> 0, merged |-> [h \in Heads |-> <<>>]]
  BY PlacesApart DEF CInv, Content, AppendToCache
<1>2. Tokens \in 1..Rows /\ Active = 0..(Tokens - 1) /\ req.decode \in BOOLEAN
  BY <1>1, WorkFacts
<1>3. /\ Valid("residual") = X /\ Valid("hidden1") = Projected(0, Norm0)
  BY <1>1 DEF Held
<1>4. q = Queries
  <2>1. \A t \in Active : bank["hidden1"][t] = Projected(0, Norm0)[t]
    BY <1>3, RowsOfBlock
  <2>2. Queries = [t \in Active |-> Rope(Position + t, Projected(0, Norm0)[t])]
    <3> DEFINE f == Projected(0, Norm0)
    <3>1. f = [t \in Active |-> f[t]] /\ Queries = Rotated(Position, f)
      BY TermRows, Terms DEF Queries
    <3> HIDE DEF f
    <3>2. Rotated(Position, f) = [t \in Active |-> Rope(Position + t, f[t])]
      BY <3>1, Terms
    <3>3. QED BY <3>1, <3>2 DEF f
  <2>3. QED BY <2>1, <2>2
<1>5. DOMAIN q = Active /\ DOMAIN k = Active
  OBVIOUS
<1> HIDE DEF q, k, b1, b2
<1>6. /\ DOMAIN b2 = DOMAIN bank /\ Of(b2, "hidden1", Tokens) = q
      /\ Of(b2, "residual", Tokens) = Of(bank, "residual", Tokens)
  <2>1. "residual" \in DOMAIN bank /\ "hidden1" \in DOMAIN bank /\ "key" \in DOMAIN bank
    BY <1>1, BankNames
  <2>2. 0..(Tokens - 1) \subseteq DOMAIN q /\ 0..(Tokens - 1) \subseteq DOMAIN k
    BY <1>2, <1>5
  <2>3. /\ DOMAIN b1 = DOMAIN bank /\ Of(b1, "hidden1", Tokens) = [t \in 0..(Tokens - 1) |-> q[t]]
        /\ Of(b1, "residual", Tokens) = Of(bank, "residual", Tokens)
    BY <1>2, <2>1, <2>2, Writes DEF b1
  <2>4. /\ DOMAIN b2 = DOMAIN b1 /\ Of(b2, "hidden1", Tokens) = Of(b1, "hidden1", Tokens)
        /\ Of(b2, "residual", Tokens) = Of(b1, "residual", Tokens)
    BY <1>2, <2>1, <2>2, <2>3, Writes DEF b2
  <2>5. [t \in 0..(Tokens - 1) |-> q[t]] = q
    BY <1>2 DEF q
  <2>6. QED BY <2>3, <2>4, <2>5
<1>7. Valid("residual")' = X /\ Valid("hidden1")' = Queries
  BY <1>1, <1>3, <1>4, <1>6, RowsAfter, RowsOfBlock
<1>8. X' = X /\ Queries' = Queries
  BY <1>1, SameTerms
<1>9. Domains'
  BY <1>1, <1>6 DEF Domains
<1>10. Held'
  BY <1>1, <1>7, <1>8 DEF Held
<1>11. Moving'
  BY <1>1 DEF Moving
<1>12. Merged'
  <2>1. ASSUME NEW h \in Heads
        PROVE  TilesUpTo(0 + (IF WaveOfHead(req.decode, h) < 0 THEN 1 ELSE 0))' = <<>>
    <3>1. WaveOfHead(req.decode, h) \in Nat
      <4>1. WaveOfHead(req.decode, h) \in 0..(AttentionWaves(req.decode) - 1)
        BY <1>2, EveryHeadWorked
      <4>2. QED BY <4>1
    <3>2. 0 + (IF WaveOfHead(req.decode, h) < 0 THEN 1 ELSE 0) = 0
      BY <3>1
    <3>3. TilesUpTo(0)' = <<>>
      BY DEF TilesUpTo
    <3>4. (0 + (IF WaveOfHead(req.decode, h) < 0 THEN 1 ELSE 0))' = 0
      BY <1>1, <3>2
    <3>5. QED BY <1>1, <3>2, <3>3
  <2>2. att'.tile = 0 /\ att'.wave = 0 /\ att'.merged = [h \in Heads |-> <<>>]
    BY <1>1
  <2>3. \A h \in Heads :
          TilesUpTo(att.tile + (IF WaveOfHead(req.decode, h) < att.wave THEN 1 ELSE 0))' = <<>>
    BY <1>1, <2>1, <2>2 DEF TilesUpTo
  <2>4. QED BY <2>2, <2>3 DEF Merged
<1>13. QED BY <1>9, <1>10, <1>11, <1>12 DEF Content

(* Appending to a sequence that is written as a function. *)
LEMMA AppendOne ==
    ASSUME NEW n \in Nat, NEW f, f = [i \in 1..n |-> f[i]], NEW e
    PROVE  Append(f, e) = [i \in 1..(n + 1) |-> IF i = n + 1 THEN e ELSE f[i]]
<1> DEFINE S == {f[i] : i \in 1..n} \cup {e}
<1>1. f \in [1..n -> S] /\ e \in S
  OBVIOUS
<1> HIDE DEF S
<1>2. f \in Seq(S) /\ Len(f) = n
  BY <1>1
<1>3. /\ Append(f, e) \in Seq(S) /\ Len(Append(f, e)) = n + 1
      /\ \A i \in 1..n : Append(f, e)[i] = f[i]
      /\ Append(f, e)[n + 1] = e
  BY <1>1, <1>2, AppendProperties
<1> DEFINE g == Append(f, e)
<1>4. g = [i \in 1..(n + 1) |-> g[i]]
  <2>1. g \in Seq(S)
    BY <1>3
  <2> HIDE DEF g
  <2>2. g = [i \in 1..Len(g) |-> g[i]]
    BY <2>1, LenProperties
  <2>3. QED BY <1>3, <2>2 DEF g
<1>5. \A i \in 1..(n + 1) : g[i] = IF i = n + 1 THEN e ELSE f[i]
  BY <1>3
<1> HIDE DEF g
<1>6. QED BY <1>4, <1>5 DEF g

(* One more tile of the cache. *)
LEMMA NextTile ==
    ASSUME NEW n \in Nat
    PROVE  Append(TilesUpTo(n),
                  TileOf(kv, n * PositionTile, AtMost(n * PositionTile + PositionTile, Context)))
             = TilesUpTo(n + 1)
<1> DEFINE tile(i) == TileOf(kv, (i - 1) * PositionTile, AtMost(i * PositionTile, Context))
           f == TilesUpTo(n)
           e == TileOf(kv, n * PositionTile, AtMost(n * PositionTile + PositionTile, Context))
<1>1. f = [i \in 1..n |-> tile(i)] /\ TilesUpTo(n + 1) = [i \in 1..(n + 1) |-> tile(i)]
  BY DEF TilesUpTo
<1>2. e = tile(n + 1)
  <2>1. (n + 1) - 1 = n /\ PositionTile \in Nat
    BY Sizes
  <2>2. (n + 1) * PositionTile = n * PositionTile + PositionTile
    BY <2>1, Product
  <2>3. QED BY <2>1, <2>2
<1> HIDE DEF f, e, tile
<1>3. f = [i \in 1..n |-> f[i]] /\ \A i \in 1..n : f[i] = tile(i)
  BY <1>1
<1>4. Append(f, e) = [i \in 1..(n + 1) |-> IF i = n + 1 THEN e ELSE f[i]]
  BY <1>3, AppendOne
<1>5. \A i \in 1..(n + 1) : (IF i = n + 1 THEN e ELSE f[i]) = tile(i)
  <2>1. ASSUME NEW i \in 1..(n + 1), i # n + 1 PROVE i \in 1..n
    BY <2>1
  <2>2. QED BY <1>2, <1>3, <2>1
<1>6. [i \in 1..(n + 1) |-> IF i = n + 1 THEN e ELSE f[i]] = [i \in 1..(n + 1) |-> tile(i)]
  BY <1>5
<1>7. Append(f, e) = TilesUpTo(n + 1)
  BY <1>1, <1>4, <1>6
<1>8. QED BY <1>7 DEF f, e

(* A wave merges its tile into the heads whose state it drains, each from  *)
(* the unit that worked on it.                                             *)
LEMMA AttendHolds ==
    ASSUME CInv, Content, AttendWave
    PROVE  Content'
<1> DEFINE begin == att.tile * PositionTile
           tile == TileOf(kv, begin, AtMost(begin + PositionTile, Context))
           worked == UNION {UnitHeads(req.decode, att.wave, cu) :
                              cu \in UnitCus(req.decode, att.wave)}
           waves == AttentionWaves(req.decode)
           last == att.wave + 1 = waves
           at0(h) == WaveOfHead(req.decode, h)
<1>1. /\ Control /\ Domains /\ Held /\ Merged /\ Walking /\ at = "attend" /\ at \notin Idle
      /\ at' = "attend" /\ kind' = kind /\ UNCHANGED <<build, req, block, bank, sent, kv, output>>
      /\ att' = [tile |-> IF last THEN att.tile + 1 ELSE att.tile,
                 wave |-> IF last THEN 0 ELSE att.wave + 1,
                 merged |-> [h \in Heads |->
                     IF at0(h) = att.wave
                     THEN Append(att.merged[h], IF h \in worked THEN tile ELSE Junk)
                     ELSE att.merged[h]]]
  BY PlacesApart DEF CInv, Content, AttendWave
<1>2. req.decode \in BOOLEAN /\ Context \in Nat
  BY <1>1, WorkFacts
<1>3. /\ att.tile \in Nat /\ att.wave \in Nat /\ waves \in Nat \ {0} /\ att.wave < waves
  <2>1. waves \in Nat \ {0}
    <3>1. 0 \in CuSet
      BY Sizes DEF CuSet
    <3>2. QED BY <1>2, <3>1, WavesAssigned
  <2>2. Tiles(Context) \in Nat
    BY <1>2, Sizes, CeilingExceeds DEF Tiles
  <2>3. att.tile \in 0..Tiles(Context) /\ att.wave \in 0..(waves - 1)
    BY <1>1 DEF Walking
  <2> HIDE DEF waves
  <2>4. QED BY <2>1, <2>2, <2>3
<1>4. ASSUME NEW h \in Heads
      PROVE  att'.merged[h] = TilesUpTo(att'.tile + (IF at0(h) < att'.wave THEN 1 ELSE 0))
  <2>1. at0(h) \in 0..(waves - 1)
    BY <1>2, EveryHeadWorked
  <2>2. att.merged[h] = TilesUpTo(att.tile + (IF at0(h) < att.wave THEN 1 ELSE 0))
    BY <1>1 DEF Merged
  <2>3. att'.merged[h] = IF at0(h) = att.wave
                         THEN Append(att.merged[h], IF h \in worked THEN tile ELSE Junk)
                         ELSE att.merged[h]
    BY <1>1
  <2>4. /\ att'.tile = (IF last THEN att.tile + 1 ELSE att.tile)
        /\ att'.wave = (IF last THEN 0 ELSE att.wave + 1)
    BY <1>1
  <2>5. Append(TilesUpTo(att.tile), tile) = TilesUpTo(att.tile + 1)
    BY <1>3, NextTile
  <2>6. CASE at0(h) = att.wave
    <3>1. h \in worked
      <4>1. h \in UNION {UnitHeads(req.decode, at0(h), cu) : cu \in UnitCus(req.decode, at0(h))}
        BY <1>2, EveryHeadWorked
      <4>2. QED BY <2>6, <4>1
    <3> HIDE DEF worked, tile, waves, at0
    <3>2. (IF at0(h) < att.wave THEN 1 ELSE 0) = 0 /\ att.tile + 0 = att.tile
      BY <1>3, <2>6
    <3>3. att'.merged[h] = TilesUpTo(att.tile + 1)
      BY <2>2, <2>3, <2>5, <2>6, <3>1, <3>2
    <3>4. att'.tile + (IF at0(h) < att'.wave THEN 1 ELSE 0) = att.tile + 1
      BY <1>3, <2>1, <2>4, <2>6
    <3>5. QED BY <3>3, <3>4
  <2>7. CASE at0(h) # att.wave
    <3> HIDE DEF worked, tile, waves, at0
    <3>1. att'.merged[h] = TilesUpTo(att.tile + (IF at0(h) < att.wave THEN 1 ELSE 0))
      BY <2>2, <2>3, <2>7
    <3>2. att'.tile + (IF at0(h) < att'.wave THEN 1 ELSE 0)
            = att.tile + (IF at0(h) < att.wave THEN 1 ELSE 0)
      BY <1>3, <2>1, <2>4, <2>7
    <3>3. QED BY <3>1, <3>2
  <2>8. QED BY <2>6, <2>7
<1>5. /\ Valid("residual")' = Valid("residual") /\ Valid("hidden1")' = Valid("hidden1")
      /\ X' = X /\ Queries' = Queries
  BY <1>1, SameTerms, RowsAfter, RowsOfBlock
<1>6. Domains' /\ Moving'
  BY <1>1 DEF Domains, Moving
<1>7. Held'
  <2>1. kind = 3
    BY <1>1 DEF Control
  <2>2. QED BY <1>1, <1>5, <2>1 DEF Held
<1>8. Merged'
  <2>1. \A n : TilesUpTo(n)' = TilesUpTo(n)
    BY <1>1, SameTerms
  <2>2. \A h \in Heads :
          TilesUpTo(att.tile + (IF WaveOfHead(req.decode, h) < att.wave THEN 1 ELSE 0))'
            = TilesUpTo(att'.tile + (IF at0(h) < att'.wave THEN 1 ELSE 0))
    BY <1>1, <2>1 DEF TilesUpTo
  <2>3. att'.merged = [h \in Heads |-> att'.merged[h]]
    BY <1>1
  <2> HIDE DEF at0, last, worked, tile
  <2>4. att'.merged = [h \in Heads |->
          TilesUpTo(att.tile + (IF WaveOfHead(req.decode, h) < att.wave THEN 1 ELSE 0))']
    BY <1>4, <2>2, <2>3
  <2>5. QED BY <2>4 DEF Merged
<1>9. QED BY <1>6, <1>7, <1>8 DEF Content

(* All heads have merged the same tiles: every tile of the context. *)
LEMMA FinishHolds ==
    ASSUME CInv, Content, FinishAttention
    PROVE  Content'
<1> DEFINE attended(t) == Attend(t, Position, Valid("hidden1"), {att.merged[h] : h \in Heads})
           rows == [t \in 0..(Rows - 1) |-> IF t \in Active THEN attended(t) ELSE "zero"]
           b1 == With(bank, "hidden0", rows)
<1>1. /\ Control /\ Domains /\ Held /\ Merged /\ Walking /\ at = "attend" /\ at \notin Idle
      /\ kind = 3 /\ att.tile = Tiles(Context) /\ at' = "region" /\ kind' = kind /\ done' = {}
      /\ UNCHANGED <<build, req, block, kv, output>>
      /\ sent' = [vector |-> Nothing, matrix |-> Nothing] /\ bank' = b1
      /\ scale' = ScaleOf([t \in Active |-> rows[t]])
  BY PlacesApart DEF CInv, Content, FinishAttention, ToRegion, Control
<1>2. /\ Tokens \in 1..Rows /\ Active = 0..(Tokens - 1) /\ req.decode \in BOOLEAN
      /\ Context \in Nat
  BY <1>1, WorkFacts
<1>3. {att.merged[h] : h \in Heads} = {TilesUpTo(Tiles(Context))}
  <2>1. att.wave = 0 /\ Tiles(Context) \in Nat
    BY <1>1, <1>2, Sizes, CeilingExceeds DEF Walking, Tiles
  <2>2. ASSUME NEW h \in Heads PROVE att.merged[h] = TilesUpTo(Tiles(Context))
    <3>1. att.merged[h] = TilesUpTo(Tiles(Context)
                            + (IF WaveOfHead(req.decode, h) < 0 THEN 1 ELSE 0))
      BY <1>1, <2>1 DEF Merged
    <3>2. WaveOfHead(req.decode, h) \in Nat
      <4>1. WaveOfHead(req.decode, h) \in 0..(AttentionWaves(req.decode) - 1)
        BY <1>2, EveryHeadWorked
      <4>2. QED BY <4>1
    <3>3. Tiles(Context) + (IF WaveOfHead(req.decode, h) < 0 THEN 1 ELSE 0) = Tiles(Context)
      BY <2>1, <3>2
    <3>4. QED BY <3>1, <3>3
  <2>3. <<0, 0>> \in Heads
    <3>1. 0 \in 0..(KvHeads - 1) /\ 0 \in 0..(GqaGroup - 1)
      BY Sizes
    <3>2. QED BY <3>1 DEF Heads
  <2>4. QED BY <2>2, <2>3
<1>4. Valid("hidden1") = Queries /\ Valid("residual") = X
  BY <1>1 DEF Held
<1>5. \A t \in Active : rows[t] = Contexts[t]
  <2>1. \A t \in Active : attended(t) = Contexts[t]
    BY <1>3, <1>4 DEF Contexts
  <2>2. Active \subseteq 0..(Rows - 1)
    BY <1>2, Sizes
  <2> HIDE DEF attended
  <2>3. QED BY <2>1, <2>2
<1>6. 0..(Tokens - 1) \subseteq DOMAIN rows
  <2>1. DOMAIN rows = 0..(Rows - 1)
    OBVIOUS
  <2> HIDE DEF rows
  <2>2. QED BY <1>2, <2>1, Sizes
<1> HIDE DEF rows, b1, attended
<1>7. [t \in Active |-> rows[t]] = Contexts
  BY <1>5, TermRows
<1>8. /\ DOMAIN b1 = DOMAIN bank /\ Of(b1, "hidden0", Tokens) = Contexts
      /\ Of(b1, "residual", Tokens) = Of(bank, "residual", Tokens)
  <2>1. "residual" \in DOMAIN bank /\ "hidden0" \in DOMAIN bank
    BY <1>1, BankNames
  <2>2. /\ DOMAIN b1 = DOMAIN bank /\ Of(b1, "hidden0", Tokens) = [t \in 0..(Tokens - 1) |-> rows[t]]
        /\ Of(b1, "residual", Tokens) = Of(bank, "residual", Tokens)
    BY <1>2, <1>6, <2>1, Writes DEF b1
  <2>3. QED BY <1>2, <1>7, <2>2
<1>9. Valid("residual")' = X /\ Valid("hidden0")' = Contexts
  BY <1>1, <1>4, <1>8, RowsAfter, RowsOfBlock
<1>10. X' = X /\ Contexts' = Contexts
  BY <1>1, SameTerms
<1>11. Domains'
  BY <1>1, <1>8 DEF Domains
<1>12. Held'
  <2>1. Valid(SourceBank(kind))' = Valid("hidden0")' /\ Source(kind)' = Contexts'
    BY <1>1 DEF SourceBank, Source, Valid
  <2>2. QED BY <1>1, <1>7, <1>9, <1>10, <2>1 DEF Held
<1>13. Moving' /\ Merged'
  BY <1>1 DEF Moving, Merged
<1>14. QED BY <1>11, <1>12, <1>13 DEF Content

(* The rows of the FFN: the residual sum, and its normalisation. *)
LEMMA NormalizeHolds ==
    ASSUME CInv, Content, NormalizeFfn
    PROVE  Content'
<1> DEFINE h == [t \in Active |-> Binary("RESIDUAL_ADD", bank["residual"][t], bank["hidden1"][t])]
           normed == [t \in Active |-> Norm(NormWeight(1), h[t])]
           b1 == With(bank, "residual", h)
           b2 == With(b1, "norm_weight", Weight(1))
           b3 == With(b2, "hidden0", normed)
<1>1. /\ Control /\ Domains /\ Held /\ at = "step" /\ at \notin Idle /\ kind = 4
      /\ at' = "region" /\ kind' = kind /\ done' = {}
      /\ UNCHANGED <<build, req, block, kv, output>>
      /\ sent' = [vector |-> Nothing, matrix |-> Nothing] /\ bank' = b3
      /\ scale' = ScaleOf(normed)
  BY PlacesApart DEF CInv, Content, NormalizeFfn, ToRegion
<1>2. Tokens \in 1..Rows /\ Active = 0..(Tokens - 1)
  BY <1>1, WorkFacts
<1>3. h = Residual
  <2>1. Valid("residual") = X /\ Valid("hidden1") = Attended
    BY <1>1 DEF Held
  <2>2. \A t \in Active : bank["residual"][t] = X[t] /\ bank["hidden1"][t] = Attended[t]
    BY <2>1, RowsOfBlock
  <2>3. QED BY <2>2 DEF Residual
<1>4. DOMAIN h = Active /\ DOMAIN normed = Active
  OBVIOUS
<1> HIDE DEF h
<1>5. normed = Norm1
  BY <1>3, Terms, TermRows DEF Norm1
<1> HIDE DEF normed, b1, b2, b3
<1>6. /\ DOMAIN b3 = DOMAIN bank /\ Of(b3, "residual", Tokens) = Residual
      /\ Of(b3, "hidden0", Tokens) = Norm1
  <2>1. "residual" \in DOMAIN bank /\ "norm_weight" \in DOMAIN bank /\ "hidden0" \in DOMAIN bank
    BY <1>1, BankNames
  <2>2. 0..(Tokens - 1) \subseteq DOMAIN h /\ 0..(Tokens - 1) \subseteq DOMAIN normed
    BY <1>2, <1>4
  <2>3. DOMAIN b1 = DOMAIN bank /\ Of(b1, "residual", Tokens) = [t \in 0..(Tokens - 1) |-> h[t]]
    BY <1>2, <2>1, <2>2, Writes DEF b1
  <2>4. DOMAIN b2 = DOMAIN b1 /\ Of(b2, "residual", Tokens) = Of(b1, "residual", Tokens)
    BY <2>1, <2>3, Writes DEF b2
  <2>5. /\ DOMAIN b3 = DOMAIN b2 /\ Of(b3, "residual", Tokens) = Of(b2, "residual", Tokens)
        /\ Of(b3, "hidden0", Tokens) = [t \in 0..(Tokens - 1) |-> normed[t]]
    BY <1>2, <2>1, <2>2, <2>3, <2>4, Writes DEF b3
  <2>6. [t \in 0..(Tokens - 1) |-> h[t]] = Residual /\ [t \in 0..(Tokens - 1) |-> normed[t]] = Norm1
    BY <1>2, <1>3, <1>5, TermRows
  <2>7. QED BY <2>3, <2>4, <2>5, <2>6
<1>7. Valid("residual")' = Residual /\ Valid("hidden0")' = Norm1
  BY <1>1, <1>6, RowsAfter
<1>8. Residual' = Residual /\ Norm1' = Norm1
  BY <1>1, SameTerms
<1>9. Domains'
  BY <1>1, <1>6 DEF Domains
<1>10. Held'
  <2>1. Valid(SourceBank(kind))' = Valid("hidden0")' /\ Source(kind)' = Norm1'
    BY <1>1 DEF SourceBank, Source, Valid
  <2>2. QED BY <1>1, <1>5, <1>7, <1>8, <2>1 DEF Held
<1>11. Moving' /\ Merged'
  BY <1>1 DEF Moving, Merged
<1>12. QED BY <1>9, <1>10, <1>11 DEF Content

(* The products, and the rows of the next block for its normalisation.     *)
LEMMA MultiplyHolds ==
    ASSUME CInv, Content, Multiply
    PROVE  Content'
<1> DEFINE product == [t \in Active |->
                IF Silu THEN Binary("MUL", bank["up"][t], bank["scratch"][t])
                ELSE Binary("MUL", Unary("SILU", bank["gate"][t]), bank["up"][t])]
           next == Loaded(req, block + 1)
           b1 == With(bank, "gate", product)
           b2 == With(b1, "next_source", next)
           b3 == With(b2, "norm_weight", Weight(0))
<1>1. /\ Control /\ Domains /\ Held /\ at = "step" /\ at \notin Idle /\ kind = 6
      /\ at' = "region" /\ kind' = kind /\ done' = {}
      /\ UNCHANGED <<build, req, block, kv, output>>
      /\ sent' = [vector |-> Nothing, matrix |-> Nothing]
      /\ bank' = (IF HasNext THEN b3 ELSE b1)
      /\ scale' = ScaleOf(product)
  BY PlacesApart DEF CInv, Content, Multiply, ToRegion
<1>2. Tokens \in 1..Rows /\ Active = 0..(Tokens - 1)
  BY <1>1, WorkFacts
<1>3. product = Products
  <2>1. /\ Valid("gate") = Gate
        /\ IF Silu THEN Valid("up") = Silus /\ Valid("scratch") = Up ELSE Valid("up") = Up
    BY <1>1 DEF Held
  <2>2. \A t \in Active : Silus[t] = Unary("SILU", Gate[t])
    BY DEF Silus
  <2>3. \A t \in Active : product[t] = Binary("MUL", Silus[t], Up[t])
    BY <2>1, <2>2, RowsOfBlock
  <2>4. Products = [t \in Active |-> Binary("MUL", Silus[t], Up[t])]
    BY DEF Products
  <2>5. QED BY <2>3, <2>4
<1>4. DOMAIN product = Active
  OBVIOUS
<1>5. DOMAIN next = 0..(Rows - 1)
  BY DEF Loaded
<1> HIDE DEF product, next, b1, b2, b3
<1>6. /\ DOMAIN b1 = DOMAIN bank /\ Of(b1, "gate", Tokens) = Products
      /\ Of(b1, "residual", Tokens) = Of(bank, "residual", Tokens)
  <2>1. "residual" \in DOMAIN bank /\ "gate" \in DOMAIN bank
    BY <1>1, BankNames
  <2>2. 0..(Tokens - 1) \subseteq DOMAIN product
    BY <1>2, <1>4
  <2>3. /\ DOMAIN b1 = DOMAIN bank /\ Of(b1, "gate", Tokens) = [t \in 0..(Tokens - 1) |-> product[t]]
        /\ Of(b1, "residual", Tokens) = Of(bank, "residual", Tokens)
    BY <1>2, <2>1, <2>2, Writes DEF b1
  <2>4. [t \in 0..(Tokens - 1) |-> product[t]] = Products
    BY <1>2, <1>3, TermRows
  <2>5. QED BY <2>3, <2>4
<1>7. ASSUME HasNext
      PROVE  /\ DOMAIN b3 = DOMAIN bank /\ Of(b3, "gate", Tokens) = Products
             /\ Of(b3, "residual", Tokens) = Of(bank, "residual", Tokens)
             /\ Of(b3, "next_source", NextTokens) = Inputs(req, block + 1)
             /\ b3["norm_weight"][0] = NormWeight(0)
  <2>1. NextTokens \in 1..Rows
    BY <1>1, <1>7, NextFacts
  <2>2. /\ "residual" \in DOMAIN bank /\ "gate" \in DOMAIN bank /\ "next_source" \in DOMAIN bank
        /\ "norm_weight" \in DOMAIN bank
    BY <1>1, BankNames
  <2>3. 0..(NextTokens - 1) \subseteq DOMAIN next
    BY <1>5, <2>1, Sizes
  <2>4. /\ DOMAIN b2 = DOMAIN b1 /\ Of(b2, "gate", Tokens) = Of(b1, "gate", Tokens)
        /\ Of(b2, "residual", Tokens) = Of(b1, "residual", Tokens)
        /\ Of(b2, "next_source", NextTokens) = [t \in 0..(NextTokens - 1) |-> next[t]]
    BY <1>6, <2>1, <2>2, <2>3, Writes DEF b2
  <2>5. /\ DOMAIN b3 = DOMAIN b2 /\ Of(b3, "gate", Tokens) = Of(b2, "gate", Tokens)
        /\ Of(b3, "residual", Tokens) = Of(b2, "residual", Tokens)
        /\ Of(b3, "next_source", NextTokens) = Of(b2, "next_source", NextTokens)
        /\ Of(b3, "norm_weight", 1) = [t \in 0..(1 - 1) |-> Weight(0)[t]]
    <3>1. DOMAIN Weight(0) = 0..0 /\ 1 \in 1..Rows /\ 1 - 1 = 0
      BY Sizes DEF Weight
    <3>2. 0..(1 - 1) \subseteq DOMAIN Weight(0)
      BY <3>1
    <3>3. /\ "norm_weight" \in DOMAIN b2 /\ "gate" \in DOMAIN b2 /\ "residual" \in DOMAIN b2
          /\ "next_source" \in DOMAIN b2
      BY <1>6, <2>2, <2>4
    <3>4. Of(b3, "norm_weight", 1) = [t \in 0..(1 - 1) |-> Weight(0)[t]]
      BY <3>1, <3>2, <3>3, Writes DEF b3
    <3>5. /\ DOMAIN b3 = DOMAIN b2 /\ Of(b3, "gate", Tokens) = Of(b2, "gate", Tokens)
          /\ Of(b3, "residual", Tokens) = Of(b2, "residual", Tokens)
          /\ Of(b3, "next_source", NextTokens) = Of(b2, "next_source", NextTokens)
      BY <3>3, Writes DEF b3
    <3>6. QED BY <3>4, <3>5
  <2>6. [t \in 0..(NextTokens - 1) |-> next[t]] = Inputs(req, block + 1)
    <3>1. \A t \in 0..(NextTokens - 1) :
            next[t] = Input(req, BlockBegin(req, block + 1) + t)
      <4>1. SUFFICES ASSUME NEW t \in 0..(NextTokens - 1)
                     PROVE  next[t] = Input(req, BlockBegin(req, block + 1) + t)
        OBVIOUS
      <4>2. t \in 0..(Rows - 1) /\ t < BlockTokens(req, block + 1)
        BY <2>1, Sizes DEF NextTokens
      <4>3. QED BY <4>2 DEF next, Loaded
    <3>2. Inputs(req, block + 1)
            = [t \in 0..(NextTokens - 1) |-> Input(req, BlockBegin(req, block + 1) + t)]
      BY DEF Inputs, NextTokens
    <3>3. QED BY <3>1, <3>2
  <2>7. b3["norm_weight"][0] = NormWeight(0)
    <3>1. 0 \in 0..(1 - 1)
      OBVIOUS
    <3>2. b3["norm_weight"][0] = Of(b3, "norm_weight", 1)[0]
      BY <3>1 DEF Of
    <3>3. Of(b3, "norm_weight", 1)[0] = Weight(0)[0]
      BY <2>5, <3>1
    <3>4. Weight(0)[0] = NormWeight(0)
      BY DEF Weight
    <3>5. QED BY <3>2, <3>3, <3>4
  <2>8. QED BY <1>6, <2>4, <2>5, <2>6, <2>7
<1>8. /\ Valid("residual")' = Valid("residual") /\ Valid("gate")' = Products
      /\ DOMAIN bank' = DOMAIN bank
  BY <1>1, <1>6, <1>7, RowsAfter, RowsOfBlock
<1>9. HasNext => /\ NextValid("next_source")' = Inputs(req, block + 1)
                 /\ bank'["norm_weight"][0] = NormWeight(0)
  BY <1>1, <1>7, RowsAfter
<1>10. /\ Residual' = Residual /\ Products' = Products
       /\ Inputs(req, block + 1)' = Inputs(req, block + 1)
  BY <1>1, SameTerms
<1>11. HasNext' = HasNext
  BY <1>1, SameBlock
<1>12. Domains'
  BY <1>1, <1>8 DEF Domains
<1>13. Held'
  <2>1. Valid(SourceBank(kind))' = Valid("gate")' /\ Source(kind)' = Products'
    BY <1>1 DEF SourceBank, Source, Valid
  <2>2. QED BY <1>1, <1>3, <1>8, <1>10, <2>1 DEF Held
<1>14. Moving'
  BY <1>1, <1>9, <1>10, <1>11 DEF Moving
<1>15. Merged'
  BY <1>1 DEF Merged
<1>16. QED BY <1>12, <1>13, <1>14, <1>15 DEF Content

(* A process of a region leaves alone what the region's result rests on. *)
LEMMA HeldStays ==
    ASSUME Held, at = "region", UNCHANGED <<build, req, block, kind, at, scale, kv>>,
           \A name \in {"residual", "hidden0", "hidden1", "key", "gate"} :
              Valid(name)' = Valid(name)
    PROVE  Held'
<1>1. /\ X' = X /\ Norm0' = Norm0 /\ Residual' = Residual /\ Gate' = Gate
      /\ \A k : Source(k)' = Source(k)
  BY SameTerms
<1>2. Source(kind)' = Source(kind)
  BY <1>1 DEF Source
<1>3. Valid(SourceBank(kind))' = Valid(SourceBank(kind))
  <2>1. CASE kind = 6
    <3>1. Valid(SourceBank(kind))' = Valid("gate")' /\ SourceBank(kind) = "gate"
      BY <2>1 DEF SourceBank, Valid
    <3>2. QED BY <3>1
  <2>2. CASE kind # 6
    <3>1. Valid(SourceBank(kind))' = Valid("hidden0")' /\ SourceBank(kind) = "hidden0"
      BY <2>2 DEF SourceBank, Valid
    <3>2. QED BY <3>1
  <2>3. QED BY <2>1, <2>2
<1>4. /\ Valid("residual")' = Valid("residual") /\ Valid("hidden1")' = Valid("hidden1")
      /\ Valid("key")' = Valid("key") /\ Valid("gate")' = Valid("gate")
  OBVIOUS
<1>5. /\ Projected(0, Norm0)' = Projected(0, Norm0) /\ Projected(1, Norm0)' = Projected(1, Norm0)
  BY <1>1
<1>6. QED BY <1>1, <1>2, <1>3, <1>4, <1>5 DEF Held

(* What rides in a region, by its projection. *)
LEMMA RidingFacts ==
    ASSUME Control, at \notin Idle
    PROVE  /\ kind = 5 /\ Silu => RidingOp = "SILU_ONLY" /\ RidingRows = Active
           /\ kind = 6 /\ HasNext =>
                RidingOp = "RMSNORM" /\ RidingRows = 0..(NextTokens - 1)
           /\ RidingOp # Nothing => (kind = 5 /\ Silu) \/ (kind = 6 /\ HasNext)
           /\ "SILU_ONLY" # "RMSNORM"
BY DEF RidingOp, RidingRows

(* The matrix results of a region are the projection of its source.        *)
LEMMA DriveHolds ==
    ASSUME CInv, Content, DriveWaves
    PROVE  Content'
<1> DEFINE source == IF kind = 6 THEN "gate" ELSE "hidden0"
           m == [t \in Active |-> Project(kind, bank[source][t], scale)]
<1>1. /\ Control /\ Domains /\ Held /\ Moving /\ at = "region" /\ at \notin Idle
      /\ done' = done \cup {"waves"} /\ sent' = [sent EXCEPT !.matrix = m]
      /\ UNCHANGED <<build, req, block, at, kind, bank, scale, kv, output>>
  BY PlacesApart DEF CInv, Content, DriveWaves, RegionStep, InRegion
<1>2. m = Projected(kind, Source(kind))
  <2>1. source = SourceBank(kind)
    BY DEF SourceBank
  <2>2. Valid(SourceBank(kind)) = Source(kind) /\ scale = ScaleOf(Source(kind))
    BY <1>1 DEF Held
  <2> DEFINE f == Source(kind)
  <2>3. \A t \in Active : bank[source][t] = f[t]
    BY <2>1, <2>2, RowsOfBlock
  <2>4. f = [t \in Active |-> f[t]]
    BY TermRows
  <2> HIDE DEF f, source
  <2>5. Projected(kind, f) = [t \in Active |-> Project(kind, f[t], ScaleOf(f))]
    BY <2>4, Terms
  <2>6. m = [t \in Active |-> Project(kind, f[t], ScaleOf(f))]
    BY <2>2, <2>3 DEF f
  <2>7. QED BY <2>5, <2>6 DEF f
<1> HIDE DEF m
<1>3. sent' = [vector |-> sent'.vector, matrix |-> sent'.matrix] /\ sent'.matrix = m
      /\ sent'.vector = sent.vector
  BY <1>1 DEF Domains
<1>4. \A name : Valid(name)' = Valid(name) /\ NextValid(name)' = NextValid(name)
  BY <1>1, RowsAfter, RowsOfBlock
<1>5. Held'
  BY <1>1, <1>4, HeldStays
<1>6. Domains'
  BY <1>1, <1>3 DEF Domains
<1>7. Moving'
  <2>1. /\ Silu' = Silu /\ HasNext' = HasNext /\ Gate' = Gate /\ Silus' = Silus
        /\ Inputs(req, block + 1)' = Inputs(req, block + 1)
        /\ Source(kind)' = Source(kind)
    BY <1>1, SameBlock, SameTerms DEF Source
  <2>2. ("operands" \in done' <=> "operands" \in done) /\ ("vector" \in done' <=> "vector" \in done)
    BY <1>1
  <2>3. QED BY <1>1, <1>2, <1>3, <1>4, <2>1, <2>2 DEF Moving
<1>8. Merged'
  BY <1>1 DEF Merged
<1>9. QED BY <1>5, <1>6, <1>7, <1>8 DEF Content

(* The riding exchange's operands: SiLU of the copied gate, or the         *)
(* normalised rows of the next block.                                      *)
LEMMA EmitHolds ==
    ASSUME CInv, Content, EmitRidingOperands
    PROVE  Content'
<1> DEFINE v == [t \in RidingRows |->
                   IF RidingOp = "SILU_ONLY" THEN Unary("SILU", bank["gate_for_silu"][t])
                   ELSE Norm(bank["norm_weight"][0], bank["next_source"][t])]
<1>1. /\ Control /\ Domains /\ Held /\ Moving /\ at = "region" /\ at \notin Idle
      /\ RidingOp # Nothing
      /\ done' = done \cup {"operands"} /\ sent' = [sent EXCEPT !.vector = v]
      /\ UNCHANGED <<build, req, block, at, kind, bank, scale, kv, output>>
  BY PlacesApart DEF CInv, Content, EmitRidingOperands, RegionStep, InRegion
<1>2. kind = 5 /\ Silu => v = Silus
  <2>1. ASSUME kind = 5, Silu PROVE v = Silus
    <3>1. RidingOp = "SILU_ONLY" /\ RidingRows = Active
      BY <1>1, <2>1, RidingFacts
    <3>2. Valid("gate_for_silu") = Gate
      BY <1>1, <2>1 DEF Moving
    <3>3. \A t \in Active : bank["gate_for_silu"][t] = Gate[t]
      BY <3>2, RowsOfBlock
    <3>4. QED BY <3>1, <3>3 DEF Silus
  <2>2. QED BY <2>1
<1>3. kind = 6 /\ HasNext => v = Normed(0, Inputs(req, block + 1))
  <2>1. ASSUME kind = 6, HasNext PROVE v = Normed(0, Inputs(req, block + 1))
    <3> DEFINE f == Inputs(req, block + 1)
    <3>1. RidingOp = "RMSNORM" /\ RidingRows = 0..(NextTokens - 1) /\ RidingOp # "SILU_ONLY"
      BY <1>1, <2>1, RidingFacts
    <3>2. NextValid("next_source") = f /\ bank["norm_weight"][0] = NormWeight(0)
      BY <1>1, <2>1 DEF Moving
    <3>3. \A t \in 0..(NextTokens - 1) : bank["next_source"][t] = f[t]
      BY <3>2 DEF NextValid
    <3>4. DOMAIN f = 0..(NextTokens - 1)
      BY DEF Inputs, NextTokens
    <3> HIDE DEF f
    <3>5. Normed(0, f) = [t \in DOMAIN f |-> Norm(NormWeight(0), f[t])]
      BY DEF Normed, EachRow
    <3>6. v = [t \in 0..(NextTokens - 1) |-> Norm(NormWeight(0), f[t])]
      BY <3>1, <3>2, <3>3
    <3>7. QED BY <3>4, <3>5, <3>6 DEF f
  <2>2. QED BY <2>1
<1> HIDE DEF v
<1>4. sent' = [vector |-> sent'.vector, matrix |-> sent'.matrix] /\ sent'.vector = v
      /\ sent'.matrix = sent.matrix
  BY <1>1 DEF Domains
<1>5. \A name : Valid(name)' = Valid(name) /\ NextValid(name)' = NextValid(name)
  BY <1>1, RowsAfter, RowsOfBlock
<1>6. Held'
  BY <1>1, <1>5, HeldStays
<1>7. Domains'
  BY <1>1, <1>4 DEF Domains
<1>8. Moving'
  <2>1. /\ Silu' = Silu /\ HasNext' = HasNext /\ Gate' = Gate /\ Silus' = Silus
        /\ Inputs(req, block + 1)' = Inputs(req, block + 1)
        /\ Source(kind)' = Source(kind)
    BY <1>1, SameBlock, SameTerms DEF Source
  <2>2. ("waves" \in done' <=> "waves" \in done) /\ ("vector" \in done' <=> "vector" \in done)
    BY <1>1
  <2>3. QED BY <1>1, <1>2, <1>3, <1>4, <1>5, <2>1, <2>2 DEF Moving
<1>9. Merged'
  BY <1>1 DEF Merged
<1>10. QED BY <1>6, <1>7, <1>8, <1>9 DEF Content

(* Issuing its tasks changes no bank. *)
LEMMA IssueHolds ==
    ASSUME CInv, Content, IssueRidingTasks
    PROVE  Content'
<1>1. /\ Control /\ Domains /\ Held /\ Moving /\ at = "region" /\ at \notin Idle
      /\ done' = done \cup {"tasks"}
      /\ UNCHANGED <<build, req, block, at, kind, bank, scale, kv, output, sent>>
  BY PlacesApart DEF CInv, Content, IssueRidingTasks, RegionStep, InRegion
<1>2. \A name : Valid(name)' = Valid(name) /\ NextValid(name)' = NextValid(name)
  BY <1>1, RowsAfter, RowsOfBlock
<1>3. Held'
  BY <1>1, <1>2, HeldStays
<1>4. Domains'
  BY <1>1 DEF Domains
<1>5. Moving'
  <2>1. /\ Silu' = Silu /\ HasNext' = HasNext /\ Gate' = Gate /\ Silus' = Silus
        /\ Inputs(req, block + 1)' = Inputs(req, block + 1)
        /\ Source(kind)' = Source(kind)
    BY <1>1, SameBlock, SameTerms DEF Source
  <2>2. /\ ("operands" \in done' <=> "operands" \in done)
        /\ ("waves" \in done' <=> "waves" \in done) /\ ("vector" \in done' <=> "vector" \in done)
    BY <1>1
  <2>3. QED BY <1>1, <1>2, <2>1, <2>2 DEF Moving
<1>6. Merged'
  BY <1>1 DEF Merged
<1>7. QED BY <1>3, <1>4, <1>5, <1>6 DEF Content

(* The riding results land in a bank the region does not read. *)
LEMMA CollectHolds ==
    ASSUME CInv, Content, CollectRiding
    PROVE  Content'
<1> DEFINE name0 == IF RidingOp = "SILU_ONLY" THEN "up" ELSE "next_normalized"
           v == sent.vector
           b1 == With(bank, name0, v)
<1>1. /\ Control /\ Domains /\ Held /\ Moving /\ Overlapped /\ at = "region" /\ at \notin Idle
      /\ {"tasks", "operands"} \subseteq done
      /\ done' = done \cup {"vector"} /\ bank' = b1
      /\ UNCHANGED <<build, req, block, at, kind, scale, kv, output, sent>>
  BY PlacesApart DEF CInv, Content, CollectRiding, RegionStep, InRegion
<1>2. Tokens \in 1..Rows /\ Active = 0..(Tokens - 1)
  BY <1>1, WorkFacts
<1>3. (kind = 5 /\ Silu) \/ (kind = 6 /\ HasNext)
  <2>1. RidingOp # Nothing
    BY <1>1 DEF Overlapped
  <2>2. QED BY <1>1, <2>1, RidingFacts
<1>4. name0 \in {"up", "next_normalized"} /\ name0 \in DOMAIN bank
  BY <1>1, BankNames
<1> HIDE DEF b1, v
<1>5. /\ DOMAIN b1 = DOMAIN bank
      /\ \A other \in DOMAIN bank : \A n : other # name0 => Of(b1, other, n) = Of(bank, other, n)
      /\ \A other \in DOMAIN bank : other # name0 => b1[other] = bank[other]
      /\ \A n \in 1..Rows : 0..(n - 1) \subseteq DOMAIN v =>
           Of(b1, name0, n) = [t \in 0..(n - 1) |-> v[t]]
  <2> HIDE DEF name0
  <2> QED BY <1>4, Writes DEF b1
<1>6. \A name \in {"residual", "hidden0", "hidden1", "key", "gate", "gate_for_silu"} :
         Valid(name)' = Valid(name)
  <2>1. \A name \in {"residual", "hidden0", "hidden1", "key", "gate", "gate_for_silu"} :
          name \in DOMAIN bank /\ name # name0
    BY <1>1, <1>4, BankNames
  <2>2. QED BY <1>1, <1>5, <2>1, RowsAfter, RowsOfBlock
<1>7. NextValid("next_source")' = NextValid("next_source")
      /\ bank'["norm_weight"] = bank["norm_weight"]
  <2>1. "next_source" \in DOMAIN bank /\ "norm_weight" \in DOMAIN bank
        /\ "next_source" # name0 /\ "norm_weight" # name0
    BY <1>1, <1>4, BankNames
  <2>2. QED BY <1>1, <1>5, <2>1, RowsAfter, RowsOfBlock
<1>8. kind = 5 /\ Silu => Valid("up")' = Silus
  <2>1. ASSUME kind = 5, Silu PROVE Valid("up")' = Silus
    <3>1. RidingOp = "SILU_ONLY"
      BY <1>1, <2>1, RidingFacts
    <3>2. v = Silus
      BY <1>1, <2>1 DEF Moving, v
    <3>3. name0 = "up"
      BY <3>1
    <3>4. 0..(Tokens - 1) \subseteq DOMAIN v /\ [t \in 0..(Tokens - 1) |-> v[t]] = Silus
      BY <1>2, <3>2, TermRows
    <3>5. Of(b1, "up", Tokens) = Silus
      BY <1>2, <1>5, <3>3, <3>4
    <3>6. QED BY <1>1, <3>5, RowsAfter
  <2>2. QED BY <2>1
<1>9. kind = 6 /\ HasNext =>
        NextValid("next_normalized")' = Normed(0, Inputs(req, block + 1))
  <2>1. ASSUME kind = 6, HasNext
        PROVE  NextValid("next_normalized")' = Normed(0, Inputs(req, block + 1))
    <3> DEFINE f == Normed(0, Inputs(req, block + 1))
    <3>1. RidingOp = "RMSNORM" /\ NextTokens \in 1..Rows
      BY <1>1, <2>1, RidingFacts, NextFacts
    <3>2. v = f
      BY <1>1, <2>1 DEF Moving, v
    <3>3. name0 = "next_normalized"
      BY <3>1
    <3>4. f = [t \in 0..(NextTokens - 1) |-> f[t]]
      <4>1. DOMAIN Inputs(req, block + 1) = 0..(NextTokens - 1)
        BY DEF Inputs, NextTokens
      <4>2. QED BY <4>1 DEF Normed, EachRow
    <3> HIDE DEF f, name0
    <3>5. 0..(NextTokens - 1) \subseteq DOMAIN v /\ [t \in 0..(NextTokens - 1) |-> v[t]] = f
      BY <3>2, <3>4
    <3>6. Of(b1, "next_normalized", NextTokens) = f
      BY <1>5, <3>1, <3>3, <3>5
    <3>7. QED BY <1>1, <3>6, RowsAfter DEF f
  <2>2. QED BY <2>1
<1>10. Held'
  BY <1>1, <1>6, HeldStays
<1>11. Domains'
  BY <1>1, <1>5 DEF Domains
<1>12. Moving'
  <2>1. /\ Silu' = Silu /\ HasNext' = HasNext /\ Gate' = Gate /\ Silus' = Silus
        /\ Inputs(req, block + 1)' = Inputs(req, block + 1)
        /\ Source(kind)' = Source(kind)
    BY <1>1, SameBlock, SameTerms DEF Source
  <2>2. ("operands" \in done' <=> "operands" \in done) /\ ("waves" \in done' <=> "waves" \in done)
    BY <1>1
  <2> HIDE DEF name0
  <2>3. QED BY <1>1, <1>6, <1>7, <1>8, <1>9, <2>1, <2>2 DEF Moving
<1>13. Merged'
  BY <1>1 DEF Merged
<1>14. QED BY <1>10, <1>11, <1>12, <1>13 DEF Content

(* The results of a projection land in its bank. *)
LEMMA CommitHolds ==
    ASSUME CInv, Content, CommitAndCopy
    PROVE  Content'
<1> DEFINE m == sent.matrix
           b1 == With(bank, "scratch", m)
           b2 == With(b1, Destination, m)
<1>1. /\ Control /\ Domains /\ Held /\ Moving /\ Overlapped /\ at = "region" /\ at \notin Idle
      /\ "waves" \in done /\ (RidingOp # Nothing => "vector" \in done)
      /\ bank' = b2 /\ kind' = (IF kind = 6 THEN 0 ELSE kind + 1)
      /\ at' = (IF kind = 6 THEN "close" ELSE "step")
      /\ UNCHANGED <<build, req, block, scale, kv, output, sent>>
  BY PlacesApart DEF CInv, Content, CommitAndCopy, RegionStep, InRegion
<1>2. Tokens \in 1..Rows /\ Active = 0..(Tokens - 1) /\ kind \in 0..6
  BY <1>1, WorkFacts DEF Control, Kinds
<1>3. m = Projected(kind, Source(kind))
  BY <1>1 DEF Moving
<1>4. DOMAIN m = Active /\ [t \in Active |-> m[t]] = m
  <2> DEFINE f == Source(kind)
  <2>1. f = [t \in Active |-> f[t]]
    BY TermRows
  <2>2. m = Projected(kind, f)
    BY <1>3
  <2> HIDE DEF f, m
  <2>3. m = [t \in Active |-> Project(kind, f[t], ScaleOf(f))]
    BY <2>1, <2>2, Terms
  <2>4. QED BY <2>3
<1> HIDE DEF m, b1, b2
<1>5. Destination \in {"hidden1", "key", "value", "gate", "scratch", "up"}
  BY <1>2 DEF Destination
<1>6. /\ Destination \in DOMAIN bank /\ "scratch" \in DOMAIN bank
  BY <1>1, <1>5, BankNames
<1>7. /\ DOMAIN b2 = DOMAIN bank
      /\ Of(b2, Destination, Tokens) = m
      /\ \A other \in DOMAIN bank : \A n : other # "scratch" /\ other # Destination =>
           Of(b2, other, n) = Of(bank, other, n)
  <2>1. 0..(Tokens - 1) \subseteq DOMAIN m /\ [t \in 0..(Tokens - 1) |-> m[t]] = m
    BY <1>2, <1>4
  <2>2. /\ DOMAIN b1 = DOMAIN bank
        /\ \A other \in DOMAIN bank : \A n : other # "scratch" => Of(b1, other, n) = Of(bank, other, n)
    BY <1>6, Writes DEF b1
  <2>3. /\ DOMAIN b2 = DOMAIN b1
        /\ \A n \in 1..Rows : 0..(n - 1) \subseteq DOMAIN m =>
             Of(b2, Destination, n) = [t \in 0..(n - 1) |-> m[t]]
        /\ \A other \in DOMAIN b1 : \A n : other # Destination => Of(b2, other, n) = Of(b1, other, n)
    BY <1>6, <2>2, Writes DEF b2
  <2>4. Of(b2, Destination, Tokens) = m
    BY <1>2, <2>1, <2>3
  <2>5. QED BY <2>2, <2>3, <2>4
<1>8. /\ \A name \in {"residual", "hidden0", "hidden1", "key", "gate", "up"} :
           name # Destination => Valid(name)' = Valid(name)
      /\ \A name \in {"next_source", "next_normalized"} : NextValid(name)' = NextValid(name)
      /\ Valid(Destination)' = Of(bank', Destination', Tokens)
  <2>1. \A name \in {"residual", "hidden0", "hidden1", "key", "gate", "up", "next_source",
                     "next_normalized"} : name \in DOMAIN bank /\ name # "scratch"
    BY <1>1, BankNames
  <2>2. \A name \in {"next_source", "next_normalized"} : name # Destination
    BY <1>5
  <2>3. Valid(Destination)' = Of(bank', Destination', Tokens)
    BY <1>1, SameBlock DEF Valid, Of, Active
  <2>4. QED BY <1>1, <1>7, <2>1, <2>2, <2>3, RowsAfter, RowsOfBlock
<1>9. /\ X' = X /\ Norm0' = Norm0 /\ Residual' = Residual /\ Gate' = Gate /\ Up' = Up
      /\ Silus' = Silus /\ Attended' = Attended /\ Down' = Down /\ Norm1' = Norm1
      /\ Inputs(req, block + 1)' = Inputs(req, block + 1)
      /\ Silu' = Silu /\ HasNext' = HasNext
  BY <1>1, SameBlock, SameTerms
<1>10. \A name : name = Destination => Valid(name)' = m
  <2>1. \A name : Valid(name)' = Of(bank', name, Tokens)
    BY <1>1, RowsAfter
  <2>2. QED BY <1>1, <1>7, <2>1
<1>11. Domains' /\ Merged'
  BY <1>1, <1>7 DEF Domains, Merged
<1>12. Moving'
  <2>1. CASE kind # 6
    BY <1>1, <2>1 DEF Moving
  <2>2. CASE kind = 6
    <3>1. HasNext => NextValid("next_source") = Inputs(req, block + 1)
                      /\ NextValid("next_normalized") = Normed(0, Inputs(req, block + 1))
      <4>1. HasNext => "vector" \in done
        BY <1>1, <2>2, RidingFacts, NothingAssumption
      <4>2. QED BY <1>1, <2>2, <4>1 DEF Moving
    <3>2. at' = "close"
      BY <1>1, <2>2
    <3>3. QED BY <1>8, <1>9, <3>1, <3>2 DEF Moving
  <2>3. QED BY <2>1, <2>2
<1>13. Held'
  <2>1. kind' = kind + 1 \/ kind = 6
    BY <1>1
  <2>2. CASE kind = 0
    <3>1. Destination = "hidden1" /\ Source(kind) = Norm0 /\ SourceBank(kind) = "hidden0"
      BY <2>2 DEF Destination, Source, SourceBank
    <3>2. kind' = 1 /\ at' = "step"
      BY <1>1, <2>2
    <3>3. Valid("hidden1")' = Projected(0, Norm0)
      BY <1>3, <1>10, <2>2, <3>1
    <3>4. /\ Valid("residual")' = X /\ Valid("hidden0")' = Norm0 /\ scale' = ScaleOf(Norm0)
      BY <1>1, <1>8, <2>2, <3>1 DEF Held
    <3>5. Valid(SourceBank(kind))' = Valid("hidden0")' /\ Source(kind)' = Norm0'
      BY <3>2 DEF SourceBank, Source, Valid
    <3>6. Projected(0, Norm0)' = Projected(0, Norm0)
      BY <1>9
    <3>7. QED BY <1>9, <3>2, <3>3, <3>4, <3>5, <3>6 DEF Held
  <2>3. CASE kind = 1
    <3>1. Destination = "key" /\ Source(kind) = Norm0 /\ SourceBank(kind) = "hidden0"
      BY <2>3 DEF Destination, Source, SourceBank
    <3>2. kind' = 2 /\ at' = "step"
      BY <1>1, <2>3
    <3>3. Valid("key")' = Projected(1, Norm0)
      BY <1>3, <1>10, <2>3, <3>1
    <3>4. /\ Valid("residual")' = X /\ Valid("hidden0")' = Norm0 /\ scale' = ScaleOf(Norm0)
          /\ Valid("hidden1")' = Projected(0, Norm0)
      BY <1>1, <1>8, <2>3, <3>1 DEF Held
    <3>5. Valid(SourceBank(kind))' = Valid("hidden0")' /\ Source(kind)' = Norm0'
      BY <3>2 DEF SourceBank, Source, Valid
    <3>6. Projected(0, Norm0)' = Projected(0, Norm0) /\ Projected(1, Norm0)' = Projected(1, Norm0)
      BY <1>9
    <3>7. QED BY <1>9, <3>2, <3>3, <3>4, <3>5, <3>6 DEF Held
  <2>4. CASE kind = 2
    <3>1. Destination = "value" /\ Source(kind) = Norm0
      BY <2>4 DEF Destination, Source
    <3>2. kind' = 3 /\ at' = "step"
      BY <1>1, <2>4
    <3>3. Valid("value")' = Projected(2, Norm0)
      BY <1>3, <1>10, <2>4, <3>1
    <3>4. /\ Valid("residual")' = X /\ Valid("hidden1")' = Projected(0, Norm0)
          /\ Valid("key")' = Projected(1, Norm0)
      BY <1>1, <1>8, <2>4, <3>1 DEF Held
    <3>5. /\ Projected(0, Norm0)' = Projected(0, Norm0) /\ Projected(1, Norm0)' = Projected(1, Norm0)
          /\ Projected(2, Norm0)' = Projected(2, Norm0)
      BY <1>9
    <3>6. QED BY <1>9, <3>2, <3>3, <3>4, <3>5 DEF Held
  <2>5. CASE kind = 3
    <3>1. Destination = "hidden1" /\ Source(kind) = Contexts
      BY <2>5 DEF Destination, Source
    <3>2. kind' = 4 /\ at' = "step"
      BY <1>1, <2>5
    <3>3. Valid("hidden1")' = Attended
      BY <1>3, <1>10, <2>5, <3>1 DEF Attended
    <3>4. Valid("residual")' = X
      BY <1>1, <1>8, <2>5, <3>1 DEF Held
    <3>5. QED BY <1>9, <3>2, <3>3, <3>4 DEF Held
  <2>6. CASE kind = 4
    <3>1. Destination = "gate" /\ Source(kind) = Norm1 /\ SourceBank(kind) = "hidden0"
      BY <2>6 DEF Destination, Source, SourceBank
    <3>2. kind' = 5 /\ at' = "step"
      BY <1>1, <2>6
    <3>3. Valid("gate")' = Gate
      BY <1>3, <1>10, <2>6, <3>1 DEF Gate
    <3>4. Valid("residual")' = Residual /\ Valid("hidden0")' = Norm1 /\ scale' = ScaleOf(Norm1)
      BY <1>1, <1>8, <2>6, <3>1 DEF Held
    <3>5. Valid(SourceBank(kind))' = Valid("hidden0")' /\ Source(kind)' = Norm1'
      BY <3>2 DEF SourceBank, Source, Valid
    <3>6. QED BY <1>9, <3>2, <3>3, <3>4, <3>5 DEF Held
  <2>7. CASE kind = 5
    <3>1. Destination = (IF Silu THEN "scratch" ELSE "up") /\ Source(kind) = Norm1
      BY <2>7 DEF Destination, Source
    <3>2. kind' = 6 /\ at' = "step"
      BY <1>1, <2>7
    <3>3. Silu => Valid("scratch")' = Up /\ Valid("up")' = Silus
      <4>1. ASSUME Silu PROVE Valid("scratch")' = Up /\ Valid("up")' = Silus
        <5>1. "vector" \in done
          BY <1>1, <2>7, <4>1, RidingFacts, NothingAssumption
        <5>2. Valid("up") = Silus
          BY <1>1, <2>7, <4>1, <5>1 DEF Moving
        <5>3. Valid("up")' = Valid("up")
          BY <1>8, <3>1, <4>1
        <5>4. Valid("scratch")' = Up
          BY <1>3, <1>10, <2>7, <3>1, <4>1 DEF Up
        <5>5. QED BY <5>2, <5>3, <5>4
      <4>2. QED BY <4>1
    <3>4. ~Silu => Valid("up")' = Up
      BY <1>3, <1>10, <2>7, <3>1 DEF Up
    <3>5. Valid("residual")' = Residual /\ Valid("gate")' = Gate
      <4>1. "residual" # Destination /\ "gate" # Destination
        BY <3>1
      <4>2. QED BY <1>1, <1>8, <2>7, <4>1 DEF Held
    <3>6. QED BY <1>9, <3>2, <3>3, <3>4, <3>5 DEF Held
  <2>8. CASE kind = 6
    <3>1. Destination = "hidden1" /\ Source(kind) = Products
      BY <2>8 DEF Destination, Source
    <3>2. kind' = 0 /\ at' = "close"
      BY <1>1, <2>8
    <3>3. Valid("hidden1")' = Down
      BY <1>3, <1>10, <2>8, <3>1 DEF Down
    <3>4. Valid("residual")' = Residual
      BY <1>1, <1>8, <2>8, <3>1 DEF Held
    <3>5. QED BY <1>9, <3>2, <3>3, <3>4 DEF Held
  <2>9. QED BY <1>2, <2>2, <2>3, <2>4, <2>5, <2>6, <2>7, <2>8
<1>14. QED BY <1>11, <1>12, <1>13 DEF Content

(* The block closes: the lookahead becomes the rows of the next. *)
LEMMA CloseHolds ==
    ASSUME CInv, Content, CloseBlock
    PROVE  Content'
<1> DEFINE rows == [t \in Active |-> Binary("RESIDUAL_ADD", bank["residual"][t], bank["hidden1"][t])]
           last == block + 1 = BlockCount(req)
           b1 == With(bank, "residual", rows)
<1>1. /\ Control /\ Domains /\ Held /\ Moving /\ at = "close" /\ at \notin Idle
      /\ bank' = b1 /\ UNCHANGED <<build, kind, scale, sent, kv>> /\ DOMAIN output' = DOMAIN output
      /\ (last => at' \in Idle)
      /\ (~last => at' = "open" /\ req' = req /\ block' = block + 1)
  BY PlacesApart DEF CInv, Content, CloseBlock, Idle
<1> HIDE DEF rows, b1
<1>2. DOMAIN b1 = DOMAIN bank
      /\ \A other \in DOMAIN bank : \A n : other # "residual" => Of(b1, other, n) = Of(bank, other, n)
  <2>1. "residual" \in DOMAIN bank
    BY <1>1, BankNames
  <2>2. QED BY <2>1, Writes DEF b1
<1>3. Domains'
  BY <1>1, <1>2 DEF Domains
<1>4. CASE last
  <2>1. Held' /\ Moving' /\ Merged'
    BY <1>1, <1>4 DEF Held, Moving, Merged, Idle
  <2>2. QED BY <1>3, <2>1 DEF Content
<1>5. CASE ~last
  <2>1. at' = "open" /\ req' = req /\ block' = block + 1
    BY <1>1, <1>5
  <2>2. block \in Nat /\ block < BlockCount(req) /\ BlockCount(req) \in Nat
    BY <1>1, WorkFacts
  <2>3. Prepared' <=> HasNext
    <3>1. block + 1 < BlockCount(req) /\ block + 1 # 0
      BY <1>5, <2>2
    <3>2. QED BY <1>1, <2>1, <3>1 DEF Prepared, HasNext
  <2>4. /\ Valid("next_source")' = NextValid("next_source")
        /\ Valid("next_normalized")' = NextValid("next_normalized")
    <3>1. Active' = 0..(NextTokens - 1)
      BY <2>1 DEF Active, Tokens, NextTokens
    <3>2. \A name : Valid(name)' = Of(bank', name, NextTokens)
      BY <3>1 DEF Valid, Of
    <3>3. "next_source" \in DOMAIN bank /\ "next_normalized" \in DOMAIN bank
      BY <1>1, BankNames
    <3>4. QED BY <1>1, <1>2, <3>2, <3>3, RowsOfBlock
  <2>5. X' = Inputs(req, block + 1) /\ Norm0' = Normed(0, Inputs(req, block + 1))
    BY <2>1 DEF X, Norm0
  <2>6. HasNext => /\ NextValid("next_source") = Inputs(req, block + 1)
                   /\ NextValid("next_normalized") = Normed(0, Inputs(req, block + 1))
    BY <1>1 DEF Moving
  <2>7. Held'
    BY <2>1, <2>3, <2>4, <2>5, <2>6 DEF Held
  <2>8. Moving' /\ Merged'
    BY <2>1 DEF Moving, Merged
  <2>9. QED BY <1>3, <2>7, <2>8 DEF Content
<1>6. QED BY <1>4, <1>5

(* A request starts with nothing prepared. *)
LEMMA RunHolds ==
    ASSUME Content, RunDecode \/ \E n \in 1..MaxPrompt : RunPrefill(n)
    PROVE  Content'
<1>1. /\ at' = "open" /\ block' = 0 /\ UNCHANGED <<bank, sent, kv, output>>
  BY DEF RunDecode, RunPrefill, RunRequest
<1>2. ~Prepared'
  BY <1>1 DEF Prepared
<1>3. Domains'
  BY <1>1 DEF Content, Domains
<1>4. Held' /\ Moving' /\ Merged'
  BY <1>1, <1>2 DEF Held, Moving, Merged
<1>5. QED BY <1>3, <1>4 DEF Content

(* The terms of the banks hold in every state. *)
LEMMA ContentInvariant == Spec => [](CInv /\ Content)
<1>1. Init => Content
  <2> SUFFICES ASSUME Init PROVE Content
    OBVIOUS
  <2>1. at = "start"
    BY DEF Init
  <2>2. Domains
    BY DEF Init, Domains
  <2>3. Held /\ Moving /\ Merged
    BY <2>1 DEF Held, Moving, Merged
  <2>4. QED BY <2>2, <2>3 DEF Content
<1>2. CInv /\ Content /\ [Next]_layerVars => Content'
  <2> SUFFICES ASSUME CInv, Content, [Next]_layerVars PROVE Content'
    OBVIOUS
  <2>1. CASE UNCHANGED layerVars
    <3>1. UNCHANGED <<build, req, block, at, kind, bank, scale, sent, done, att, kv, output>>
      BY <2>1 DEF layerVars
    <3>2. Domains'
      BY <3>1 DEF Content, Domains
    <3>3. /\ \A name : Valid(name)' = Valid(name)
          /\ \A name : NextValid(name)' = NextValid(name)
      BY <3>1, RowsAfter, RowsOfBlock
    <3>4. /\ X' = X /\ Norm0' = Norm0 /\ Queries' = Queries
          /\ Inputs(req, block + 1)' = Inputs(req, block + 1)
          /\ \A n : TilesUpTo(n)' = TilesUpTo(n)
          /\ Attended' = Attended /\ Residual' = Residual /\ Gate' = Gate /\ Up' = Up
          /\ Silus' = Silus /\ Down' = Down /\ \A k : Source(k)' = Source(k)
      BY <3>1, SameTerms
    <3>5. Prepared' = Prepared /\ HasNext' = HasNext /\ Silu' = Silu
      BY <3>1, SameBlock
    <3>6. Source(kind)' = Source(kind) /\ Valid(SourceBank(kind))' = Valid(SourceBank(kind))
      BY <3>1, <3>3, <3>4 DEF SourceBank, Source, Valid
    <3>7. Held'
      BY <3>1, <3>3, <3>4, <3>5, <3>6 DEF Content, Held
    <3>8. Moving'
      <4>1. Projected(kind, Source(kind))' = Projected(kind, Source(kind))
        BY <3>1, <3>6
      <4>2. Normed(0, Inputs(req, block + 1))' = Normed(0, Inputs(req, block + 1))
        BY <3>4
      <4>3. QED BY <3>1, <3>3, <3>4, <3>5, <4>1, <4>2 DEF Content, Moving
    <3>9. Merged'
      BY <3>1, <3>4 DEF Content, Merged, TilesUpTo
    <3>10. QED BY <3>2, <3>7, <3>8, <3>9 DEF Content
  <2>2. CASE Next
    BY <2>2, RunHolds, LoadHolds, AdoptHolds, GoOnHolds, AppendHolds, AttendHolds,
       FinishHolds, NormalizeHolds, MultiplyHolds, IssueHolds, DriveHolds, EmitHolds,
       CollectHolds, CommitHolds, CloseHolds DEF Next, Region
  <2>3. QED BY <2>1, <2>2
<1>3. QED BY <1>1, <1>2, CountInvariant, PTL DEF Spec

-----------------------------------------------------------------------------
(* The steps of the controller, as steps of the abstract layer. *)

(* Whether the block's entries are in the cache. *)
Appended ==
    req # Nothing /\ (kind > 3 \/ at = "close" \/ (kind = 3 /\ at \in {"attend", "region"}))

(* The abstract layer speaks of the same blocks. *)
LEMMA SameBlocks ==
    /\ \A r, b : Abstract!BlockTokens(r, b) = BlockTokens(r, b)
    /\ \A r, b : Abstract!BlockBegin(r, b) = BlockBegin(r, b)
    /\ \A r, b : Abstract!BlockPosition(r, b) = BlockPosition(r, b)
    /\ \A r : Abstract!BlockCount(r) = BlockCount(r)
    /\ \A r, b : Abstract!InputBlock(r, b) = Inputs(r, b)
    /\ \A c : Abstract!Tiles(c) = Tiles(c)
<1>1. \A r : Abstract!BlockSize(r) = BlockSize(r)
  BY DEF Abstract!BlockSize, BlockSize
<1>2. \A r : Abstract!BlockCount(r) = BlockCount(r)
  BY <1>1 DEF Abstract!BlockCount, BlockCount, Abstract!CeilDiv, CeilDiv
<1>3. \A r, b : Abstract!BlockBegin(r, b) = BlockBegin(r, b)
  BY <1>1 DEF Abstract!BlockBegin, BlockBegin
<1>4. \A r, b : Abstract!BlockTokens(r, b) = BlockTokens(r, b)
  BY <1>1, <1>3 DEF Abstract!BlockTokens, BlockTokens, Abstract!AtMost, AtMost
<1>5. \A r, b : Abstract!BlockPosition(r, b) = BlockPosition(r, b)
  BY <1>3 DEF Abstract!BlockPosition, BlockPosition
<1>6. \A r, b : Abstract!InputBlock(r, b) = Inputs(r, b)
  BY <1>3, <1>4 DEF Abstract!InputBlock, Inputs, Abstract!Input, Input
<1>7. \A c : Abstract!Tiles(c) = Tiles(c)
  BY DEF Abstract!Tiles, Tiles, Abstract!CeilDiv, CeilDiv
<1>8. QED BY <1>2, <1>3, <1>4, <1>5, <1>6, <1>7

(* ... and of the same arithmetic. *)
LEMMA SameMath ==
    /\ \A n, f : Abstract!Projected(n, f) = Projected(n, f)
    /\ \A w, f : Abstract!Normed(w, f) = Normed(w, f)
    /\ \A p, f : Abstract!Rotated(p, f) = Rotated(p, f)
    /\ \A op, a, b : Abstract!Binary(op, a, b) = Binary(op, a, b)
    /\ \A op, a : Abstract!Unary(op, a) = Unary(op, a)
    /\ \A t, p, q, c : Abstract!Attend(t, p, q, c) = Attend(t, p, q, c)
    /\ \A c, b, e : Abstract!TileOf(c, b, e) = TileOf(c, b, e)
<1>1. \A n, f : Abstract!Projected(n, f) = Projected(n, f)
  BY DEF Abstract!Projected, Projected, Abstract!EachRow, EachRow, Abstract!Project, Project,
         Abstract!ScaleOf, ScaleOf
<1>2. \A w, f : Abstract!Normed(w, f) = Normed(w, f)
  BY DEF Abstract!Normed, Normed, Abstract!EachRow, EachRow, Abstract!Norm, Norm,
         Abstract!NormWeight, NormWeight
<1>3. \A p, f : Abstract!Rotated(p, f) = Rotated(p, f)
  BY DEF Abstract!Rotated, Rotated, Abstract!Rope, Rope
<1>4. /\ \A op, a, b : Abstract!Binary(op, a, b) = Binary(op, a, b)
      /\ \A op, a : Abstract!Unary(op, a) = Unary(op, a)
      /\ \A t, p, q, c : Abstract!Attend(t, p, q, c) = Attend(t, p, q, c)
      /\ \A c, b, e : Abstract!TileOf(c, b, e) = TileOf(c, b, e)
  BY DEF Abstract!Binary, Binary, Abstract!Unary, Unary, Abstract!Attend, Attend,
         Abstract!TileOf, TileOf
<1>5. QED BY <1>1, <1>2, <1>3, <1>4

(* The position of a block, as the controller and the request tell it. *)
LEMMA PositionOfBlock ==
    Position = BlockPosition(req, block) /\ Context = BlockPosition(req, block) + Tokens
BY DEF Position, Context

(* The tiles of the cache a block attends to. *)
LEMMA SameTiles ==
    Abstract!TilesOf(kv, BlockPosition(req, block) + BlockTokens(req, block))
      = TilesUpTo(Tiles(Context))
<1>1. BlockPosition(req, block) + BlockTokens(req, block) = Context
  BY DEF Context, Position, Tokens
<1>2. Abstract!TilesOf(kv, Context)
        = [i \in 1..Abstract!Tiles(Context) |->
             Abstract!TileOf(kv, (i - 1) * PositionTile,
                             Abstract!AtMost(i * PositionTile, Context))]
  BY DEF Abstract!TilesOf
<1>3. \A a, b : Abstract!AtMost(a, b) = AtMost(a, b)
  BY DEF Abstract!AtMost, AtMost
<1>4. Abstract!TilesOf(kv, Context) = TilesUpTo(Tiles(Context))
  BY <1>2, <1>3, SameBlocks, SameMath DEF TilesUpTo
<1>5. QED BY <1>1, <1>4

(* What the abstract layer appends for a block. *)
LEMMA EntriesOfBlock ==
    Abstract!Entries(Position, X)
      = [t \in Active |-> [k |-> Rotated(Position, Projected(1, Norm0))[t],
                           v |-> Projected(2, Norm0)[t]]]
<1>1. DOMAIN X = Active
  BY Terms
<1>2. Abstract!Entries(Position, X)
        = [t \in DOMAIN X |->
             [k |-> Abstract!Rotated(Position, Abstract!Projected(1, Abstract!Normed(0, X)))[t],
              v |-> Abstract!Projected(2, Abstract!Normed(0, X))[t]]]
  BY DEF Abstract!Entries
<1>3. /\ Abstract!Rotated(Position, Abstract!Projected(1, Abstract!Normed(0, X)))
           = Rotated(Position, Projected(1, Norm0))
      /\ Abstract!Projected(2, Abstract!Normed(0, X)) = Projected(2, Norm0)
  BY SameMath DEF Norm0
<1>4. QED BY <1>1, <1>2, <1>3

(* What the abstract layer emits for a block. *)
LEMMA RowsEmitted ==
    Abstract!LayerBlock(Position, X, TilesUpTo(Tiles(Context)))
      = [t \in Active |-> Binary("RESIDUAL_ADD", Residual[t], Down[t])]
<1> DEFINE tiles == TilesUpTo(Tiles(Context))
           queries == Abstract!Rotated(Position, Abstract!Projected(0, Abstract!Normed(0, X)))
           context == [t \in DOMAIN X |-> Abstract!Attend(t, Position, queries, {tiles})]
           attended == Abstract!Projected(3, context)
           h == [t \in DOMAIN X |-> Abstract!Binary("RESIDUAL_ADD", X[t], attended[t])]
           normed == Abstract!Normed(1, h)
           gate == Abstract!Projected(4, normed)
           up == Abstract!Projected(5, normed)
           product == [t \in DOMAIN X |->
                         Abstract!Binary("MUL", Abstract!Unary("SILU", gate[t]), up[t])]
           down == Abstract!Projected(6, product)
<1>1. Abstract!LayerBlock(Position, X, tiles)
        = [t \in DOMAIN X |-> Abstract!Binary("RESIDUAL_ADD", h[t], down[t])]
  BY DEF Abstract!LayerBlock
<1>2. DOMAIN X = Active
  BY Terms
<1>3. queries = Queries
  BY SameMath DEF Queries, Norm0
<1>4. context = Contexts
  <2> HIDE DEF queries, tiles
  <2>1. context = [t \in Active |-> Attend(t, Position, Queries, {tiles})]
    BY <1>2, <1>3, SameMath
  <2>2. QED BY <2>1 DEF Contexts, tiles
<1> HIDE DEF context
<1>5. attended = Attended
  BY <1>4, SameMath DEF Attended
<1> HIDE DEF attended
<1>6. h = Residual
  BY <1>2, <1>5, SameMath DEF Residual
<1> HIDE DEF h
<1>7. normed = Norm1
  BY <1>6, SameMath DEF Norm1
<1> HIDE DEF normed
<1>8. gate = Gate /\ up = Up
  BY <1>7, SameMath DEF Gate, Up
<1> HIDE DEF gate, up
<1>9. product = Products
  <2>1. product = [t \in Active |-> Binary("MUL", Unary("SILU", Gate[t]), Up[t])]
    BY <1>2, <1>8, SameMath
  <2>2. \A t \in Active : Silus[t] = Unary("SILU", Gate[t])
    BY DEF Silus
  <2> HIDE DEF product
  <2>3. QED BY <2>1, <2>2 DEF Products
<1> HIDE DEF product
<1>10. down = Down
  BY <1>9, SameMath DEF Down
<1> HIDE DEF down, tiles
<1>11. Abstract!LayerBlock(Position, X, tiles)
         = [t \in Active |-> Binary("RESIDUAL_ADD", Residual[t], Down[t])]
  BY <1>1, <1>2, <1>6, <1>10, SameMath
<1>12. QED BY <1>11 DEF tiles

(* A request begins. *)
LEMMA RequestBegins ==
    ASSUME Control, RunDecode \/ \E n \in 1..MaxPrompt : RunPrefill(n)
    PROVE  \E r \in Requests : Abstract!Begin(r)
<1>1. ASSUME NEW r \in Requests, at \in Idle, r.position = filled, RunRequest(r)
      PROVE  Abstract!Begin(r)
  <2>1. /\ req = Nothing /\ kind = 0
        /\ req' = r /\ block' = 0 /\ at' = "open" /\ kind' = 0 /\ UNCHANGED <<filled, kv, output>>
    BY <1>1 DEF Control, RunRequest
  <2>2. Appended' = FALSE
    BY <2>1 DEF Appended
  <2>3. QED BY <1>1, <2>1, <2>2 DEF Abstract!Begin, Appended
<1>2. CASE RunDecode
  <2> DEFINE r == Request(TRUE, 1, filled, build.blockSize)
  <2>1. at \in Idle /\ filled \in 1..MaxPrompt /\ build.blockSize \in 1..Rows /\ RunRequest(r)
    BY <1>2 DEF RunDecode, Control, Idle
  <2>2. r \in Requests
    <3>1. filled \in 0..MaxPrompt /\ 1 \in 1..MaxPrompt
      BY <2>1, Sizes
    <3>2. QED BY <2>1, <3>1 DEF Request, Requests
  <2>3. r.position = filled
    BY DEF Request
  <2>4. QED BY <1>1, <2>1, <2>2, <2>3
<1>3. CASE \E n \in 1..MaxPrompt : RunPrefill(n)
  <2>1. PICK n \in 1..MaxPrompt : RunPrefill(n)
    BY <1>3
  <2> DEFINE r == Request(FALSE, n, 0, build.blockSize)
  <2>2. at \in Idle /\ filled = 0 /\ build.blockSize \in 1..Rows /\ RunRequest(r)
    BY <2>1 DEF RunPrefill, Control, Idle
  <2>3. r \in Requests
    <3>1. 0 \in 0..MaxPrompt
      BY Sizes
    <3>2. QED BY <2>2, <3>1 DEF Request, Requests
  <2>4. r.position = filled
    BY <2>2 DEF Request
  <2>5. QED BY <1>1, <2>2, <2>3, <2>4
<1>4. QED BY <1>2, <1>3

(* The rotated keys and the values of the block go to the cache. *)
LEMMA BlockAppended ==
    ASSUME CInv, Content, AppendToCache
    PROVE  Abstract!AppendBlock
<1> DEFINE k == [t \in Active |-> Rope(Position + t, bank["key"][t])]
           entries == Abstract!Entries(Position, X)
<1>1. /\ Control /\ Held /\ at = "step" /\ at \notin Idle /\ kind = 3
      /\ at' = "attend" /\ kind' = 3 /\ UNCHANGED <<req, block, filled, output>>
      /\ kv' = [p \in DOMAIN kv |->
                  IF p >= Position /\ p - Position \in Active
                  THEN [k |-> k[p - Position], v |-> bank["value"][p - Position]]
                  ELSE kv[p]]
  BY PlacesApart DEF CInv, Content, AppendToCache
<1>2. req \in Requests
  BY <1>1, WorkFacts
<1>3. ~Appended /\ Appended' /\ req # Nothing
  BY <1>1, <1>2, NothingAssumption DEF Appended
<1>4. Valid("key") = Projected(1, Norm0) /\ Valid("value") = Projected(2, Norm0)
  BY <1>1 DEF Held
<1>5. \A t \in Active : /\ k[t] = Rotated(Position, Projected(1, Norm0))[t]
                        /\ bank["value"][t] = Projected(2, Norm0)[t]
  <2>1. \A t \in Active : /\ bank["key"][t] = Projected(1, Norm0)[t]
                          /\ bank["value"][t] = Projected(2, Norm0)[t]
    BY <1>4, RowsOfBlock
  <2> DEFINE f == Projected(1, Norm0)
  <2>2. f = [t \in Active |-> f[t]]
    BY TermRows, Terms
  <2> HIDE DEF f
  <2>3. Rotated(Position, f) = [t \in Active |-> Rope(Position + t, f[t])]
    BY <2>2, Terms
  <2>4. \A t \in Active : bank["key"][t] = f[t]
    BY <2>1 DEF f
  <2>5. \A t \in Active : k[t] = Rotated(Position, f)[t]
    BY <2>3, <2>4
  <2>6. QED BY <2>1, <2>5 DEF f
<1>6. /\ DOMAIN entries = Active
      /\ \A t \in Active : entries[t] = [k |-> k[t], v |-> bank["value"][t]]
  <2> DEFINE rotated == Rotated(Position, Projected(1, Norm0))
             projected == Projected(2, Norm0)
  <2>1. entries = [t \in Active |-> [k |-> rotated[t], v |-> projected[t]]]
    BY EntriesOfBlock
  <2>2. \A t \in Active : k[t] = rotated[t] /\ bank["value"][t] = projected[t]
    BY <1>5
  <2> HIDE DEF entries, k, rotated, projected
  <2>3. QED BY <2>1, <2>2
<1> HIDE DEF entries, k
<1>7. kv' = [p \in DOMAIN kv |->
               IF p - Position \in DOMAIN entries /\ p >= Position
               THEN entries[p - Position] ELSE kv[p]]
  BY <1>1, <1>6
<1>8. /\ Abstract!BlockPosition(req, block) = Position
      /\ Abstract!Entries(Abstract!BlockPosition(req, block), Abstract!InputBlock(req, block))
           = entries
  BY SameBlocks, PositionOfBlock DEF entries, X
<1>9. QED BY <1>1, <1>3, <1>7, <1>8 DEF Abstract!AppendBlock, Appended

(* The rows of the residual and the Down projection are the block's rows. *)
LEMMA BlockEmitted ==
    ASSUME CInv, Content, CloseBlock
    PROVE  Abstract!EmitBlock
<1> DEFINE rows == [t \in Active |->
                      Binary("RESIDUAL_ADD", bank["residual"][t], bank["hidden1"][t])]
           emitted == Abstract!LayerBlock(Position, X, TilesUpTo(Tiles(Context)))
           last == block + 1 = BlockCount(req)
<1>1. /\ Control /\ Held /\ at = "close" /\ at \notin Idle /\ kind = 0
      /\ kind' = kind /\ kv' = kv
      /\ output' = [row \in DOMAIN output |->
                      IF row >= Begin /\ row - Begin \in Active
                      THEN rows[row - Begin] ELSE output[row]]
      /\ req' = (IF last THEN Nothing ELSE req)
      /\ block' = (IF last THEN 0 ELSE block + 1)
      /\ filled' = (IF last THEN req.position + req.tokens ELSE filled)
      /\ at' \in {"open", "finished", "prefilled"}
  BY PlacesApart DEF CInv, Content, CloseBlock, Control
<1>2. req \in Requests
  BY <1>1, WorkFacts
<1>3. Appended /\ ~Appended' /\ req # Nothing
  BY <1>1, <1>2, NothingAssumption DEF Appended
<1>4. emitted = rows /\ DOMAIN rows = Active
  <2>1. Valid("residual") = Residual /\ Valid("hidden1") = Down
    BY <1>1 DEF Held
  <2>2. \A t \in Active : bank["residual"][t] = Residual[t] /\ bank["hidden1"][t] = Down[t]
    BY <2>1, RowsOfBlock
  <2>3. QED BY <2>2, RowsEmitted
<1> HIDE DEF rows, emitted
<1>5. output' = [row \in DOMAIN output |->
                   IF row >= BlockBegin(req, block) /\ row - BlockBegin(req, block) \in DOMAIN emitted
                   THEN emitted[row - BlockBegin(req, block)] ELSE output[row]]
  BY <1>1, <1>4 DEF Begin
<1>6. Abstract!LayerBlock(Abstract!BlockPosition(req, block), Abstract!InputBlock(req, block),
        Abstract!TilesOf(kv, Abstract!BlockPosition(req, block) + Abstract!BlockTokens(req, block)))
          = emitted
  BY SameBlocks, SameTiles, PositionOfBlock DEF emitted, X
<1>7. Abstract!BlockBegin(req, block) = BlockBegin(req, block)
      /\ Abstract!BlockCount(req) = BlockCount(req)
  BY SameBlocks
<1>8. QED BY <1>1, <1>3, <1>5, <1>6, <1>7 DEF Abstract!EmitBlock, Appended

(* No other step shows in the abstract layer. *)
LEMMA RestUnseen ==
    ASSUME Control, Next, ~(\E n \in 1..MaxPrompt : RunPrefill(n)), ~RunDecode,
           ~AppendToCache, ~CloseBlock
    PROVE  UNCHANGED <<req, block, filled, kv, output>> /\ Appended' = Appended
<1>1. CASE LoadBlock \/ AdoptPrepared
  <2>1. /\ at = "open" /\ at' = "step" /\ kind' = 0
        /\ UNCHANGED <<req, block, filled, kv, output>>
    BY <1>1 DEF LoadBlock, AdoptPrepared, Opened
  <2>2. kind = 0
    BY <2>1 DEF Control
  <2>3. QED BY <2>1, <2>2 DEF Appended
<1>2. CASE GoOn
  <2>1. /\ at = "step" /\ at' = "region" /\ kind' = kind /\ kind \in {0, 1, 2, 5}
        /\ UNCHANGED <<req, block, filled, kv, output>>
    BY <1>2 DEF GoOn, ToRegion
  <2>2. QED BY <2>1 DEF Appended
<1>3. CASE AttendWave
  <2>1. at = "attend" /\ UNCHANGED <<at, kind, req, block, filled, kv, output>>
    BY <1>3 DEF AttendWave
  <2>2. QED BY <2>1 DEF Appended
<1>4. CASE FinishAttention
  <2>1. /\ at = "attend" /\ at' = "region" /\ kind' = kind
        /\ UNCHANGED <<req, block, filled, kv, output>>
    BY <1>4 DEF FinishAttention, ToRegion
  <2>2. kind = 3
    BY <2>1 DEF Control
  <2>3. QED BY <2>1, <2>2 DEF Appended
<1>5. CASE NormalizeFfn \/ Multiply
  <2>1. /\ at = "step" /\ at' = "region" /\ kind' = kind /\ kind \in {4, 6}
        /\ UNCHANGED <<req, block, filled, kv, output>>
    BY <1>5 DEF NormalizeFfn, Multiply, ToRegion
  <2>2. QED BY <2>1 DEF Appended
<1>6. CASE IssueRidingTasks \/ DriveWaves \/ EmitRidingOperands \/ CollectRiding
  <2>1. UNCHANGED <<at, kind, req, block, filled, kv, output>>
    BY <1>6 DEF IssueRidingTasks, DriveWaves, EmitRidingOperands, CollectRiding, RegionStep
  <2>2. QED BY <2>1 DEF Appended
<1>7. CASE CommitAndCopy
  <2>1. /\ at = "region" /\ at' = (IF kind = 6 THEN "close" ELSE "step")
        /\ kind' = (IF kind = 6 THEN 0 ELSE kind + 1)
        /\ UNCHANGED <<req, block, filled, kv, output>>
    BY <1>7 DEF CommitAndCopy, RegionStep, InRegion
  <2>2. kind \in 0..6
    BY DEF Control, Kinds
  <2>3. CASE kind = 6
    BY <2>1, <2>3 DEF Appended
  <2>4. CASE kind \in {3, 4, 5}
    <3>1. at' = "step" /\ kind' > 3 /\ (kind > 3 \/ kind = 3)
      BY <2>1, <2>4
    <3>2. QED BY <2>1, <3>1 DEF Appended
  <2>5. CASE kind \in {0, 1, 2}
    <3>1. at' = "step" /\ ~(kind' > 3) /\ ~(kind > 3) /\ kind # 3
      BY <2>1, <2>5
    <3>2. QED BY <2>1, <3>1 DEF Appended
  <2>6. QED BY <2>2, <2>3, <2>4, <2>5
<1>8. QED BY <1>1, <1>2, <1>3, <1>4, <1>5, <1>6, <1>7 DEF Next, Region

(***************************************************************************)
(* Whatever the build overlaps, however the processes of a region          *)
(* interleave: the controller's blocks are the abstract layer's.  A block  *)
(* appends the keys and values of its own rows before it attends, and      *)
(* emits the layer's function of its rows and of the cache up to its end.  *)
(***************************************************************************)
THEOREM BlocksAreTheLayers == Spec => ImplementsQuantizedBlocks
<1>1. Init => Abstract!Init
  BY DEF Init, Abstract!Init
<1>2. CInv /\ Content /\ [Next]_layerVars => [Abstract!Next]_Abstract!vars
  <2> SUFFICES ASSUME CInv, Content, [Next]_layerVars
               PROVE  Abstract!Next \/ UNCHANGED Abstract!vars
    OBVIOUS
  <2>1. Control
    BY DEF CInv
  <2>2. CASE UNCHANGED layerVars
    BY <2>2 DEF layerVars, Abstract!vars
  <2>3. CASE RunDecode \/ \E n \in 1..MaxPrompt : RunPrefill(n)
    BY <2>1, <2>3, RequestBegins DEF Abstract!Next
  <2>4. CASE AppendToCache
    BY <2>4, BlockAppended DEF Abstract!Next
  <2>5. CASE CloseBlock
    BY <2>5, BlockEmitted DEF Abstract!Next
  <2>6. CASE /\ Next /\ ~(\E n \in 1..MaxPrompt : RunPrefill(n)) /\ ~RunDecode
             /\ ~AppendToCache /\ ~CloseBlock
    <3>1. UNCHANGED <<req, block, filled, kv, output>> /\ Appended' = Appended
      BY <2>1, <2>6, RestUnseen
    <3>2. QED BY <3>1 DEF Abstract!vars, Appended
  <2>7. QED BY <2>2, <2>3, <2>4, <2>5, <2>6
<1>3. QED BY <1>1, <1>2, ContentInvariant, PTL
          DEF Spec, ImplementsQuantizedBlocks, Abstract!Spec
===============================================================================
