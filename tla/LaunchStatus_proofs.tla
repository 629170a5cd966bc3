------------------------- MODULE LaunchStatus_proofs -------------------------
(***************************************************************************)
(* The work of a launch, for every shape of the model, tile, row and       *)
(* packet size the build accepts and every set of launches: the services'  *)
(* static task bound suffices, resident launches stay within the budget,   *)
(* the counts are the work and reach the host, an accepted launch ran.     *)
(*                                                                         *)
(* The argument: the stages a launch still has to send are a suffix of     *)
(* Stages(request) (Queue); before each of them, a core has read and been  *)
(* sent no more tasks than Budget allows for the stages before it          *)
(* (Budgeted).  Budget is below MaxTasks until the last stage, so that a   *)
(* service always has room for all it is sent, and only the last stage     *)
(* ends it (Ending).  The packets counted are those of the matrix tasks    *)
(* and of the vector operations so far (Tally), at most five in a launch.  *)
(***************************************************************************)
EXTENDS LaunchStatus, SequenceTheorems, TLAPS

StageRecs ==
    {s \in [kind : {"stop", "project", "walk", "block", "vector"},
            n : Nat, last : BOOLEAN] : s.kind = "project" => s.n \in 0..6}
TaskRecs == [mm : Nat, vec : Nat, stop : Nat, packets : Nat]

-----------------------------------------------------------------------------
(* The tasks a core may be sent by the first k stages of a launch: a walk  *)
(* of one query token takes Slot, whatever its position.                   *)
Slot == CeilDiv(MaxSeq, BudgetTile) * (1 + PvWaves)

AttentionBudget(rows, k) ==
    IF k <= 0 THEN 0
    ELSE IF k = 1 THEN 1
    ELSE IF k = 2 THEN 1 + Waves[0]
    ELSE IF k = 3 THEN 1 + Waves[0] + Waves[1]
    ELSE IF k <= 4 + rows THEN 1 + Waves[0] + Waves[1] + Waves[2] + (k - 4) * Slot
    ELSE IF k = 5 + rows
         THEN 1 + Waves[0] + Waves[1] + Waves[2] + rows * Slot + Waves[3]
    ELSE 2 + Waves[0] + Waves[1] + Waves[2] + rows * Slot + Waves[3]

FfnBudget(k) ==
    IF k <= 0 THEN 0
    ELSE IF k = 1 THEN 1
    ELSE IF k = 2 THEN 1 + Waves[4]
    ELSE IF k = 3 THEN 1 + Waves[4] + Waves[5]
    ELSE IF k = 4 THEN 2 + Waves[4] + Waves[5]
    ELSE IF k = 5 THEN 2 + Waves[4] + Waves[5] + Waves[6]
    ELSE 3 + Waves[4] + Waves[5] + Waves[6]

Works(r) == StatusCode(r) = "OK" /\ r.op # "NOP"

Budget(r, k) ==
    IF ~Works(r) \/ r.op = "FINAL_NORM" THEN k
    ELSE IF r.op = "ATTN_PREFILL_BLOCK" THEN k * PrefillTasksPerCore(r)
    ELSE IF r.op = "FFN_SUBLAYER" THEN FfnBudget(k)
    ELSE IF r.op = "ATTENTION_SUBLAYER" THEN AttentionBudget(r.tokens, k)
    ELSE AttentionBudget(r.tokens, k) + FfnBudget(k - (6 + r.tokens))

-----------------------------------------------------------------------------
(* The inductive invariant. *)
Shape ==
    /\ phase \in {"idle", "running", "sent", "accepted", "thrown"}
    /\ request \in Requests
    /\ todo \in Seq(StageRecs)
    /\ stage \in StageRecs \cup {NoStage}
    /\ sent \in [Cores -> TaskRecs]
    /\ service \in [Cores -> [index : Nat, running : BOOLEAN, ended : BOOLEAN,
                              done : TaskRecs]]

(* The stages sent so far; the one at work is the last of them. *)
Emitted == Len(Stages(request)) - Len(todo)

Queue ==
    /\ phase # "idle" =>
         /\ Emitted >= 0
         /\ \A i \in 1..Len(todo) : todo[i] = Stages(request)[Emitted + i]
         /\ stage # NoStage => Emitted >= 1 /\ stage = Stages(request)[Emitted]
    /\ phase # "running" => todo = << >> /\ stage = NoStage

Dispatched ==
    \A c \in Cores :
        \/ sent[c] = NoTasks
        \/ stage # NoStage /\ sent[c] = CoreTasks(stage, c, request.tokens)

Budgeted ==
    \A c \in Cores :
        IF phase = "idle" THEN service[c].index = 0
        ELSE service[c].index + Count(sent[c]) <= Budget(request, Emitted)

Ending == \A c \in Cores : service[c].running \/ service[c].ended

(* Tasks read and tasks on their way. *)
Work(c) == Sum(service[c].done, sent[c])

CountsAgree ==
    phase # "idle" =>
        LET more == IF stage = NoStage THEN Counts(0, 0, 0, 0)
                    ELSE Counted(stage, request.tokens)
        IN  /\ status.mm + more.mm = Work(0).mm + Work(1).mm
            /\ status.vec + more.vec = Work(0).vec + Work(1).vec
            /\ status.packets + more.packets = Work(0).packets + Work(1).packets

Worked ==
    phase # "idle" =>
        /\ Works(request) /\ Emitted >= 1 => Work(0).mm + Work(0).vec > 0
        /\ ~Works(request) => \A c \in Cores : Work(c).mm = 0 /\ Work(c).vec = 0

Answer ==
    /\ status = [op |-> FirstStatus(request).op, code |-> FirstStatus(request).code,
                 last |-> 1, tokens |-> request.tokens, waves |-> status.waves,
                 mm |-> status.mm, vec |-> status.vec, packets |-> status.packets]
    /\ {status.waves, status.mm, status.vec, status.packets} \subseteq Nat
    /\ phase = "sent" => word = Pack(status)
    /\ phase = "accepted" => StatusCode(request) = "OK"
    /\ phase = "thrown" => StatusCode(request) # "OK"
    /\ phase \in {"sent", "accepted", "thrown"} => \A c \in Cores : sent[c] = NoTasks
    /\ phase \in {"accepted", "thrown"} => \A c \in Cores : ~service[c].running

IInv ==
    /\ Shape /\ Queue /\ Dispatched /\ Budgeted
    /\ Ending /\ CountsAgree /\ Worked /\ Answer

-----------------------------------------------------------------------------
(* Arithmetic.  *)

(* What a quotient is. *)
LEMMA Division ==
    ASSUME NEW a \in Nat, NEW b \in Nat \ {0}
    PROVE  a \div b \in Nat /\ b * (a \div b) <= a /\ a < b * (a \div b) + b
BY SMT

(* A product grows with either factor. *)
LEMMA Monotone ==
    ASSUME NEW a \in Nat, NEW b \in Nat, NEW c \in Nat, a <= b
    PROVE  a * c <= b * c /\ c * a <= c * b
BY SMT

(* A product of positive numbers is positive. *)
LEMMA Products ==
    ASSUME NEW a \in Nat, NEW b \in Nat
    PROVE  a * b \in Nat /\ (a > 0 /\ b > 0 => a * b > 0)
BY SMT

(* CeilDiv rounds up. *)
LEMMA CeilDivRoundsUp ==
    ASSUME NEW a \in Nat, NEW b \in Nat \ {0}
    PROVE  /\ CeilDiv(a, b) \in Nat
           /\ a <= b * CeilDiv(a, b)
           /\ b * CeilDiv(a, b) < a + b
<1>1. a + b - 1 \in Nat
      OBVIOUS
<1> DEFINE q == (a + b - 1) \div b
<1>2. q \in Nat /\ b * q <= a + b - 1 /\ a + b - 1 < b * q + b
      BY <1>1, Division
<1>3. CeilDiv(a, b) = q
      BY DEF CeilDiv
<1>4. b * q \in Nat
      BY <1>2, Products
<1> HIDE DEF q
<1> QED BY <1>2, <1>3, <1>4

(* The constants the controller computes with. *)
LEMMA Constants ==
    /\ PvWaves \in Nat /\ HiddenBlocks \in Nat /\ WideBlocks \in Nat
    /\ Packets \in Nat \ {0} /\ GqaGroup \in Nat \ {0} /\ AttnTile \in Nat \ {0}
    /\ BudgetTile \in Nat \ {0} /\ MaxSeq \in Nat \ {0}
    /\ TokensPerPort \in Nat \ {0} /\ ActiveTokens \in Nat \ {0}
    /\ ActiveTokens = 2 * TokensPerPort
    /\ \A i \in 0..6 : Waves[i] \in Nat
    /\ Slot \in Nat
    /\ MaxTasks \in Nat /\ MaxTasks >= 256
<1>1. /\ PvWaves \in Nat /\ HiddenBlocks \in Nat /\ WideBlocks \in Nat
      /\ Packets \in Nat \ {0} /\ GqaGroup \in Nat \ {0} /\ AttnTile \in Nat \ {0}
      /\ BudgetTile \in Nat \ {0} /\ MaxSeq \in Nat \ {0}
      /\ TokensPerPort \in Nat \ {0}
      BY ShapeAssumption
<1>2. ActiveTokens = 2 * TokensPerPort
      BY ShapeAssumption
<1>3. \A i \in 0..6 : Waves[i] \in Nat
  <2>1. HiddenWaves \in Nat /\ KvWaves \in Nat /\ WideWaves \in Nat
        BY ShapeAssumption
  <2> QED BY <2>1 DEF Waves
<1>4. ActiveTokens \in Nat \ {0}
      BY <1>1, <1>2
<1>5. CeilDiv(MaxSeq, BudgetTile) \in Nat
      BY <1>1, CeilDivRoundsUp
<1>6. Slot \in Nat
      BY <1>1, <1>5, Products DEF Slot
<1>7. MaxTasks \in Nat /\ MaxTasks >= 256
  <2> DEFINE coarse == CeilDiv(MaxSeq, BudgetTile) * GqaGroup * (1 + PvWaves) + 256
  <2>1. CeilDiv(MaxSeq, BudgetTile) * GqaGroup \in Nat
        BY <1>1, <1>5, Products
  <2>2. CeilDiv(MaxSeq, BudgetTile) * GqaGroup * (1 + PvWaves) \in Nat
        BY <1>1, <2>1, Products
  <2>3. coarse \in Nat
        BY <2>2
  <2>4. MaxTasks = IF coarse > 256 THEN coarse ELSE 256
        BY DEF MaxTasks
  <2> HIDE DEF coarse
  <2> QED BY <2>3, <2>4
<1> QED BY <1>1, <1>2, <1>3, <1>4, <1>6, <1>7

(* The tiles the controller walks are no more than the tiles the budget    *)
(* counts: its tile is at least as large.                                  *)
LEMMA TilesBound ==
    ASSUME NEW p \in Nat, p <= MaxSeq
    PROVE  /\ Tiles(p) \in Nat
           /\ Tiles(p) <= CeilDiv(MaxSeq, BudgetTile)
           /\ p > 0 => Tiles(p) > 0
<1> DEFINE q == Tiles(p)
           m == CeilDiv(MaxSeq, BudgetTile)
<1>1. q \in Nat /\ p <= AttnTile * q /\ AttnTile * q < p + AttnTile
      BY CeilDivRoundsUp, Constants DEF Tiles
<1>2. m \in Nat /\ MaxSeq <= BudgetTile * m
      BY CeilDivRoundsUp, Constants
<1>3. AttnTile \in Nat \ {0} /\ BudgetTile \in Nat \ {0} /\ MaxSeq \in Nat
      /\ BudgetTile <= AttnTile
      BY Constants, ShapeAssumption
<1> HIDE DEF q, m
<1>4. BudgetTile * m <= AttnTile * m
      BY <1>2, <1>3, Monotone
<1>5. BudgetTile * m \in Nat /\ AttnTile * m \in Nat /\ AttnTile * q \in Nat
      BY <1>1, <1>2, <1>3, Products
<1>6. AttnTile * q < AttnTile * m + AttnTile
      BY <1>1, <1>2, <1>3, <1>4, <1>5
<1>7. q <= m
  <2> SUFFICES ASSUME m + 1 <= q PROVE FALSE
      BY <1>1, <1>2
  <2>1. AttnTile * (m + 1) <= AttnTile * q
        BY <1>1, <1>2, <1>3, Monotone, m + 1 \in Nat
  <2>2. AttnTile * (m + 1) = AttnTile * m + AttnTile
        BY <1>2, <1>3
  <2> QED BY <1>5, <1>6, <1>3, <2>1, <2>2
<1>8. p > 0 => q > 0
  <2> SUFFICES ASSUME p > 0, q = 0 PROVE FALSE
      BY <1>1
  <2>1. AttnTile * q = 0
        BY <1>3
  <2> QED BY <2>1, <1>1
<1> QED BY <1>1, <1>7, <1>8 DEF q, m

(* A walk of one query token takes at most a slot of the budget. *)
LEMMA WalkBound ==
    ASSUME NEW p \in Nat, p <= MaxSeq
    PROVE  Tiles(p) * (1 + PvWaves) \in Nat /\ Tiles(p) * (1 + PvWaves) <= Slot
<1>1. Tiles(p) \in Nat /\ Tiles(p) <= CeilDiv(MaxSeq, BudgetTile)
      BY TilesBound
<1>2. CeilDiv(MaxSeq, BudgetTile) \in Nat /\ 1 + PvWaves \in Nat
      BY CeilDivRoundsUp, Constants
<1> QED BY <1>1, <1>2, Monotone, Products DEF Slot

-----------------------------------------------------------------------------
(* Launches and their stages. *)

(* What the argument checks leave of a launch. *)
LEMMA Checked ==
    ASSUME NEW r \in Requests
    PROVE  /\ r.op \in Ops /\ r.tokens \in Nat /\ r.position \in Nat
           /\ StatusCode(r) \in {"OK", "BAD_TOKEN_COUNT", "BAD_POSITION"}
           /\ StatusCode(r) = "OK" => r.tokens <= ActiveTokens
           /\ Works(r) => r.tokens > 0
           /\ Works(r) /\ r.op # "FINAL_NORM" => r.position + r.tokens <= MaxSeq
           /\ Works(r) /\ r.op = "ATTN_PREFILL_BLOCK"
                => PrefillTasksPerCore(r) <= MaxTasks
           /\ PrefillTasksPerCore(r) \in Nat
           /\ Works(r) /\ r.op = "ATTN_PREFILL_BLOCK" => PrefillTasksPerCore(r) > 0
<1>1. r.op \in Ops /\ r.tokens \in Nat /\ r.position \in Nat
      BY RequestAssumption
<1>2. ActiveTokens \in Nat /\ MaxSeq \in Nat /\ MaxTasks \in Nat /\ PvWaves \in Nat
      /\ GqaGroup \in Nat \ {0} /\ AttnTile \in Nat \ {0}
      BY Constants
<1> DEFINE p == PrefillTasksPerCore(r)
<1>3. StatusCode(r) =
        IF r.tokens > ActiveTokens THEN "BAD_TOKEN_COUNT"
        ELSE IF r.op = "NOP" THEN "OK"
        ELSE IF r.tokens = 0 THEN "BAD_TOKEN_COUNT"
        ELSE IF r.op # "FINAL_NORM" /\ (r.position >= MaxSeq \/ r.position + r.tokens > MaxSeq)
             THEN "BAD_POSITION"
        ELSE IF r.op = "ATTN_PREFILL_BLOCK" /\ p > MaxTasks THEN "BAD_POSITION"
        ELSE "OK"
      BY DEF StatusCode, BadPosition
<1>4. Tiles(r.position + r.tokens) \in Nat
      /\ (r.position + r.tokens > 0 => Tiles(r.position + r.tokens) > 0)
  <2> DEFINE e == r.position + r.tokens
             q == Tiles(e)
  <2>1. e \in Nat
        BY <1>1
  <2>2. q \in Nat /\ e <= AttnTile * q
        BY <2>1, <1>2, CeilDivRoundsUp DEF Tiles
  <2> HIDE DEF e, q
  <2>3. q = 0 => AttnTile * q = 0
        BY <1>2
  <2>4. e > 0 => q > 0
        BY <2>1, <2>2, <2>3
  <2> QED BY <2>2, <2>4 DEF e, q
<1>5. p \in Nat /\ (Tiles(r.position + r.tokens) > 0 => p > 0)
  <2> DEFINE q == Tiles(r.position + r.tokens)
  <2>1. q \in Nat
        BY <1>4
  <2> HIDE DEF q
  <2>2. q * GqaGroup \in Nat /\ (q > 0 => q * GqaGroup > 0)
        BY <1>2, <2>1, Products
  <2>3. 1 + PvWaves \in Nat /\ 1 + PvWaves > 0
        BY <1>2
  <2>4. q * GqaGroup * (1 + PvWaves) \in Nat
        /\ (q * GqaGroup > 0 => q * GqaGroup * (1 + PvWaves) > 0)
        BY <2>2, <2>3, Products
  <2> QED BY <2>2, <2>4 DEF q, PrefillTasksPerCore
<1> HIDE DEF p
<1>6. StatusCode(r) = "OK" => r.tokens <= ActiveTokens
      BY <1>1, <1>2, <1>3
<1>7. Works(r) => r.tokens > 0
      BY <1>1, <1>2, <1>3 DEF Works
<1>8. Works(r) /\ r.op # "FINAL_NORM" => r.position + r.tokens <= MaxSeq
      BY <1>1, <1>2, <1>3, <1>7 DEF Works
<1>9. Works(r) /\ r.op = "ATTN_PREFILL_BLOCK" => p <= MaxTasks
      BY <1>1, <1>2, <1>3, <1>5, <1>7 DEF Works
<1>10. StatusCode(r) \in {"OK", "BAD_TOKEN_COUNT", "BAD_POSITION"}
      BY <1>3
<1>11. Works(r) => r.position + r.tokens > 0
      BY <1>1, <1>7
<1> QED BY <1>1, <1>4, <1>5, <1>6, <1>7, <1>8, <1>9, <1>10, <1>11 DEF p

(* The k-th stage of the attention sublayer, of the FFN, of a launch. *)
AttentionStage(r, k) ==
    IF k = 1 THEN Vector(HiddenBlocks, FALSE)
    ELSE IF k <= 4 THEN Project(k - 2)
    ELSE IF k <= 4 + r.tokens THEN Stage("walk", r.position + (k - 4), FALSE)
    ELSE IF k = 5 + r.tokens THEN Project(3)
    ELSE Vector(HiddenBlocks, r.op = "ATTENTION_SUBLAYER")

FfnStage(k) ==
    IF k = 1 THEN Vector(HiddenBlocks, FALSE)
    ELSE IF k = 2 THEN Project(4)
    ELSE IF k = 3 THEN Project(5)
    ELSE IF k = 4 THEN Vector(WideBlocks, FALSE)
    ELSE IF k = 5 THEN Project(6)
    ELSE Vector(HiddenBlocks, TRUE)

StageCount(r) ==
    IF ~Works(r) \/ r.op \in {"FINAL_NORM", "ATTN_PREFILL_BLOCK"} THEN 1
    ELSE IF r.op = "FFN_SUBLAYER" THEN 6
    ELSE IF r.op = "ATTENTION_SUBLAYER" THEN 6 + r.tokens
    ELSE 12 + r.tokens

StageAt(r, k) ==
    IF ~Works(r) THEN Stage("stop", 0, TRUE)
    ELSE IF r.op = "FINAL_NORM" THEN Vector(HiddenBlocks, TRUE)
    ELSE IF r.op = "ATTN_PREFILL_BLOCK"
         THEN Stage("block", r.position + r.tokens, TRUE)
    ELSE IF r.op = "FFN_SUBLAYER" THEN FfnStage(k)
    ELSE IF k <= 6 + r.tokens THEN AttentionStage(r, k)
    ELSE FfnStage(k - (6 + r.tokens))

(* Every stage is a stage record. *)
LEMMA StageTyped ==
    ASSUME NEW r \in Requests, NEW k \in Nat \ {0}
    PROVE  StageAt(r, k) \in StageRecs
<1>1. /\ HiddenBlocks \in Nat /\ WideBlocks \in Nat
      BY Constants
<1>2. r.tokens \in Nat /\ r.position \in Nat
      BY Checked
<1>4. \A j \in Nat \ {0} : FfnStage(j) \in StageRecs
      BY <1>1 DEF FfnStage, Vector, Project, Stage, StageRecs
<1>5. \A j \in Nat \ {0} : AttentionStage(r, j) \in StageRecs
  <2> SUFFICES ASSUME NEW j \in Nat \ {0} PROVE AttentionStage(r, j) \in StageRecs
      OBVIOUS
  <2>1. CASE j = 1
        BY <2>1, <1>1 DEF AttentionStage, Vector, Stage, StageRecs
  <2>2. CASE j > 1 /\ j <= 4
    <3>1. j - 2 \in 0..6 /\ AttentionStage(r, j) = Project(j - 2)
          BY <2>2 DEF AttentionStage, Vector, Project, Stage
    <3> QED BY <3>1 DEF Project, Stage, StageRecs
  <2>3. CASE j > 4 /\ j <= 4 + r.tokens
    <3>1. /\ r.position + (j - 4) \in Nat
          /\ AttentionStage(r, j) = Stage("walk", r.position + (j - 4), FALSE)
          BY <2>3, <1>2 DEF AttentionStage, Vector, Project, Stage
    <3> QED BY <3>1 DEF Stage, StageRecs
  <2>4. CASE j > 4 /\ j > 4 + r.tokens
    <3> QED BY <2>4, <1>1, <1>2 DEF AttentionStage, Vector, Project, Stage, StageRecs
  <2> QED BY <2>1, <2>2, <2>3, <2>4, <1>2
<1>6. CASE ~Works(r)
      BY <1>6 DEF StageAt, Stage, StageRecs
<1>7. CASE Works(r) /\ r.op \in {"FINAL_NORM", "ATTN_PREFILL_BLOCK"}
  <2>1. r.position + r.tokens \in Nat
        BY <1>2
  <2> QED BY <1>7, <1>1, <2>1 DEF StageAt, Vector, Stage, StageRecs
<1>8. CASE Works(r) /\ r.op \notin {"FINAL_NORM", "ATTN_PREFILL_BLOCK"}
  <2>1. CASE r.op = "FFN_SUBLAYER"
    <3>1. StageAt(r, k) = FfnStage(k)
          BY <1>8, <2>1 DEF StageAt
    <3> QED BY <3>1, <1>4
  <2>2. CASE r.op # "FFN_SUBLAYER" /\ k <= 6 + r.tokens
    <3>1. StageAt(r, k) = AttentionStage(r, k)
          BY <1>8, <2>2 DEF StageAt
    <3> QED BY <3>1, <1>5
  <2>3. CASE r.op # "FFN_SUBLAYER" /\ k > 6 + r.tokens
    <3>1. k - (6 + r.tokens) \in Nat \ {0}
          BY <2>3, <1>2
    <3>2. StageAt(r, k) = FfnStage(k - (6 + r.tokens))
          BY <1>2, <1>8, <2>3 DEF StageAt, Vector, Stage
    <3> QED BY <3>1, <3>2, <1>4
  <2> QED BY <2>1, <2>2, <2>3, <1>2
<1> QED BY <1>6, <1>7, <1>8

(* The elements of a concatenation. *)
LEMMA Concatenated ==
    ASSUME NEW S, NEW s \in Seq(S), NEW t \in Seq(S)
    PROVE  /\ s \o t \in Seq(S)
           /\ Len(s \o t) = Len(s) + Len(t)
           /\ \A i \in 1..Len(s) : (s \o t)[i] = s[i]
           /\ \A i \in 1..Len(t) : (s \o t)[Len(s) + i] = t[i]
<1> DEFINE u == s \o t
           n == Len(s)
           m == Len(t)
<1>1. /\ u \in Seq(S)
      /\ Len(u) = n + m
      /\ \A i \in 1..(n + m) : u[i] = IF i <= n THEN s[i] ELSE t[i - n]
      BY ConcatProperties
<1>2. n \in Nat /\ m \in Nat
      OBVIOUS
<1> HIDE DEF u, n, m
<1>3. \A i \in 1..n : u[i] = s[i]
      BY <1>1, <1>2
<1>4. ASSUME NEW i \in 1..m
      PROVE  u[n + i] = t[i]
  <2>1. n + i \in 1..(n + m) /\ ~(n + i <= n) /\ (n + i) - n = i
        BY <1>2
  <2>2. u[n + i] = IF n + i <= n THEN s[n + i] ELSE t[(n + i) - n]
        BY <1>1, <2>1
  <2> QED BY <2>1, <2>2
<1> QED BY <1>1, <1>3, <1>4 DEF u, n, m

(* The stages of the attention sublayer. *)
LEMMA AttentionStagesAt ==
    ASSUME NEW r \in Requests
    PROVE  /\ AttentionStages(r) \in Seq(StageRecs)
           /\ Len(AttentionStages(r)) = 6 + r.tokens
           /\ \A k \in 1..(6 + r.tokens) : AttentionStages(r)[k] = AttentionStage(r, k)
<1> DEFINE n == r.tokens
           a == <<Vector(HiddenBlocks, FALSE), Project(0), Project(1), Project(2)>>
           b == [t \in 1..n |-> Stage("walk", r.position + t, FALSE)]
           c == <<Project(3), Vector(HiddenBlocks, r.op = "ATTENTION_SUBLAYER")>>
<1>1. n \in Nat /\ r.position \in Nat /\ HiddenBlocks \in Nat
      BY Checked, Constants
<1>2. a \in Seq(StageRecs) /\ Len(a) = 4
      /\ a[1] = Vector(HiddenBlocks, FALSE) /\ a[2] = Project(0)
      /\ a[3] = Project(1) /\ a[4] = Project(2)
      BY <1>1 DEF Vector, Project, Stage, StageRecs
<1>3. c \in Seq(StageRecs) /\ Len(c) = 2
      /\ c[1] = Project(3) /\ c[2] = Vector(HiddenBlocks, r.op = "ATTENTION_SUBLAYER")
      BY <1>1 DEF Vector, Project, Stage, StageRecs
<1>4. b \in Seq(StageRecs) /\ Len(b) = n
      /\ \A t \in 1..n : b[t] = Stage("walk", r.position + t, FALSE)
  <2> DEFINE e(t) == Stage("walk", r.position + t, FALSE)
  <2>1. \A t \in 1..n : e(t) \in StageRecs
        BY <1>1 DEF Stage, StageRecs
  <2> HIDE DEF e
  <2>2. [t \in 1..n |-> e(t)] \in [1..n -> StageRecs]
        BY <2>1
  <2>3. b = [t \in 1..n |-> e(t)]
        BY DEF e
  <2> HIDE DEF n, b
  <2>4. b \in [1..n -> StageRecs] /\ n \in Nat
        BY <1>1, <2>2, <2>3
  <2>5. b \in Seq(StageRecs)
        BY <2>4
  <2>6. Len(b) = n
        BY <2>4, <2>5
  <2>7. \A t \in 1..n : b[t] = e(t)
        BY <2>3
  <2> QED BY <2>5, <2>6, <2>7 DEF e
<1> HIDE DEF a, b, c, n
<1> DEFINE ab == a \o b
<1>5. ab \in Seq(StageRecs) /\ Len(ab) = 4 + n
      /\ (\A k \in 1..4 : ab[k] = a[k])
      /\ \A k \in 1..n : ab[4 + k] = b[k]
  <2>1. a \in Seq(StageRecs) /\ b \in Seq(StageRecs)
        BY <1>2, <1>4
  <2>2. ab \in Seq(StageRecs) /\ Len(ab) = Len(a) + Len(b)
        /\ (\A k \in 1..Len(a) : ab[k] = a[k])
        /\ \A k \in 1..Len(b) : ab[Len(a) + k] = b[k]
        BY <2>1, Concatenated
  <2>3. Len(a) = 4 /\ Len(b) = n
        BY <1>2, <1>4
  <2> HIDE DEF ab
  <2> QED BY <2>2, <2>3
<1> HIDE DEF ab
<1> DEFINE d == ab \o c
<1>6. d \in Seq(StageRecs) /\ Len(d) = (4 + n) + 2
      /\ (\A k \in 1..(4 + n) : d[k] = ab[k])
      /\ \A k \in 1..2 : d[(4 + n) + k] = c[k]
  <2>1. ab \in Seq(StageRecs) /\ c \in Seq(StageRecs)
        BY <1>3, <1>5
  <2>2. d \in Seq(StageRecs) /\ Len(d) = Len(ab) + Len(c)
        /\ (\A k \in 1..Len(ab) : d[k] = ab[k])
        /\ \A k \in 1..Len(c) : d[Len(ab) + k] = c[k]
        BY <2>1, Concatenated
  <2>3. Len(ab) = 4 + n /\ Len(c) = 2
        BY <1>3, <1>5
  <2> HIDE DEF d
  <2> QED BY <2>2, <2>3
<1>7. AttentionStages(r) = d
      BY DEF AttentionStages, a, b, c, ab, d, n
<1> HIDE DEF d
<1>8. ASSUME NEW k \in 1..(6 + n)
      PROVE  d[k] = AttentionStage(r, k)
  <2>1. CASE k = 1
    <3>1. d[k] = a[1]
          BY <2>1, <1>1, <1>5, <1>6
    <3> QED BY <2>1, <3>1, <1>2 DEF AttentionStage
  <2>2. CASE k \in {2, 3, 4}
    <3>1. d[k] = a[k]
          BY <2>2, <1>1, <1>5, <1>6
    <3>2. AttentionStage(r, k) = Project(k - 2)
          BY <2>2 DEF AttentionStage, Vector, Project, Stage
    <3> QED BY <2>2, <3>1, <3>2, <1>2
  <2>3. CASE k > 4 /\ k <= 4 + n
    <3>1. k - 4 \in 1..n /\ 4 + (k - 4) = k /\ k \in 1..(4 + n)
          BY <2>3, <1>1
    <3>2. d[k] = ab[k]
          BY <3>1, <1>6
    <3>3. ab[4 + (k - 4)] = b[k - 4]
          BY <3>1, <1>5
    <3>4. b[k - 4] = Stage("walk", r.position + (k - 4), FALSE)
          BY <3>1, <1>4
    <3>5. AttentionStage(r, k) = Stage("walk", r.position + (k - 4), FALSE)
          BY <2>3 DEF AttentionStage, n, Vector, Project, Stage
    <3> QED BY <3>1, <3>2, <3>3, <3>4, <3>5
  <2>4. CASE k = 5 + n
    <3>1. k = (4 + n) + 1 /\ 1 \in 1..2
          BY <2>4, <1>1
    <3>2. d[k] = c[1]
          BY <3>1, <1>6
    <3>3. AttentionStage(r, k) = Project(3)
          BY <2>4, <1>1 DEF AttentionStage, n, Vector, Project, Stage
    <3> QED BY <3>2, <3>3, <1>3
  <2>5. CASE k = 6 + n
    <3>1. k = (4 + n) + 2 /\ 2 \in 1..2
          BY <2>5, <1>1
    <3>2. d[k] = c[2]
          BY <3>1, <1>6
    <3>3. AttentionStage(r, k) = Vector(HiddenBlocks, r.op = "ATTENTION_SUBLAYER")
          BY <2>5, <1>1 DEF AttentionStage, n, Vector, Project, Stage
    <3> QED BY <3>2, <3>3, <1>3
  <2>6. \/ k = 1 \/ k \in {2, 3, 4} \/ (k > 4 /\ k <= 4 + n)
        \/ k = 5 + n \/ k = 6 + n
        BY <1>1
  <2> QED BY <2>1, <2>2, <2>3, <2>4, <2>5, <2>6
<1>9. d \in Seq(StageRecs) /\ Len(d) = 6 + n
      BY <1>1, <1>6
<1> QED BY <1>7, <1>8, <1>9 DEF n

(* The stages of the FFN. *)
LEMMA FfnStagesAt ==
    /\ FfnStages \in Seq(StageRecs) /\ Len(FfnStages) = 6
    /\ \A k \in 1..6 : FfnStages[k] = FfnStage(k)
<1>1. HiddenBlocks \in Nat /\ WideBlocks \in Nat
      BY Constants
<1>2. FfnStages \in Seq(StageRecs)
      BY <1>1 DEF FfnStages, Vector, Project, Stage, StageRecs
<1>3. Len(FfnStages) = 6
      BY DEF FfnStages
<1>4. /\ FfnStages[1] = Vector(HiddenBlocks, FALSE) /\ FfnStages[2] = Project(4)
      /\ FfnStages[3] = Project(5) /\ FfnStages[4] = Vector(WideBlocks, FALSE)
      /\ FfnStages[5] = Project(6) /\ FfnStages[6] = Vector(HiddenBlocks, TRUE)
      BY DEF FfnStages
<1>5. /\ FfnStage(1) = Vector(HiddenBlocks, FALSE) /\ FfnStage(2) = Project(4)
      /\ FfnStage(3) = Project(5) /\ FfnStage(4) = Vector(WideBlocks, FALSE)
      /\ FfnStage(5) = Project(6) /\ FfnStage(6) = Vector(HiddenBlocks, TRUE)
      BY DEF FfnStage
<1>6. ASSUME NEW k \in 1..6
      PROVE  FfnStages[k] = FfnStage(k)
  <2>1. k = 1 \/ k = 2 \/ k = 3 \/ k = 4 \/ k = 5 \/ k = 6
        OBVIOUS
  <2> QED BY <2>1, <1>4, <1>5
<1> QED BY <1>2, <1>3, <1>6

(* One stage alone. *)
LEMMA OneStage ==
    ASSUME NEW r \in Requests, NEW x \in StageRecs,
           Stages(r) = <<x>>, StageCount(r) = 1, StageAt(r, 1) = x
    PROVE  /\ Stages(r) \in Seq(StageRecs)
           /\ Len(Stages(r)) = StageCount(r)
           /\ StageCount(r) \in Nat \ {0}
           /\ \A k \in 1..StageCount(r) : Stages(r)[k] = StageAt(r, k)
<1>1. \A k \in 1..1 : k = 1
      OBVIOUS
<1>2. <<x>> \in Seq(StageRecs) /\ Len(<<x>>) = 1 /\ <<x>>[1] = x
      OBVIOUS
<1> DEFINE s == Stages(r)
<1>3. s \in Seq(StageRecs) /\ Len(s) = 1 /\ s[1] = x
      BY <1>2
<1> HIDE DEF s
<1> QED BY <1>1, <1>3 DEF s

(* The stages of a launch, one by one. *)
LEMMA StagesAt ==
    ASSUME NEW r \in Requests
    PROVE  /\ Stages(r) \in Seq(StageRecs)
           /\ Len(Stages(r)) = StageCount(r)
           /\ StageCount(r) \in Nat \ {0}
           /\ \A k \in 1..StageCount(r) : Stages(r)[k] = StageAt(r, k)
<1>1. r.op \in Ops /\ r.tokens \in Nat /\ r.position \in Nat
      /\ HiddenBlocks \in Nat
      BY Checked, Constants
<1>0. r.op \in {"NOP", "DECODER_LAYER", "ATTENTION_SUBLAYER", "FFN_SUBLAYER",
                "FINAL_NORM", "ATTN_PREFILL_BLOCK"}
      BY <1>1 DEF Ops
<1>2. CASE ~Works(r)
  <2>1. Stages(r) = <<Stage("stop", 0, TRUE)>>
        BY <1>2 DEF Stages, Works
  <2>2. StageCount(r) = 1 /\ StageAt(r, 1) = Stage("stop", 0, TRUE)
        BY <1>2 DEF StageCount, StageAt
  <2>3. Stage("stop", 0, TRUE) \in StageRecs
        BY DEF Stage, StageRecs
  <2> QED BY <2>1, <2>2, <2>3, OneStage
<1>3. CASE Works(r) /\ r.op = "FINAL_NORM"
  <2>1. Stages(r) = <<Vector(HiddenBlocks, TRUE)>>
        BY <1>3 DEF Stages, Works
  <2>2. StageCount(r) = 1 /\ StageAt(r, 1) = Vector(HiddenBlocks, TRUE)
        BY <1>3 DEF StageCount, StageAt
  <2>3. Vector(HiddenBlocks, TRUE) \in StageRecs
        BY <1>1 DEF Vector, Stage, StageRecs
  <2> QED BY <2>1, <2>2, <2>3, OneStage
<1>4. CASE Works(r) /\ r.op = "ATTN_PREFILL_BLOCK"
  <2>1. Stages(r) = <<Stage("block", r.position + r.tokens, TRUE)>>
        BY <1>4 DEF Stages, Works
  <2>2. /\ StageCount(r) = 1
        /\ StageAt(r, 1) = Stage("block", r.position + r.tokens, TRUE)
        BY <1>4 DEF StageCount, StageAt
  <2>3. Stage("block", r.position + r.tokens, TRUE) \in StageRecs
        BY <1>1 DEF Stage, StageRecs
  <2> QED BY <2>1, <2>2, <2>3, OneStage
<1>5. CASE Works(r) /\ r.op = "FFN_SUBLAYER"
  <2>1. Stages(r) = FfnStages
        BY <1>5 DEF Stages, Works
  <2>2. StageCount(r) = 6 /\ \A k : StageAt(r, k) = FfnStage(k)
        BY <1>5 DEF StageCount, StageAt
  <2> QED BY <2>1, <2>2, FfnStagesAt
<1>6. CASE Works(r) /\ r.op = "ATTENTION_SUBLAYER"
  <2>1. Stages(r) = AttentionStages(r)
        BY <1>6 DEF Stages, Works
  <2>2. StageCount(r) = 6 + r.tokens
        BY <1>6 DEF StageCount
  <2>3. \A k \in 1..(6 + r.tokens) : StageAt(r, k) = AttentionStage(r, k)
        BY <1>6, <1>1 DEF StageAt
  <2> QED BY <2>1, <2>2, <2>3, <1>1, AttentionStagesAt
<1>7. CASE Works(r) /\ r.op = "DECODER_LAYER"
  <2> DEFINE n == 6 + r.tokens
             a == AttentionStages(r)
             f == FfnStages
  <2>1. Stages(r) = a \o f
        BY <1>7 DEF Stages, Works
  <2>2. StageCount(r) = n + 6 /\ n \in Nat
        BY <1>7, <1>1 DEF StageCount
  <2>3. a \in Seq(StageRecs) /\ Len(a) = n
        /\ \A k \in 1..n : a[k] = AttentionStage(r, k)
        BY AttentionStagesAt
  <2>4. f \in Seq(StageRecs) /\ Len(f) = 6 /\ \A k \in 1..6 : f[k] = FfnStage(k)
        BY FfnStagesAt
  <2>5. \A k : StageAt(r, k) =
                 IF k <= n THEN AttentionStage(r, k) ELSE FfnStage(k - n)
        BY <1>7 DEF StageAt
  <2> HIDE DEF a, f, n
  <2> DEFINE d == a \o f
  <2>6. d \in Seq(StageRecs) /\ Len(d) = n + 6
        /\ (\A k \in 1..n : d[k] = a[k])
        /\ \A k \in 1..6 : d[n + k] = f[k]
    <3>1. a \in Seq(StageRecs) /\ f \in Seq(StageRecs)
          BY <2>3, <2>4
    <3>2. d \in Seq(StageRecs) /\ Len(d) = Len(a) + Len(f)
          /\ (\A k \in 1..Len(a) : d[k] = a[k])
          /\ \A k \in 1..Len(f) : d[Len(a) + k] = f[k]
          BY <3>1, Concatenated
    <3>3. Len(a) = n /\ Len(f) = 6
          BY <2>3, <2>4
    <3> HIDE DEF d
    <3> QED BY <3>2, <3>3
  <2> HIDE DEF d
  <2>7. ASSUME NEW k \in 1..(n + 6)
        PROVE  d[k] = StageAt(r, k)
    <3>1. CASE k <= n
      <4>1. k \in 1..n
            BY <3>1, <2>2
      <4> QED BY <4>1, <3>1, <2>3, <2>5, <2>6
    <3>2. CASE k > n
      <4>1. k - n \in 1..6 /\ n + (k - n) = k
            BY <3>2, <2>2
      <4>2. d[n + (k - n)] = f[k - n] /\ f[k - n] = FfnStage(k - n)
            BY <4>1, <2>4, <2>6
      <4>3. StageAt(r, k) = FfnStage(k - n)
            BY <3>2, <2>2, <2>5
      <4> QED BY <4>1, <4>2, <4>3
    <3>3. k <= n \/ k > n
          BY <2>2
    <3> QED BY <3>1, <3>2, <3>3
  <2>8. Stages(r) = d
        BY <2>1 DEF d
  <2>9. d \in Seq(StageRecs) /\ Len(d) = n + 6 /\ n + 6 \in Nat \ {0}
        BY <2>2, <2>6
  <2> QED BY <2>2, <2>7, <2>8, <2>9
<1> QED BY <1>0, <1>2, <1>3, <1>4, <1>5, <1>6, <1>7 DEF Works

-----------------------------------------------------------------------------
(* The tasks of a stage. *)

(* The rows of the two cores are those of the block, and core 0 has some. *)
LEMMA RowsOfCores ==
    ASSUME NEW tokens \in Nat
    PROVE  /\ CoreRows(tokens)[0] \in Nat /\ CoreRows(tokens)[1] \in Nat
           /\ CoreRows(tokens)[0] + CoreRows(tokens)[1] = tokens
           /\ tokens > 0 => CoreRows(tokens)[0] > 0
<1>1. TokensPerPort \in Nat \ {0}
      BY Constants
<1>2. CoreRows(tokens)[0] = (IF tokens < TokensPerPort THEN tokens ELSE TokensPerPort)
      BY DEF CoreRows, Cores
<1>3. CoreRows(tokens)[1] =
          (IF tokens > TokensPerPort THEN tokens - TokensPerPort ELSE 0)
      BY DEF CoreRows, Cores
<1> QED BY <1>1, <1>2, <1>3

(* What matrix tasks return. *)
LEMMA MatrixTasks ==
    ASSUME NEW w \in Nat
    PROVE  /\ MmTasks(w) = [mm |-> w, vec |-> 0, stop |-> 0, packets |-> w * Packets]
           /\ MmTasks(w) \in TaskRecs
           /\ Count(MmTasks(w)) = w
           /\ 2 * w * Packets = w * Packets + w * Packets
<1>1. Packets \in Nat
      BY Constants
<1>2. w * Packets \in Nat
      BY <1>1, Products
<1>3. MmTasks(w) = [mm |-> w, vec |-> 0, stop |-> 0, packets |-> w * Packets]
      BY DEF MmTasks, Tasks
<1>4. 2 * w * Packets = w * Packets + w * Packets
      BY <1>1
<1> QED BY <1>2, <1>3, <1>4 DEF TaskRecs, Count

(* The matrix tasks a stage sends each core. *)
MatrixOf(s) ==
    IF s.kind = "project" THEN Waves[s.n]
    ELSE IF s.kind = "walk" THEN Tiles(s.n) * (1 + PvWaves)
    ELSE Tiles(s.n) * GqaGroup * (1 + PvWaves)

(* A matrix stage sends both cores the same tasks and counts both. *)
LEMMA MatrixStage ==
    ASSUME NEW s \in StageRecs, s.kind \in {"project", "walk", "block"},
           NEW tokens \in Nat
    PROVE  /\ MatrixOf(s) \in Nat
           /\ \A c \in Cores : CoreTasks(s, c, tokens) = MmTasks(MatrixOf(s))
           /\ Counted(s, tokens).mm = 2 * MatrixOf(s)
           /\ Counted(s, tokens).vec = 0
           /\ Counted(s, tokens).packets = 2 * MatrixOf(s) * Packets
           /\ Counted(s, tokens).waves \in Nat
<1> DEFINE w == MatrixOf(s)
<1>1. s.n \in Nat /\ (s.kind = "project" => s.n \in 0..6)
      BY DEF StageRecs
<1>2. PvWaves \in Nat /\ GqaGroup \in Nat /\ AttnTile \in Nat \ {0}
      /\ \A i \in 0..6 : Waves[i] \in Nat
      BY Constants
<1>3. Tiles(s.n) \in Nat
      BY <1>1, <1>2, CeilDivRoundsUp DEF Tiles
<1>4. w \in Nat
  <2>1. CASE s.kind = "project"
        BY <2>1, <1>1, <1>2 DEF MatrixOf
  <2>2. CASE s.kind = "walk"
    <3>1. 1 + PvWaves \in Nat
          BY <1>2
    <3> QED BY <2>2, <3>1, <1>3, Products DEF MatrixOf
  <2>3. CASE s.kind = "block"
    <3>1. 1 + PvWaves \in Nat
          BY <1>2
    <3>2. Tiles(s.n) * GqaGroup \in Nat
          BY <1>2, <1>3, Products
    <3>3. Tiles(s.n) * GqaGroup * (1 + PvWaves) \in Nat
          BY <3>1, <3>2, Products
    <3> QED BY <2>3, <3>3 DEF MatrixOf
  <2> QED BY <2>1, <2>2, <2>3
<1>5. \A c \in Cores : CoreTasks(s, c, tokens) = MmTasks(w)
  <2>1. CASE s.kind = "project"
        BY <2>1 DEF MatrixOf, CoreTasks
  <2>2. CASE s.kind = "walk"
        BY <2>2 DEF MatrixOf, CoreTasks
  <2>3. CASE s.kind = "block"
        BY <2>3 DEF MatrixOf, CoreTasks
  <2> QED BY <2>1, <2>2, <2>3
<1>6. \E v \in Nat : Counted(s, tokens) = MmCounts(v, w)
  <2>1. CASE s.kind = "project"
    <3>1. Counted(s, tokens) = MmCounts(w, w)
          BY <2>1 DEF MatrixOf, Counted
    <3> QED BY <3>1, <1>4
  <2>2. CASE s.kind = "walk"
    <3>1. Counted(s, tokens) = MmCounts(w, w)
          BY <2>2 DEF MatrixOf, Counted
    <3> QED BY <3>1, <1>4
  <2>3. CASE s.kind = "block"
    <3>1. Counted(s, tokens) = MmCounts(PvWaves, w)
          BY <2>3 DEF MatrixOf, Counted
    <3> QED BY <3>1, <1>2
  <2> QED BY <2>1, <2>2, <2>3
<1> HIDE DEF w
<1>7. PICK v \in Nat : Counted(s, tokens) = MmCounts(v, w)
      BY <1>6
<1>8. Counted(s, tokens) =
        [waves |-> v, mm |-> 2 * w, vec |-> 0, packets |-> 2 * w * Packets]
      BY <1>7 DEF MmCounts, Counts
<1> QED BY <1>4, <1>5, <1>8 DEF w

(* A vector stage sends each core at most one task. *)
LEMMA VectorStage ==
    ASSUME NEW s \in StageRecs, s.kind = "vector", NEW tokens \in Nat, NEW c \in Cores
    PROVE  LET rows == CoreRows(tokens)[c] IN
           /\ rows \in Nat /\ s.n \in Nat
           /\ CoreTasks(s, c, tokens) =
                IF rows # 0 THEN [mm |-> 0, vec |-> 1, stop |-> 0, packets |-> rows * s.n]
                ELSE [mm |-> 0, vec |-> 0, stop |-> IF s.last THEN 1 ELSE 0,
                      packets |-> 0]
           /\ CoreTasks(s, c, tokens) \in TaskRecs
           /\ Count(CoreTasks(s, c, tokens)) <= 1
<1> DEFINE rows == CoreRows(tokens)[c]
<1>1. rows \in Nat
  <2>1. c = 0 \/ c = 1
        BY DEF Cores
  <2> QED BY <2>1, RowsOfCores
<1>2. s.n \in Nat /\ s.last \in BOOLEAN
      BY DEF StageRecs
<1>3. CoreTasks(s, c, tokens) =
        IF rows # 0 THEN Tasks(0, 1, 0, rows * s.n)
        ELSE Tasks(0, 0, IF s.last THEN 1 ELSE 0, 0)
      BY DEF CoreTasks
<1> HIDE DEF rows
<1>4. rows * s.n \in Nat
      BY <1>1, <1>2, Products
<1>5. CoreTasks(s, c, tokens) =
        IF rows # 0 THEN [mm |-> 0, vec |-> 1, stop |-> 0, packets |-> rows * s.n]
        ELSE [mm |-> 0, vec |-> 0, stop |-> IF s.last THEN 1 ELSE 0, packets |-> 0]
      BY <1>3 DEF Tasks
<1>6. CoreTasks(s, c, tokens) \in TaskRecs /\ Count(CoreTasks(s, c, tokens)) <= 1
  <2> DEFINE t == CoreTasks(s, c, tokens)
             p == rows * s.n
  <2>1. p \in Nat
        BY <1>4
  <2>2. t = IF rows # 0 THEN [mm |-> 0, vec |-> 1, stop |-> 0, packets |-> p]
        ELSE [mm |-> 0, vec |-> 0, stop |-> IF s.last THEN 1 ELSE 0, packets |-> 0]
        BY <1>5
  <2> HIDE DEF t, p
  <2>3. t \in TaskRecs /\ Count(t) <= 1
    <3>1. CASE rows # 0
          BY <3>1, <2>1, <2>2 DEF TaskRecs, Count
    <3>2. CASE rows = 0 /\ s.last
          BY <3>2, <2>2 DEF TaskRecs, Count
    <3>3. CASE rows = 0 /\ ~s.last
          BY <3>3, <2>2 DEF TaskRecs, Count
    <3> QED BY <3>1, <3>2, <3>3
  <2> QED BY <2>3 DEF t
<1> QED BY <1>1, <1>2, <1>5, <1>6 DEF rows

(* A stage sends tasks, and the counters grow by what its two cores get. *)
LEMMA StageTasks ==
    ASSUME NEW s \in StageRecs, NEW tokens \in Nat, tokens > 0 \/ s.kind = "stop"
    PROVE  LET a == CoreTasks(s, 0, tokens)
               b == CoreTasks(s, 1, tokens)
               more == Counted(s, tokens)
           IN  /\ a \in TaskRecs /\ b \in TaskRecs
               /\ {more.waves, more.mm, more.vec, more.packets} \subseteq Nat
               /\ more.mm = a.mm + b.mm
               /\ more.vec = a.vec + b.vec
               /\ more.packets = a.packets + b.packets
<1> DEFINE a == CoreTasks(s, 0, tokens)
           b == CoreTasks(s, 1, tokens)
           more == Counted(s, tokens)
<1>0. 0 \in Cores /\ 1 \in Cores
      BY DEF Cores
<1>1. s.kind \in {"stop", "project", "walk", "block", "vector"}
      BY DEF StageRecs
<1>2. CASE s.kind = "stop"
  <2>1. a = [mm |-> 0, vec |-> 0, stop |-> 1, packets |-> 0]
        /\ b = [mm |-> 0, vec |-> 0, stop |-> 1, packets |-> 0]
        /\ more = [waves |-> 0, mm |-> 0, vec |-> 0, packets |-> 0]
        BY <1>2 DEF CoreTasks, Counted, Counts, Tasks
  <2> HIDE DEF a, b, more
  <2>2. a \in TaskRecs /\ b \in TaskRecs
        BY <2>1 DEF TaskRecs
  <2>3. /\ {more.waves, more.mm, more.vec, more.packets} \subseteq Nat
        /\ more.mm = a.mm + b.mm
        /\ more.vec = a.vec + b.vec
        /\ more.packets = a.packets + b.packets
        BY <2>1
  <2> QED BY <2>2, <2>3 DEF a, b, more
<1>3. CASE s.kind \in {"project", "walk", "block"}
  <2> DEFINE w == MatrixOf(s)
  <2>1. w \in Nat /\ a = MmTasks(w) /\ b = MmTasks(w)
        /\ more.mm = 2 * w /\ more.vec = 0 /\ more.packets = 2 * w * Packets
        /\ more.waves \in Nat
        BY <1>0, <1>3, MatrixStage
  <2> HIDE DEF a, b, more, w
  <2>2. a \in TaskRecs /\ b \in TaskRecs
        /\ a = [mm |-> w, vec |-> 0, stop |-> 0, packets |-> w * Packets]
        /\ b = [mm |-> w, vec |-> 0, stop |-> 0, packets |-> w * Packets]
        /\ 2 * w * Packets = w * Packets + w * Packets
        BY <2>1, MatrixTasks
  <2>3. w * Packets \in Nat
        BY <2>1, Constants, Products
  <2> DEFINE p == w * Packets
             p2 == 2 * w * Packets
  <2>4. p \in Nat /\ p2 = p + p /\ more.packets = p2
        /\ a = [mm |-> w, vec |-> 0, stop |-> 0, packets |-> p]
        /\ b = [mm |-> w, vec |-> 0, stop |-> 0, packets |-> p]
        BY <2>1, <2>2, <2>3
  <2> HIDE DEF p, p2
  <2>5. /\ {more.waves, more.mm, more.vec, more.packets} \subseteq Nat
        /\ more.mm = a.mm + b.mm
        /\ more.vec = a.vec + b.vec
        /\ more.packets = a.packets + b.packets
        BY <2>1, <2>4
  <2> QED BY <2>2, <2>5 DEF a, b, more
<1>4. CASE s.kind = "vector"
  <2> DEFINE ra == CoreRows(tokens)[0]
             rb == CoreRows(tokens)[1]
  <2>1. ra \in Nat /\ rb \in Nat /\ ra + rb = tokens /\ ra > 0
        BY <1>1, <1>4, RowsOfCores
  <2>2. s.n \in Nat
        BY <1>0, <1>4, VectorStage
  <2>3. /\ a = IF ra # 0 THEN [mm |-> 0, vec |-> 1, stop |-> 0, packets |-> ra * s.n]
               ELSE [mm |-> 0, vec |-> 0, stop |-> IF s.last THEN 1 ELSE 0,
                     packets |-> 0]
        /\ a \in TaskRecs
        BY <1>0, <1>4, VectorStage
  <2>4. /\ b = IF rb # 0 THEN [mm |-> 0, vec |-> 1, stop |-> 0, packets |-> rb * s.n]
               ELSE [mm |-> 0, vec |-> 0, stop |-> IF s.last THEN 1 ELSE 0,
                     packets |-> 0]
        /\ b \in TaskRecs
        BY <1>0, <1>4, VectorStage
  <2>5. more = [waves |-> 0, mm |-> 0, vec |-> IF rb # 0 THEN 2 ELSE 1,
                packets |-> tokens * s.n]
        BY <1>4 DEF Counted, Counts, CoresWithRows
  <2> HIDE DEF a, b, more, ra, rb
  <2> DEFINE pa == ra * s.n
             pb == rb * s.n
             pt == tokens * s.n
  <2>6. pa \in Nat /\ pb \in Nat /\ pt = pa + pb /\ (rb = 0 => pb = 0)
    <3>1. pa \in Nat /\ pb \in Nat
          BY <2>1, <2>2, Products
    <3>2. (ra + rb) * s.n = ra * s.n + rb * s.n
          BY <2>1, <2>2
    <3>3. rb = 0 => pb = 0
          BY <2>2
    <3> QED BY <2>1, <3>1, <3>2, <3>3
  <2>7. /\ a = [mm |-> 0, vec |-> 1, stop |-> 0, packets |-> pa]
        /\ b = IF rb # 0 THEN [mm |-> 0, vec |-> 1, stop |-> 0, packets |-> pb]
               ELSE [mm |-> 0, vec |-> 0, stop |-> IF s.last THEN 1 ELSE 0,
                     packets |-> 0]
        /\ more = [waves |-> 0, mm |-> 0, vec |-> IF rb # 0 THEN 2 ELSE 1,
                   packets |-> pt]
        BY <2>1, <2>3, <2>4, <2>5
  <2> HIDE DEF pa, pb, pt
  <2>8. /\ {more.waves, more.mm, more.vec, more.packets} \subseteq Nat
        /\ more.mm = a.mm + b.mm
        /\ more.vec = a.vec + b.vec
        /\ more.packets = a.packets + b.packets
    <3>1. CASE rb # 0
          BY <3>1, <2>6, <2>7
    <3>2. CASE rb = 0
          BY <3>2, <2>6, <2>7
    <3> QED BY <3>1, <3>2
  <2> QED BY <2>3, <2>4, <2>8 DEF a, b, more
<1> QED BY <1>1, <1>2, <1>3, <1>4

(* The tasks of a stage are a task record. *)
LEMMA TasksTyped ==
    ASSUME NEW s \in StageRecs, NEW tokens \in Nat, tokens > 0 \/ s.kind = "stop",
           NEW c \in Cores
    PROVE  CoreTasks(s, c, tokens) \in TaskRecs /\ Count(CoreTasks(s, c, tokens)) \in Nat
<1>1. CoreTasks(s, c, tokens) \in TaskRecs
  <2>1. c = 0 \/ c = 1
        BY DEF Cores
  <2> QED BY <2>1, StageTasks
<1> DEFINE t == CoreTasks(s, c, tokens)
<1>2. t \in TaskRecs
      BY <1>1
<1> HIDE DEF t
<1>3. Count(t) \in Nat
      BY <1>2 DEF Count, TaskRecs
<1> QED BY <1>2, <1>3 DEF t

-----------------------------------------------------------------------------
(* The budget. *)

(* The budget of the attention sublayer never shrinks and ends on its last *)
(* stage.                                                                  *)
LEMMA AttentionBudgetGrows ==
    ASSUME NEW n \in Nat, n > 0, NEW k \in Nat
    PROVE  LET total == 2 + Waves[0] + Waves[1] + Waves[2] + n * Slot + Waves[3]
           IN  /\ n * Slot \in Nat
               /\ AttentionBudget(n, k) \in Nat
               /\ AttentionBudget(n, k) <= total
               /\ k < 6 + n => AttentionBudget(n, k) < total
               /\ k >= 6 + n => AttentionBudget(n, k) = total
<1> DEFINE w0 == Waves[0]
           w1 == Waves[1]
           w2 == Waves[2]
           w3 == Waves[3]
           all == n * Slot
           some == (k - 4) * Slot
           total == 2 + w0 + w1 + w2 + all + w3
           b == AttentionBudget(n, k)
<1>1. w0 \in Nat /\ w1 \in Nat /\ w2 \in Nat /\ w3 \in Nat
      BY Constants
<1>2. Slot \in Nat
      BY Constants
<1>3. all \in Nat
      BY <1>2, Products
<1>4. k > 4 /\ k <= 4 + n => some \in Nat /\ some <= all
  <2> SUFFICES ASSUME k > 4, k <= 4 + n PROVE some \in Nat /\ some <= all
      OBVIOUS
  <2>1. k - 4 \in Nat /\ k - 4 <= n
        OBVIOUS
  <2> QED BY <2>1, <1>2, Monotone, Products
<1>5. b = IF k <= 0 THEN 0
          ELSE IF k = 1 THEN 1
          ELSE IF k = 2 THEN 1 + w0
          ELSE IF k = 3 THEN 1 + w0 + w1
          ELSE IF k <= 4 + n THEN 1 + w0 + w1 + w2 + some
          ELSE IF k = 5 + n THEN 1 + w0 + w1 + w2 + all + w3
          ELSE total
      BY DEF AttentionBudget
<1>6. k = 4 => some = 0
      BY <1>2
<1> HIDE DEF w0, w1, w2, w3, all, some, total, b
<1>7. total = 2 + w0 + w1 + w2 + all + w3
      BY DEF total
<1>8. b \in Nat /\ b <= total /\ (k < 6 + n => b < total) /\ (k >= 6 + n => b = total)
      BY <1>1, <1>3, <1>4, <1>5, <1>6, <1>7
<1> QED BY <1>3, <1>8 DEF w0, w1, w2, w3, all, some, total, b

(* So does that of the FFN. *)
LEMMA FfnBudgetGrows ==
    ASSUME NEW k \in Int
    PROVE  LET total == 3 + Waves[4] + Waves[5] + Waves[6]
           IN  /\ FfnBudget(k) \in Nat
               /\ FfnBudget(k) <= total
               /\ k < 6 => FfnBudget(k) < total
               /\ k <= 0 => FfnBudget(k) = 0
               /\ k >= 6 => FfnBudget(k) = total
<1> DEFINE w4 == Waves[4]
           w5 == Waves[5]
           w6 == Waves[6]
           b == FfnBudget(k)
<1>1. w4 \in Nat /\ w5 \in Nat /\ w6 \in Nat
      BY Constants
<1>2. b = IF k <= 0 THEN 0
          ELSE IF k = 1 THEN 1
          ELSE IF k = 2 THEN 1 + w4
          ELSE IF k = 3 THEN 1 + w4 + w5
          ELSE IF k = 4 THEN 2 + w4 + w5
          ELSE IF k = 5 THEN 2 + w4 + w5 + w6
          ELSE 3 + w4 + w5 + w6
      BY DEF FfnBudget
<1> HIDE DEF w4, w5, w6, b
<1>3. /\ b \in Nat /\ b <= 3 + w4 + w5 + w6
      /\ k < 6 => b < 3 + w4 + w5 + w6
      /\ k <= 0 => b = 0
      /\ k >= 6 => b = 3 + w4 + w5 + w6
      BY <1>1, <1>2
<1> QED BY <1>3 DEF w4, w5, w6, b

(* What one stage costs. *)
LEMMA StageCost ==
    ASSUME NEW c \in Cores, NEW tokens \in Nat
    PROVE  /\ \A n \in Nat, last \in BOOLEAN :
                  Count(CoreTasks(Vector(n, last), c, tokens)) <= 1
           /\ \A i \in 0..6 : Count(CoreTasks(Project(i), c, tokens)) = Waves[i]
           /\ \A n \in Nat, last \in BOOLEAN : n <= MaxSeq =>
                  Count(CoreTasks(Stage("walk", n, last), c, tokens)) <= Slot
<1>1. ASSUME NEW n \in Nat, NEW last \in BOOLEAN
      PROVE  Count(CoreTasks(Vector(n, last), c, tokens)) <= 1
  <2> DEFINE s == Vector(n, last)
  <2>1. s \in StageRecs /\ s.kind = "vector"
        BY DEF Vector, Stage, StageRecs
  <2> HIDE DEF s
  <2>2. Count(CoreTasks(s, c, tokens)) <= 1
        BY <2>1, VectorStage
  <2> QED BY <2>2 DEF s
<1>2. ASSUME NEW i \in 0..6
      PROVE  Count(CoreTasks(Project(i), c, tokens)) = Waves[i]
  <2> DEFINE s == Project(i)
  <2>1. s \in StageRecs /\ s.kind = "project" /\ s.n = i
        BY DEF Project, Stage, StageRecs
  <2> HIDE DEF s
  <2>2. MatrixOf(s) \in Nat /\ CoreTasks(s, c, tokens) = MmTasks(MatrixOf(s))
        BY <2>1, MatrixStage
  <2>3. MatrixOf(s) = Waves[i]
        BY <2>1 DEF MatrixOf
  <2> QED BY <2>2, <2>3, MatrixTasks DEF s
<1>3. ASSUME NEW n \in Nat, NEW last \in BOOLEAN, n <= MaxSeq
      PROVE  Count(CoreTasks(Stage("walk", n, last), c, tokens)) <= Slot
  <2> DEFINE s == Stage("walk", n, last)
  <2>1. s \in StageRecs /\ s.kind = "walk" /\ s.n = n
        BY DEF Stage, StageRecs
  <2> HIDE DEF s
  <2>2. MatrixOf(s) \in Nat /\ CoreTasks(s, c, tokens) = MmTasks(MatrixOf(s))
        BY <2>1, MatrixStage
  <2>3. MatrixOf(s) = Tiles(n) * (1 + PvWaves)
        BY <2>1 DEF MatrixOf
  <2>4. MatrixOf(s) <= Slot
        BY <1>3, <2>3, WalkBound
  <2> QED BY <2>2, <2>4, MatrixTasks DEF s
<1> QED BY <1>1, <1>2, <1>3

(* A stage of the attention sublayer costs no more than the budget grows.  *)
LEMMA AttentionStageCost ==
    ASSUME NEW r \in Requests, r.tokens > 0, r.position + r.tokens <= MaxSeq,
           NEW k \in 1..(6 + r.tokens), NEW c \in Cores
    PROVE  Count(CoreTasks(AttentionStage(r, k), c, r.tokens))
             + AttentionBudget(r.tokens, k - 1) <= AttentionBudget(r.tokens, k)
<1> DEFINE n == r.tokens
           w0 == Waves[0]
           w1 == Waves[1]
           w2 == Waves[2]
           w3 == Waves[3]
           all == n * Slot
           cost == Count(CoreTasks(AttentionStage(r, k), c, r.tokens))
<1>1. n \in Nat /\ r.position \in Nat /\ n > 0
      BY Checked
<1>2. w0 \in Nat /\ w1 \in Nat /\ w2 \in Nat /\ w3 \in Nat /\ Slot \in Nat
      /\ HiddenBlocks \in Nat
      BY Constants
<1>3. all \in Nat
      BY <1>1, <1>2, Products
<1>4. /\ \A m \in Nat, last \in BOOLEAN : Count(CoreTasks(Vector(m, last), c, n)) <= 1
      /\ \A i \in 0..6 : Count(CoreTasks(Project(i), c, n)) = Waves[i]
      /\ \A m \in Nat, last \in BOOLEAN : m <= MaxSeq =>
             Count(CoreTasks(Stage("walk", m, last), c, n)) <= Slot
      BY <1>1, StageCost
<1>0. cost \in Nat
  <2>1. /\ AttentionStages(r) \in Seq(StageRecs) /\ Len(AttentionStages(r)) = 6 + n
        /\ AttentionStages(r)[k] = AttentionStage(r, k)
        BY AttentionStagesAt
  <2>2. AttentionStage(r, k) \in StageRecs
        BY <1>1, <2>1, ElementOfSeq
  <2> QED BY <1>1, <2>2, TasksTyped
<1>5. CASE k = 1
  <2>1. AttentionStage(r, k) = Vector(HiddenBlocks, FALSE)
        BY <1>5 DEF AttentionStage
  <2>2. cost <= 1
        BY <2>1, <1>2, <1>4
  <2>3. AttentionBudget(n, k - 1) = 0 /\ AttentionBudget(n, k) = 1
        BY <1>5 DEF AttentionBudget
  <2> HIDE DEF cost
  <2> QED BY <2>2, <2>3, <1>0 DEF cost
<1>6. CASE k \in {2, 3, 4}
  <2>1. AttentionStage(r, k) = Project(k - 2) /\ k - 2 \in 0..6
        BY <1>6 DEF AttentionStage, Vector, Project, Stage
  <2>2. cost = Waves[k - 2]
        BY <2>1, <1>4
  <2>3. AttentionBudget(n, 1) = 1 /\ AttentionBudget(n, 2) = 1 + w0
        /\ AttentionBudget(n, 3) = 1 + w0 + w1
        BY DEF AttentionBudget
  <2>4. AttentionBudget(n, 4) = 1 + w0 + w1 + w2
    <3>1. (4 - 4) * Slot = 0
          BY <1>2
    <3>2. AttentionBudget(n, 4) = 1 + w0 + w1 + w2 + (4 - 4) * Slot
          BY <1>1 DEF AttentionBudget
    <3> QED BY <3>1, <3>2, <1>2
  <2>5. CASE k = 2
        BY <2>5, <2>2, <2>3, <1>2
  <2>6. CASE k = 3
        BY <2>6, <2>2, <2>3, <1>2
  <2>7. CASE k = 4
        BY <2>7, <2>2, <2>3, <2>4, <1>2
  <2> QED BY <1>6, <2>5, <2>6, <2>7
<1>7. CASE k > 4 /\ k <= 4 + n
  <2> DEFINE m == r.position + (k - 4)
             a == (k - 5) * Slot
             b == (k - 4) * Slot
  <2>1. AttentionStage(r, k) = Stage("walk", m, FALSE)
        BY <1>7, <1>1 DEF AttentionStage, Vector, Project, Stage
  <2>2. m \in Nat /\ m <= MaxSeq
        BY <1>7, <1>1, Constants
  <2> HIDE DEF m
  <2>3. cost <= Slot
        BY <2>1, <2>2, <1>4
  <2>4. AttentionBudget(n, k) = 1 + w0 + w1 + w2 + b
        BY <1>7, <1>1 DEF AttentionBudget
  <2>5. AttentionBudget(n, k - 1) = 1 + w0 + w1 + w2 + a
    <3>1. CASE k = 5
      <4>1. a = 0
            BY <3>1, <1>2
      <4>2. AttentionBudget(n, 4) = 1 + w0 + w1 + w2 + (4 - 4) * Slot
            BY <1>1 DEF AttentionBudget
      <4>3. (4 - 4) * Slot = 0
            BY <1>2
      <4> QED BY <3>1, <4>1, <4>2, <4>3
    <3>2. CASE k > 5
      <4>1. (k - 1) - 4 = k - 5
            BY <3>2
      <4>2. AttentionBudget(n, k - 1) = 1 + w0 + w1 + w2 + ((k - 1) - 4) * Slot
            BY <3>2, <1>7, <1>1 DEF AttentionBudget
      <4> QED BY <4>1, <4>2
    <3> QED BY <3>1, <3>2, <1>7
  <2>6. a \in Nat /\ b = a + Slot
    <3>1. k - 5 \in Nat /\ k - 4 = (k - 5) + 1
          BY <1>7
    <3>2. a \in Nat
          BY <3>1, <1>2, Products
    <3>3. ((k - 5) + 1) * Slot = (k - 5) * Slot + Slot
          BY <3>1, <1>2
    <3> QED BY <3>1, <3>2, <3>3
  <2> HIDE DEF a, b, cost
  <2> QED BY <2>3, <2>4, <2>5, <2>6, <1>0, <1>2 DEF cost
<1>8. CASE k = 5 + n
  <2>1. AttentionStage(r, k) = Project(3)
        BY <1>8, <1>1 DEF AttentionStage, Vector, Project, Stage
  <2>2. cost = w3
        BY <2>1, <1>4
  <2>3. AttentionBudget(n, k - 1) = 1 + w0 + w1 + w2 + all
    <3>1. k - 1 = 4 + n /\ (k - 1) - 4 = n
          BY <1>8, <1>1
    <3>2. AttentionBudget(n, k - 1) = 1 + w0 + w1 + w2 + ((k - 1) - 4) * Slot
          BY <3>1, <1>1 DEF AttentionBudget
    <3> QED BY <3>1, <3>2
  <2>4. AttentionBudget(n, k) = 1 + w0 + w1 + w2 + all + w3
        BY <1>8, <1>1 DEF AttentionBudget
  <2> QED BY <2>2, <2>3, <2>4, <1>2, <1>3
<1>9. CASE k = 6 + n
  <2>1. AttentionStage(r, k) = Vector(HiddenBlocks, r.op = "ATTENTION_SUBLAYER")
        BY <1>9, <1>1 DEF AttentionStage, Vector, Project, Stage
  <2>2. cost <= 1
    <3> DEFINE last == r.op = "ATTENTION_SUBLAYER"
    <3>1. last \in BOOLEAN /\ AttentionStage(r, k) = Vector(HiddenBlocks, last)
          BY <2>1
    <3> HIDE DEF last
    <3> QED BY <3>1, <1>2, <1>4
  <2>3. AttentionBudget(n, k - 1) = 1 + w0 + w1 + w2 + all + w3
        BY <1>9, <1>1 DEF AttentionBudget
  <2>4. AttentionBudget(n, k) = 2 + w0 + w1 + w2 + all + w3
        BY <1>9, <1>1 DEF AttentionBudget
  <2> HIDE DEF cost, w0, w1, w2, w3, all
  <2> QED BY <2>2, <2>3, <2>4, <1>0, <1>2, <1>3 DEF cost
<1> QED BY <1>1, <1>5, <1>6, <1>7, <1>8, <1>9

(* So does a stage of the FFN. *)
LEMMA FfnStageCost ==
    ASSUME NEW tokens \in Nat, tokens > 0, NEW k \in 1..6, NEW c \in Cores
    PROVE  Count(CoreTasks(FfnStage(k), c, tokens)) + FfnBudget(k - 1) <= FfnBudget(k)
<1> DEFINE w4 == Waves[4]
           w5 == Waves[5]
           w6 == Waves[6]
           cost == Count(CoreTasks(FfnStage(k), c, tokens))
<1>1. w4 \in Nat /\ w5 \in Nat /\ w6 \in Nat /\ HiddenBlocks \in Nat /\ WideBlocks \in Nat
      BY Constants
<1>2. cost \in Nat
  <2>1. /\ FfnStages \in Seq(StageRecs) /\ Len(FfnStages) = 6
        /\ FfnStages[k] = FfnStage(k)
        BY FfnStagesAt
  <2>2. FfnStage(k) \in StageRecs
        BY <2>1, ElementOfSeq
  <2> QED BY <2>2, TasksTyped
<1>3. /\ \A m \in Nat, last \in BOOLEAN : Count(CoreTasks(Vector(m, last), c, tokens)) <= 1
      /\ \A i \in 0..6 : Count(CoreTasks(Project(i), c, tokens)) = Waves[i]
      BY StageCost
<1>4. /\ FfnBudget(0) = 0 /\ FfnBudget(1) = 1 /\ FfnBudget(2) = 1 + w4
      /\ FfnBudget(3) = 1 + w4 + w5 /\ FfnBudget(4) = 2 + w4 + w5
      /\ FfnBudget(5) = 2 + w4 + w5 + w6 /\ FfnBudget(6) = 3 + w4 + w5 + w6
      BY DEF FfnBudget
<1>5. /\ FfnStage(1) = Vector(HiddenBlocks, FALSE) /\ FfnStage(2) = Project(4)
      /\ FfnStage(3) = Project(5) /\ FfnStage(4) = Vector(WideBlocks, FALSE)
      /\ FfnStage(5) = Project(6) /\ FfnStage(6) = Vector(HiddenBlocks, TRUE)
      BY DEF FfnStage
<1>6. CASE k \in {1, 4, 6}
  <2>1. cost <= 1
        BY <1>1, <1>3, <1>5, <1>6
  <2> HIDE DEF cost, w4, w5, w6
  <2> QED BY <1>1, <1>2, <1>4, <1>6, <2>1 DEF cost
<1>7. CASE k \in {2, 3, 5}
  <2>1. /\ k = 2 => cost = w4
        /\ k = 3 => cost = w5
        /\ k = 5 => cost = w6
        BY <1>3, <1>5
  <2> HIDE DEF cost, w4, w5, w6
  <2> QED BY <1>1, <1>2, <1>4, <1>7, <2>1 DEF cost
<1> QED BY <1>6, <1>7

(* The static limits, in the terms of the budget. *)
LEMMA StaticLimits ==
    ASSUME NEW n \in Nat, n <= ActiveTokens
    PROVE  LET attention == 2 + Waves[0] + Waves[1] + Waves[2] + n * Slot + Waves[3]
               ffn == 3 + Waves[4] + Waves[5] + Waves[6]
           IN  attention + ffn <= Core0TasksMax /\ Core0TasksMax <= MaxTasks
               /\ Core0TasksMax \in Nat
<1> DEFINE d == CeilDiv(MaxSeq, BudgetTile)
           f == 1 + PvWaves
           w0 == Waves[0]
           w1 == Waves[1]
           w2 == Waves[2]
           w3 == Waves[3]
           w4 == Waves[4]
           w5 == Waves[5]
           w6 == Waves[6]
           all == n * Slot
           most == ActiveTokens * Slot
<1>1. w0 \in Nat /\ w1 \in Nat /\ w2 \in Nat /\ w3 \in Nat /\ w4 \in Nat
      /\ w5 \in Nat /\ w6 \in Nat /\ Slot \in Nat /\ ActiveTokens \in Nat
      BY Constants
<1>2. d \in Nat /\ f \in Nat
      BY Constants, CeilDivRoundsUp
<1>3. all \in Nat /\ most \in Nat /\ all <= most
      BY <1>1, Monotone, Products
<1>4. AttentionBudgetOf(ActiveTokens) = ActiveTokens * d * f
      BY DEF AttentionBudgetOf
<1>5. Slot = d * f
      BY DEF Slot
<1> HIDE DEF d, f
<1>6. ActiveTokens * d * f = ActiveTokens * (d * f)
      BY <1>1, <1>2
<1>7. AttentionBudgetOf(ActiveTokens) = most
      BY <1>4, <1>5, <1>6
<1>8. w0 + w1 + w2 + w3 + w4 + w5 + w6 <= ProjectionBudget /\ ProjectionBudget \in Nat
  <2>1. HiddenWaves \in Nat /\ KvWaves \in Nat /\ WideWaves \in Nat
        BY ShapeAssumption
  <2>2. w0 = HiddenWaves /\ w1 = KvWaves /\ w2 = KvWaves /\ w3 = HiddenWaves
        /\ w4 = WideWaves /\ w5 = WideWaves /\ w6 = HiddenWaves
        BY DEF Waves
  <2> HIDE DEF w0, w1, w2, w3, w4, w5, w6
  <2> QED BY <2>1, <2>2 DEF ProjectionBudget
<1>9. Core0TasksMax = ProjectionBudget + AttentionBudgetOf(ActiveTokens) + 5
      BY DEF Core0TasksMax
<1>10. Core0TasksMax <= MaxTasks
      BY BudgetAssumption
<1> HIDE DEF w0, w1, w2, w3, w4, w5, w6, all, most
<1>11. Core0TasksMax = ProjectionBudget + most + 5
      BY <1>7, <1>9
<1>12. (2 + w0 + w1 + w2 + all + w3) + (3 + w4 + w5 + w6) <= Core0TasksMax
       /\ Core0TasksMax \in Nat
      BY <1>1, <1>3, <1>8, <1>11
<1> QED BY <1>10, <1>12 DEF w0, w1, w2, w3, w4, w5, w6, all

(* The last stage, and only it, is marked as the end of the session. *)
LEMMA LastStage ==
    ASSUME NEW r \in Requests, NEW k \in 1..StageCount(r)
    PROVE  StageAt(r, k).last <=> k = StageCount(r)
<1>1. r.op \in {"NOP", "DECODER_LAYER", "ATTENTION_SUBLAYER", "FFN_SUBLAYER",
                "FINAL_NORM", "ATTN_PREFILL_BLOCK"} /\ r.tokens \in Nat
      BY Checked DEF Ops
<1>2. \A i \in 1..6 : FfnStage(i).last <=> i = 6
      BY DEF FfnStage, Vector, Project, Stage
<1>3. \A i \in 1..(6 + r.tokens) :
          AttentionStage(r, i).last <=>
              i = 6 + r.tokens /\ r.op = "ATTENTION_SUBLAYER"
  <2> SUFFICES ASSUME NEW i \in 1..(6 + r.tokens)
               PROVE  AttentionStage(r, i).last <=>
                          i = 6 + r.tokens /\ r.op = "ATTENTION_SUBLAYER"
      OBVIOUS
  <2>1. CASE i = 6 + r.tokens
    <3>0. i # 1 /\ ~(i <= 4) /\ ~(i <= 4 + r.tokens) /\ i # 5 + r.tokens
          BY <2>1, <1>1
    <3>1. CASE r.op = "ATTENTION_SUBLAYER"
      <4>1. AttentionStage(r, i) = Vector(HiddenBlocks, TRUE)
            BY <3>0, <3>1 DEF AttentionStage, Vector, Project, Stage
      <4> QED BY <2>1, <3>1, <4>1 DEF Vector, Stage
    <3>2. CASE r.op # "ATTENTION_SUBLAYER"
      <4>1. AttentionStage(r, i) = Vector(HiddenBlocks, FALSE)
            BY <3>0, <3>2 DEF AttentionStage, Vector, Project, Stage
      <4> QED BY <3>2, <4>1 DEF Vector, Stage
    <3> QED BY <3>1, <3>2
  <2>2. CASE i < 6 + r.tokens
        BY <2>2, <1>1 DEF AttentionStage, Vector, Project, Stage
  <2> QED BY <2>1, <2>2, <1>1
<1>4. CASE ~Works(r)
      BY <1>4 DEF StageAt, StageCount, Stage
<1>5. CASE Works(r) /\ r.op \in {"FINAL_NORM", "ATTN_PREFILL_BLOCK"}
      BY <1>5 DEF StageAt, StageCount, Vector, Stage
<1>6. CASE Works(r) /\ r.op = "FFN_SUBLAYER"
  <2>1. StageAt(r, k) = FfnStage(k) /\ StageCount(r) = 6
        BY <1>6 DEF StageAt, StageCount
  <2> QED BY <2>1, <1>2
<1>7. CASE Works(r) /\ r.op = "ATTENTION_SUBLAYER"
  <2>1. StageCount(r) = 6 + r.tokens
        BY <1>7 DEF StageCount
  <2>2. StageAt(r, k) = AttentionStage(r, k)
        BY <1>1, <1>7, <2>1 DEF StageAt, Stage
  <2> QED BY <1>7, <2>1, <2>2, <1>3
<1>8. CASE Works(r) /\ r.op = "DECODER_LAYER"
  <2>1. StageCount(r) = 12 + r.tokens
        BY <1>8 DEF StageCount
  <2>2. CASE k <= 6 + r.tokens
    <3>1. StageAt(r, k) = AttentionStage(r, k)
          BY <1>8, <2>2 DEF StageAt, Stage
    <3>2. k \in 1..(6 + r.tokens) /\ k # StageCount(r)
          BY <1>1, <2>1, <2>2
    <3> QED BY <1>8, <3>1, <3>2, <1>3
  <2>3. CASE k > 6 + r.tokens
    <3>1. StageAt(r, k) = FfnStage(k - (6 + r.tokens))
          BY <1>8, <1>1, <2>3 DEF StageAt, Stage
    <3>2. k - (6 + r.tokens) \in 1..6
          /\ (k = StageCount(r) <=> k - (6 + r.tokens) = 6)
          BY <1>1, <2>1, <2>3
    <3> QED BY <3>1, <3>2, <1>2
  <2> QED BY <2>2, <2>3, <1>1
<1> QED BY <1>1, <1>4, <1>5, <1>6, <1>7, <1>8 DEF Works

(* The budget of a launch before its first stage, after each and at its    *)
(* end: the last stage alone may use up the bound of the service loop.     *)
LEMMA BudgetBound ==
    ASSUME NEW r \in Requests, NEW k \in 0..StageCount(r)
    PROVE  /\ Budget(r, k) \in Nat
           /\ Budget(r, k) <= MaxTasks
           /\ k < StageCount(r) => Budget(r, k) < MaxTasks
           /\ Works(r) /\ r.op \in ResidentOps => Budget(r, k) <= Core0TasksMax
<1>1. r.op \in {"NOP", "DECODER_LAYER", "ATTENTION_SUBLAYER", "FFN_SUBLAYER",
                "FINAL_NORM", "ATTN_PREFILL_BLOCK"} /\ r.tokens \in Nat
      BY Checked DEF Ops
<1>2. MaxTasks \in Nat /\ MaxTasks >= 256
      BY Constants
<1>3. StageCount(r) \in Nat /\ k \in Nat /\ k <= StageCount(r)
      BY StagesAt
<1>4. CASE ~Works(r) \/ r.op = "FINAL_NORM"
  <2>1. Budget(r, k) = k /\ StageCount(r) = 1
        BY <1>4 DEF Budget, StageCount
  <2> QED BY <1>2, <1>3, <1>4, <2>1 DEF ResidentOps
<1>5. CASE Works(r) /\ r.op = "ATTN_PREFILL_BLOCK"
  <2> DEFINE p == PrefillTasksPerCore(r)
  <2>1. p \in Nat /\ p <= MaxTasks
        BY <1>5, Checked
  <2>2. Budget(r, k) = k * p /\ StageCount(r) = 1
        BY <1>5 DEF Budget, StageCount
  <2> HIDE DEF p
  <2>3. CASE k = 0
    <3>1. Budget(r, k) = 0
          BY <2>1, <2>2, <2>3
    <3> QED BY <1>2, <1>5, <3>1 DEF ResidentOps
  <2>4. CASE k = 1
    <3>1. Budget(r, k) = p
          BY <2>1, <2>2, <2>4
    <3> QED BY <1>2, <1>5, <2>1, <2>2, <2>4, <3>1 DEF ResidentOps
  <2> QED BY <1>3, <2>2, <2>3, <2>4
<1>6. CASE Works(r) /\ r.op \in ResidentOps
  <2> DEFINE n == r.tokens
             attention == 2 + Waves[0] + Waves[1] + Waves[2] + n * Slot + Waves[3]
             ffn == 3 + Waves[4] + Waves[5] + Waves[6]
             a == AttentionBudget(n, k)
             f == FfnBudget(k)
             g == FfnBudget(k - (6 + n))
  <2>1. n > 0 /\ n <= ActiveTokens /\ n \in Nat
        BY <1>6, Checked DEF Works
  <2>2. attention + ffn <= Core0TasksMax /\ Core0TasksMax <= MaxTasks
        /\ Core0TasksMax \in Nat
        BY <2>1, StaticLimits
  <2>3. /\ a \in Nat /\ a <= attention /\ (k < 6 + n => a < attention)
        BY <1>3, <2>1, AttentionBudgetGrows
  <2>4. /\ f \in Nat /\ f <= ffn /\ (k < 6 => f < ffn)
        BY <1>3, FfnBudgetGrows
  <2>5. k - (6 + n) \in Int
        BY <1>3, <2>1
  <2>6. /\ g \in Nat /\ g <= ffn /\ (k - (6 + n) < 6 => g < ffn)
        BY <2>5, FfnBudgetGrows
  <2>7. attention \in Nat /\ ffn \in Nat
    <3>1. n * Slot \in Nat
          BY <1>3, <2>1, AttentionBudgetGrows
    <3> DEFINE all == n * Slot
    <3> HIDE DEF all
    <3>2. all \in Nat
          BY <3>1 DEF all
    <3>3. 2 + Waves[0] + Waves[1] + Waves[2] + all + Waves[3] \in Nat /\ ffn \in Nat
          BY <3>2, Constants
    <3> QED BY <3>3 DEF all
  <2>8. Budget(r, k) = IF r.op = "FFN_SUBLAYER" THEN f
                       ELSE IF r.op = "ATTENTION_SUBLAYER" THEN a ELSE a + g
        BY <1>6 DEF Budget, ResidentOps
  <2>9. StageCount(r) = IF r.op = "FFN_SUBLAYER" THEN 6
                        ELSE IF r.op = "ATTENTION_SUBLAYER" THEN 6 + n ELSE 12 + n
        BY <1>6 DEF StageCount, ResidentOps
  <2> HIDE DEF n, attention, ffn, a, f, g
  <2>10. Budget(r, k) \in Nat /\ Budget(r, k) <= attention + ffn
        BY <2>3, <2>4, <2>6, <2>7, <2>8
  <2>11. k < StageCount(r) => Budget(r, k) < attention + ffn
    <3>1. CASE r.op = "FFN_SUBLAYER"
          BY <3>1, <1>3, <2>4, <2>7, <2>8, <2>9
    <3>2. CASE r.op = "ATTENTION_SUBLAYER"
          BY <3>2, <1>3, <2>1, <2>3, <2>7, <2>8, <2>9
    <3>3. CASE r.op \notin {"FFN_SUBLAYER", "ATTENTION_SUBLAYER"}
      <4>1. k < 12 + n => k - (6 + n) < 6
            BY <1>3, <2>1
      <4> QED BY <3>3, <4>1, <2>3, <2>6, <2>7, <2>8, <2>9
    <3> QED BY <3>1, <3>2, <3>3
  <2> QED BY <1>2, <2>2, <2>7, <2>10, <2>11
<1> QED BY <1>1, <1>4, <1>5, <1>6 DEF ResidentOps, Works

(* Every stage costs a core no more than the budget grows by it. *)
LEMMA BudgetCovers ==
    ASSUME NEW r \in Requests, NEW k \in 1..StageCount(r), NEW c \in Cores
    PROVE  Count(CoreTasks(StageAt(r, k), c, r.tokens)) + Budget(r, k - 1)
             <= Budget(r, k)
<1> DEFINE n == r.tokens
<1>1. r.op \in {"NOP", "DECODER_LAYER", "ATTENTION_SUBLAYER", "FFN_SUBLAYER",
                "FINAL_NORM", "ATTN_PREFILL_BLOCK"} /\ n \in Nat
      BY Checked DEF Ops
<1>2. StageCount(r) \in Nat
      BY StagesAt
<1>3. CASE ~Works(r)
  <2>1. StageAt(r, k) = Stage("stop", 0, TRUE)
        BY <1>3 DEF StageAt
  <2>2. Count(CoreTasks(Stage("stop", 0, TRUE), c, n)) = 1
        BY DEF Count, CoreTasks, Stage, Tasks
  <2>3. Budget(r, k) = k /\ Budget(r, k - 1) = k - 1
        BY <1>3 DEF Budget
  <2>4. Count(CoreTasks(StageAt(r, k), c, r.tokens)) = 1
        BY <2>1, <2>2
  <2>5. 1 + (k - 1) <= k
        BY <1>2
  <2> QED BY <2>3, <2>4, <2>5
<1>4. CASE Works(r) /\ r.op = "FINAL_NORM"
  <2> DEFINE s == Vector(HiddenBlocks, TRUE)
  <2>1. StageAt(r, k) = s
        BY <1>4 DEF StageAt
  <2>2. s \in StageRecs /\ s.kind = "vector"
        BY Constants DEF Vector, Stage, StageRecs
  <2>3. n > 0
        BY <1>4, Checked
  <2> HIDE DEF s
  <2> DEFINE cost == Count(CoreTasks(s, c, n))
  <2>4. cost <= 1 /\ cost \in Nat
        BY <1>1, <2>2, <2>3, VectorStage, TasksTyped
  <2>5. Budget(r, k) = k /\ Budget(r, k - 1) = k - 1
        BY <1>4 DEF Budget
  <2> HIDE DEF cost
  <2>6. cost + (k - 1) <= k
        BY <2>4
  <2> QED BY <2>1, <2>5, <2>6 DEF cost
<1>5. CASE Works(r) /\ r.op = "ATTN_PREFILL_BLOCK"
  <2> DEFINE e == r.position + r.tokens
             s == Stage("block", e, TRUE)
             p == PrefillTasksPerCore(r)
  <2>1. StageAt(r, k) = s
        BY <1>5 DEF StageAt
  <2>2. e \in Nat
        BY Checked
  <2>3. s \in StageRecs /\ s.kind = "block" /\ s.n = e
        BY <2>2 DEF Stage, StageRecs
  <2>4. p = Tiles(e) * GqaGroup * (1 + PvWaves) /\ p \in Nat
        BY Checked DEF PrefillTasksPerCore
  <2>5. Budget(r, k) = k * p /\ Budget(r, k - 1) = (k - 1) * p /\ k = 1
        BY <1>5 DEF Budget, StageCount
  <2> HIDE DEF e, s, p
  <2>6. MatrixOf(s) = p
        BY <2>3, <2>4 DEF MatrixOf
  <2>7. CoreTasks(s, c, n) = MmTasks(p)
        BY <1>1, <2>3, <2>6, MatrixStage
  <2>8. Count(CoreTasks(s, c, n)) = p
        BY <2>4, <2>7, MatrixTasks
  <2>9. Budget(r, k) = p /\ Budget(r, k - 1) = 0
    <3>1. 1 * p = p /\ (1 - 1) * p = 0
          BY <2>4
    <3> QED BY <2>5, <3>1
  <2> QED BY <2>1, <2>4, <2>8, <2>9
<1>6. CASE Works(r) /\ r.op = "FFN_SUBLAYER"
  <2>1. StageAt(r, k) = FfnStage(k) /\ k \in 1..6
        BY <1>6 DEF StageAt, StageCount
  <2>2. Budget(r, k) = FfnBudget(k) /\ Budget(r, k - 1) = FfnBudget(k - 1)
        BY <1>6 DEF Budget
  <2>3. n > 0
        BY <1>6, Checked
  <2> QED BY <1>1, <2>1, <2>2, <2>3, FfnStageCost
<1>7. CASE Works(r) /\ r.op = "ATTENTION_SUBLAYER"
  <2>1. k \in 1..(6 + n)
        BY <1>7 DEF StageCount
  <2>2. StageAt(r, k) = AttentionStage(r, k)
        BY <1>1, <1>7, <2>1 DEF StageAt, Stage
  <2>3. Budget(r, k) = AttentionBudget(n, k)
        /\ Budget(r, k - 1) = AttentionBudget(n, k - 1)
        BY <1>7 DEF Budget
  <2>4. n > 0 /\ r.position + n <= MaxSeq
        BY <1>7, Checked
  <2> QED BY <2>1, <2>2, <2>3, <2>4, AttentionStageCost
<1>8. CASE Works(r) /\ r.op = "DECODER_LAYER"
  <2>0. n > 0 /\ r.position + n <= MaxSeq
        BY <1>8, Checked
  <2>1. StageCount(r) = 12 + n
        BY <1>8 DEF StageCount
  <2>2. /\ Budget(r, k) = AttentionBudget(n, k) + FfnBudget(k - (6 + n))
        /\ Budget(r, k - 1) = AttentionBudget(n, k - 1) + FfnBudget((k - 1) - (6 + n))
        BY <1>8 DEF Budget
  <2>3. k \in Nat /\ k - 1 \in Nat /\ k - (6 + n) \in Int /\ (k - 1) - (6 + n) \in Int
        BY <1>1, <1>2
  <2> DEFINE cost == Count(CoreTasks(StageAt(r, k), c, n))
             a == AttentionBudget(n, k)
             b == AttentionBudget(n, k - 1)
             f == FfnBudget(k - (6 + n))
             g == FfnBudget((k - 1) - (6 + n))
  <2>4. a \in Nat /\ b \in Nat /\ f \in Nat /\ g \in Nat
        BY <1>1, <2>0, <2>3, AttentionBudgetGrows, FfnBudgetGrows
  <2>5. cost \in Nat
    <3>1. StageAt(r, k) \in StageRecs
          BY <2>3, StageTyped
    <3> QED BY <1>1, <2>0, <3>1, TasksTyped
  <2>6. CASE k <= 6 + n
    <3>1. StageAt(r, k) = AttentionStage(r, k)
          BY <1>8, <2>6 DEF StageAt, Stage
    <3>2. k \in 1..(6 + n)
          BY <1>1, <2>6
    <3>3. cost + b <= a
          BY <3>1, <3>2, <2>0, AttentionStageCost
    <3>4. f = 0 /\ g = 0
      <4>1. k - (6 + n) <= 0 /\ (k - 1) - (6 + n) <= 0
            BY <1>1, <2>3, <2>6
      <4> QED BY <4>1, <2>3, FfnBudgetGrows
    <3> HIDE DEF cost, a, b, f, g
    <3>5. cost + (b + g) <= a + f
          BY <3>3, <3>4, <2>4, <2>5
    <3> QED BY <3>5, <2>2 DEF cost, a, b, f, g
  <2>7. CASE k > 6 + n
    <3>1. StageAt(r, k) = FfnStage(k - (6 + n))
          BY <1>1, <1>8, <2>7 DEF StageAt, Stage
    <3>2. k - (6 + n) \in 1..6 /\ (k - 1) - (6 + n) = (k - (6 + n)) - 1
          BY <1>1, <2>1, <2>7
    <3>3. cost + g <= f
      <4> DEFINE j == k - (6 + n)
      <4> HIDE DEF j
      <4>1. j \in 1..6 /\ (k - 1) - (6 + n) = j - 1 /\ k - (6 + n) = j
            BY <3>2 DEF j
      <4>2. Count(CoreTasks(FfnStage(j), c, n)) + FfnBudget(j - 1) <= FfnBudget(j)
            BY <1>1, <2>0, <4>1, FfnStageCost
      <4> QED BY <3>1, <4>1, <4>2
    <3>4. a = b
      <4>1. k >= 6 + n /\ k - 1 >= 6 + n
            BY <1>1, <2>3, <2>7
      <4> QED BY <1>1, <2>0, <2>3, <4>1, AttentionBudgetGrows
    <3> HIDE DEF cost, a, b, f, g
    <3>5. cost + (b + g) <= a + f
          BY <3>3, <3>4, <2>4, <2>5
    <3> QED BY <3>5, <2>2 DEF cost, a, b, f, g
  <2> QED BY <1>1, <2>6, <2>7
<1> QED BY <1>1, <1>3, <1>4, <1>5, <1>6, <1>7, <1>8 DEF Works

(* Every stage but the STOP of a launch without work has rows. *)
LEMMA StageHasRows ==
    ASSUME NEW r \in Requests, NEW k \in Nat \ {0}
    PROVE  /\ r.tokens > 0 \/ StageAt(r, k).kind = "stop"
           /\ ~Works(r) => StageAt(r, k).kind = "stop"
<1>1. CASE Works(r)
      BY <1>1, Checked
<1>2. CASE ~Works(r)
      BY <1>2 DEF StageAt, Stage
<1> QED BY <1>1, <1>2

(* The first stage of a launch with work gives core 0 some. *)
LEMMA FirstStageWorks ==
    ASSUME NEW r \in Requests, Works(r)
    PROVE  CoreTasks(StageAt(r, 1), 0, r.tokens).mm
             + CoreTasks(StageAt(r, 1), 0, r.tokens).vec > 0
<1> DEFINE n == r.tokens
           s == StageAt(r, 1)
<1>1. r.op \in {"NOP", "DECODER_LAYER", "ATTENTION_SUBLAYER", "FFN_SUBLAYER",
                "FINAL_NORM", "ATTN_PREFILL_BLOCK"} /\ n \in Nat /\ n > 0
      BY Checked DEF Ops
<1>2. s \in StageRecs
      BY StageTyped
<1>3. 0 \in Cores
      BY DEF Cores
<1>4. CASE r.op = "ATTN_PREFILL_BLOCK"
  <2> DEFINE p == PrefillTasksPerCore(r)
  <2>1. s = Stage("block", r.position + r.tokens, TRUE)
        BY <1>4 DEF StageAt
  <2>2. s.kind = "block" /\ s.n = r.position + r.tokens
        BY <2>1 DEF Stage
  <2>3. MatrixOf(s) = p
        BY <2>2 DEF MatrixOf, PrefillTasksPerCore
  <2>4. p \in Nat /\ p > 0
        BY <1>4, Checked
  <2> HIDE DEF p, s
  <2>5. CoreTasks(s, 0, n) = MmTasks(p)
        BY <1>1, <1>2, <1>3, <2>2, <2>3, MatrixStage
  <2>6. CoreTasks(s, 0, n) = [mm |-> p, vec |-> 0, stop |-> 0, packets |-> p * Packets]
        BY <2>4, <2>5, MatrixTasks
  <2>7. CoreTasks(s, 0, n).mm = p /\ CoreTasks(s, 0, n).vec = 0
        BY <2>6
  <2>8. CoreTasks(s, 0, n).mm + CoreTasks(s, 0, n).vec > 0
        BY <2>4, <2>7
  <2> QED BY <2>8 DEF s
<1>5. CASE r.op # "ATTN_PREFILL_BLOCK"
  <2>1. s.kind = "vector"
    <3>1. CASE r.op = "FINAL_NORM"
          BY <3>1 DEF StageAt, Vector, Stage
    <3>2. CASE r.op = "FFN_SUBLAYER"
          BY <3>2 DEF StageAt, FfnStage, Vector, Stage
    <3>3. CASE r.op \notin {"FINAL_NORM", "FFN_SUBLAYER"}
      <4>0. 1 <= 6 + r.tokens
            BY <1>1
      <4>1. s = AttentionStage(r, 1)
            BY <1>1, <1>5, <3>3, <4>0 DEF StageAt, Stage
      <4>2. AttentionStage(r, 1) = Vector(HiddenBlocks, FALSE)
            BY DEF AttentionStage
      <4> QED BY <4>1, <4>2 DEF Vector, Stage
    <3> QED BY <3>1, <3>2, <3>3
  <2> DEFINE rows == CoreRows(n)[0]
  <2>2. rows > 0 /\ rows \in Nat
        BY <1>1, RowsOfCores
  <2> HIDE DEF s
  <2>3. CoreTasks(s, 0, n) =
           IF rows # 0 THEN [mm |-> 0, vec |-> 1, stop |-> 0, packets |-> rows * s.n]
           ELSE [mm |-> 0, vec |-> 0, stop |-> IF s.last THEN 1 ELSE 0, packets |-> 0]
        BY <1>1, <1>2, <1>3, <2>1, VectorStage
  <2>4. CoreTasks(s, 0, n).mm = 0 /\ CoreTasks(s, 0, n).vec = 1
        BY <2>2, <2>3
  <2>5. CoreTasks(s, 0, n).mm + CoreTasks(s, 0, n).vec > 0
        BY <2>4
  <2> QED BY <2>5 DEF s
<1> QED BY <1>4, <1>5

-----------------------------------------------------------------------------
(* Sums of tasks. *)
LEMMA Sums ==
    ASSUME NEW a \in TaskRecs, NEW b \in TaskRecs
    PROVE  /\ Sum(a, b) \in TaskRecs
           /\ Sum(a, b).mm = a.mm + b.mm
           /\ Sum(a, b).vec = a.vec + b.vec
           /\ Sum(a, b).packets = a.packets + b.packets
           /\ a.mm \in Nat /\ a.vec \in Nat /\ a.stop \in Nat /\ a.packets \in Nat
           /\ Count(a) \in Nat
           /\ Count(a) = a.mm + a.vec + a.stop
<1>1. a.mm \in Nat /\ a.vec \in Nat /\ a.stop \in Nat /\ a.packets \in Nat
      /\ b.mm \in Nat /\ b.vec \in Nat /\ b.stop \in Nat /\ b.packets \in Nat
      BY DEF TaskRecs
<1> DEFINE w == a.mm + b.mm
           x == a.vec + b.vec
           y == a.stop + b.stop
           z == a.packets + b.packets
<1>2. Sum(a, b) = [mm |-> w, vec |-> x, stop |-> y, packets |-> z]
      BY DEF Sum, Tasks
<1>3. w \in Nat /\ x \in Nat /\ y \in Nat /\ z \in Nat
      BY <1>1
<1>4. Count(a) = a.mm + a.vec + a.stop
      BY DEF Count
<1> HIDE DEF w, x, y, z
<1>5. Sum(a, b) \in TaskRecs /\ Sum(a, b).mm = w /\ Sum(a, b).vec = x
      /\ Sum(a, b).packets = z
      BY <1>2, <1>3 DEF TaskRecs
<1> QED BY <1>1, <1>4, <1>5 DEF w, x, z

(* No tasks at all. *)
LEMMA NoTasksAre ==
    /\ NoTasks \in TaskRecs
    /\ NoTasks = [mm |-> 0, vec |-> 0, stop |-> 0, packets |-> 0]
    /\ NoTasks.mm = 0 /\ NoTasks.vec = 0 /\ NoTasks.packets = 0
    /\ Count(NoTasks) = 0
BY DEF NoTasks, Tasks, TaskRecs, Count

(* What the invariant says of the stage at work and of the two services:   *)
(* a service has room for all the tasks it was sent.                       *)
LEMMA Reached ==
    ASSUME IInv
    PROVE  /\ request \in Requests /\ todo \in Seq(StageRecs)
           /\ \A c \in Cores :
                /\ sent[c] \in TaskRecs /\ Count(sent[c]) \in Nat
                /\ service[c].index \in Nat /\ service[c].done \in TaskRecs
                /\ Work(c) \in TaskRecs
           /\ phase # "idle" => Emitted \in 0..StageCount(request)
           /\ stage # NoStage =>
                /\ phase = "running" /\ Emitted \in 1..StageCount(request)
                /\ stage = StageAt(request, Emitted) /\ stage \in StageRecs
                /\ request.tokens > 0 \/ stage.kind = "stop"
                /\ ~Works(request) => stage.kind = "stop"
           /\ phase # "idle" => \A c \in Cores : Readable(c) = sent[c]
           /\ stage = NoStage => \A c \in Cores : sent[c] = NoTasks
<1>1. request \in Requests /\ todo \in Seq(StageRecs)
      /\ sent \in [Cores -> TaskRecs]
      /\ stage \in StageRecs \cup {NoStage}
      BY DEF IInv, Shape
<1>2. service \in [Cores -> [index : Nat, running : BOOLEAN, ended : BOOLEAN,
                             done : TaskRecs]]
      BY DEF IInv, Shape
<1>3. ASSUME NEW c \in Cores
      PROVE  /\ sent[c] \in TaskRecs /\ Count(sent[c]) \in Nat
             /\ service[c].index \in Nat /\ service[c].done \in TaskRecs
             /\ Work(c) \in TaskRecs
  <2>1. sent[c] \in TaskRecs
        BY <1>1
  <2>2. service[c] \in [index : Nat, running : BOOLEAN, ended : BOOLEAN,
                        done : TaskRecs]
        BY <1>2
  <2>3. service[c].index \in Nat /\ service[c].done \in TaskRecs
        BY <2>2
  <2> QED BY <2>1, <2>3, Sums DEF Work
<1>4. /\ Stages(request) \in Seq(StageRecs)
      /\ Len(Stages(request)) = StageCount(request)
      /\ StageCount(request) \in Nat \ {0}
      /\ \A k \in 1..StageCount(request) : Stages(request)[k] = StageAt(request, k)
      BY <1>1, StagesAt
<1>5. phase # "idle" => Emitted \in 0..StageCount(request)
  <2>1. Len(todo) \in Nat
        BY <1>1
  <2>2. phase # "idle" => Emitted >= 0
        BY DEF IInv, Queue
  <2>3. Emitted = StageCount(request) - Len(todo)
        BY <1>4 DEF Emitted
  <2> HIDE DEF Emitted
  <2> QED BY <1>4, <2>1, <2>2, <2>3
<1>6. ASSUME stage # NoStage
      PROVE  /\ phase = "running" /\ Emitted \in 1..StageCount(request)
             /\ stage = StageAt(request, Emitted) /\ stage \in StageRecs
             /\ request.tokens > 0 \/ stage.kind = "stop"
             /\ ~Works(request) => stage.kind = "stop"
  <2>1. phase = "running"
        BY <1>6 DEF IInv, Queue
  <2>2. Emitted >= 1 /\ stage = Stages(request)[Emitted]
        BY <1>6, <2>1 DEF IInv, Queue
  <2>3. Emitted \in 1..StageCount(request)
        BY <1>4, <1>5, <2>1, <2>2
  <2>4. stage = StageAt(request, Emitted) /\ Emitted \in Nat \ {0}
        BY <1>4, <2>2, <2>3
  <2> QED BY <1>1, <1>6, <2>1, <2>3, <2>4, StageHasRows
<1>7. ASSUME phase # "idle", NEW c \in Cores
      PROVE  Readable(c) = sent[c]
  <2> DEFINE i == service[c].index
             n == Count(sent[c])
             b == Budget(request, Emitted)
  <2>1. i + n <= b
        BY <1>7 DEF IInv, Budgeted
  <2>2. b \in Nat /\ b <= MaxTasks
        BY <1>1, <1>5, <1>7, BudgetBound
  <2>3. i \in Nat /\ n \in Nat /\ MaxTasks \in Nat
        BY <1>3, Constants
  <2>4. Readable(c) = IF n <= MaxTasks - i THEN sent[c] ELSE MmTasks(MaxTasks - i)
        BY DEF Readable
  <2> HIDE DEF i, n, b
  <2>5. n <= MaxTasks - i
        BY <2>1, <2>2, <2>3
  <2> QED BY <2>4, <2>5
<1>8. stage = NoStage => \A c \in Cores : sent[c] = NoTasks
      BY DEF IInv, Dispatched
<1> QED BY <1>1, <1>3, <1>5, <1>6, <1>7, <1>8

-----------------------------------------------------------------------------
(* IInv holds at the start ... *)
LEMMA Initially == Init => IInv
<1> SUFFICES ASSUME Init PROVE IInv
    OBVIOUS
<1>1. /\ phase = "idle" /\ request \in Requests /\ todo = << >> /\ stage = NoStage
      /\ sent = [c \in Cores |-> NoTasks]
      /\ service = [c \in Cores |-> NotStarted]
      /\ status = FirstStatus(request)
      BY DEF Init
<1>2. Shape
  <2>1. sent \in [Cores -> TaskRecs]
        BY <1>1, NoTasksAre
  <2>2. NotStarted \in [index : Nat, running : BOOLEAN, ended : BOOLEAN, done : TaskRecs]
        BY NoTasksAre DEF NotStarted
  <2>3. service \in [Cores -> [index : Nat, running : BOOLEAN, ended : BOOLEAN,
                               done : TaskRecs]]
        BY <1>1, <2>2
  <2> QED BY <1>1, <2>1, <2>3 DEF Shape
<1>3. Queue
      BY <1>1 DEF Queue
<1>4. Dispatched
      BY <1>1 DEF Dispatched
<1>5. Budgeted
      BY <1>1 DEF Budgeted, NotStarted
<1>6. Ending
      BY <1>1 DEF Ending, NotStarted
<1>7. CountsAgree /\ Worked
      BY <1>1 DEF CountsAgree, Worked
<1>8. Answer
      BY <1>1 DEF Answer, FirstStatus
<1> QED BY <1>2, <1>3, <1>4, <1>5, <1>6, <1>7, <1>8 DEF IInv

(* ... a launch begins it anew ... *)
LEMMA LaunchKeeps ==
    ASSUME IInv, Launch
    PROVE  IInv'
<1>1. PICK r \in Requests : Begin(r)
      BY DEF Launch
<1>2. /\ phase' = "running" /\ request' = r /\ todo' = Stages(r) /\ stage' = NoStage
      /\ sent' = [c \in Cores |-> NoTasks]
      /\ service' = [c \in Cores |-> Started]
      /\ status' = FirstStatus(r)
      BY <1>1 DEF Launch, Begin
<1>3. /\ Stages(r) \in Seq(StageRecs) /\ Len(Stages(r)) \in Nat
      /\ StageCount(r) \in Nat \ {0}
      BY StagesAt
<1>4. Emitted' = 0
  <2>1. Emitted' = Len(Stages(r)) - Len(Stages(r))
        BY <1>2 DEF Emitted
  <2> QED BY <1>3, <2>1
<1>5. \A c \in Cores : sent'[c] = NoTasks /\ service'[c] = Started
      BY <1>2
<1>6. Started.index = 0 /\ Started.running = TRUE /\ Started.done = NoTasks
      BY DEF Started
<1>7. Shape'
  <2>1. sent' \in [Cores -> TaskRecs]
        BY <1>2, NoTasksAre
  <2>2. Started \in [index : Nat, running : BOOLEAN, ended : BOOLEAN, done : TaskRecs]
        BY NoTasksAre DEF Started
  <2>3. service' \in [Cores -> [index : Nat, running : BOOLEAN, ended : BOOLEAN,
                                done : TaskRecs]]
        BY <1>2, <2>2
  <2> QED BY <1>2, <1>3, <2>1, <2>3 DEF Shape
<1>8. Queue'
  <2>1. \A i \in 1..Len(todo') : todo'[i] = Stages(request')[0 + i]
        BY <1>2, <1>3
  <2> QED BY <1>2, <1>4, <2>1 DEF Queue
<1>9. Dispatched'
      BY <1>5 DEF Dispatched
<1>10. Budgeted'
  <2>1. Budget(r, 0) \in Nat
        BY <1>3, BudgetBound
  <2>2. \A c \in Cores : service'[c].index + Count(sent'[c]) = 0
        BY <1>5, <1>6, NoTasksAre
  <2> QED BY <1>2, <1>4, <2>1, <2>2 DEF Budgeted
<1>11. Ending'
      BY <1>5, <1>6 DEF Ending
<1>12. \A c \in Cores : Work(c)' = Sum(NoTasks, NoTasks)
      BY <1>5, <1>6 DEF Work
<1>13. /\ Sum(NoTasks, NoTasks).mm = 0 /\ Sum(NoTasks, NoTasks).vec = 0
       /\ Sum(NoTasks, NoTasks).packets = 0
      BY Sums, NoTasksAre
<1>14. 0 \in Cores /\ 1 \in Cores
      BY DEF Cores
<1>15. status'.mm = 0 /\ status'.vec = 0 /\ status'.packets = 0
      BY <1>2 DEF FirstStatus
<1>16. CountsAgree'
      BY <1>2, <1>12, <1>13, <1>14, <1>15 DEF CountsAgree, Counts
<1>17. Worked'
      BY <1>4, <1>12, <1>13 DEF Worked
<1>18. Answer'
      BY <1>2 DEF Answer, FirstStatus
<1> QED BY <1>7, <1>8, <1>9, <1>10, <1>11, <1>16, <1>17, <1>18 DEF IInv

(* ... a stage that is sent stays within the budget ... *)
LEMMA EmitKeeps ==
    ASSUME IInv, Emit
    PROVE  IInv'
<1> DEFINE r == request
           k == Emitted + 1
           s == Head(todo)
           n == request.tokens
<1>1. /\ phase = "running" /\ stage = NoStage /\ todo # << >>
      /\ stage' = s /\ todo' = Tail(todo)
      /\ sent' = [c \in Cores |-> CoreTasks(s, c, n)]
      /\ phase' = phase /\ request' = request /\ service' = service /\ status' = status
      /\ word' = word
      BY DEF Emit
<1>2. /\ r \in Requests /\ todo \in Seq(StageRecs)
      /\ \A c \in Cores :
           /\ service[c].index \in Nat /\ service[c].done \in TaskRecs
           /\ Work(c) \in TaskRecs /\ sent[c] = NoTasks
      /\ Emitted \in 0..StageCount(r)
      BY <1>1, Reached
<1>3. /\ Stages(r) \in Seq(StageRecs) /\ Len(Stages(r)) = StageCount(r)
      /\ StageCount(r) \in Nat \ {0}
      /\ \A i \in 1..StageCount(r) : Stages(r)[i] = StageAt(r, i)
      BY <1>2, StagesAt
<1>4. Len(todo) \in Nat \ {0} /\ s = todo[1] /\ s \in StageRecs
      /\ Tail(todo) \in Seq(StageRecs) /\ Len(Tail(todo)) = Len(todo) - 1
      /\ \A i \in 1..Len(Tail(todo)) : Tail(todo)[i] = todo[i + 1]
      BY <1>1, <1>2, HeadTailProperties
<1>5. Emitted = StageCount(r) - Len(todo) /\ Emitted' = StageCount(r) - Len(Tail(todo))
      BY <1>1, <1>3 DEF Emitted
<1>6. Emitted \in Nat /\ Emitted' = k /\ k \in 1..StageCount(r)
      BY <1>2, <1>3, <1>4, <1>5
<1>7. \A i \in 1..Len(todo) : todo[i] = Stages(r)[Emitted + i]
      BY <1>1 DEF IInv, Queue
<1>8. s = Stages(r)[k] /\ s = StageAt(r, k)
      BY <1>3, <1>4, <1>6, <1>7
<1>9. n \in Nat /\ (n > 0 \/ s.kind = "stop") /\ (~Works(r) => s.kind = "stop")
  <2>1. k \in Nat \ {0}
        BY <1>6
  <2> QED BY <1>2, <1>8, <2>1, StageHasRows, Checked
<1>10. \A c \in Cores : sent'[c] = CoreTasks(s, c, n) /\ sent'[c] \in TaskRecs
                        /\ Count(sent'[c]) \in Nat
      BY <1>1, <1>4, <1>9, TasksTyped
<1>11. \A c \in Cores : Work(c)' = Sum(service[c].done, CoreTasks(s, c, n))
      BY <1>1, <1>10 DEF Work
<1>12. \A c \in Cores : Work(c) = Sum(service[c].done, NoTasks)
      BY <1>2 DEF Work
<1>13. ASSUME NEW c \in Cores
       PROVE  /\ Work(c)'.mm = Work(c).mm + CoreTasks(s, c, n).mm
              /\ Work(c)'.vec = Work(c).vec + CoreTasks(s, c, n).vec
              /\ Work(c)'.packets = Work(c).packets + CoreTasks(s, c, n).packets
              /\ Work(c).mm \in Nat /\ Work(c).vec \in Nat /\ Work(c).packets \in Nat
              /\ CoreTasks(s, c, n).mm \in Nat /\ CoreTasks(s, c, n).vec \in Nat
              /\ CoreTasks(s, c, n).packets \in Nat
  <2> DEFINE d == service[c].done
             t == CoreTasks(s, c, n)
  <2>1. d \in TaskRecs /\ t \in TaskRecs
        BY <1>2, <1>10
  <2>2. /\ Sum(d, t).mm = d.mm + t.mm /\ Sum(d, t).vec = d.vec + t.vec
        /\ Sum(d, t).packets = d.packets + t.packets
        /\ d.mm \in Nat /\ d.vec \in Nat /\ d.packets \in Nat
        BY <2>1, Sums
  <2>3. t.mm \in Nat /\ t.vec \in Nat /\ t.packets \in Nat
        BY <2>1, Sums
  <2>4. /\ Sum(d, NoTasks).mm = d.mm + 0 /\ Sum(d, NoTasks).vec = d.vec + 0
        /\ Sum(d, NoTasks).packets = d.packets + 0
        BY <2>1, Sums, NoTasksAre
  <2>5. Work(c)' = Sum(d, t) /\ Work(c) = Sum(d, NoTasks)
        BY <1>11, <1>12
  <2> HIDE DEF d, t
  <2>6. /\ Work(c)'.mm = d.mm + t.mm /\ Work(c)'.vec = d.vec + t.vec
        /\ Work(c)'.packets = d.packets + t.packets
        /\ Work(c).mm = d.mm /\ Work(c).vec = d.vec /\ Work(c).packets = d.packets
        BY <2>2, <2>4, <2>5
  <2> QED BY <2>2, <2>3, <2>6 DEF t
<1> HIDE DEF r, k, s, n
<1>14. Shape'
  <2>1. sent' \in [Cores -> TaskRecs]
    <3>1. sent' = [c \in Cores |-> CoreTasks(s, c, n)]
          BY <1>1
    <3>2. \A c \in Cores : CoreTasks(s, c, n) \in TaskRecs
          BY <1>10
    <3> QED BY <3>1, <3>2
  <2> QED BY <1>1, <1>4, <2>1 DEF IInv, Shape
<1>15. Queue'
  <2>1. \A i \in 1..Len(todo') : todo'[i] = Stages(r)[k + i]
    <3> SUFFICES ASSUME NEW i \in 1..Len(todo') PROVE todo'[i] = Stages(r)[k + i]
        OBVIOUS
    <3>1. i \in 1..Len(Tail(todo)) /\ todo'[i] = Tail(todo)[i]
          BY <1>1
    <3>2. i + 1 \in 1..Len(todo) /\ Emitted + (i + 1) = k + i
          BY <1>4, <1>6, <3>1 DEF k
    <3> QED BY <1>4, <1>7, <3>1, <3>2
  <2>2. k \in Nat /\ k >= 1
        BY <1>6
  <2> QED BY <1>1, <1>6, <1>8, <2>1, <2>2 DEF Queue, r
<1>16. s # NoStage
  <2>1. s.kind # "none"
        BY <1>4 DEF StageRecs
  <2> QED BY <2>1 DEF NoStage, Stage
<1>17. Dispatched'
      BY <1>1, <1>10, <1>16 DEF Dispatched, n
<1>18. Budgeted'
  <2> SUFFICES ASSUME NEW c \in Cores
               PROVE  service'[c].index + Count(sent'[c]) <= Budget(request', Emitted')
      BY <1>1 DEF Budgeted
  <2> DEFINE i == service[c].index
             t == Count(CoreTasks(s, c, n))
             b == Budget(r, k - 1)
             e == Budget(r, k)
  <2>1. i + Count(NoTasks) <= Budget(r, Emitted)
        BY <1>1, <1>2 DEF IInv, Budgeted, r
  <2>2. Emitted = k - 1
        BY <1>6 DEF k
  <2>3. i + 0 <= b
        BY <2>1, <2>2, NoTasksAre
  <2>4. t + b <= e
        BY <1>2, <1>6, <1>8, BudgetCovers DEF n, r
  <2>5. i \in Nat /\ t \in Nat
        BY <1>2, <1>10
  <2>6. b \in Nat /\ e \in Nat
    <3>1. k \in 0..StageCount(r) /\ k - 1 \in 0..StageCount(r)
          BY <1>3, <1>6
    <3> QED BY <1>2, <3>1, BudgetBound
  <2>7. service'[c].index = i /\ Count(sent'[c]) = t
        BY <1>1, <1>10
  <2>8. Budget(request', Emitted') = e
        BY <1>1, <1>6 DEF r
  <2> HIDE DEF i, t, b, e
  <2> QED BY <2>3, <2>4, <2>5, <2>6, <2>7, <2>8
<1>19. Ending'
      BY <1>1 DEF IInv, Ending
<1>20. 0 \in Cores /\ 1 \in Cores
      BY DEF Cores
<1>21. CountsAgree'
  <2> DEFINE more == Counted(s, n)
             a == CoreTasks(s, 0, n)
             b == CoreTasks(s, 1, n)
  <2>1. more.mm = a.mm + b.mm /\ more.vec = a.vec + b.vec
        /\ more.packets = a.packets + b.packets
        BY <1>4, <1>9, StageTasks
  <2>2. /\ status.mm + 0 = Work(0).mm + Work(1).mm
        /\ status.vec + 0 = Work(0).vec + Work(1).vec
        /\ status.packets + 0 = Work(0).packets + Work(1).packets
        BY <1>1 DEF IInv, CountsAgree, Counts
  <2>3. status.mm \in Nat /\ status.vec \in Nat /\ status.packets \in Nat
        BY DEF IInv, Answer
  <2>4. /\ Work(0)'.mm = Work(0).mm + a.mm /\ Work(1)'.mm = Work(1).mm + b.mm
        /\ Work(0)'.vec = Work(0).vec + a.vec /\ Work(1)'.vec = Work(1).vec + b.vec
        /\ Work(0)'.packets = Work(0).packets + a.packets
        /\ Work(1)'.packets = Work(1).packets + b.packets
        /\ {Work(0).mm, Work(1).mm, Work(0).vec, Work(1).vec, Work(0).packets,
            Work(1).packets, a.mm, b.mm, a.vec, b.vec, a.packets, b.packets}
             \subseteq Nat
        BY <1>13, <1>20
  <2> HIDE DEF more, a, b
  <2>5. /\ status.mm + more.mm = Work(0)'.mm + Work(1)'.mm
        /\ status.vec + more.vec = Work(0)'.vec + Work(1)'.vec
        /\ status.packets + more.packets = Work(0)'.packets + Work(1)'.packets
        BY <2>1, <2>2, <2>3, <2>4
  <2>6. status' = status /\ stage' = s /\ stage' # NoStage
        /\ Counted(stage', request'.tokens) = more
        BY <1>1, <1>16 DEF more, n
  <2> QED BY <2>5, <2>6 DEF CountsAgree
<1>22. Worked'
  <2>1. Works(r) => Work(0)'.mm + Work(0)'.vec > 0
    <3> SUFFICES ASSUME Works(r) PROVE Work(0)'.mm + Work(0)'.vec > 0
        OBVIOUS
    <3> DEFINE a == CoreTasks(s, 0, n)
    <3>1. /\ Work(0)'.mm = Work(0).mm + a.mm /\ Work(0)'.vec = Work(0).vec + a.vec
          /\ Work(0).mm \in Nat /\ Work(0).vec \in Nat /\ a.mm \in Nat /\ a.vec \in Nat
          BY <1>13, <1>20
    <3>2. CASE Emitted = 0
      <4>1. s = StageAt(r, 1)
            BY <1>8, <3>2 DEF k
      <4>2. a.mm + a.vec > 0
            BY <1>2, <4>1, FirstStageWorks DEF n, r
      <4> HIDE DEF a
      <4> QED BY <3>1, <4>2
    <3>3. CASE Emitted >= 1
      <4>1. Work(0).mm + Work(0).vec > 0
            BY <1>1, <3>3 DEF IInv, Worked, r
      <4> HIDE DEF a
      <4> QED BY <3>1, <4>1
    <3> QED BY <1>6, <3>2, <3>3
  <2>2. ASSUME ~Works(r), NEW c \in Cores
        PROVE  Work(c)'.mm = 0 /\ Work(c)'.vec = 0
    <3>1. Work(c).mm = 0 /\ Work(c).vec = 0
          BY <1>1, <2>2 DEF IInv, Worked, r
    <3>2. CoreTasks(s, c, n) = [mm |-> 0, vec |-> 0, stop |-> 1, packets |-> 0]
          BY <1>9, <2>2 DEF CoreTasks, Tasks
    <3>3. CoreTasks(s, c, n).mm = 0 /\ CoreTasks(s, c, n).vec = 0
          BY <3>2
    <3> QED BY <1>13, <3>1, <3>3
  <2> QED BY <1>1, <2>1, <2>2 DEF Worked, r
<1>23. Answer'
      BY <1>1 DEF IInv, Answer
<1> QED BY <1>14, <1>15, <1>17, <1>18, <1>19, <1>21, <1>22, <1>23 DEF IInv

(* ... a service runs all it was sent, and ends on the last stage alone ... *)
LEMMA ServeKeeps ==
    ASSUME IInv, NEW c \in Cores, Serve(c)
    PROVE  IInv'
<1> DEFINE run == sent[c]
           i == service[c].index
           ended == stage.last
           new == [index |-> i + Count(run), ended |-> ended,
                   running |-> ~ended /\ i + Count(run) < MaxTasks,
                   done |-> Sum(service[c].done, run)]
           left == Tasks(run.mm - run.mm, run.vec - run.vec, run.stop - run.stop,
                         run.packets - run.packets)
<1>1. Count(sent[c]) > 0
      BY DEF Serve
<1>2. sent[c] # NoTasks
      BY <1>1, NoTasksAre
<1>3. stage # NoStage
      BY <1>2, Reached
<1>4. /\ request \in Requests /\ phase = "running"
      /\ Emitted \in 1..StageCount(request)
      /\ stage = StageAt(request, Emitted) /\ stage \in StageRecs
      /\ Readable(c) = sent[c]
      /\ \A d \in Cores :
           /\ sent[d] \in TaskRecs /\ Count(sent[d]) \in Nat
           /\ service[d].index \in Nat /\ service[d].done \in TaskRecs
           /\ Work(d) \in TaskRecs
      BY <1>3, Reached
<1>5. /\ service' = [service EXCEPT ![c] = new]
      /\ sent' = [sent EXCEPT ![c] = left]
      /\ phase' = phase /\ request' = request /\ todo' = todo /\ stage' = stage
      /\ status' = status /\ word' = word
  <2>1. (stage.last /\ run = sent[c]) <=> stage.last
        OBVIOUS
  <2>2. stage.last \in BOOLEAN
        BY <1>4 DEF StageRecs
  <2> QED BY <1>4, <2>1, <2>2 DEF Serve
<1>6. left = NoTasks
  <2>1. run.mm \in Nat /\ run.vec \in Nat /\ run.stop \in Nat /\ run.packets \in Nat
        BY <1>4, Sums
  <2> QED BY <2>1 DEF NoTasks, Tasks
<1>7. /\ sent \in [Cores -> TaskRecs]
      /\ service \in [Cores -> [index : Nat, running : BOOLEAN, ended : BOOLEAN,
                                done : TaskRecs]]
      BY DEF IInv, Shape
<1>8. i \in Nat /\ Count(run) \in Nat /\ Sum(service[c].done, run) \in TaskRecs
      /\ ended \in BOOLEAN
  <2>1. service[c].done \in TaskRecs /\ run \in TaskRecs
        BY <1>4
  <2> QED BY <1>4, <2>1, Sums DEF StageRecs
<1>9. new \in [index : Nat, running : BOOLEAN, ended : BOOLEAN, done : TaskRecs]
  <2> DEFINE t == Sum(service[c].done, run)
             n == Count(run)
  <2>1. t \in TaskRecs /\ n \in Nat /\ i \in Nat /\ ended \in BOOLEAN
        BY <1>8
  <2> HIDE DEF t, n, i, ended
  <2>2. i + n \in Nat /\ (~ended /\ i + n < MaxTasks) \in BOOLEAN
        BY <2>1
  <2>3. [index |-> i + n, ended |-> ended, running |-> ~ended /\ i + n < MaxTasks,
         done |-> t] \in [index : Nat, running : BOOLEAN, ended : BOOLEAN,
                          done : TaskRecs]
        BY <2>1, <2>2
  <2> QED BY <2>3 DEF t, n
<1>10. /\ sent'[c] = NoTasks
       /\ service'[c].index = i + Count(run)
       /\ service'[c].done = Sum(service[c].done, run)
       /\ \A d \in Cores \ {c} : sent'[d] = sent[d] /\ service'[d] = service[d]
       BY <1>5, <1>6, <1>7
<1>11. service'[c] = new
       BY <1>5, <1>7
<1> HIDE DEF new, left
<1>12. Shape'
  <2>1. sent' \in [Cores -> TaskRecs]
        BY <1>5, <1>6, <1>7, NoTasksAre
  <2>2. service' \in [Cores -> [index : Nat, running : BOOLEAN, ended : BOOLEAN,
                                done : TaskRecs]]
        BY <1>5, <1>7, <1>9
  <2> QED BY <1>5, <2>1, <2>2 DEF IInv, Shape
<1>13. Emitted' = Emitted
      BY <1>5 DEF Emitted
<1>14. Queue'
      BY <1>5, <1>13 DEF IInv, Queue
<1>15. Dispatched'
      BY <1>5, <1>10 DEF IInv, Dispatched
<1>16. \A d \in Cores : service[d].index + Count(sent[d]) <= Budget(request, Emitted)
      BY <1>4 DEF IInv, Budgeted
<1>17. \A d \in Cores : service'[d].index + Count(sent'[d]) <= Budget(request, Emitted)
  <2> SUFFICES ASSUME NEW d \in Cores
               PROVE  service'[d].index + Count(sent'[d]) <= Budget(request, Emitted)
      OBVIOUS
  <2>1. CASE d = c
    <3>1. service'[d].index + Count(sent'[d]) = (i + Count(run)) + 0
          BY <1>10, <2>1, NoTasksAre
    <3>2. (i + Count(run)) + 0 = i + Count(run)
          BY <1>8
    <3> QED BY <1>16, <3>1, <3>2
  <2>2. CASE d # c
        BY <1>10, <1>16, <2>2
  <2> QED BY <2>1, <2>2
<1>18. Budgeted'
      BY <1>4, <1>5, <1>13, <1>17 DEF Budgeted
<1>19. Ending'
  <2> SUFFICES ASSUME NEW d \in Cores PROVE service'[d].running \/ service'[d].ended
      BY DEF Ending
  <2>1. CASE d = c /\ stage.last
    <3> DEFINE more == ~ended /\ i + Count(run) < MaxTasks
    <3>1. service'[d] = [index |-> i + Count(run), ended |-> TRUE, running |-> more,
                         done |-> Sum(service[c].done, run)]
      <4>1. ended = TRUE
            BY <1>8, <2>1
      <4> HIDE DEF ended
      <4> QED BY <1>11, <2>1, <4>1 DEF new
    <3> HIDE DEF more
    <3> QED BY <3>1
  <2>2. CASE d = c /\ ~stage.last
    <3> DEFINE b == Budget(request, Emitted)
               n == Count(run)
    <3>1. Emitted < StageCount(request)
      <4>1. Emitted # StageCount(request)
            BY <1>4, <2>2, LastStage
      <4>2. StageCount(request) \in Nat
            BY <1>4, StagesAt
      <4> QED BY <1>4, <4>1, <4>2
    <3>2. b \in Nat /\ b < MaxTasks
      <4>1. Emitted \in 0..StageCount(request)
        <5>1. StageCount(request) \in Nat
              BY <1>4, StagesAt
        <5> QED BY <1>4, <5>1
      <4> QED BY <1>4, <3>1, <4>1, BudgetBound
    <3>3. i + n <= b
          BY <1>16
    <3>4. i \in Nat /\ n \in Nat /\ MaxTasks \in Nat
          BY <1>8, Constants
    <3> HIDE DEF b, n, i
    <3>5. i + n < MaxTasks
          BY <3>2, <3>3, <3>4
    <3>6. service'[d].running = (~ended /\ i + n < MaxTasks)
          BY <1>11, <2>2 DEF new, n
    <3> QED BY <2>2, <3>5, <3>6
  <2>3. CASE d # c
        BY <1>10, <2>3 DEF IInv, Ending
  <2> QED BY <2>1, <2>2, <2>3
<1>20. \A d \in Cores : /\ Work(d)'.mm = Work(d).mm
                        /\ Work(d)'.vec = Work(d).vec
                        /\ Work(d)'.packets = Work(d).packets
  <2> SUFFICES ASSUME NEW d \in Cores
               PROVE  /\ Work(d)'.mm = Work(d).mm
                      /\ Work(d)'.vec = Work(d).vec
                      /\ Work(d)'.packets = Work(d).packets
      OBVIOUS
  <2>1. CASE d # c
    <3>1. sent'[d] = sent[d] /\ service'[d] = service[d]
          BY <1>10, <2>1
    <3>2. Work(d)' = Work(d)
          BY <3>1 DEF Work
    <3> QED BY <3>2
  <2>2. CASE d = c
    <3> DEFINE t == Sum(service[c].done, run)
    <3>1. t \in TaskRecs
          BY <1>8
    <3>2. Work(c) = t
          BY DEF Work
    <3>3. Work(c)' = Sum(t, NoTasks)
          BY <1>10 DEF Work
    <3> HIDE DEF t
    <3>4. /\ Sum(t, NoTasks).mm = t.mm + 0 /\ Sum(t, NoTasks).vec = t.vec + 0
          /\ Sum(t, NoTasks).packets = t.packets + 0
          /\ t.mm \in Nat /\ t.vec \in Nat /\ t.packets \in Nat
          BY <3>1, Sums, NoTasksAre
    <3> QED BY <2>2, <3>2, <3>3, <3>4
  <2> QED BY <2>1, <2>2
<1>21. 0 \in Cores /\ 1 \in Cores
      BY DEF Cores
<1>22. CountsAgree'
  <2> DEFINE more == Counted(stage, request.tokens)
  <2>1. /\ status.mm + more.mm = Work(0).mm + Work(1).mm
        /\ status.vec + more.vec = Work(0).vec + Work(1).vec
        /\ status.packets + more.packets = Work(0).packets + Work(1).packets
        BY <1>3, <1>4 DEF IInv, CountsAgree
  <2>2. status' = status /\ stage' # NoStage /\ Counted(stage', request'.tokens) = more
        BY <1>3, <1>5
  <2> HIDE DEF more
  <2>3. /\ status.mm + more.mm = Work(0)'.mm + Work(1)'.mm
        /\ status.vec + more.vec = Work(0)'.vec + Work(1)'.vec
        /\ status.packets + more.packets = Work(0)'.packets + Work(1)'.packets
        BY <1>20, <1>21, <2>1
  <2> QED BY <2>2, <2>3 DEF CountsAgree
<1>23. Worked'
  <2>1. /\ Works(request) /\ Emitted >= 1 => Work(0).mm + Work(0).vec > 0
        /\ ~Works(request) => \A d \in Cores : Work(d).mm = 0 /\ Work(d).vec = 0
        BY <1>4 DEF IInv, Worked
  <2>2. /\ Works(request) /\ Emitted >= 1 => Work(0)'.mm + Work(0)'.vec > 0
        /\ ~Works(request) => \A d \in Cores : Work(d)'.mm = 0 /\ Work(d)'.vec = 0
        BY <1>20, <1>21, <2>1
  <2> QED BY <1>5, <1>13, <2>2 DEF Worked
<1>24. Answer'
      BY <1>4, <1>5 DEF IInv, Answer
<1> QED BY <1>12, <1>14, <1>15, <1>18, <1>19, <1>22, <1>23, <1>24 DEF IInv

(* ... what the controller counts is what the services did ... *)
LEMMA CollectKeeps ==
    ASSUME IInv, Collect
    PROVE  IInv'
<1> DEFINE more == Counted(stage, request.tokens)
<1>1. /\ phase = "running" /\ stage # NoStage /\ stage' = NoStage
      /\ \A c \in Cores : sent[c] = NoTasks
      /\ status' = [status EXCEPT !.waves = @ + more.waves, !.mm = @ + more.mm,
                                  !.vec = @ + more.vec, !.packets = @ + more.packets]
      /\ phase' = phase /\ request' = request /\ todo' = todo /\ sent' = sent
      /\ service' = service /\ word' = word
      BY DEF Collect
<1>2. /\ request \in Requests /\ stage \in StageRecs
      /\ request.tokens > 0 \/ stage.kind = "stop"
      BY <1>1, Reached
<1>3. {more.waves, more.mm, more.vec, more.packets} \subseteq Nat
  <2>1. request.tokens \in Nat
        BY <1>2, Checked
  <2> QED BY <1>2, <2>1, StageTasks
<1>4. /\ {status.waves, status.mm, status.vec, status.packets} \subseteq Nat
      /\ status = [op |-> FirstStatus(request).op, code |-> FirstStatus(request).code,
                   last |-> 1, tokens |-> request.tokens, waves |-> status.waves,
                   mm |-> status.mm, vec |-> status.vec, packets |-> status.packets]
      BY DEF IInv, Answer
<1>5. Emitted' = Emitted
      BY <1>1 DEF Emitted
<1>6. \A c \in Cores : Work(c)' = Work(c)
      BY <1>1 DEF Work
<1>7. 0 \in Cores /\ 1 \in Cores
      BY DEF Cores
<1>8. /\ status.mm + more.mm = Work(0).mm + Work(1).mm
      /\ status.vec + more.vec = Work(0).vec + Work(1).vec
      /\ status.packets + more.packets = Work(0).packets + Work(1).packets
      BY <1>1 DEF IInv, CountsAgree
<1> HIDE DEF more
<1>9. status' = [op |-> FirstStatus(request).op, code |-> FirstStatus(request).code,
                 last |-> 1, tokens |-> request.tokens,
                 waves |-> status.waves + more.waves, mm |-> status.mm + more.mm,
                 vec |-> status.vec + more.vec,
                 packets |-> status.packets + more.packets]
  <2> DEFINE o == FirstStatus(request).op
             d == FirstStatus(request).code
             n == request.tokens
             w == status.waves
             m == status.mm
             v == status.vec
             p == status.packets
  <2>1. status = [op |-> o, code |-> d, last |-> 1, tokens |-> n,
                  waves |-> w, mm |-> m, vec |-> v, packets |-> p]
        BY <1>4
  <2> HIDE DEF o, d, n, w, m, v, p
  <2> DEFINE W == w + more.waves
             M == m + more.mm
             V == v + more.vec
             P == p + more.packets
             a == [status EXCEPT !.waves = W]
             b == [a EXCEPT !.mm = M]
             e == [b EXCEPT !.vec = V]
             f == [e EXCEPT !.packets = P]
  <2>2. status' = [status EXCEPT !.waves = W, !.mm = M, !.vec = V, !.packets = P]
        BY <1>1 DEF w, m, v, p
  <2> HIDE DEF W, M, V, P
  <2>3. [status EXCEPT !.waves = W, !.mm = M, !.vec = V, !.packets = P] = f
        OBVIOUS
  <2>4. a = [op |-> o, code |-> d, last |-> 1, tokens |-> n,
             waves |-> W, mm |-> m, vec |-> v, packets |-> p]
        BY <2>1
  <2> HIDE DEF a
  <2>5. b = [op |-> o, code |-> d, last |-> 1, tokens |-> n,
             waves |-> W, mm |-> M, vec |-> v, packets |-> p]
        BY <2>4
  <2> HIDE DEF b
  <2>6. e = [op |-> o, code |-> d, last |-> 1, tokens |-> n,
             waves |-> W, mm |-> M, vec |-> V, packets |-> p]
        BY <2>5
  <2> HIDE DEF e
  <2>7. f = [op |-> o, code |-> d, last |-> 1, tokens |-> n,
             waves |-> W, mm |-> M, vec |-> V, packets |-> P]
        BY <2>6
  <2> HIDE DEF f
  <2> QED BY <2>2, <2>3, <2>7 DEF W, M, V, P, o, d, n, w, m, v, p
<1>10. /\ status'.waves = status.waves + more.waves
       /\ status'.mm = status.mm + more.mm
       /\ status'.vec = status.vec + more.vec
       /\ status'.packets = status.packets + more.packets
      BY <1>9
<1>11. Shape'
      BY <1>1 DEF IInv, Shape
<1>12. Queue'
      BY <1>1, <1>5 DEF IInv, Queue
<1>13. Dispatched'
      BY <1>1 DEF Dispatched
<1>14. Budgeted'
      BY <1>1, <1>5 DEF IInv, Budgeted
<1>15. Ending'
      BY <1>1 DEF IInv, Ending
<1>16. CountsAgree'
  <2>1. /\ status'.mm = Work(0)'.mm + Work(1)'.mm
        /\ status'.vec = Work(0)'.vec + Work(1)'.vec
        /\ status'.packets = Work(0)'.packets + Work(1)'.packets
        BY <1>6, <1>7, <1>8, <1>10
  <2>2. status'.mm \in Nat /\ status'.vec \in Nat /\ status'.packets \in Nat
        BY <1>3, <1>4, <1>10
  <2>3. /\ status'.mm + 0 = status'.mm /\ status'.vec + 0 = status'.vec
        /\ status'.packets + 0 = status'.packets
        BY <2>2
  <2>4. stage' = NoStage
        BY <1>1
  <2>5. Counts(0, 0, 0, 0).mm = 0 /\ Counts(0, 0, 0, 0).vec = 0
        /\ Counts(0, 0, 0, 0).packets = 0
        BY DEF Counts
  <2> QED BY <2>1, <2>3, <2>4, <2>5 DEF CountsAgree
<1>17. Worked'
  <2>1. /\ Works(request) /\ Emitted >= 1 => Work(0).mm + Work(0).vec > 0
        /\ ~Works(request) => \A d \in Cores : Work(d).mm = 0 /\ Work(d).vec = 0
        BY <1>1 DEF IInv, Worked
  <2> QED BY <1>1, <1>5, <1>6, <1>7, <2>1 DEF Worked
<1>18. Answer'
  <2>1. status' = [op |-> FirstStatus(request').op, code |-> FirstStatus(request').code,
                   last |-> 1, tokens |-> request'.tokens, waves |-> status'.waves,
                   mm |-> status'.mm, vec |-> status'.vec, packets |-> status'.packets]
        BY <1>1, <1>9, <1>10
  <2>2. {status'.waves, status'.mm, status'.vec, status'.packets} \subseteq Nat
        BY <1>3, <1>4, <1>10
  <2> QED BY <1>1, <2>1, <2>2 DEF Answer
<1> QED BY <1>11, <1>12, <1>13, <1>14, <1>15, <1>16, <1>17, <1>18 DEF IInv

(* ... the report leaves the work alone ... *)
LEMMA SendStatusKeeps ==
    ASSUME IInv, SendStatus
    PROVE  IInv'
<1>1. /\ phase = "running" /\ phase' = "sent" /\ word' = Pack(status)
      /\ stage = NoStage /\ todo = << >>
      /\ request' = request /\ todo' = todo /\ stage' = stage /\ sent' = sent
      /\ service' = service /\ status' = status
      BY DEF SendStatus
<1>2. Emitted' = Emitted /\ \A c \in Cores : Work(c)' = Work(c)
      BY <1>1 DEF Emitted, Work
<1>3. \A c \in Cores : sent[c] = NoTasks
      BY <1>1, Reached
<1>4. 0 \in Cores /\ 1 \in Cores
      BY DEF Cores
<1>5. Shape'
      BY <1>1 DEF IInv, Shape
<1>6. Queue'
      BY <1>1, <1>2 DEF IInv, Queue
<1>7. Dispatched'
      BY <1>1 DEF IInv, Dispatched
<1>8. Budgeted'
      BY <1>1, <1>2 DEF IInv, Budgeted
<1>9. Ending'
      BY <1>1 DEF IInv, Ending
<1>10. CountsAgree'
      BY <1>1, <1>2, <1>4 DEF IInv, CountsAgree
<1>11. Worked'
      BY <1>1, <1>2, <1>4 DEF IInv, Worked
<1>12. Answer'
      BY <1>1, <1>3 DEF IInv, Answer
<1> QED BY <1>5, <1>6, <1>7, <1>8, <1>9, <1>10, <1>11, <1>12 DEF IInv

(* The host's verdict on the packed status is the controller's. *)
LEMMA Verdict ==
    ASSUME IInv, phase = "sent"
    PROVE  Accepts(request.op, Decode(word)) <=> StatusCode(request) = "OK"
<1>1. word = Pack(status) /\ request \in Requests
      BY DEF IInv, Answer, Shape
<1>2. request.op \in Ops /\ request.tokens \in Nat /\ ActiveTokens \in Nat
      /\ StatusCode(request) \in {"OK", "BAD_TOKEN_COUNT", "BAD_POSITION"}
      /\ (StatusCode(request) = "OK" => request.tokens <= ActiveTokens)
      BY <1>1, Checked, Constants
<1> DEFINE o == FirstStatus(request).op
           d == FirstStatus(request).code
<1>3. status = [op |-> o, code |-> d,
                last |-> 1, tokens |-> request.tokens, waves |-> status.waves,
                mm |-> status.mm, vec |-> status.vec, packets |-> status.packets]
      BY DEF IInv, Answer
<1>4. d = CodeNumber(StatusCode(request))
      BY DEF FirstStatus
<1>5. o = IF request.tokens > ActiveTokens THEN 0 ELSE OpNumber(request.op)
      BY DEF FirstStatus
<1> HIDE DEF o, d
<1>6. status.op = o /\ status.code = d /\ status.last = 1
      BY <1>3
<1>7. Fields = {"op", "code", "last", "tokens", "waves", "mm", "vec", "packets"}
      BY DEF Fields, Layout
<1>8. Width("op") = 5 /\ Width("code") = 4 /\ Width("last") = 1
      BY DEF Width, Layout
<1>9. 2 ^ 5 = 32 /\ 2 ^ 4 = 16 /\ 2 ^ 1 = 2
      OBVIOUS
<1>10. word.op = o % 32 /\ word.code = d % 16 /\ word.last = 1 % 2
  <2>1. word["op"] = status["op"] % (2 ^ Width("op"))
        /\ word["code"] = status["code"] % (2 ^ Width("code"))
        /\ word["last"] = status["last"] % (2 ^ Width("last"))
        BY <1>1, <1>7 DEF Pack
  <2> QED BY <2>1, <1>6, <1>8, <1>9
<1>11. OpNumber(request.op) \in {0, 16, 17, 18, 19, 20}
      BY <1>2 DEF Ops, OpNumber
<1>12. CASE StatusCode(request) = "OK"
  <2>1. d = 0
        BY <1>4, <1>12 DEF CodeNumber
  <2>2. o = OpNumber(request.op)
        BY <1>2, <1>5, <1>12
  <2>3. \A x \in {0, 16, 17, 18, 19, 20} : x % 32 = x
        OBVIOUS
  <2>4. o % 32 = OpNumber(request.op)
        BY <1>11, <2>2, <2>3
  <2>5. 0 % 16 = 0 /\ 1 % 2 = 1
        OBVIOUS
  <2>6. word.op = OpNumber(request.op) /\ word.code = 0 /\ word.last = 1
        BY <1>10, <2>1, <2>4, <2>5
  <2> QED BY <1>12, <2>6 DEF Accepts, Decode
<1>13. CASE StatusCode(request) # "OK"
  <2>1. d \in {2, 4}
        BY <1>2, <1>4, <1>13 DEF CodeNumber
  <2>2. \A x \in {2, 4} : x % 16 # 0
        OBVIOUS
  <2>3. word.code # 0
        BY <1>10, <2>1, <2>2
  <2> QED BY <1>13, <2>3 DEF Accepts, Decode
<1> QED BY <1>12, <1>13

(* ... and so does the host, which takes the controller's verdict.         *)
LEMMA CheckStatusKeeps ==
    ASSUME IInv, CheckStatus
    PROVE  IInv'
<1>1. /\ phase = "sent"
      /\ \A c \in Cores : ~service[c].running
      /\ phase' = IF Accepts(request.op, Decode(word)) THEN "accepted" ELSE "thrown"
      /\ request' = request /\ todo' = todo /\ stage' = stage /\ sent' = sent
      /\ service' = service /\ status' = status
      BY DEF CheckStatus
<1>2. Emitted' = Emitted /\ \A c \in Cores : Work(c)' = Work(c)
      BY <1>1 DEF Emitted, Work
<1>3. 0 \in Cores /\ 1 \in Cores
      BY DEF Cores
<1>4. phase' = IF StatusCode(request) = "OK" THEN "accepted" ELSE "thrown"
      BY <1>1, Verdict
<1>5. phase' \in {"accepted", "thrown"}
      BY <1>4
<1>6. Shape'
      BY <1>1, <1>5 DEF IInv, Shape
<1>7. Queue'
  <2>1. todo = << >> /\ stage = NoStage
        BY <1>1 DEF IInv, Queue
  <2> QED BY <1>1, <1>2, <1>5, <2>1 DEF IInv, Queue
<1>8. Dispatched'
      BY <1>1 DEF IInv, Dispatched
<1>9. Budgeted'
      BY <1>1, <1>2, <1>5 DEF IInv, Budgeted
<1>10. Ending'
      BY <1>1 DEF IInv, Ending
<1>11. CountsAgree'
      BY <1>1, <1>2, <1>3 DEF IInv, CountsAgree
<1>12. Worked'
      BY <1>1, <1>2, <1>3 DEF IInv, Worked
<1>13. Answer'
      BY <1>1, <1>4 DEF IInv, Answer
<1> QED BY <1>6, <1>7, <1>8, <1>9, <1>10, <1>11, <1>12, <1>13 DEF IInv

(* A step that changes nothing.  *)
LEMMA StutterKeeps ==
    ASSUME IInv, UNCHANGED vars
    PROVE  IInv'
<1>1. /\ phase' = phase /\ request' = request /\ todo' = todo /\ stage' = stage
      /\ sent' = sent /\ service' = service /\ status' = status /\ word' = word
      BY DEF vars
<1>2. Emitted' = Emitted /\ \A c \in Cores : Work(c)' = Work(c)
      BY <1>1 DEF Emitted, Work
<1>3. 0 \in Cores /\ 1 \in Cores
      BY DEF Cores
<1>4. Shape'
      BY <1>1 DEF IInv, Shape
<1>5. Queue'
      BY <1>1, <1>2 DEF IInv, Queue
<1>6. Dispatched'
      BY <1>1 DEF IInv, Dispatched
<1>7. Budgeted'
      BY <1>1, <1>2 DEF IInv, Budgeted
<1>8. Ending'
      BY <1>1 DEF IInv, Ending
<1>9. CountsAgree'
      BY <1>1, <1>2, <1>3 DEF IInv, CountsAgree
<1>10. Worked'
      BY <1>1, <1>2, <1>3 DEF IInv, Worked
<1>11. Answer'
      BY <1>1 DEF IInv, Answer
<1> QED BY <1>4, <1>5, <1>6, <1>7, <1>8, <1>9, <1>10, <1>11 DEF IInv

(* The strengthened invariant holds of every behaviour. *)
LEMMA Inductive == Spec => []IInv
<1>1. IInv /\ [Next]_vars => IInv'
  <2> SUFFICES ASSUME IInv, [Next]_vars PROVE IInv'
      OBVIOUS
  <2>1. CASE Launch
        BY <2>1, LaunchKeeps
  <2>2. CASE Emit
        BY <2>2, EmitKeeps
  <2>3. CASE Collect
        BY <2>3, CollectKeeps
  <2>4. CASE SendStatus
        BY <2>4, SendStatusKeeps
  <2>5. CASE CheckStatus
        BY <2>5, CheckStatusKeeps
  <2>6. CASE Exited
        BY <2>6, StutterKeeps DEF Exited
  <2>7. CASE \E c \in Cores : Serve(c)
        BY <2>7, ServeKeeps
  <2>8. CASE UNCHANGED vars
        BY <2>8, StutterKeeps
  <2> QED BY <2>1, <2>2, <2>3, <2>4, <2>5, <2>6, <2>7, <2>8 DEF Next
<1> QED BY <1>1, Initially, PTL DEF Spec

-----------------------------------------------------------------------------
(* The static bound of the service loop (compute_core_8x64_unified.hpp:7)  *)
(* suffices for every launch: no service stops before the task that ends   *)
(* its session.                                                            *)
THEOREM ServiceEnds == Spec => []ServiceEndsOnLastTask
<1>1. IInv => ServiceEndsOnLastTask
      BY DEF IInv, Ending, ServiceEndsOnLastTask
<1> QED BY <1>1, Inductive, PTL

(* Resident launches keep core 0 within the budget the build asserts       *)
(* (control_cache_8x64.hpp:124-133), wherever in the cache they start.     *)
THEOREM StaticBudget == Spec => []WithinStaticBudget
<1>1. IInv => WithinStaticBudget
  <2> SUFFICES ASSUME IInv, request.op \in ResidentOps, StatusCode(request) = "OK"
               PROVE  service[0].index <= Core0TasksMax
      BY DEF WithinStaticBudget
  <2>1. request \in Requests /\ 0 \in Cores
        BY DEF IInv, Shape, Cores
  <2>2. service[0].index \in Nat /\ Count(sent[0]) \in Nat
        BY <2>1, Reached
  <2>3. request.tokens \in Nat /\ request.tokens <= ActiveTokens
        BY <2>1, Checked
  <2>4. Core0TasksMax \in Nat
        BY <2>3, StaticLimits
  <2>5. CASE phase = "idle"
        BY <2>1, <2>4, <2>5 DEF IInv, Budgeted
  <2>6. CASE phase # "idle"
    <3> DEFINE b == Budget(request, Emitted)
    <3>1. Works(request)
          BY DEF Works, ResidentOps
    <3>2. Emitted \in 0..StageCount(request)
          BY <2>6, Reached
    <3>3. b \in Nat /\ b <= Core0TasksMax
          BY <2>1, <3>1, <3>2, BudgetBound
    <3>4. service[0].index + Count(sent[0]) <= b
          BY <2>1, <2>6 DEF IInv, Budgeted
    <3> HIDE DEF b
    <3> QED BY <2>2, <2>4, <3>3, <3>4
  <2> QED BY <2>5, <2>6
<1> QED BY <1>1, Inductive, PTL

(* The counts the controller reports are the tasks the services ran and    *)
(* the packets they returned.                                              *)
THEOREM CountsOfWork == Spec => []CountsAreWorkDone
<1>1. IInv => CountsAreWorkDone
  <2> SUFFICES ASSUME IInv, phase \in {"accepted", "thrown"}
               PROVE  /\ status.mm = service[0].done.mm + service[1].done.mm
                      /\ status.vec = service[0].done.vec + service[1].done.vec
                      /\ status.packets =
                           service[0].done.packets + service[1].done.packets
      BY DEF CountsAreWorkDone
  <2>0. 0 \in Cores /\ 1 \in Cores
        BY DEF Cores
  <2>1. stage = NoStage
        BY DEF IInv, Queue
  <2>2. \A c \in Cores : sent[c] = NoTasks /\ service[c].done \in TaskRecs
        BY <2>1, Reached
  <2>3. \A c \in Cores : Work(c) = Sum(service[c].done, NoTasks)
        BY <2>2 DEF Work
  <2>4. ASSUME NEW c \in Cores
        PROVE  /\ Work(c).mm = service[c].done.mm
               /\ Work(c).vec = service[c].done.vec
               /\ Work(c).packets = service[c].done.packets
    <3> DEFINE d == service[c].done
    <3>1. d \in TaskRecs /\ Work(c) = Sum(d, NoTasks)
          BY <2>2, <2>3
    <3> HIDE DEF d
    <3>2. /\ Sum(d, NoTasks).mm = d.mm + 0 /\ Sum(d, NoTasks).vec = d.vec + 0
          /\ Sum(d, NoTasks).packets = d.packets + 0
          /\ d.mm \in Nat /\ d.vec \in Nat /\ d.packets \in Nat
          BY <3>1, Sums, NoTasksAre
    <3>3. Work(c).mm = d.mm /\ Work(c).vec = d.vec /\ Work(c).packets = d.packets
          BY <3>1, <3>2
    <3> QED BY <3>3 DEF d
  <2>5. /\ status.mm + 0 = Work(0).mm + Work(1).mm
        /\ status.vec + 0 = Work(0).vec + Work(1).vec
        /\ status.packets + 0 = Work(0).packets + Work(1).packets
        BY <2>1 DEF IInv, CountsAgree, Counts
  <2>6. status.mm \in Nat /\ status.vec \in Nat /\ status.packets \in Nat
        BY DEF IInv, Answer
  <2>7. /\ status.mm = Work(0).mm + Work(1).mm
        /\ status.vec = Work(0).vec + Work(1).vec
        /\ status.packets = Work(0).packets + Work(1).packets
        BY <2>5, <2>6
  <2> QED BY <2>0, <2>4, <2>7
<1> QED BY <1>1, Inductive, PTL

(* The host takes a launch for done exactly when its arguments passed the  *)
(* controller's checks, and then every stage of it ran on both cores.      *)
THEOREM Accepted == Spec => []AcceptedLaunchesRan
<1>1. IInv => AcceptedLaunchesRan
  <2> SUFFICES ASSUME IInv PROVE AcceptedLaunchesRan
      OBVIOUS
  <2>0. 0 \in Cores
        BY DEF Cores
  <2>1. ASSUME phase \in {"accepted", "thrown"}, NEW c \in Cores
        PROVE  /\ sent[c] = NoTasks /\ service[c].ended
               /\ Work(c).mm = service[c].done.mm /\ Work(c).vec = service[c].done.vec
               /\ service[c].done.mm \in Nat /\ service[c].done.vec \in Nat
    <3> DEFINE d == service[c].done
    <3>1. stage = NoStage
          BY <2>1 DEF IInv, Queue
    <3>2. sent[c] = NoTasks /\ d \in TaskRecs
          BY <3>1, Reached
    <3>3. service[c].ended
          BY <2>1 DEF IInv, Answer, Ending
    <3>4. Work(c) = Sum(d, NoTasks)
          BY <3>2 DEF Work
    <3> HIDE DEF d
    <3>5. /\ Sum(d, NoTasks).mm = d.mm + 0 /\ Sum(d, NoTasks).vec = d.vec + 0
          /\ d.mm \in Nat /\ d.vec \in Nat
          BY <3>2, Sums, NoTasksAre
    <3>6. Work(c).mm = d.mm /\ Work(c).vec = d.vec
          BY <3>4, <3>5
    <3> QED BY <3>2, <3>3, <3>5, <3>6 DEF d
  <2>2. ASSUME phase = "accepted"
        PROVE  /\ StatusCode(request) = "OK"
               /\ todo = << >> /\ stage = NoStage
               /\ \A c \in Cores : sent[c] = NoTasks /\ service[c].ended
               /\ request.op # "NOP" => service[0].done.vec + service[0].done.mm > 0
    <3>1. StatusCode(request) = "OK"
          BY <2>2 DEF IInv, Answer
    <3>2. todo = << >> /\ stage = NoStage
          BY <2>2 DEF IInv, Queue
    <3>3. ASSUME request.op # "NOP"
          PROVE  service[0].done.vec + service[0].done.mm > 0
      <4>1. Works(request)
            BY <3>1, <3>3 DEF Works
      <4>2. Emitted >= 1
        <5>1. Len(todo) = 0
              BY <3>2
        <5>2. Len(Stages(request)) \in Nat \ {0}
              BY Reached, StagesAt
        <5> QED BY <5>1, <5>2 DEF Emitted
      <4>3. Work(0).mm + Work(0).vec > 0
            BY <2>2, <4>1, <4>2 DEF IInv, Worked
      <4> DEFINE m == service[0].done.mm
                 v == service[0].done.vec
      <4>4. Work(0).mm = m /\ Work(0).vec = v /\ m \in Nat /\ v \in Nat
            BY <2>0, <2>1, <2>2
      <4> HIDE DEF m, v
      <4>5. v + m > 0
            BY <4>3, <4>4
      <4> QED BY <4>5 DEF m, v
    <3>4. \A c \in Cores : sent[c] = NoTasks /\ service[c].ended
          BY <2>1, <2>2
    <3> QED BY <3>1, <3>2, <3>3, <3>4
  <2>3. ASSUME phase = "thrown"
        PROVE  /\ StatusCode(request) # "OK"
               /\ \A c \in Cores : service[c].done.mm = 0 /\ service[c].done.vec = 0
    <3>1. StatusCode(request) # "OK"
          BY <2>3 DEF IInv, Answer
    <3>2. ~Works(request)
          BY <3>1 DEF Works
    <3>3. \A c \in Cores : Work(c).mm = 0 /\ Work(c).vec = 0
          BY <2>3, <3>2 DEF IInv, Worked
    <3> QED BY <2>1, <2>3, <3>1, <3>3
  <2> QED BY <2>2, <2>3 DEF AcceptedLaunchesRan
<1> QED BY <1>1, Inductive, PTL

-----------------------------------------------------------------------------
(* The counts in the status word.                                          *)

(* The vector operations among the first k stages of a launch, and the     *)
(* blocks of a row they work on.                                           *)
AttentionVectors(rows, k) ==
    IF k <= 0 THEN 0 ELSE IF k < 6 + rows THEN 1 ELSE 2

FfnVectors(k) ==
    IF k <= 0 THEN 0 ELSE IF k < 4 THEN 1 ELSE IF k < 6 THEN 2 ELSE 3

Vectors(r, k) ==
    IF ~Works(r) \/ r.op = "ATTN_PREFILL_BLOCK" THEN 0
    ELSE IF r.op = "FINAL_NORM" THEN IF k <= 0 THEN 0 ELSE 1
    ELSE IF r.op = "FFN_SUBLAYER" THEN FfnVectors(k)
    ELSE IF r.op = "ATTENTION_SUBLAYER" THEN AttentionVectors(r.tokens, k)
    ELSE AttentionVectors(r.tokens, k) + FfnVectors(k - (6 + r.tokens))

AttentionBlocks(rows, k) ==
    IF k <= 0 THEN 0 ELSE IF k < 6 + rows THEN HiddenBlocks ELSE 2 * HiddenBlocks

FfnBlocks(k) ==
    IF k <= 0 THEN 0 ELSE IF k < 4 THEN HiddenBlocks
    ELSE IF k < 6 THEN HiddenBlocks + WideBlocks ELSE 2 * HiddenBlocks + WideBlocks

VectorBlocks(r, k) ==
    IF ~Works(r) \/ r.op = "ATTN_PREFILL_BLOCK" THEN 0
    ELSE IF r.op = "FINAL_NORM" THEN IF k <= 0 THEN 0 ELSE HiddenBlocks
    ELSE IF r.op = "FFN_SUBLAYER" THEN FfnBlocks(k)
    ELSE IF r.op = "ATTENTION_SUBLAYER" THEN AttentionBlocks(r.tokens, k)
    ELSE AttentionBlocks(r.tokens, k) + FfnBlocks(k - (6 + r.tokens))

(* Going from v vector operations on b blocks, stage s makes them w on d.  *)
Follows(s, v, b, w, d) ==
    IF s.kind = "vector" THEN w = v + 1 /\ d = b + s.n ELSE w = v /\ d = b

(* The vector stages of the attention sublayer are its first and last, ... *)
LEMMA AttentionFollows ==
    ASSUME NEW r \in Requests, NEW k \in 1..(6 + r.tokens)
    PROVE  LET n == r.tokens IN
           Follows(AttentionStage(r, k), AttentionVectors(n, k - 1),
                   AttentionBlocks(n, k - 1), AttentionVectors(n, k), AttentionBlocks(n, k))
<1> DEFINE n == r.tokens
           s == AttentionStage(r, k)
<1>1. n \in Nat /\ HiddenBlocks \in Nat
      BY Checked, Constants
<1>2. k = 1 => s.kind = "vector" /\ s.n = HiddenBlocks
      BY DEF AttentionStage, Vector, Stage
<1>3. k > 1 /\ k < 6 + n => s.kind # "vector"
  <2>1. k > 1 /\ k <= 4 => s.kind = "project"
        BY DEF AttentionStage, Project, Stage, Vector
  <2>2. k > 4 /\ k <= 4 + n => s.kind = "walk"
        BY <1>1 DEF AttentionStage, Project, Stage, Vector
  <2>3. k = 5 + n => s.kind = "project"
        BY <1>1 DEF AttentionStage, Project, Stage, Vector
  <2>4. k > 1 /\ k < 6 + n => (k > 1 /\ k <= 4) \/ (k > 4 /\ k <= 4 + n) \/ k = 5 + n
        BY <1>1
  <2> HIDE DEF s
  <2> QED BY <2>1, <2>2, <2>3, <2>4
<1>4. k = 6 + n => s.kind = "vector" /\ s.n = HiddenBlocks
      BY <1>1 DEF AttentionStage, Vector, Stage
<1> HIDE DEF s
<1>5. Follows(s, AttentionVectors(n, k - 1), AttentionBlocks(n, k - 1),
              AttentionVectors(n, k), AttentionBlocks(n, k))
  <2>1. CASE k = 1
        BY <1>1, <1>2, <2>1 DEF Follows, AttentionVectors, AttentionBlocks
  <2>2. CASE k > 1 /\ k < 6 + n
        BY <1>1, <1>3, <2>2 DEF Follows, AttentionVectors, AttentionBlocks
  <2>3. CASE k = 6 + n
        BY <1>1, <1>4, <2>3 DEF Follows, AttentionVectors, AttentionBlocks
  <2>4. k = 1 \/ (k > 1 /\ k < 6 + n) \/ k = 6 + n
        BY <1>1
  <2> QED BY <2>1, <2>2, <2>3, <2>4
<1> QED BY <1>5 DEF s

(* ... those of the FFN its first, fourth and last.                        *)
LEMMA FfnFollows ==
    ASSUME NEW k \in 1..6
    PROVE  Follows(FfnStage(k), FfnVectors(k - 1), FfnBlocks(k - 1), FfnVectors(k), FfnBlocks(k))
<1> DEFINE s == FfnStage(k)
<1>1. HiddenBlocks \in Nat /\ WideBlocks \in Nat
      BY Constants
<1>2. k \in {1, 6} => s.kind = "vector" /\ s.n = HiddenBlocks
      BY DEF FfnStage, Vector, Stage
<1>3. k = 4 => s.kind = "vector" /\ s.n = WideBlocks
      BY DEF FfnStage, Vector, Stage
<1>4. k \in {2, 3, 5} => s.kind = "project"
  <2>1. k = 2 => s.kind = "project"
        BY DEF FfnStage, Project, Stage, Vector
  <2>2. k = 3 => s.kind = "project"
        BY DEF FfnStage, Project, Stage, Vector
  <2>3. k = 5 => s.kind = "project"
        BY DEF FfnStage, Project, Stage, Vector
  <2> HIDE DEF s
  <2> QED BY <2>1, <2>2, <2>3
<1> HIDE DEF s
<1>5. Follows(s, FfnVectors(k - 1), FfnBlocks(k - 1), FfnVectors(k), FfnBlocks(k))
  <2>1. CASE k \in {1, 6}
        BY <1>1, <1>2, <2>1 DEF Follows, FfnVectors, FfnBlocks
  <2>2. CASE k = 4
        BY <1>1, <1>3, <2>2 DEF Follows, FfnVectors, FfnBlocks
  <2>3. CASE k \in {2, 3, 5}
        BY <1>1, <1>4, <2>3 DEF Follows, FfnVectors, FfnBlocks
  <2> QED BY <2>1, <2>2, <2>3
<1> QED BY <1>5 DEF s

(* A launch has counted the vector operations of the stages sent.          *)
LEMMA VectorsFollow ==
    ASSUME NEW r \in Requests, NEW k \in 1..StageCount(r)
    PROVE  Follows(StageAt(r, k), Vectors(r, k - 1), VectorBlocks(r, k - 1),
                   Vectors(r, k), VectorBlocks(r, k))
<1> DEFINE n == r.tokens
<1>1. /\ r.op \in {"NOP", "DECODER_LAYER", "ATTENTION_SUBLAYER", "FFN_SUBLAYER",
                   "FINAL_NORM", "ATTN_PREFILL_BLOCK"}
      /\ n \in Nat /\ HiddenBlocks \in Nat /\ WideBlocks \in Nat
      BY Checked, Constants DEF Ops
<1>2. StageCount(r) \in Nat
      BY StagesAt
<1>3. CASE ~Works(r)
  <2>1. StageAt(r, k).kind = "stop"
        BY <1>3 DEF StageAt, Stage
  <2> QED BY <1>3, <2>1 DEF Follows, Vectors, VectorBlocks
<1>4. CASE Works(r) /\ r.op = "FINAL_NORM"
  <2>1. k = 1
        BY <1>4 DEF StageCount
  <2>2. StageAt(r, k).kind = "vector" /\ StageAt(r, k).n = HiddenBlocks
        BY <1>4 DEF StageAt, Vector, Stage
  <2> QED BY <1>1, <1>4, <2>1, <2>2 DEF Follows, Vectors, VectorBlocks
<1>5. CASE Works(r) /\ r.op = "ATTN_PREFILL_BLOCK"
  <2>1. StageAt(r, k).kind = "block"
        BY <1>5 DEF StageAt, Stage
  <2> QED BY <1>5, <2>1 DEF Follows, Vectors, VectorBlocks
<1>6. CASE Works(r) /\ r.op = "FFN_SUBLAYER"
  <2>1. k \in 1..6 /\ StageAt(r, k) = FfnStage(k)
        BY <1>6 DEF StageCount, StageAt
  <2>2. /\ Vectors(r, k) = FfnVectors(k) /\ Vectors(r, k - 1) = FfnVectors(k - 1)
        /\ VectorBlocks(r, k) = FfnBlocks(k) /\ VectorBlocks(r, k - 1) = FfnBlocks(k - 1)
        BY <1>6 DEF Vectors, VectorBlocks
  <2> QED BY <2>1, <2>2, FfnFollows
<1>7. CASE Works(r) /\ r.op = "ATTENTION_SUBLAYER"
  <2>1. k \in 1..(6 + n) /\ StageAt(r, k) = AttentionStage(r, k)
        BY <1>1, <1>7 DEF StageCount, StageAt
  <2>2. /\ Vectors(r, k) = AttentionVectors(n, k)
        /\ Vectors(r, k - 1) = AttentionVectors(n, k - 1)
        /\ VectorBlocks(r, k) = AttentionBlocks(n, k)
        /\ VectorBlocks(r, k - 1) = AttentionBlocks(n, k - 1)
        BY <1>7 DEF Vectors, VectorBlocks
  <2> QED BY <2>1, <2>2, AttentionFollows
<1>8. CASE Works(r) /\ r.op = "DECODER_LAYER"
  <2> DEFINE h == k - (6 + n)
  <2>1. k \in 1..(12 + n)
        BY <1>8 DEF StageCount
  <2>2. /\ Vectors(r, k) = AttentionVectors(n, k) + FfnVectors(h)
        /\ Vectors(r, k - 1) = AttentionVectors(n, k - 1) + FfnVectors(h - 1)
        /\ VectorBlocks(r, k) = AttentionBlocks(n, k) + FfnBlocks(h)
        /\ VectorBlocks(r, k - 1) = AttentionBlocks(n, k - 1) + FfnBlocks(h - 1)
    <3>1. k - 1 - (6 + n) = h - 1
          BY <1>1, <2>1
    <3> QED BY <1>8, <3>1 DEF Vectors, VectorBlocks
  <2>3. CASE k <= 6 + n
    <3>1. k \in 1..(6 + n) /\ StageAt(r, k) = AttentionStage(r, k) /\ h \in Int /\ h <= 0
          BY <1>1, <1>8, <2>1, <2>3 DEF StageAt
    <3>2. Follows(StageAt(r, k), AttentionVectors(n, k - 1), AttentionBlocks(n, k - 1),
                  AttentionVectors(n, k), AttentionBlocks(n, k))
          BY <3>1, AttentionFollows
    <3>3. FfnVectors(h) = 0 /\ FfnVectors(h - 1) = 0 /\ FfnBlocks(h) = 0 /\ FfnBlocks(h - 1) = 0
          BY <3>1 DEF FfnVectors, FfnBlocks
    <3>4. /\ AttentionVectors(n, k) \in Nat /\ AttentionVectors(n, k - 1) \in Nat
          /\ AttentionBlocks(n, k) \in Nat /\ AttentionBlocks(n, k - 1) \in Nat
          BY <1>1 DEF AttentionVectors, AttentionBlocks
    <3>5. /\ Vectors(r, k) = AttentionVectors(n, k)
          /\ Vectors(r, k - 1) = AttentionVectors(n, k - 1)
          /\ VectorBlocks(r, k) = AttentionBlocks(n, k)
          /\ VectorBlocks(r, k - 1) = AttentionBlocks(n, k - 1)
          BY <2>2, <3>3, <3>4
    <3> QED BY <3>2, <3>5
  <2>4. CASE k > 6 + n
    <3>1. h \in 1..6 /\ StageAt(r, k) = FfnStage(h)
          BY <1>1, <1>8, <2>1, <2>4 DEF StageAt
    <3> HIDE DEF h
    <3>2. Follows(StageAt(r, k), FfnVectors(h - 1), FfnBlocks(h - 1), FfnVectors(h), FfnBlocks(h))
          BY <3>1, FfnFollows
    <3>4. /\ AttentionVectors(n, k) = AttentionVectors(n, k - 1)
          /\ AttentionBlocks(n, k) = AttentionBlocks(n, k - 1)
          BY <1>1, <2>1, <2>4 DEF AttentionVectors, AttentionBlocks
    <3>5. /\ FfnVectors(h) \in Nat /\ FfnVectors(h - 1) \in Nat
          /\ FfnBlocks(h) \in Nat /\ FfnBlocks(h - 1) \in Nat
          /\ AttentionVectors(n, k) \in Nat /\ AttentionBlocks(n, k) \in Nat
          BY <1>1 DEF FfnVectors, FfnBlocks, AttentionVectors, AttentionBlocks
    <3> DEFINE s == StageAt(r, k)
    <3>6. s.kind = "vector" => s.n \in Nat
      <4>1. k \in Nat \ {0}
            BY <2>1
      <4> QED BY <4>1, StageTyped DEF StageRecs
    <3> HIDE DEF s
    <3>7. QED BY <2>2, <3>2, <3>4, <3>5, <3>6 DEF Follows, s
  <2> QED BY <1>1, <2>1, <2>3, <2>4
<1> QED BY <1>1, <1>3, <1>4, <1>5, <1>6, <1>7, <1>8 DEF Works

(* How a stage adds to the counts: a vector stage two tasks at most, and   *)
(* its rows; a matrix stage only matrix tasks and their packets.           *)
LEMMA StageReport ==
    ASSUME NEW s \in StageRecs, NEW tokens \in Nat
    PROVE  LET more == Counted(s, tokens) IN
           /\ more.vec <= 2 /\ (s.kind # "vector" => more.vec = 0)
           /\ more.packets = more.mm * Packets + (IF s.kind = "vector" THEN tokens * s.n ELSE 0)
<1> DEFINE more == Counted(s, tokens)
<1>1. s.kind \in {"stop", "project", "walk", "block", "vector"} /\ s.n \in Nat
      BY DEF StageRecs
<1>2. Packets \in Nat
      BY Constants
<1>3. CASE s.kind = "stop"
  <2>1. more = [waves |-> 0, mm |-> 0, vec |-> 0, packets |-> 0]
        BY <1>3 DEF Counted, Counts
  <2> HIDE DEF more
  <2>2. more.mm = 0 /\ more.vec = 0 /\ more.packets = 0
        BY <2>1
  <2> QED BY <1>2, <1>3, <2>2 DEF more
<1>4. CASE s.kind \in {"project", "walk", "block"}
  <2> DEFINE w == MatrixOf(s)
  <2>1. w \in Nat /\ more.mm = 2 * w /\ more.vec = 0 /\ more.packets = 2 * w * Packets
        BY <1>4, MatrixStage
  <2>2. s.kind # "vector"
        BY <1>4
  <2> HIDE DEF w, more
  <2>3. more.mm * Packets + 0 = more.packets
        BY <1>2, <2>1
  <2> QED BY <2>1, <2>2, <2>3 DEF more
<1>5. CASE s.kind = "vector"
  <2>1. more = [waves |-> 0, mm |-> 0, vec |-> CoresWithRows(tokens),
                packets |-> tokens * s.n]
        BY <1>5 DEF Counted, Counts
  <2>2. CoresWithRows(tokens) \in {1, 2}
        BY DEF CoresWithRows
  <2> DEFINE p == tokens * s.n
             q == CoresWithRows(tokens)
  <2>3. p \in Nat
        BY <1>1, Products
  <2>4. q \in {1, 2} /\ more = [waves |-> 0, mm |-> 0, vec |-> q, packets |-> p]
        BY <2>1, <2>2
  <2> HIDE DEF p, q, more
  <2>5. more.mm = 0 /\ more.vec <= 2 /\ more.packets = p /\ 0 * Packets + p = p
        BY <1>2, <2>3, <2>4
  <2> QED BY <1>5, <2>5 DEF p, more
<1> QED BY <1>1, <1>3, <1>4, <1>5

(* Five vector operations at most, on the blocks of a layer.               *)
LEMMA VectorsBound ==
    ASSUME NEW r \in Requests, NEW k \in Nat
    PROVE  /\ Vectors(r, k) \in 0..5
           /\ VectorBlocks(r, k) \in 0..(4 * HiddenBlocks + WideBlocks)
           /\ ~Works(r) => VectorBlocks(r, k) = 0
           /\ Vectors(r, 0) = 0 /\ VectorBlocks(r, 0) = 0
<1> DEFINE n == r.tokens
           h == k - (6 + n)
           g == 0 - (6 + n)
<1>1. n \in Nat /\ HiddenBlocks \in Nat /\ WideBlocks \in Nat
      BY Checked, Constants
<1>2. h \in Int /\ g \in Int /\ g <= 0
      BY <1>1
<1>3. /\ AttentionVectors(n, k) \in 0..2 /\ AttentionBlocks(n, k) \in 0..(2 * HiddenBlocks)
      /\ AttentionVectors(n, 0) = 0 /\ AttentionBlocks(n, 0) = 0
      BY <1>1 DEF AttentionVectors, AttentionBlocks
<1>4. \A j \in Int : /\ FfnVectors(j) \in 0..3
                     /\ FfnBlocks(j) \in 0..(2 * HiddenBlocks + WideBlocks)
                     /\ j <= 0 => FfnVectors(j) = 0 /\ FfnBlocks(j) = 0
      BY <1>1 DEF FfnVectors, FfnBlocks
<1>5. /\ FfnVectors(h) \in 0..3 /\ FfnVectors(k) \in 0..3 /\ FfnVectors(0) = 0 /\ FfnVectors(g) = 0
      /\ FfnBlocks(h) \in 0..(2 * HiddenBlocks + WideBlocks)
      /\ FfnBlocks(k) \in 0..(2 * HiddenBlocks + WideBlocks)
      /\ FfnBlocks(0) = 0 /\ FfnBlocks(g) = 0
  <2>1. k \in Int /\ 0 \in Int
        OBVIOUS
  <2> QED BY <1>2, <1>4, <2>1
<1> DEFINE a == AttentionVectors(n, k)
           b == AttentionBlocks(n, k)
<1>6. /\ Vectors(r, k) \in {0, IF k <= 0 THEN 0 ELSE 1, FfnVectors(k), a, a + FfnVectors(h)}
      /\ VectorBlocks(r, k) \in {0, IF k <= 0 THEN 0 ELSE HiddenBlocks, FfnBlocks(k), b,
                                 b + FfnBlocks(h)}
      BY DEF Vectors, VectorBlocks
<1>7. Vectors(r, 0) \in {0, FfnVectors(0), AttentionVectors(n, 0),
                         AttentionVectors(n, 0) + FfnVectors(g)}
      BY DEF Vectors
<1>8. VectorBlocks(r, 0) \in {0, FfnBlocks(0), AttentionBlocks(n, 0),
                              AttentionBlocks(n, 0) + FfnBlocks(g)}
      BY DEF VectorBlocks
<1>9. ~Works(r) => VectorBlocks(r, k) = 0
      BY DEF VectorBlocks
<1>10. a \in 0..2 /\ b \in 0..(2 * HiddenBlocks)
      BY <1>3
<1> HIDE DEF a, b, h, g, n
<1>11. Vectors(r, k) \in 0..5
  <2>1. (IF k <= 0 THEN 0 ELSE 1) \in 0..5
        OBVIOUS
  <2> QED BY <1>5, <1>6, <1>10, <2>1
<1>12. VectorBlocks(r, k) \in 0..(4 * HiddenBlocks + WideBlocks)
  <2> DEFINE t == 4 * HiddenBlocks + WideBlocks
  <2>1. (IF k <= 0 THEN 0 ELSE HiddenBlocks) \in 0..t
        BY <1>1
  <2>2. 0 \in 0..t /\ FfnBlocks(k) \in 0..t /\ b \in 0..t /\ b + FfnBlocks(h) \in 0..t
        BY <1>1, <1>5, <1>10
  <2> HIDE DEF t
  <2>3. VectorBlocks(r, k) \in 0..t
        BY <1>6, <2>1, <2>2
  <2> QED BY <2>3 DEF t
<1>13. Vectors(r, 0) = 0 /\ VectorBlocks(r, 0) = 0
      BY <1>3, <1>5, <1>7, <1>8
<1> QED BY <1>9, <1>11, <1>12, <1>13

(* On top of the invariant: a service has read as many tasks as it has     *)
(* done, ...                                                               *)
Indexed == \A c \in Cores : service[c].index = Count(service[c].done)

(* ... what is counted, and collected next, is so many vector tasks and    *)
(* their packets next to the packets of the matrix tasks, ...              *)
More == IF stage = NoStage THEN Counts(0, 0, 0, 0) ELSE Counted(stage, request.tokens)

Tally ==
    phase # "idle" =>
        /\ status.vec + More.vec <= 2 * Vectors(request, Emitted)
        /\ status.packets + More.packets =
             (status.mm + More.mm) * Packets + request.tokens * VectorBlocks(request, Emitted)

(* ... and the report is the packed status.                                *)
Reported == phase \in {"accepted", "thrown"} => report = Pack(status)

RInv == Indexed /\ Tally /\ Reported

(* Counting one more stage.                                                *)
LEMMA OneMore ==
    ASSUME NEW n \in Nat, NEW K \in Nat, NEW m \in Nat, NEW a \in Nat, NEW x \in Nat,
           NEW b \in Nat, NEW p \in Nat, NEW q \in Nat, NEW d \in Nat, NEW isVector \in BOOLEAN,
           p = m * K + n * b, q = a * K + (IF isVector THEN n * x ELSE 0),
           d = IF isVector THEN b + x ELSE b
    PROVE  p + q = (m + a) * K + n * d
<1>1. (m + a) * K = m * K + a * K
      OBVIOUS
<1>2. n * (b + x) = n * b + n * x
      OBVIOUS
<1>3. m * K \in Nat /\ a * K \in Nat /\ n * b \in Nat /\ n * x \in Nat
      BY Products
<1> DEFINE A == m * K
           B == a * K
           C == n * b
           D == n * x
<1>4. p = A + C /\ q = B + (IF isVector THEN D ELSE 0) /\ (m + a) * K = A + B
      BY <1>1
<1>5. n * d = IF isVector THEN C + D ELSE C
      BY <1>2
<1>6. A \in Nat /\ B \in Nat /\ C \in Nat /\ D \in Nat
      BY <1>3
<1> HIDE DEF A, B, C, D
<1> QED BY <1>4, <1>5, <1>6

(* When a stage is sent, its counts are added to those collected.          *)
LEMMA EmitTally ==
    ASSUME IInv, Tally, Emit
    PROVE  Tally'
<1> DEFINE r == request
           k == Emitted'
           s == Head(todo)
           n == r.tokens
           more == Counted(s, n)
<1>1. /\ phase = "running" /\ stage = NoStage /\ todo # << >>
      /\ stage' = s /\ todo' = Tail(todo)
      /\ phase' = phase /\ request' = request /\ status' = status
      BY DEF Emit
<1>2. /\ r \in Requests /\ todo \in Seq(StageRecs) /\ Emitted \in 0..StageCount(r)
      BY <1>1, Reached
<1>3. s \in StageRecs /\ Len(Tail(todo)) = Len(todo) - 1 /\ Len(todo) \in Nat \ {0}
      BY <1>1, <1>2, HeadTailProperties
<1>4. s # NoStage
  <2>1. s.kind # "none"
        BY <1>3 DEF StageRecs
  <2> QED BY <2>1 DEF NoStage, Stage
<1>5. /\ k = Len(Stages(r)) - Len(Tail(todo)) /\ Emitted = Len(Stages(r)) - Len(todo)
      /\ Len(Stages(r)) \in Nat
  <2>1. Len(Stages(r)) \in Nat
        BY <1>2, StagesAt
  <2> QED BY <1>1, <2>1 DEF Emitted
<1>6. Emitted = k - 1 /\ k \in Nat /\ Emitted \in Nat
  <2>1. StageCount(r) \in Nat
        BY <1>2, StagesAt
  <2> QED BY <1>2, <1>3, <1>5, <2>1
<1>7. k \in 1..StageCount(r) /\ s = StageAt(r, k)
  <2>1. /\ Len(Stages(r)) = StageCount(r) /\ StageCount(r) \in Nat \ {0}
        /\ \A i \in 1..StageCount(r) : Stages(r)[i] = StageAt(r, i)
        BY <1>2, StagesAt
  <2>2. k \in 1..StageCount(r)
        BY <1>2, <1>3, <1>5, <1>6, <2>1
  <2>3. \A i \in 1..Len(todo) : todo[i] = Stages(r)[Emitted + i]
        BY <1>1 DEF IInv, Queue
  <2>4. s = todo[1] /\ 1 \in 1..Len(todo)
        BY <1>1, <1>2, <1>3, HeadTailProperties
  <2>5. Emitted + 1 = k
    <3>1. \A i, j \in Nat : i = j - 1 => i + 1 = j
          OBVIOUS
    <3> HIDE DEF k
    <3> QED BY <1>6, <3>1
  <2> QED BY <2>1, <2>2, <2>3, <2>4, <2>5
<1>8. Follows(s, Vectors(r, k - 1), VectorBlocks(r, k - 1), Vectors(r, k), VectorBlocks(r, k))
      BY <1>2, <1>7, VectorsFollow
<1>9. n \in Nat /\ Packets \in Nat /\ s.n \in Nat /\ (s.kind = "vector") \in BOOLEAN
      BY <1>2, <1>3, Checked, Constants DEF StageRecs
<1>10. /\ more.vec <= 2 /\ (s.kind # "vector" => more.vec = 0)
       /\ more.packets = more.mm * Packets + (IF s.kind = "vector" THEN n * s.n ELSE 0)
      BY <1>3, <1>9, StageReport
<1>11. {more.mm, more.vec, more.packets} \subseteq Nat
  <2>1. n > 0 \/ s.kind = "stop"
    <3>1. k \in Nat \ {0}
          BY <1>7
    <3> QED BY <1>2, <1>7, <3>1, StageHasRows
  <2> QED BY <1>3, <1>9, <2>1, StageTasks
<1>12. {status.mm, status.vec, status.packets} \subseteq Nat
      BY DEF IInv, Answer
<1>13. /\ Vectors(r, k - 1) \in Nat /\ Vectors(r, k) \in Nat
       /\ VectorBlocks(r, k - 1) \in Nat /\ VectorBlocks(r, k) \in Nat
  <2>1. k \in Nat /\ k - 1 \in Nat
        BY <1>2, <1>6
  <2>2. 4 * HiddenBlocks + WideBlocks \in Nat
        BY Constants
  <2>3. 0..5 \subseteq Nat /\ 0..(4 * HiddenBlocks + WideBlocks) \subseteq Nat
        BY <2>2
  <2>4. Vectors(r, k) \in 0..5 /\ VectorBlocks(r, k) \in 0..(4 * HiddenBlocks + WideBlocks)
        BY <1>2, <2>1, VectorsBound
  <2>5. /\ Vectors(r, k - 1) \in 0..5
        /\ VectorBlocks(r, k - 1) \in 0..(4 * HiddenBlocks + WideBlocks)
        BY <1>2, <2>1, VectorsBound
  <2> QED BY <2>3, <2>4, <2>5
<1> DEFINE v == Vectors(r, k - 1)
           b == VectorBlocks(r, k - 1)
           w == Vectors(r, k)
           d == VectorBlocks(r, k)
<1>14. /\ status.vec + 0 <= 2 * v
       /\ status.packets + 0 = (status.mm + 0) * Packets + n * b
  <2>1. More = Counts(0, 0, 0, 0)
        BY <1>1 DEF More
  <2> QED BY <1>1, <1>6, <2>1 DEF Tally, Counts
<1>15. More' = more
      BY <1>1, <1>4 DEF More
<1>16. /\ s.kind = "vector" => w = v + 1 /\ d = b + s.n
       /\ s.kind # "vector" => w = v /\ d = b
      BY <1>8 DEF Follows
<1>17. v \in Nat /\ w \in Nat /\ b \in Nat /\ d \in Nat
      BY <1>13
<1> DEFINE x == s.n
           sm == status.mm
           sv == status.vec
           sp == status.packets
           mm == more.mm
           mv == more.vec
           mp == more.packets
           isv == s.kind = "vector"
<1>18. /\ sm \in Nat /\ sv \in Nat /\ sp \in Nat /\ mm \in Nat /\ mv \in Nat /\ mp \in Nat
       /\ x \in Nat /\ isv \in BOOLEAN
      BY <1>9, <1>11, <1>12
<1>19. /\ sv + 0 <= 2 * v /\ sp + 0 = (sm + 0) * Packets + n * b
       /\ mv <= 2 /\ (~isv => mv = 0)
       /\ mp = mm * Packets + (IF isv THEN n * x ELSE 0)
       /\ w = (IF isv THEN v + 1 ELSE v) /\ d = (IF isv THEN b + x ELSE b)
      BY <1>10, <1>14, <1>16
<1>20. Tally' <=> (/\ sv + mv <= 2 * w /\ sp + mp = (sm + mm) * Packets + n * d)
      BY <1>1, <1>15 DEF Tally
<1> HIDE DEF r, k, s, n, more, v, b, w, d, x, sm, sv, sp, mm, mv, mp, isv
<1>21. sv + mv <= 2 * w
      BY <1>17, <1>18, <1>19
<1>22. sp = sm * Packets + n * b
      BY <1>18, <1>19
<1>23. sp + mp = (sm + mm) * Packets + n * d
      BY <1>9, <1>17, <1>18, <1>19, <1>22, OneMore
<1> QED BY <1>20, <1>21, <1>23

(* Collecting a stage moves its counts into the status.                    *)
LEMMA CollectTally ==
    ASSUME IInv, Tally, Collect
    PROVE  Tally'
<1>1. /\ phase = "running" /\ stage # NoStage /\ stage' = NoStage
      /\ phase' = phase /\ request' = request /\ todo' = todo
      BY DEF Collect
<1>2. /\ request \in Requests /\ stage \in StageRecs
      /\ request.tokens > 0 \/ stage.kind = "stop"
      BY <1>1, Reached
<1> DEFINE m == Counted(stage, request.tokens)
<1>3. {m.waves, m.mm, m.vec, m.packets} \subseteq Nat
  <2>1. request.tokens \in Nat
        BY <1>2, Checked
  <2> QED BY <1>2, <2>1, StageTasks
<1>4. {status.mm, status.vec, status.packets} \subseteq Nat
      BY DEF IInv, Answer
<1>5. /\ status'.mm = status.mm + m.mm /\ status'.vec = status.vec + m.vec
      /\ status'.packets = status.packets + m.packets
  <2>1. status' = [status EXCEPT !.waves = @ + m.waves, !.mm = @ + m.mm,
                                 !.vec = @ + m.vec, !.packets = @ + m.packets]
        BY DEF Collect
  <2>2. DOMAIN status = {"op", "code", "last", "tokens", "waves", "mm", "vec", "packets"}
        BY DEF IInv, Answer
  <2> HIDE DEF m
  <2> QED BY <2>1, <2>2
<1>6. More = m /\ More' = Counts(0, 0, 0, 0)
      BY <1>1 DEF More
<1>7. Emitted' = Emitted
      BY <1>1 DEF Emitted
<1>8. Counts(0, 0, 0, 0).mm = 0 /\ Counts(0, 0, 0, 0).vec = 0 /\ Counts(0, 0, 0, 0).packets = 0
      BY DEF Counts
<1>9. /\ status.vec + m.vec <= 2 * Vectors(request, Emitted)
      /\ status.packets + m.packets =
           (status.mm + m.mm) * Packets + request.tokens * VectorBlocks(request, Emitted)
      BY <1>1, <1>6 DEF Tally
<1> HIDE DEF m
<1>10. /\ status'.vec + 0 = status.vec + m.vec
       /\ status'.packets + 0 = status.packets + m.packets
       /\ status'.mm + 0 = status.mm + m.mm
      BY <1>3, <1>4, <1>5
<1> QED BY <1>1, <1>6, <1>7, <1>8, <1>9, <1>10 DEF Tally

(* A launch starts at nothing counted and nothing read. *)
LEMMA LaunchReports ==
    ASSUME Launch
    PROVE  RInv'
<1>1. PICK r \in Requests : Begin(r)
      BY DEF Launch
<1>2. /\ phase' = "running" /\ request' = r /\ todo' = Stages(r) /\ stage' = NoStage
      /\ service' = [c \in Cores |-> Started]
      /\ status' = FirstStatus(r)
      BY <1>1 DEF Launch, Begin
<1>3. Emitted' = 0
  <2>1. Emitted' = Len(Stages(r)) - Len(Stages(r))
        BY <1>2 DEF Emitted
  <2>2. Len(Stages(r)) \in Nat
        BY StagesAt
  <2> QED BY <2>1, <2>2
<1>4. Indexed'
  <2>1. \A c \in Cores : service'[c] = Started
        BY <1>2
  <2> QED BY <2>1, NoTasksAre DEF Indexed, Started
<1>5. Tally'
  <2>1. status'.mm = 0 /\ status'.vec = 0 /\ status'.packets = 0
        BY <1>2 DEF FirstStatus
  <2>2. More' = Counts(0, 0, 0, 0)
        BY <1>2 DEF More
  <2>3. More'.mm = 0 /\ More'.vec = 0 /\ More'.packets = 0
        BY <2>2 DEF Counts
  <2>4. Vectors(r, 0) = 0 /\ VectorBlocks(r, 0) = 0
        BY VectorsBound
  <2>5. r.tokens \in Nat /\ Packets \in Nat
        BY Checked, Constants
  <2>6. (0 + 0) * Packets + r.tokens * 0 = 0
        BY <2>5
  <2> QED BY <1>2, <1>3, <2>1, <2>3, <2>4, <2>6 DEF Tally
<1>6. Reported'
      BY <1>2 DEF Reported
<1> QED BY <1>4, <1>5, <1>6 DEF RInv

(* A service reads as many tasks as it does. *)
LEMMA ServeReports ==
    ASSUME IInv, RInv, NEW c \in Cores, Serve(c)
    PROVE  RInv'
<1>1. Count(sent[c]) > 0
      BY DEF Serve
<1>2. stage # NoStage
      BY <1>1, NoTasksAre, Reached
<1>3. /\ phase = "running" /\ Readable(c) = sent[c]
      /\ sent[c] \in TaskRecs /\ service[c].done \in TaskRecs
      BY <1>2, Reached
<1>4. /\ phase' = phase /\ request' = request /\ todo' = todo /\ stage' = stage
      /\ status' = status
      BY DEF Serve
<1> DEFINE d == service[c].done
           run == sent[c]
           i == service[c].index
           new == [index |-> i + Count(run), ended |-> stage.last /\ run = sent[c],
                   running |-> ~(stage.last /\ run = sent[c]) /\ i + Count(run) < MaxTasks,
                   done |-> Sum(d, run)]
<1>5. service' = [service EXCEPT ![c] = new]
      BY <1>3 DEF Serve
<1>6. service \in [Cores -> [index : Nat, running : BOOLEAN, ended : BOOLEAN,
                             done : TaskRecs]]
      BY DEF IInv, Shape
<1>7. service'[c] = new /\ \A e \in Cores \ {c} : service'[e] = service[e]
      BY <1>5, <1>6
<1>8. i = Count(d)
      BY DEF RInv, Indexed
<1>9. Count(Sum(d, run)) = Count(d) + Count(run)
  <2>1. d \in TaskRecs /\ run \in TaskRecs
        BY <1>3
  <2> HIDE DEF d, run
  <2>2. /\ d.mm \in Nat /\ d.vec \in Nat /\ d.stop \in Nat
        /\ run.mm \in Nat /\ run.vec \in Nat /\ run.stop \in Nat
        BY <2>1, Sums
  <2>3. /\ Sum(d, run).mm = d.mm + run.mm /\ Sum(d, run).vec = d.vec + run.vec
        /\ Sum(d, run).stop = d.stop + run.stop
        BY DEF Sum, Tasks
  <2> QED BY <2>2, <2>3 DEF Count
<1>10. service'[c].index = i + Count(run) /\ service'[c].done = Sum(d, run)
      BY <1>7
<1> HIDE DEF d, run, i, new
<1>11. service'[c].index = Count(service'[c].done)
      BY <1>8, <1>9, <1>10
<1>12. Indexed'
  <2> SUFFICES ASSUME NEW e \in Cores PROVE service'[e].index = Count(service'[e].done)
      BY DEF Indexed
  <2>1. CASE e = c
        BY <2>1, <1>11
  <2>2. CASE e # c
        BY <2>2, <1>7 DEF RInv, Indexed
  <2> QED BY <2>1, <2>2
<1>13. More' = More /\ Emitted' = Emitted
      BY <1>4 DEF More, Emitted
<1>14. Tally'
      BY <1>4, <1>13 DEF RInv, Tally
<1>15. Reported'
      BY <1>3, <1>4 DEF Reported
<1> QED BY <1>12, <1>14, <1>15 DEF RInv

(* The other steps leave the counts alone; the report is the packed status. *)
LEMMA QuietReports ==
    ASSUME IInv, RInv, SendStatus \/ CheckStatus \/ UNCHANGED vars
    PROVE  RInv'
<1>1. /\ request' = request /\ todo' = todo /\ stage' = stage
      /\ service' = service /\ status' = status
      BY DEF SendStatus, CheckStatus, vars
<1>2. More' = More /\ Emitted' = Emitted
      BY <1>1 DEF More, Emitted
<1>3. phase' # "idle" => phase # "idle"
      BY DEF SendStatus, CheckStatus, vars
<1>4. Indexed'
      BY <1>1 DEF RInv, Indexed
<1>5. Tally'
      BY <1>1, <1>2, <1>3 DEF RInv, Tally
<1>6. Reported'
  <2>1. CASE SendStatus
        BY <2>1 DEF SendStatus, Reported
  <2>2. CASE CheckStatus
        BY <2>2 DEF CheckStatus, Decode, IInv, Answer, Reported
  <2>3. CASE UNCHANGED vars
        BY <2>3 DEF vars, RInv, Reported
  <2> QED BY <2>1, <2>2, <2>3
<1> QED BY <1>4, <1>5, <1>6 DEF RInv

(* The strengthened invariant of the report. *)
LEMMA Reports == Spec => [](IInv /\ RInv)
<1>1. Init => RInv
  <2> SUFFICES ASSUME Init PROVE RInv
      OBVIOUS
  <2>1. phase = "idle" /\ service = [c \in Cores |-> NotStarted]
        BY DEF Init
  <2>2. Indexed
        BY <2>1, NoTasksAre DEF Indexed, NotStarted
  <2> QED BY <2>1, <2>2 DEF RInv, Tally, Reported
<1>2. IInv /\ RInv /\ [Next]_vars => RInv'
  <2> SUFFICES ASSUME IInv, RInv, [Next]_vars PROVE RInv'
      OBVIOUS
  <2>1. CASE Launch
        BY <2>1, LaunchReports
  <2>2. CASE Emit
    <3>1. Tally'
          BY <2>2, EmitTally DEF RInv
    <3>2. Indexed' /\ Reported'
          BY <2>2 DEF Emit, RInv, Indexed, Reported
    <3> QED BY <3>1, <3>2 DEF RInv
  <2>3. CASE Collect
    <3>1. Tally'
          BY <2>3, CollectTally DEF RInv
    <3>2. Indexed' /\ Reported'
          BY <2>3 DEF Collect, RInv, Indexed, Reported
    <3> QED BY <3>1, <3>2 DEF RInv
  <2>4. CASE SendStatus \/ CheckStatus \/ UNCHANGED vars
        BY <2>4, QuietReports
  <2>5. CASE Exited
        BY <2>5, QuietReports DEF Exited
  <2>6. CASE \E c \in Cores : Serve(c)
        BY <2>6, ServeReports
  <2> QED BY <2>1, <2>2, <2>3, <2>4, <2>5, <2>6 DEF Next
<1> QED BY <1>1, <1>2, Inductive, PTL DEF Spec

(* A number below the modulus is its own remainder. *)
LEMMA Kept ==
    ASSUME NEW m \in Nat, NEW x \in Nat, x < m
    PROVE  x % m = x
BY SMT

(* The values that fit the fields. *)
LEMMA Widths ==
    /\ Fields = {"op", "code", "last", "tokens", "waves", "mm", "vec", "packets"}
    /\ 2 ^ Width("op") = 32 /\ 2 ^ Width("code") = 16 /\ 2 ^ Width("last") = 2
    /\ 2 ^ Width("tokens") = 128 /\ 2 ^ Width("mm") = 4096 /\ 2 ^ Width("vec") = 256
    /\ 2 ^ Width("packets") = 131072
<1>1. Fields = {"op", "code", "last", "tokens", "waves", "mm", "vec", "packets"}
      BY DEF Fields, Layout
<1>2. /\ Width("op") = 5 /\ Width("code") = 4 /\ Width("last") = 1 /\ Width("tokens") = 7
      /\ Width("mm") = 12 /\ Width("vec") = 8 /\ Width("packets") = 17
      BY DEF Width, Layout
<1>3. ASSUME NEW n, n = 5 PROVE 2 ^ n = 32
      BY <1>3
<1>4. ASSUME NEW n, n = 4 PROVE 2 ^ n = 16
      BY <1>4
<1>5. ASSUME NEW n, n = 1 PROVE 2 ^ n = 2
      BY <1>5
<1>6. ASSUME NEW n, n = 8 PROVE 2 ^ n = 256
      BY <1>6
<1>7. ASSUME NEW n, n = 7 PROVE 2 ^ n = 128
      BY <1>7
<1>8. ASSUME NEW n, n = 12 PROVE 2 ^ n = 4096
      BY <1>8
<1>9. ASSUME NEW n, n = 17 PROVE 2 ^ n = 131072
      BY <1>9
<1> QED BY <1>1, <1>2, <1>3, <1>4, <1>5, <1>6, <1>7, <1>8, <1>9

(* Once the stages are all collected, the counts are bounded by the tasks  *)
(* the services may read and by the vector operations of a layer.          *)
LEMMA CountsBounded ==
    ASSUME IInv, RInv, phase \in {"accepted", "thrown"}
    PROVE  /\ status.mm \in Nat /\ status.mm <= 2 * MaxTasks
           /\ status.vec \in Nat /\ status.vec <= 10
           /\ status.packets \in Nat
           /\ status.packets <= 2 * MaxTasks * Packets + LayerVectorPackets
<1>1. stage = NoStage /\ phase # "idle"
      BY DEF IInv, Queue
<1>2. /\ request \in Requests /\ Emitted \in 0..StageCount(request)
      /\ \A c \in Cores : /\ sent[c] = NoTasks /\ service[c].index \in Nat
                          /\ service[c].done \in TaskRecs
      BY <1>1, Reached
<1>3. More = Counts(0, 0, 0, 0)
      BY <1>1 DEF More
<1>4. More.mm = 0 /\ More.vec = 0 /\ More.packets = 0
      BY <1>3 DEF Counts
<1>5. status.mm \in Nat /\ status.vec \in Nat /\ status.packets \in Nat
      BY DEF IInv, Answer
<1>6. MaxTasks \in Nat /\ Packets \in Nat /\ HiddenBlocks \in Nat /\ WideBlocks \in Nat
      /\ ActiveTokens \in Nat
      BY Constants
<1> DEFINE k == Emitted
           b == Budget(request, k)
           n == request.tokens
<1>7. b \in Nat /\ b <= MaxTasks
      BY <1>2, BudgetBound
<1>8. ASSUME NEW c \in Cores
      PROVE  Work(c).mm \in Nat /\ Work(c).mm <= MaxTasks
  <2> DEFINE d == service[c].done
             i == service[c].index
  <2>1. d \in TaskRecs /\ NoTasks \in TaskRecs /\ i \in Nat
        BY <1>2, NoTasksAre
  <2>2. Work(c) = Sum(d, NoTasks)
        BY <1>2 DEF Work
  <2>3. i + Count(NoTasks) <= b
        BY <1>1, <1>2 DEF IInv, Budgeted
  <2>4. i = Count(d)
        BY DEF RInv, Indexed
  <2> HIDE DEF d, i, b
  <2>5. /\ Work(c).mm = d.mm + 0 /\ d.mm \in Nat /\ d.vec \in Nat /\ d.stop \in Nat
        /\ Count(d) = d.mm + d.vec + d.stop
        BY <2>1, <2>2, Sums, NoTasksAre
  <2>6. i <= b
        BY <2>1, <2>3, NoTasksAre
  <2> QED BY <1>6, <1>7, <2>4, <2>5, <2>6
<1>9. status.mm <= 2 * MaxTasks
  <2>1. 0 \in Cores /\ 1 \in Cores
        BY DEF Cores
  <2>2. status.mm + 0 = Work(0).mm + Work(1).mm
        BY <1>1 DEF IInv, CountsAgree, Counts
  <2> DEFINE u == Work(0).mm
             v == Work(1).mm
  <2>3. u \in Nat /\ u <= MaxTasks /\ v \in Nat /\ v <= MaxTasks
        BY <1>8, <2>1
  <2>4. status.mm + 0 = u + v
        BY <2>2
  <2> HIDE DEF u, v
  <2> QED BY <1>5, <1>6, <2>3, <2>4
<1> DEFINE v == Vectors(request, k)
           d == VectorBlocks(request, k)
           most == 4 * HiddenBlocks + WideBlocks
<1>10. k \in Nat
  <2>1. StageCount(request) \in Nat
        BY <1>2, StagesAt
  <2> QED BY <1>2, <2>1
<1>11. /\ v \in 0..5 /\ d \in 0..most /\ (~Works(request) => d = 0)
      BY <1>2, <1>10, VectorsBound
<1>12. /\ n \in Nat /\ (Works(request) => n <= ActiveTokens)
      BY <1>2, Checked DEF Works
<1>13. /\ status.vec + 0 <= 2 * v
       /\ status.packets + 0 = (status.mm + 0) * Packets + n * d
      BY <1>1, <1>4 DEF RInv, Tally
<1>14. most \in Nat
      BY <1>6
<1> DEFINE m == status.mm
<1> HIDE DEF k, b, n, v, d, most
<1>15. n * d <= ActiveTokens * most /\ n * d \in Nat /\ ActiveTokens * most \in Nat
  <2>1. d \in Nat /\ d <= most
        BY <1>11, <1>14
  <2>2. n * d \in Nat /\ ActiveTokens * d \in Nat /\ ActiveTokens * most \in Nat
        BY <1>6, <1>12, <1>14, <2>1, Products
  <2>3. ActiveTokens * d <= ActiveTokens * most
        BY <1>6, <1>14, <2>1, Monotone
  <2>4. CASE Works(request)
    <3>1. n * d <= ActiveTokens * d
          BY <1>6, <1>12, <2>1, <2>4, Monotone
    <3> QED BY <2>2, <2>3, <3>1
  <2>5. CASE ~Works(request)
    <3>1. n * d = 0
          BY <1>11, <1>12, <2>5
    <3> QED BY <2>2, <3>1
  <2> QED BY <2>4, <2>5
<1>16. m * Packets <= 2 * MaxTasks * Packets /\ m * Packets \in Nat
       /\ 2 * MaxTasks * Packets \in Nat
  <2>1. m \in Nat /\ 2 * MaxTasks \in Nat /\ m <= 2 * MaxTasks
        BY <1>5, <1>6, <1>9
  <2> HIDE DEF m
  <2> QED BY <1>6, <2>1, Monotone, Products
<1>17. status.vec <= 10
      BY <1>5, <1>11, <1>13
<1>18. status.packets = m * Packets + n * d
      BY <1>5, <1>6, <1>13, <1>15, <1>16
<1> DEFINE x == m * Packets
           y == n * d
           p == 2 * MaxTasks * Packets
           q == ActiveTokens * most
<1>19. status.packets = x + y /\ x <= p /\ y <= q /\ x \in Nat /\ y \in Nat /\ p \in Nat
       /\ q \in Nat
      BY <1>15, <1>16, <1>18
<1>20. LayerVectorPackets = q
      BY DEF LayerVectorPackets, most
<1> HIDE DEF x, y, p, q
<1>21. x + y <= p + q
      BY <1>19
<1>22. status.packets <= p + LayerVectorPackets
      BY <1>19, <1>20, <1>21
<1> QED BY <1>5, <1>9, <1>17, <1>22 DEF p

(* Every count but the wave count reaches the host as the controller put   *)
(* it in the packet: for every launch the fields of the compact word       *)
(* (vitis_stream_8x64.hpp:163-179) are wide enough.                        *)
THEOREM CountsReach == Spec => []CountsArrive
<1>1. IInv /\ RInv => CountsArrive
  <2> SUFFICES ASSUME IInv, RInv, phase \in {"accepted", "thrown"},
                      NEW f \in Fields \ {"waves"}
               PROVE  report[f] = status[f]
      BY DEF CountsArrive
  <2>1. report = Pack(status)
        BY DEF RInv, Reported
  <2>2. report[f] = status[f] % (2 ^ Width(f))
        BY <2>1 DEF Pack
  <2>3. request \in Requests
        BY Reached
  <2>4. /\ request.op \in Ops /\ request.tokens \in Nat /\ ActiveTokens \in Nat
        /\ StatusCode(request) \in {"OK", "BAD_TOKEN_COUNT", "BAD_POSITION"}
        BY <2>3, Checked, Constants
  <2>5. /\ OpNumber(request.op) \in {0, 16, 17, 18, 19, 20}
        /\ CodeNumber(StatusCode(request)) \in {0, 2, 4}
        BY <2>4 DEF Ops, OpNumber, CodeNumber
  <2>6. /\ FirstStatus(request).op \in {0, 16, 17, 18, 19, 20}
        /\ FirstStatus(request).code \in {0, 2, 4}
        BY <2>5 DEF FirstStatus
  <2>7. /\ status.op = FirstStatus(request).op /\ status.code = FirstStatus(request).code
        /\ status.last = 1 /\ status.tokens = request.tokens
        BY DEF IInv, Answer
  <2>8. /\ request.tokens < 128 /\ 2 * MaxTasks < 4096
        /\ 2 * MaxTasks * Packets + LayerVectorPackets < 131072
        BY <2>3, FieldAssumption
  <2>9. /\ status.mm \in Nat /\ status.mm <= 2 * MaxTasks
        /\ status.vec \in Nat /\ status.vec <= 10
        /\ status.packets \in Nat
        /\ status.packets <= 2 * MaxTasks * Packets + LayerVectorPackets
        BY CountsBounded
  <2>10. MaxTasks \in Nat /\ 2 * MaxTasks * Packets + LayerVectorPackets \in Nat
    <3>1. /\ MaxTasks \in Nat /\ Packets \in Nat /\ HiddenBlocks \in Nat
          /\ WideBlocks \in Nat /\ ActiveTokens \in Nat
          BY Constants
    <3>2. 2 * MaxTasks \in Nat /\ 4 * HiddenBlocks + WideBlocks \in Nat
          BY <3>1
    <3>3. 2 * MaxTasks * Packets \in Nat
          BY <3>1, <3>2, Products
    <3>4. LayerVectorPackets \in Nat
          BY <3>1, <3>2, Products DEF LayerVectorPackets
    <3> DEFINE p == 2 * MaxTasks * Packets
    <3> HIDE DEF p
    <3>5. p \in Nat
          BY <3>3 DEF p
    <3>6. p + LayerVectorPackets \in Nat
          BY <3>4, <3>5
    <3> QED BY <3>1, <3>6 DEF p
  <2> DEFINE m == 2 ^ Width(f)
             x == status[f]
  <2>11. m \in Nat /\ x \in Nat /\ x < m
    <3>1. CASE f = "op"
          BY <3>1, <2>6, <2>7, Widths
    <3>2. CASE f = "code"
          BY <3>2, <2>6, <2>7, Widths
    <3>3. CASE f = "last"
          BY <3>3, <2>7, Widths
    <3>4. CASE f = "tokens"
          BY <3>4, <2>4, <2>7, <2>8, Widths
    <3>5. CASE f = "mm"
          BY <3>5, <2>8, <2>9, <2>10, Widths
    <3>6. CASE f = "vec"
          BY <3>6, <2>9, Widths
    <3>7. CASE f = "packets"
      <4> DEFINE p == 2 * MaxTasks * Packets + LayerVectorPackets
      <4>1. x <= p /\ p < m /\ p \in Nat /\ x \in Nat /\ m \in Nat
            BY <3>7, <2>8, <2>9, <2>10, Widths
      <4> HIDE DEF p, m, x
      <4> QED BY <4>1
    <3> QED BY <3>1, <3>2, <3>3, <3>4, <3>5, <3>6, <3>7, Widths
  <2> HIDE DEF m, x
  <2>12. x % m = x
        BY <2>11, Kept
  <2> QED BY <2>2, <2>12 DEF m, x
<1> QED BY <1>1, Reports, PTL
=============================================================================
